SPECIFICATION Spec
CONSTANTS
    s1 = s1
    s2 = s2
    s3 = s3
    Sessions = {s1, s2}
    quota_ = 0
    MaxChunk = 2
    MaxHeld = 3
    Word = 4
PROPERTY
    ReservesAtomically
