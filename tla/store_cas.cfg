SPECIFICATION FairSpec
CONSTANTS
    s1 = s1
    s2 = s2
    s3 = s3
    Sessions = {s1, s2, s3}
    quota_ = 3
    MaxChunk = 2
    MaxHeld = 3
    Word = 8
INVARIANTS
    TypeOK
    AccountingExact
    QuotaRespected
PROPERTIES
    ReservesAtomically
    LockFree
