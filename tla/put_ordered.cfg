SPECIFICATION Spec
CONSTANTS
    h1 = h1
    h2 = h2
    c1 = c1
    c2 = c2
    f1 = f1
    NoTransaction = NoTransaction
    NoSession = NoSession
    NoFile = NoFile
    NoSize = NoSize
    Unlocked = Unlocked
    Transactions = {}
    MaxSessions = 2
    MaxBlobs = 2
    Hosts = {h1}
    Calls = {c1, c2}
    HostFiles = {f1}
    quota_ = 2
    MaxChunk = 2
    Word = 8
    Chunks = {1, 2}
    Declared = {1}
    MaxUpload = 3
    Residual = TRUE
    MaxCrashes = 1
    FsFails = FALSE
    CryptoFails = TRUE
    HostMoves = TRUE
    OrderedUse = TRUE
SYMMETRY Symmetry
INVARIANTS
    CountedExactly
    NothingOrphaned
    ExhaustedLeavesNothing
PROPERTIES
    RefusalJustified
    LostWithOneFile
CHECK_DEADLOCK FALSE
