SPECIFICATION Spec
CONSTANTS
    h1 = h1
    h2 = h2
    c1 = c1
    c2 = c2
    f1 = f1
    NoTransaction = NoTransaction
    NoSession = NoSession
    NoFile = NoFile
    NoSize = NoSize
    Unlocked = Unlocked
    Transactions = {}
    MaxSessions = 2
    MaxBlobs = 2
    Hosts = {h1}
    Calls = {c1, c2}
    HostFiles = {}
    quota_ = 2
    MaxChunk = 2
    Word = 8
    Chunks = {1}
    Declared = {1}
    MaxUpload = 3
    Residual = FALSE
    MaxCrashes = 0
    FsFails = FALSE
    CryptoFails = FALSE
    HostMoves = FALSE
    OrderedUse = FALSE
SYMMETRY Symmetry
PROPERTIES
    RefusalJustified
CHECK_DEADLOCK FALSE
