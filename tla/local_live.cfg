SPECIFICATION LocalSpec
CONSTANTS
    h1 = h1
    h2 = h2
    c1 = c1
    l1 = l1
    t1 = t1
    NoTransaction = NoTransaction
    NoSession = NoSession
    NoFile = NoFile
    NoSize = NoSize
    Unlocked = Unlocked
    Transactions = {t1}
    MaxSessions = 1
    MaxBlobs = 2
    Hosts = {h1, h2}
    Calls = {c1}
    Locals = {l1}
    LocalSizes = {1}
    HostFiles = {}
    quota_ = 1
    MaxChunk = 1
    Word = 4
    Chunks = {1}
    Declared = {}
    MaxUpload = 2
    Residual = TRUE
    MaxCrashes = 0
    FsFails = FALSE
    CryptoFails = FALSE
    HostMoves = TRUE
    OrderedUse = FALSE
INVARIANTS
    LocalTypeOK
    CopyIsComplete
    NeverUndercounted
PROPERTIES
    HostReturns
    HandlerReturns
    LocalReturns
CHECK_DEADLOCK FALSE
