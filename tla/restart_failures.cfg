SPECIFICATION RefSpec
CONSTANTS
    h1 = h1
    h2 = h2
    c1 = c1
    c2 = c2
    f1 = f1
    NoTransaction = NoTransaction
    NoSession = NoSession
    NoFile = NoFile
    NoSize = NoSize
    Unlocked = Unlocked
    Transactions = {}
    MaxSessions = 1
    MaxBlobs = 2
    Hosts = {h1}
    Calls = {c1}
    HostFiles = {f1}
    quota_ = 2
    MaxChunk = 2
    Word = 8
    Chunks = {1, 2}
    Declared = {2}
    MaxUpload = 3
    Residual = TRUE
    MaxCrashes = 1
    FsFails = TRUE
    CryptoFails = TRUE
    HostMoves = FALSE
    OrderedUse = FALSE
SYMMETRY Symmetry
INVARIANTS
    CleanStart
    BytesCovered
    AcceptedIsWhole
PROPERTIES
    ShortOnlyByFailedUnlink
    ShortOnlyByFailedWrite
    ImplementsBlobLife
CHECK_DEADLOCK FALSE
