SPECIFICATION GetSpec
CONSTANTS
    h1 = h1
    c1 = c1
    g1 = g1
    f1 = f1
    t1 = t1
    NoTransaction = NoTransaction
    NoSession = NoSession
    NoFile = NoFile
    NoSize = NoSize
    NoPath = NoPath
    Unlocked = Unlocked
    Transactions = {t1}
    MaxSessions = 1
    MaxBlobs = 2
    Hosts = {h1}
    Calls = {c1}
    Gets = {g1}
    HostFiles = {f1}
    quota_ = 2
    MaxChunk = 2
    Word = 8
    Chunks = {1}
    Declared = {1}
    MaxUpload = 2
    Residual = TRUE
    MaxCrashes = 0
    FsFails = FALSE
    ReadFails = FALSE
    CryptoFails = FALSE
    HostMoves = FALSE
    OrderedUse = FALSE
    chunk_size_ = 1
    dev_accept_mock_tag_ = FALSE
INVARIANTS
    SentAsAnnounced
CHECK_DEADLOCK FALSE
