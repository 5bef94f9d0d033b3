SPECIFICATION Spec
CONSTANTS
    t1 = t1
    t2 = t2
    g1 = g1
    g2 = g2
    NoTransaction = NoTransaction
    NoSession = NoSession
    MaxSessions = 3
    Transactions = {t1, t2}
    Gets = {g1, g2}
PROPERTY
    NoSessionMeansNone
CHECK_DEADLOCK FALSE
