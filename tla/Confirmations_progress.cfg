SPECIFICATION FairSpec
CONSTANTS
    Requests = {r1, r2}
    Confirmations = {1}
    Rules = {1}
    Capabilities = {1}
    NoConf = NoConf  NoCap = NoCap
    MaxPending = 1
    TTL = 1
    MaxClock = 1
PROPERTIES TransactionsEnd PendingEnds
CHECK_DEADLOCK FALSE
