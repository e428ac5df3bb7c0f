SPECIFICATION Spec
CONSTANTS
    Requests = {r1, r2}
    Confirmations = {1, 2}
    Rules = {1}
    Capabilities = {1, 2}
    NoConf = NoConf  NoCap = NoCap
    MaxPending = 1
    TTL = 1
    MaxClock = 1
INVARIANTS EachChangeOnce PausedLeavesNothing PendingBounded DeadlockOrigins
PROPERTIES SpentWhileActive
SYMMETRY Symmetry
VIEW View
CHECK_DEADLOCK FALSE
