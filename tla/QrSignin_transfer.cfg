SPECIFICATION Spec
CONSTANTS
    Requests = {r1, r2}
    Transfers = {x1, x2}
    Devices = {d1, d2}
    NoTransfer = NoTransfer  NoDevice = NoDevice
    TTL = 1
    Hour = 2
    MaxLive = 1
    MaxStarts = 1
    MaxAttempts = 2
    MaxClock = 2
INVARIANTS OneSession WrongCodesCounted StartsBounded
PROPERTIES DenialIsFinal
SYMMETRY Symmetry
CHECK_DEADLOCK FALSE
