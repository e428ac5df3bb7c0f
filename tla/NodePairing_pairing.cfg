SPECIFICATION Spec
CONSTANTS
    r1 = r1  r2 = r2  k1 = k1  k2 = k2  n1 = n1  n2 = n2
    Requests = {r1, r2}
    Codes = {k1, k2}
    Nodes = {n1, n2}
    MaxTries = 2
    CodeTTL = 1
    Grace = 1
    TokenTTL = 1
    NoId = NoId
    MaxClock = 1
    MaxGen = 2
INVARIANTS OneMachinePerCode WrongTriesCounted RevokedAnnounced
PROPERTIES RevokedStays
SYMMETRY Symmetry
CHECK_DEADLOCK FALSE
