SPECIFICATION PoolSpec
CONSTANTS
    r1 = r1  r2 = r2  p1 = p1  p2 = p2  k1 = k1  k2 = k2
    Calls = {r1, r2}
    Machines = {1, 2}
    Owners = {ada}
    NoOne = NoOne
    Pools = {p1, p2}
    Keys = {k1, k2}
    NoKey = NoKey
    MaxPairings = 2
INVARIANTS OnePool NoCircle OwnKeys RevokedIsEmpty
PROPERTIES KeysStand
SYMMETRY Symmetry
CONSTRAINT OneChanges NoneTorn
CHECK_DEADLOCK FALSE
