SPECIFICATION Spec
CONSTANTS
    r1 = r1  r2 = r2  s1 = s1  s2 = s2  s3 = s3  k1 = k1  d1 = d1
    Requests = {r1, r2}
    Creds = {s1, s2, s3}
    First = s1
    Keys = {k1}
    Codes = {d1}
    Overlaps = {0, 1}
    CodeTTL = 1
    MaxGen = 2
    MaxVersion = 2
    MaxClock = 1
    Never = 9
    NoOne = NoOne
INVARIANTS NothingForTheEnded NeverLockedOut
PROPERTIES VersionsAdvance
SYMMETRY Symmetry
CONSTRAINT TwoParts
CHECK_DEADLOCK FALSE
