SPECIFICATION Spec
CONSTANTS
    Requests = {r1, r2}
    Tokens = {t0, t1, t2}
    LegacyTokens = {}
    Codes = {c1}
    Clients = {app}
    SessionClients = {app}
    NoToken = NoToken  NoCode = NoCode  NoClient = NoClient
    Grace = 1
    TokenTTL = 1
    CodeTTL = 1
    MaxClock = 1
    MaxCuts = 0
INVARIANTS LiveIsNewest CodeStartsOneFamily SessionNeverRegained
PROPERTIES ImplementsFamilies OnlyReplayEndsFamily
CHECK_DEADLOCK FALSE
SYMMETRY Symmetry
VIEW ViewWithoutAudit
CONSTRAINT NobodyBanned
