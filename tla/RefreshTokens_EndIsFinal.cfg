SPECIFICATION Spec
CONSTANTS
    Requests = {r1, r2}
    Tokens = {t0, t1, t2}
    LegacyTokens = {}
    Codes = {c1}
    Clients = {app}
    SessionClients = {}
    NoToken = NoToken  NoCode = NoCode  NoClient = NoClient
    Grace = 1
    TokenTTL = 2
    CodeTTL = 1
    MaxClock = 1
    MaxCuts = 1
INVARIANTS EndIsFinal
SYMMETRY Symmetry
CHECK_DEADLOCK FALSE
