SPECIFICATION Spec
CONSTANTS
    Requests = {r1, r2}
    Tokens = {t0, t1}
    LegacyTokens = {t0}
    Codes = {}
    Clients = {app, web}
    SessionClients = {}
    NoToken = NoToken  NoCode = NoCode  NoClient = NoClient
    Grace = 1
    TokenTTL = 1
    CodeTTL = 1
    MaxClock = 1
    MaxCuts = 1
PROPERTIES ImplementsFamilies CutOffStaysCutOff
SYMMETRY RequestSymmetry
VIEW ViewWithoutAudit
CHECK_DEADLOCK FALSE
