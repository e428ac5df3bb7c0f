SPECIFICATION Spec
CONSTANTS
    r1 = r1  r2 = r2  c1 = c1  c2 = c2   train = train  data = data  app = app
    Requests = {r1, r2}
    Rows = {c1, c2}
    Purposes = {train, data}
    AppData = data
    Clients = {app}
    Own = own
    Expiry = 1
    Never = 9
    MaxClock = 1
INVARIANTS RecordProves OneChoice ServiceKnows
SYMMETRY Symmetry
CONSTRAINT NothingLost
CHECK_DEADLOCK FALSE
