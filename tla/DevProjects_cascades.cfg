SPECIFICATION Spec
CONSTANTS
    r1 = r1  r2 = r2  ada = ada  ben = ben  a1 = a1  c1 = c1  g1 = g1  g2 = g2
    Requests = {r1, r2}
    People = {ada, ben}
    Founder = ada
    Apps = {a1}
    SandboxApps = {a1}
    Service = svc1
    Agents = {g1}
    Caps = {c1}
    SandboxAllowance = {}
    NoOne = NoOne
INVARIANTS NoOrphanAgents DelegatedWithinAllowance DelegatedOfService
PROPERTIES EndsAreFinal
SYMMETRY Symmetry
CHECK_DEADLOCK FALSE
