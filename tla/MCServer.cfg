\* Two clients, two connections, two windows.
SPECIFICATION Spec
CONSTANTS
    c1 = c1
    c2 = c2
    Clients = {c1, c2}
    NoIp = NoIp
    Junk = Junk
    Headers <- MCHeaders
    Limit = 1
    Window = 2
    Delay = 1
    MemoryKeys = 1
    Conns = {n1, n2}
    MaxTime = 3
    MaxAsked = 3
INVARIANTS
    WithinBudget
    MetricsTruthful
PROPERTIES
    OnlyOverusersRefused
SYMMETRY Symmetry
CHECK_DEADLOCK FALSE
