CONSTANTS
    w1 = w1
    w2 = w2
    s1 = s1
    s2 = s2
    Wallets = {w1, w2}
    d1 = d1
    d2 = d2
    Dids = {d1}
    Owner <- Owners
    Sessions = {s1}
    Forwards = {f1}
    NoOne = NoOne
    Users <- NeverW1
    Buffer = 1
    MaxQueue = 1
    MaxPayloads = 2
    MaxIds = 2
SPECIFICATION Spec
INVARIANTS PushedWhenOffline
CHECK_DEADLOCK FALSE
