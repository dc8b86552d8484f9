CONSTANTS
    Ids = {i1, i2}
    Workers = {w1, w2}
    Backoff <- ShortBackoff
    MaxPending = 2
    Lease = 3
    Batch = 2
    Timeout = 2
    MaxFailures = 1
    MaxForwards = 2
    m1 = m1
    m2 = m2
    h1 = h1
    c1 = c1
    c2 = c2
    NoOne = NoOne
    r1 = r1
    r2 = r2
    p1 = p1
    Anyone = Anyone
SPECIFICATION ProgressSpec
INVARIANTS GivenUpOnlyAtTheEnd OldestFirst
PROPERTIES SentInTurn NothingWaitsForever IdleGoesAway EverythingPickedUp
