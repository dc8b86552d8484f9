\* The program's LEASE_SECS, BATCH and request timeout, in units of 15 s.
SPECIFICATION NoAnswerSpec
CONSTANTS
    Ids = {i1, i2, i3, i4, i5}
    Workers = {w1, w2}
    Backoff <- ProgramBackoff
    MaxPending = 5
    Lease = 4
    Batch = 16
    Timeout = 1
    MaxFailures = 0
    MaxForwards = 5
SYMMETRY Symmetry
INVARIANTS NoConcurrentSend
