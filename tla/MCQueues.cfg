CONSTANTS
    r1 = r1
    r2 = r2
    p1 = p1
    p2 = p2
    Recipients = {r1}
    Anyone = Anyone
    Wants = {Anyone}
    Sizes = {1, 2}
    Pickers = {p1, p2}
    Limits = {1, 2}
    MaxMessages = 2
    MaxBytes = 3
    TTL = 1
    Second = 2
    MaxLag = 1
    Forgets = TRUE
    MaxTime = 6
    MaxPuts = 3
    MaxRemovals = 1
SPECIFICATION QueuesSpec
INVARIANTS BytesInStep WithinLimits NoBodyLost OldestFirst
PROPERTIES KeepsPromise MemoryKeepsPromise
SYMMETRY PickerSymmetry
