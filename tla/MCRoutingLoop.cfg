CONSTANTS
    mA = mA
    mB = mB
    w1 = w1
    w2 = w2
    Mediators = {mA, mB}
    Wallets = {w1, w2}
    NoOne = NoOne
    Documents <- SomeDocuments
    Requests <- SomeRequests
    MaxSent = 1
SPECIFICATION Spec
INVARIANTS NoLoop
CHECK_DEADLOCK FALSE
