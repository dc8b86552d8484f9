CONSTANTS
    Services = {1, 2}
    Wakes = {t1, t2}
    Pickups = {p1}
    MinInterval = 2
    Hold = 3
    Lag = 1
    MayFail = TRUE
    MaxTokens <- MCTokens
    MaxTime = 3
SYMMETRY PushSymmetry
SPECIFICATION Spec
INVARIANTS DeviceKept NeverLeftWaiting
PROPERTIES IntervalKept OnePerPickup
