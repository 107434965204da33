SPECIFICATION Spec
CONSTANTS
    Models = {a, b, c}
    DefaultModel = a
    Reqs = {r1, r2, r3}
    Kinds = {"chat"}
    Warm = w
    Idle = idle
    NoEngine = none
    MaxLoaded = 2
    Parallel = 2
    IdleTimeout = 0
    MaxInputs = 2
    MaxIdleQueued = 1
    MaxDeaths = 0
INVARIANTS LruExact Capacity
PROPERTIES LruOrder
SYMMETRY Symmetry
CHECK_DEADLOCK FALSE
