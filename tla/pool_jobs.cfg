SPECIFICATION Spec
CONSTANTS
    Models = {a, b}
    DefaultModel = a
    Reqs = {r1, r2}
    Kinds = {"chat", "embed"}
    Warm = w
    Idle = idle
    NoEngine = none
    MaxLoaded = 1
    Parallel = 1
    IdleTimeout = 1
    MaxInputs = 2
    MaxIdleQueued = 1
    MaxDeaths = 1
SYMMETRY Symmetry
INVARIANTS JobsAccounted FreshContext
CHECK_DEADLOCK FALSE
