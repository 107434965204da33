SPECIFICATION FairSpec
CONSTANTS
    Models = {a, b}
    DefaultModel = a
    Reqs = {r1}
    Kinds = {"chat", "asr"}
    Warm = w
    Idle = idle
    NoEngine = none
    MaxLoaded = 1
    Parallel = 1
    IdleTimeout = 2
    MaxInputs = 1
    MaxIdleQueued = 1
    MaxDeaths = 1
PROPERTIES Answered IdleReached
CHECK_DEADLOCK FALSE
