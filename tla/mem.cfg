SPECIFICATION FairSpec
CONSTANTS
    Actors = {a1, a2}
    a1 = a1
    a2 = a2
    Demands = {1, 2}
    MaxDemand = 2
    StartRss = 3
    FitCeiling = 5
    MaxGrowth = 3
    Floor = 1
    ModelFloor = 2
    IdleTimeout = 2
    Backends = {TRUE, FALSE}
    MaxRss = 6
    MaxGranted = 3
INVARIANTS WithinCeiling GrowthLedger OvershootBounded
PROPERTIES SilenceReachesIdle
