SPECIFICATION Spec
CONSTANTS
    Revs = {"r1", "r2", "bad"}
    Servers <- MCServers
    NoFile = nofile
    MaxKills = 1
    Pullers = {p1, p2}
    Garbled = {"flipped", "cut"}
    Size <- MCSize
    Tags = {"q4", "q8"}
    Ggufs = {"long", "short", "nested"}
    Name <- MCName
    Snapshot <- MCSnapshot
    Config = "config"
    Limit = 3
    MaxPublished = 1
    MaxNow = 1
    MaxRewrites = 1
    Fetchers = {f1, f2}
    Header <- MCHeader
    Total <- MCTotal
    MaxHeader = 4
    Unknown = unknown
    Torn = torn
    MaxPulls = 2
    MaxFetches = 3
    Starts <- MCStarts
SYMMETRY Symmetry
INVARIANTS SkipSound NothingGarbled PullThenFind HeaderExact
CHECK_DEADLOCK FALSE
