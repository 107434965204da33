SPECIFICATION FairSpec
CONSTANTS
    Daemons = {d1}
    Clients = {c1, c2}
    d1 = d1
    c1 = c1
    c2 = c2
    NoDaemon = NoDaemon
    Paths <- MCPaths
    Dirs = {"/dir"}
    SpelledId <- MCSpelledId
    Files <- MCFiles
    NoFile = nofile
    Places = {"here", "there"}
    Cwd <- MCCwd
    FileAt <- MCFileAt
    StemOf <- MCStemOf
    Given <- MCGiven
    NoPath = none
    MaxStarts = 3
    MaxCrashes = 2
INVARIANTS SocketTracksDaemon ServedAsAsked
PROPERTIES BindSucceeds RunEnds
CHECK_DEADLOCK FALSE
