SPECIFICATION MCSpec
CONSTANTS
    None = none
    Error = error
    Failed = failed
    Numeral <- MCNumeral
    DefaultGrowth = 150
    Margin = 5
    Ubatch = 1
    TokensPerFrame = 1
    HasMistral = TRUE
    HasRpc = TRUE
    Devices = 2
    Flags <- MCFlags
    RunKind <- MCRunKind
    Header <- MCHeader
    Paths = {"p", "q", "s", "x"}
    KindOf <- MCKindOf
    ChatCtx = 44
    ToolRounds = 1
    Tokens = 3
    Chars = 8
    Replies <- MCReplies
    Lines <- MCLines
    MaxInputs = 3
    ChatFlags = {}
    Invocations = {}
    Worlds <- MCWorlds
    Catalogs <- ShardCatalogs
    Tasks = {}
    Agents <- MCAgents
    Processes = {"p", "q"}
    ProcessOf <- MCProcessOf
    Free = "free"
    MaxKills = 2
    Uses = {none, "chat", "vision"}
    Kvs = {"f16", "q8_0"}
    Usable = 150
    Top = 2
INVARIANT ShardsCounted
CHECK_DEADLOCK FALSE
