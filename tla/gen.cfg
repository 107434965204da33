SPECIFICATION Spec
CONSTANTS
    Tokens = {"<", "o", "/", "a", "m", "u", "<o", "</"}
    Eos = eos
    Piece <- MCPiece
    StopSets <- MCStopSets
    Width <- MCWidth
    Pairs <- MCPairs
    NoPair = nopair
    Marker <- MCMarker
    Message <- MCMessage
    CloseTokens <- MCCloseTokens
    Budget = 1
    MaxTokens = 4
    Prompt <- MCPrompt
    NBatch = 2
    DraftN = 1
    DraftTokens = {"a", "/", eos}
    MaxStuck = 1
    NoState = nostate
    MaxGenerations = 2
INVARIANTS Faithful KvExact ForcedEnds
CHECK_DEADLOCK FALSE
