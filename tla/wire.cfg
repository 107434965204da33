SPECIFICATION Spec
CONSTANTS
    None = none
    ToolSets = {{}, {"search", "fetch"}}
    Shapes <- MCShapes
    CallShapes <- MCCallShapes
    Responses <- MCResponses
    MaxRounds = 1
    MaxRetries = 3
INVARIANTS SameConversation EveryCallAnswered StreamAgrees
PROPERTIES LoopEnds
CHECK_DEADLOCK FALSE
