SPECIFICATION Spec
CONSTANTS
    Tools <- MCTools
    ToolType <- MCToolType
    Turns <- MCTurn
    MaxChunks = 3
    MaxEvents = 4
    Quirks = {"usage_early"}
INVARIANT
    UsageIsMerged
