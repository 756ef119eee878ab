SPECIFICATION FairSpec
CONSTANTS
    Tools <- MCAllTools
    ToolType <- MCAllToolTypes
    Turns <- MCTurns
    MaxChunks = 4
    MaxEvents = 3
    Quirks = {}
INVARIANTS
    TypeOK
    ContentIsFaithful
    NativeCallHasMapping
    PhaseMatchesTurn
    CompletedIffFinished
    UsageIsMerged
PROPERTIES
    ImplementsProtocol
    FinishReachesClient
