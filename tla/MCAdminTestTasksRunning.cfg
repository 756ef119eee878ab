SPECIFICATION Spec
CONSTANTS
    MaxActive = 2
    MaxCount = 3
    MaxPayload = 3
    MaxCompletedBytes = 3
    MetaSize = 1
    Bodies = {1, 3}
    Overrun = FALSE
    MaxTasks = 3
INVARIANT
    AtMostMaxActiveRun
