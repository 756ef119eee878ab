SPECIFICATION Spec
CONSTANTS
    Commands = {command}
    Admins = {admin}
    Starts = {s1}
    StartFlags = {}
    Missing = Missing
    Unmanaged = Unmanaged
    None = None
    MaxFaults = 0
    MaxCrashes = 0
SYMMETRY Symmetry
CHECK_DEADLOCK FALSE
INVARIANT ClearedStaysCleared
