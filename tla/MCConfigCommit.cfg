SPECIFICATION Spec
CONSTANTS
    Commands = {command}
    Admins = {admin}
    Starts = {s1, s2}
    StartFlags = {"local", "no_local", "confirm"}
    Missing = Missing
    Unmanaged = Unmanaged
    None = None
    MaxFaults = 2
    MaxCrashes = 1
SYMMETRY Symmetry
CHECK_DEADLOCK FALSE
INVARIANT TypeOK
INVARIANT DoneSurvives
INVARIANT AllOrNothing
INVARIANT StartRepairs
