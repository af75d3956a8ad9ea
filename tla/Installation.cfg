SPECIFICATION Spec
CONSTANTS
    p1 = p1
    p2 = p2
    Bad = Bad
    Processes <- TwoProcesses
    Texts <- Strings
    Initial <- Found
    Edits <- Changes
    MaxCalls = 2
    MaxEdits = 1
    MaxFaults = 1
SYMMETRY Symmetry
INVARIANTS
    InstallationTypeOK
    UserChoicesKept
    InstallSettles
CHECK_DEADLOCK FALSE
