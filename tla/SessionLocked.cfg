SPECIFICATION Spec
CONSTANTS
    r1 = r1
    r2 = r2
    Runs <- TwoRuns
    Kinds <- OrchestratorOnly
    Targets = {}
    NumStages = 1
    MaxIterations = 1
    MaxCommands = 2
    MaxCancels = 0
    MaxFaults = 0
CHECK_DEADLOCK FALSE
INVARIANTS WorkingStaysActive
