SPECIFICATION Spec
CONSTANTS
    r1 = r1
    r2 = r2
    Runs <- OneRun
    Kinds <- OrchestratorOnly
    Targets <- OrchestratorOnly
    NumStages = 1
    MaxIterations = 1
    MaxCommands = 1
    MaxCancels = 1
    MaxFaults = 0
CHECK_DEADLOCK FALSE
PROPERTIES CancelTakesEffect
