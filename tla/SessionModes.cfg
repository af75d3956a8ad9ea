SPECIFICATION Spec
CONSTANTS
    r1 = r1
    r2 = r2
    Runs <- TwoRuns
    Kinds <- ManyKinds
    Targets <- AllButUltrawork
    NumStages = 2
    MaxIterations = 2
    MaxCommands = 2
    MaxCancels = 1
    MaxFaults = 2
SYMMETRY AlikeRuns
INVARIANTS
    ModesTypeOK QuietMeansInactive RalphCompletesOverDoneUltrawork CompleteMeansCompleted
CHECK_DEADLOCK FALSE
