SPECIFICATION Spec
CONSTANTS
    NumStages = 6
    RoleCount <- AllStages
    Restarting <- Planning
    MaxRoleRuns = 3
    MayPlan = TRUE
    MaxFaults = 2
INVARIANTS
    TypeOK Resumable StagesInOrder ProgressAgrees CancelStops
PROPERTIES
    KeepsWork
