SPECIFICATION RolesFairSpec
CONSTANTS
    NumStages = 6
    RoleCount <- AllStages
    Restarting <- StartsOver
    MaxRoleRuns = 3
    MayPlan = TRUE
    MaxFaults = 1
    CanSkip <- SkipSome
    HasAdapter = TRUE
    ReviewerMayReject = TRUE
    MergeMayThrow = TRUE
INVARIANTS
    RolesTypeOK MergesOnlyReviewed DeveloperOutputKept IssueRepeatedForCause
PROPERTIES
    ImplementsWorkflow RunEndsOrHangs ResumeCompletes
