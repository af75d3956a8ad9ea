SPECIFICATION FairSpec
CONSTANTS
    c1 = c1
    c2 = c2
    Callers <- TwoCallers
    Inputs <- SomeInputs
    MaxIterations = 2
    ContractRetries = 1
    MaxRetries = 1
CHECK_DEADLOCK FALSE
INVARIANTS
    PlanningTypeOK PlanByConsensus RecordsMatch
PROPERTIES
    CallsReturn
