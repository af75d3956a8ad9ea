SPECIFICATION FairSpec
CONSTANTS
    c1 = c1
    c2 = c2
    Callers <- TwoCallers
    MaxRetries = 1
    MaxCalls = 3
CHECK_DEADLOCK FALSE
INVARIANTS
    GithubTypeOK KeptResultTrue IssueRepeatedForCause RetryFindsPull
PROPERTIES
    ResultIsFinal CallsEnd
