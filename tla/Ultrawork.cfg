SPECIFICATION FairSpec
CONSTANTS
    Ids <- FourIds
    Inputs <- Given
INVARIANTS
    UltraworkTypeOK AnswerDetermined
PROPERTIES
    ImplementsTaskGraph UltraworkEnds
CHECK_DEADLOCK FALSE
