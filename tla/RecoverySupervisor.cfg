SPECIFICATION FairSpec
CONSTANTS
    OperationIds = {"o1", "o2"}
    Limit = 3
    MaxRetries = 1
    MayStop = TRUE
CHECK_DEADLOCK FALSE
INVARIANT CareIsExact
PROPERTY RecoveryIsDecided
