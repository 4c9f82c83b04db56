SPECIFICATION FairSpec
CONSTANTS
    Faults = TRUE
    Timeouts = TRUE
    MaxOperations <- MCOperations
    MaxSessions = 1
INVARIANT CallbackBeforeOperation NoLeakedLock ArmedWhenIdle
PROPERTY OperationProceeds
