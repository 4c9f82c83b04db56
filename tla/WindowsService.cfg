SPECIFICATION FairSpec
CONSTANTS
    Codes <- MCCodes
    HasEvent = TRUE
    HasReload = TRUE
    MaxControls = 3
INVARIANT StoppedReportsFailure
PROPERTY StopPendingIsFinal LifecycleSafe StopEndsService
