SPECIFICATION HungSpec
CONSTANTS
    Codes <- MCCodes
    HasEvent = TRUE
    HasReload = TRUE
    Faults = TRUE
    SlowThread = TRUE
    OtherThread = TRUE
    CallTime = 25000
    MaxHups = 1
    MaxEvents = 1
INVARIANT ExitReportsFirstFailure NotificationsFollowCallbacks
PROPERTY LifecycleSpec
