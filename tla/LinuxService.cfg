SPECIFICATION FairSpec
CONSTANTS
    Codes <- MCCodes
    HasEvent = TRUE
    HasReload = TRUE
    Faults = FALSE
    SlowThread = FALSE
    OtherThread = FALSE
    CallTime = 3700
    MaxHups = 2
    MaxEvents = 2
INVARIANT HandlerWritesOpenFd MonitorSeesDef WatchdogAnswered
PROPERTY ReloadApplied
