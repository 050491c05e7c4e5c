SPECIFICATION FairSpec
CONSTANTS
    Trigger = 1
    Contents = {0}
    OpenMayFail = FALSE
    Spurious = FALSE
    MaxPushes = 2
    MaxSessions = 1
PROPERTIES StopReturns
CHECK_DEADLOCK FALSE
