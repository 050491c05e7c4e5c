SPECIFICATION CaptureFairSpec
CONSTANTS
    Trigger = 1
    Contents = {0, 1}
    Default = 0
    OpenMayFail = TRUE
    Spurious = TRUE
    MaxPushes = 4
    MaxSessions = 3
INVARIANTS TypeOK Conservation SleepsOnLittle CaptureCurrent
           TameNoCrash TameSavedWhenOff TameRightFile TameControlObeyed
PROPERTIES TameStopReturns
CHECK_DEADLOCK FALSE
