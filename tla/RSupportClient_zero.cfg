SPECIFICATION Spec
CONSTANTS
    Values = {0, 1}
    Default = 0
    LastNumber = 2
    Capacity = 2
    MaxConnects = 2
    HostClears = TRUE
    HostCloses = TRUE
    OtherFiles = TRUE
    Orderly = FALSE
PROPERTY LinkedSends
CHECK_DEADLOCK FALSE
