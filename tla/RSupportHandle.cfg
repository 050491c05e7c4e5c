SPECIFICATION HandleFairSpec
CONSTANTS
    Values = {0, 1}
    Default = 0
    LastNumber = 2
    Capacity = 2
    MaxConnects = 2
    HostClears = TRUE
    HostCloses = TRUE
    OtherFiles = TRUE
    Orderly = TRUE
    Blocks = {1, 2, 3}
    MaxLines = 2
INVARIANTS TypeOK ForeignOnlyWhenGone ConsoleTypeOK OneBurst ForwardedIsSent
PROPERTIES LinkedSends BurstMeansItsFrame MovementForwarded
CHECK_DEADLOCK FALSE
