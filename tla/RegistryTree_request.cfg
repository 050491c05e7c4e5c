SPECIFICATION Spec
CONSTANTS
    Robot = Robot
    Host = Host
    Display = Display
    Pose = Pose
    Target = Target
    Nodes = {Robot, Host, Display}
    Props = {Pose}
    Values = {0, 1, 2}
    MaxInFlight = 3
    Links <- MCLinks
    Default <- MCDefault
    Known <- AllKnown
    Writers <- MCWriters
    Askers <- DisplayAsks
    SubscribedToAll <- RobotHost
    Unsubscribers <- DisplayHost
    Subscribers <- DisplayHost
    Manual <- None
    Uplink <- MCUplink

PROPERTIES RequestAnswered
