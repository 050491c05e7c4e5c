SPECIFICATION FairSpec
CONSTANTS
    Robot = Robot
    Host = Host
    Display = Display
    Pose = Pose
    Target = Target
    Nodes = {Robot, Host, Display}
    Props = {Pose, Target}
    Values = {0, 1, 2}
    MaxInFlight = 2
    Links <- MCLinks
    Default <- MCDefault
    Known <- RobotLacksTarget
    Writers <- MCWriters
    Askers <- DisplayAsks
    SubscribedToAll <- MCLinks
    Subscribers <- None
    Unsubscribers <- None
    Manual <- None
    Uplink <- MCUplink
INVARIANTS Agreement
PROPERTIES OwnerUndisturbed Mirrors Propagation
