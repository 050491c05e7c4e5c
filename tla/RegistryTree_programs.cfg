SPECIFICATION Spec
CONSTANTS
    Robot = Robot
    Host = Host
    Display = Display
    Pose = Pose
    Target = Target
    Nodes = {Robot, Host, Display}
    Props = {Pose}
    Values = {0, 1, 2}
    MaxInFlight = 2
    Links <- MCLinks
    Default <- MCDefault
    Known <- AllKnown
    Writers <- MCWriters
    Askers <- TowardsSource
    SubscribedToAll <- RobotHost
    Subscribers <- BothOfDisplay
    Unsubscribers <- BothOfDisplay
    Manual <- HostDisplay
    Uplink <- MCUplink
INVARIANTS TypeOK NoUpstream SubscriptionsAgree
PROPERTIES SyncPreserved RequestRefreshes
