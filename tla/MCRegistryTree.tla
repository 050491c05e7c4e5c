--------------------------- MODULE MCRegistryTree ---------------------------
(* A robot, a host and a display in a row.  The robot owns pose, the        *)
(* display owns target, which the robot may not be compiled with.           *)
EXTENDS RegistryTree

CONSTANTS Robot, Host, Display, Pose, Target

MCLinks == {<<Robot, Host>>, <<Host, Robot>>, <<Host, Display>>, <<Display, Host>>}

MCDefault == [p \in Props |-> 0]

MCUplink == [p \in Props |->
    IF p = Pose
    THEN [n \in Nodes |-> IF n = Display THEN Host ELSE Robot]
    ELSE [n \in Nodes |-> IF n = Robot THEN Host ELSE Display]]

MCWriters == [p \in Props |-> IF p = Pose THEN {Robot} ELSE {Display}]

AllKnown == [n \in Nodes |-> Props]
RobotLacksTarget == [n \in Nodes |-> IF n = Robot THEN {Pose} ELSE Props]

TowardsSource == [p \in Props |-> {e \in MCLinks : e[2] = MCUplink[p][e[1]]}]
DisplayAsks == [p \in Props |-> IF p = Pose THEN {<<Display, Host>>} ELSE {}]

None == {}
RobotHost == {<<Robot, Host>>}
HostDisplay == {<<Host, Display>>}
DisplayHost == {<<Display, Host>>}
BothOfDisplay == {<<Host, Display>>, <<Display, Host>>}
=============================================================================
