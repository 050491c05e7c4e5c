---------------------------- MODULE RegistryTree ----------------------------
(***************************************************************************)
(* Registries connected as a tree in which every property has a source:    *)
(* it is set at the root only and each other node has one connection that  *)
(* leads to the root, over which it requests the property if it does.      *)
(* This is how the clients and hosts of the library are put together: the  *)
(* host forwards between its clients, and a property belongs to the part   *)
(* that measures or commands it.                                           *)
(***************************************************************************)
EXTENDS RegistrySync, Sublists

CONSTANT Uplink  \* Uplink[p][n]: the node through which p reaches n

\* Adapter e faces the source of p.
Up(e, p) == e[2] = Uplink[p][e[1]]

\* Adapter e is the one through which p flows on to the node it faces.
Down(e, p) == Up(Rev(e), p)

ASSUME TreeAssumption ==
    /\ Uplink \in [Props -> [Nodes -> Nodes]]
    /\ \A p \in Props, e \in Links :
          /\ Up(e, p) # Down(e, p)
          /\ e[1] \in Writers[p] => ~Up(e, p)
          /\ e \in Askers[p] => Up(e, p)

\* The positions on connection e of updates of p, and of the messages that
\* change the subscription to p.
Updates(e, p) ==
    {i \in DOMAIN channel[e] : channel[e][i].kind = "UPDATE" /\ channel[e][i].prop = p}

Subscriptions(e, p) ==
    {i \in DOMAIN channel[e] : /\ channel[e][i].kind \in {"SUBSCRIBE", "UNSUBSCRIBE"}
                               /\ channel[e][i].prop = p}

Latest(i, positions) == \A j \in positions : j <= i

\* Once everything sent so far over e is handled, the node it faces has the
\* value of p that the sending node has now.
InSync(e, p) ==
    /\ Updates(e, p) = {} => value[e[2]][p] = value[e[1]][p]
    /\ \A i \in Updates(e, p) :
          Latest(i, Updates(e, p)) => channel[e][i].val = value[e[1]][p]

\* Adapters that always send: the peer was subscribed when they were built
\* and neither end ever turns a property off.
Pinned(e) ==
    /\ e \in SubscribedToAll
    /\ e \notin Manual
    /\ Rev(e) \notin Unsubscribers

Flows(e, p) == Down(e, p) /\ p \in Known[e[2]]

-----------------------------------------------------------------------------
(* Properties.                                                             *)

\* An update never travels towards the source of its property: an adapter
\* refuses the value that is just arriving on it (m_acceptProperty), and
\* every other adapter of the node leads away from the source.
NoUpstream ==
    \A e \in Links, p \in Props : Up(e, p) => Updates(e, p) = {}

\* A registry whose program owns a property never finds it changed by a
\* received message, however late or repeated the messages are.
OwnerUndisturbed ==
    [][\A p \in Props : \A n \in Writers[p] :
          value'[n][p] # value[n][p] => \E v \in Values : Set(n, p, v)]_vars

\* Along a connection that always sends, the copy is never further behind than
\* what is still under way: the forwarding in Registry::set, the equality
\* test in it and the refusing adapter lose no change.
Agreement ==
    \A e \in Links, p \in Props : Pinned(e) /\ Flows(e, p) => InSync(e, p)

\* Whatever the subscriptions do: while an adapter sends p, a copy that has
\* caught up stays caught up, and the step that ends the subscription does not
\* lose the change before it.
SyncPreserved ==
    [][\A e \in Links, p \in Props :
          Flows(e, p) /\ Open(e, p, accept) /\ InSync(e, p) => InSync(e, p)']_vars

\* A request handled while the adapter sends p brings any copy back into step,
\* also one that missed changes while it was unsubscribed.
RequestRefreshes ==
    [][\A e \in Links, p \in Props :
          /\ Flows(e, p)
          /\ Open(e, p, accept)
          /\ HandleRequest(e)
          /\ Head(channel[Rev(e)]).prop = p
          => InSync(e, p)']_vars

\* The documentation of rsupport_handle_request promises the requested value
\* in the local copy after the next service call (RSupport.hpp:226-227), on no
\* condition: whether or not the adapter that handles the request sends p.
RequestAnswered ==
    [][\A e \in Links, p \in Props :
          Flows(e, p) /\ HandleRequest(e) /\ Head(channel[Rev(e)]).prop = p
          => InSync(e, p)']_vars

\* What a node believes it is subscribed to (isSubscribedTo) is what its peer
\* sends it, once the subscription messages under way have been handled.
SubscriptionsAgree ==
    \A e \in Links, p \in Props :
       (Rev(e) \notin SubscribedToAll /\ Rev(e) \notin Manual /\ p \in Known[e[2]]) =>
          /\ Subscriptions(e, p) = {} => subscribed[Rev(e)][p] = subscribedTo[e][p]
          /\ \A i \in Subscriptions(e, p) :
                Latest(i, Subscriptions(e, p)) =>
                   (channel[e][i].kind = "SUBSCRIBE") = subscribedTo[e][p]

\* Each connection that always sends is a Mirror of each property that flows
\* over it: no value is skipped, invented or delivered out of order.
UnderWay(e, p) ==
    LET queue == Sublist(channel[e], Updates(e, p))
    IN  [k \in DOMAIN queue |-> queue[k].val]

Far(e, p) == INSTANCE Mirror WITH
                First <- Default[p], src <- value[e[1]][p],
                underway <- UnderWay(e, p), dst <- value[e[2]][p]

FarFlows == {f \in Links \X Props : Pinned(f[1]) /\ Flows(f[1], f[2])}

Mirrors ==
    /\ \A f \in FarFlows : Far(f[1], f[2])!Init
    /\ [][\A f \in FarFlows :
             Far(f[1], f[2])!Next \/ UNCHANGED Far(f[1], f[2])!vars]_vars

\* Transparent transfer: a value that the source keeps reaches every node of
\* the tree, over any number of nodes in between.
Propagation ==
    \A p \in Props : \A n \in Writers[p], m \in Nodes, v \in Values :
       p \in Known[m] => (value[n][p] = v) ~> (value[m][p] = v \/ value[n][p] # v)
=============================================================================
