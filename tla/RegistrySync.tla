---------------------------- MODULE RegistrySync ----------------------------
(***************************************************************************)
(* Registries that keep copies of the same properties in step over point   *)
(* to point connections.                                                   *)
(*                                                                         *)
(* A node is one Registry (RRegistry/Registry.hpp) with the adapters        *)
(* registered at it.  A connection between two nodes has one               *)
(* LiteCommAdapter (RComm/LiteCommAdapter.hpp) at each end: <<n, m>> is the *)
(* adapter of node n that faces node m, and channel[<<n, m>>] holds the     *)
(* messages it has sent and m has not handled yet.  Nodes run one thread:   *)
(* a call or a received message is handled to its end before the next one, *)
(* so each is one action.                                                  *)
(*                                                                         *)
(* The transport below the adapters is the one an application supplies in  *)
(* send(); here it neither loses nor reorders.  The dropper is the base    *)
(* policy, which drops nothing; the lossy transport is module LossyLink.   *)
(***************************************************************************)
EXTENDS Naturals, Sequences

CONSTANTS
    Nodes,           \* the registries
    Links,           \* the adapters, as pairs <<node, node it faces>>
    Props,           \* properties (an entry class together with its index)
    Values,          \* values of a property
    Default,         \* Default[p]: the value compiled in for p
    Known,           \* Known[n]: the properties compiled into node n
    Writers,         \* Writers[p]: nodes whose program sets p
    Askers,          \* Askers[p]: adapters over which p is requested
    SubscribedToAll, \* adapters constructed with subscribed = true
    Subscribers,     \* adapters whose program calls subscribe
    Unsubscribers,   \* adapters whose program calls unsubscribe
    Manual,          \* adapters whose program calls setSubscribed or
                     \* setAcceptProperty on its own adapter
    MaxInFlight      \* bound: no program calls anything that sends while
                     \* some connection holds so many messages

Rev(e) == <<e[2], e[1]>>

ASSUME TopologyAssumption ==
    /\ Links \subseteq Nodes \X Nodes
    /\ \A e \in Links : Rev(e) \in Links /\ e[1] # e[2]

ASSUME PropertiesAssumption ==
    /\ Default \in [Props -> Values]
    /\ Known \in [Nodes -> SUBSET Props]
    /\ Writers \in [Props -> SUBSET Nodes]
    /\ \A p \in Props, n \in Nodes : n \in Writers[p] => p \in Known[n]

ASSUME ProgramsAssumption ==
    /\ Askers \in [Props -> SUBSET Links]
    /\ SubscribedToAll \subseteq Links
    /\ Subscribers \subseteq Links
    /\ Unsubscribers \subseteq Links
    /\ Manual \subseteq Links
    /\ MaxInFlight \in Nat

VARIABLES
    value,        \* value[n][p]: the registry's array entry
    subscribed,   \* subscribed[e][p]: m_subscriptions, what the peer wants
    subscribedTo, \* subscribedTo[e][p]: m_subscriptionsRemote
    accept,       \* accept[e]: m_acceptProperty
    channel       \* channel[e]: messages sent by adapter e, oldest first

vars == <<value, subscribed, subscribedTo, accept, channel>>

Update(p, v) == [kind |-> "UPDATE", prop |-> p, val |-> v]
Control(k, p) == [kind |-> k, prop |-> p]

Messages == [kind : {"UPDATE"}, prop : Props, val : Values]
              \cup [kind : {"REQUEST", "SUBSCRIBE", "UNSUBSCRIBE"}, prop : Props]

TypeOK ==
    /\ value \in [Nodes -> [Props -> Values]]
    /\ subscribed \in [Links -> [Props -> BOOLEAN]]
    /\ subscribedTo \in [Links -> [Props -> BOOLEAN]]
    /\ accept \in [Links -> BOOLEAN]
    /\ channel \in [Links -> Seq(Messages)]

initDefaults == [n \in Nodes |-> Default]

InitSubscriptionMap(b) == [p \in Props |-> b]

Init ==
    /\ value = initDefaults
    /\ subscribed = [e \in Links |-> InitSubscriptionMap(e \in SubscribedToAll)]
    /\ subscribedTo = [e \in Links |-> InitSubscriptionMap(FALSE)]
    /\ accept = [e \in Links |-> TRUE]
    /\ channel = [e \in Links |-> <<>>]

-----------------------------------------------------------------------------
(* What an adapter and a registry do inside a handler.                     *)

\* LiteCommAdapter::set on adapter e sends p: the adapter is not the one the
\* value is just arriving on, and the peer has subscribed to p.
Open(e, p, acc) == acc[e] /\ subscribed[e][p]

\* Mutant: nothing is sent to a peer that has not taken the last message yet.
BroadcastWhenIdle(n, p, v, ch, acc) ==
    [e \in Links |-> IF e[1] = n /\ Open(e, p, acc) /\ ch[e] = <<>>
                     THEN Append(ch[e], Update(p, v))
                     ELSE ch[e]]

\* Registry::set offers the new value to every adapter of the node.
Broadcast(n, p, v, ch, acc) ==
    [e \in Links |-> IF e[1] = n /\ Open(e, p, acc)
                     THEN Append(ch[e], Update(p, v))
                     ELSE ch[e]]

\* Mutant: the adapters are served before the array is written and read it.
RegistrySetLate(n, p, v, ch, acc) ==
    \/ /\ value[n][p] = v
       /\ channel' = ch
       /\ UNCHANGED value
    \/ /\ value[n][p] # v
       /\ value' = [value EXCEPT ![n][p] = v]
       /\ channel' = Broadcast(n, p, value[n][p], ch, acc)

\* Registry::set at node n.  ch is what is on the connections and acc the
\* acceptance flags at the time of the call.
RegistrySet(n, p, v, ch, acc) ==
    \/ /\ value[n][p] = v
       /\ channel' = ch
       /\ UNCHANGED value
    \/ /\ value[n][p] # v
       /\ value' = [value EXCEPT ![n][p] = v]
       /\ channel' = Broadcast(n, p, v, ch, acc)

\* The connections once the oldest message of adapter e has been taken off.
Taken(e) == [channel EXCEPT ![e] = Tail(@)]

\* Adapter a has a message of kind k to handle, and knows its property.
Receives(a, k) ==
    /\ channel[Rev(a)] # <<>>
    /\ Head(channel[Rev(a)]).kind = k
    /\ Head(channel[Rev(a)]).prop \in Known[a[1]]

Room == \A e \in Links : Len(channel[e]) < MaxInFlight

-----------------------------------------------------------------------------
(* Calls of the programs.                                                  *)

\* Registry::set called by the program (setting the present value is an early
\* return that changes nothing, hence no step).
Set(n, p, v) ==
    /\ n \in Writers[p]
    /\ v # value[n][p]
    /\ Room
    /\ RegistrySet(n, p, v, channel, accept)
    /\ UNCHANGED <<subscribed, subscribedTo, accept>>

SendControl(e, k, p) ==
    /\ p \in Known[e[1]]
    /\ Room
    /\ channel' = [channel EXCEPT ![e] = Append(@, Control(k, p))]
    /\ UNCHANGED <<value, subscribed, accept>>

Subscribe(e, p) ==
    /\ e \in Subscribers
    /\ SendControl(e, "SUBSCRIBE", p)
    /\ subscribedTo' = [subscribedTo EXCEPT ![e][p] = TRUE]

\* Mutant: the node goes on believing that it is subscribed.
UnsubscribeForgetting(e, p) ==
    /\ e \in Unsubscribers
    /\ SendControl(e, "UNSUBSCRIBE", p)
    /\ UNCHANGED subscribedTo

Unsubscribe(e, p) ==
    /\ e \in Unsubscribers
    /\ SendControl(e, "UNSUBSCRIBE", p)
    /\ subscribedTo' = [subscribedTo EXCEPT ![e][p] = FALSE]

Request(e, p) ==
    /\ e \in Askers[p]
    /\ SendControl(e, "REQUEST", p)
    /\ UNCHANGED subscribedTo

\* setSubscribed: the program changes on its own side what the peer is sent.
SetSubscribed(e, p, b) ==
    /\ e \in Manual
    /\ p \in Known[e[1]]
    /\ subscribed[e][p] # b
    /\ subscribed' = [subscribed EXCEPT ![e][p] = b]
    /\ UNCHANGED <<value, subscribedTo, accept, channel>>

SetAcceptProperty(e, b) ==
    /\ e \in Manual
    /\ accept[e] # b
    /\ accept' = [accept EXCEPT ![e] = b]
    /\ UNCHANGED <<value, subscribed, subscribedTo, channel>>

-----------------------------------------------------------------------------
(* The handler of a received message, run by adapter a of node a[1].       *)

\* Mutant: the adapter does not refuse the value that arrives on it.
HandleUpdateEchoing(a) ==
    LET msg == Head(channel[Rev(a)]) IN
    /\ Receives(a, "UPDATE")
    /\ RegistrySet(a[1], msg.prop, msg.val, Taken(Rev(a)), accept)
    /\ accept' = [accept EXCEPT ![a] = TRUE]
    /\ UNCHANGED <<subscribed, subscribedTo>>

\* Mutant: the adapter never accepts again.
HandleUpdateStuck(a) ==
    LET msg == Head(channel[Rev(a)]) IN
    /\ Receives(a, "UPDATE")
    /\ RegistrySet(a[1], msg.prop, msg.val, Taken(Rev(a)),
                   [accept EXCEPT ![a] = FALSE])
    /\ accept' = [accept EXCEPT ![a] = FALSE]
    /\ UNCHANGED <<subscribed, subscribedTo>>

\* Mutant: m_acceptProperty is shared by all adapters, so nothing is forwarded.
HandleUpdateShared(a) ==
    LET msg == Head(channel[Rev(a)]) IN
    /\ Receives(a, "UPDATE")
    /\ RegistrySet(a[1], msg.prop, msg.val, Taken(Rev(a)), [e \in Links |-> FALSE])
    /\ accept' = [e \in Links |-> TRUE]
    /\ UNCHANGED <<subscribed, subscribedTo>>

\* While the registry spreads the value the adapter refuses it, so that it is
\* not sent back; afterwards the adapter accepts again, whatever
\* setAcceptProperty said before.
HandleUpdate(a) ==
    LET msg == Head(channel[Rev(a)]) IN
    /\ Receives(a, "UPDATE")
    /\ RegistrySet(a[1], msg.prop, msg.val, Taken(Rev(a)),
                   [accept EXCEPT ![a] = FALSE])
    /\ accept' = [accept EXCEPT ![a] = TRUE]
    /\ UNCHANGED <<subscribed, subscribedTo>>

\* Mutant: the answer goes through the control message, which has no value.
setBackBare(a, p, ch) ==
    IF Open(a, p, accept)
    THEN [ch EXCEPT ![a] = Append(@, Control("UPDATE", p))]
    ELSE ch

\* An ordinary set on this adapter, so an unsubscribed or refusing adapter does
\* not answer.
setBack(a, p, ch) ==
    IF Open(a, p, accept)
    THEN [ch EXCEPT ![a] = Append(@, Update(p, value[a[1]][p]))]
    ELSE ch

\* Mutant: the answer goes through Registry::set, which discards the value that
\* the registry already has.
HandleRequestDiscarded(a) ==
    LET p == Head(channel[Rev(a)]).prop IN
    /\ Receives(a, "REQUEST")
    /\ RegistrySet(a[1], p, value[a[1]][p], Taken(Rev(a)), accept)
    /\ UNCHANGED <<subscribed, subscribedTo, accept>>

HandleRequest(a) ==
    /\ Receives(a, "REQUEST")
    /\ channel' = setBack(a, Head(channel[Rev(a)]).prop, Taken(Rev(a)))
    /\ UNCHANGED <<value, subscribed, subscribedTo, accept>>

HandleSubscribe(a) ==
    /\ Receives(a, "SUBSCRIBE")
    /\ subscribed' = [subscribed EXCEPT ![a][Head(channel[Rev(a)]).prop] = TRUE]
    /\ channel' = Taken(Rev(a))
    /\ UNCHANGED <<value, subscribedTo, accept>>

HandleUnsubscribe(a) ==
    /\ Receives(a, "UNSUBSCRIBE")
    /\ subscribed' = [subscribed EXCEPT ![a][Head(channel[Rev(a)]).prop] = FALSE]
    /\ channel' = Taken(Rev(a))
    /\ UNCHANGED <<value, subscribedTo, accept>>

\* The bounds check: a property this node was not compiled with is ignored.
HandleUnknown(a) ==
    /\ channel[Rev(a)] # <<>>
    /\ Head(channel[Rev(a)]).prop \notin Known[a[1]]
    /\ channel' = Taken(Rev(a))
    /\ UNCHANGED <<value, subscribed, subscribedTo, accept>>

Handle(a) ==
    \/ HandleUpdate(a)
    \/ HandleRequest(a)
    \/ HandleSubscribe(a)
    \/ HandleUnsubscribe(a)
    \/ HandleUnknown(a)

Next ==
    \/ \E n \in Nodes, p \in Props, v \in Values : Set(n, p, v)
    \/ \E e \in Links, p \in Props : Subscribe(e, p)
    \/ \E e \in Links, p \in Props : Unsubscribe(e, p)
    \/ \E e \in Links, p \in Props : Request(e, p)
    \/ \E e \in Links, p \in Props, b \in BOOLEAN : SetSubscribed(e, p, b)
    \/ \E e \in Links, b \in BOOLEAN : SetAcceptProperty(e, b)
    \/ \E a \in Links : Handle(a)

Spec == Init /\ [][Next]_vars

\* Every node keeps reading its connections: the receive loop of an adapter
\* runs as long as the program does.
FairSpec == Spec /\ \A a \in Links : WF_vars(Handle(a))
=============================================================================
