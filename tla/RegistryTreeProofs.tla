------------------------- MODULE RegistryTreeProofs -------------------------
(***************************************************************************)
(* Proofs about RegistryTree, for every tree, every set of properties and  *)
(* values and every choice of what the programs do.                        *)
(***************************************************************************)
EXTENDS RegistryTree, SublistsProofs

\* What is known of the message an adapter is about to handle.
LEMMA HeadMessage ==
    ASSUME TypeOK, NEW e \in Links, channel[e] # <<>>
    PROVE  /\ Head(channel[e]) \in Messages
           /\ Head(channel[e]).prop \in Props
           /\ Head(channel[e]).kind = "UPDATE" => Head(channel[e]).val \in Values
           /\ Tail(channel[e]) \in Seq(Messages)
           /\ Taken(e) \in [Links -> Seq(Messages)]
<1>1. channel[e] \in Seq(Messages)
  BY DEF TypeOK
<1>2. Head(channel[e]) \in Messages /\ Tail(channel[e]) \in Seq(Messages)
  BY <1>1
<1>3. Taken(e) \in [Links -> Seq(Messages)]
  BY <1>2 DEF TypeOK, Taken
<1> QED
  BY <1>2, <1>3 DEF Messages

LEMMA MessageTypes ==
    ASSUME NEW p \in Props
    PROVE  /\ \A v \in Values : Update(p, v) \in Messages
           /\ \A k \in {"REQUEST", "SUBSCRIBE", "UNSUBSCRIBE"} : Control(k, p) \in Messages
  BY DEF Update, Control, Messages

LEMMA RevLink == \A e \in Links : Rev(e) \in Links /\ Rev(Rev(e)) = e /\ e \in Nodes \X Nodes
<1> SUFFICES ASSUME NEW e \in Links
             PROVE  Rev(e) \in Links /\ Rev(Rev(e)) = e /\ e \in Nodes \X Nodes
  OBVIOUS
<1>1. e \in Nodes \X Nodes /\ Rev(e) \in Links
  BY TopologyAssumption
<1>2. Rev(Rev(e)) = e
  BY <1>1 DEF Rev
<1> QED
  BY <1>1, <1>2

\* Registry::set keeps the types.
LEMMA RegistrySetTypes ==
    ASSUME TypeOK, NEW n \in Nodes, NEW p \in Props, NEW v \in Values,
           NEW ch \in [Links -> Seq(Messages)], NEW acc, RegistrySet(n, p, v, ch, acc)
    PROVE  /\ value' \in [Nodes -> [Props -> Values]]
           /\ channel' \in [Links -> Seq(Messages)]
<1>1. CASE value[n][p] = v /\ channel' = ch /\ UNCHANGED value
  BY <1>1 DEF TypeOK
<1>2. CASE /\ value' = [value EXCEPT ![n][p] = v]
           /\ channel' = Broadcast(n, p, v, ch, acc)
  <2>1. value' \in [Nodes -> [Props -> Values]]
    BY <1>2 DEF TypeOK
  <2>2. \A e \in Links : Append(ch[e], Update(p, v)) \in Seq(Messages)
    BY MessageTypes
  <2> QED
    BY <1>2, <2>1, <2>2 DEF Broadcast
<1> QED
  BY <1>1, <1>2 DEF RegistrySet

LEMMA SendControlTypes ==
    ASSUME TypeOK, NEW e \in Links, NEW p \in Props,
           NEW k \in {"REQUEST", "SUBSCRIBE", "UNSUBSCRIBE"}, SendControl(e, k, p)
    PROVE  /\ channel' \in [Links -> Seq(Messages)]
           /\ UNCHANGED <<value, subscribed, accept>>
<1>1. Append(channel[e], Control(k, p)) \in Seq(Messages)
  BY MessageTypes DEF TypeOK
<1> QED
  BY <1>1 DEF SendControl, TypeOK

LEMMA TypeStep == TypeOK /\ [Next]_vars => TypeOK'
<1> SUFFICES ASSUME TypeOK, [Next]_vars PROVE TypeOK'
  OBVIOUS
<1> USE RevLink
<1>1. ASSUME NEW n \in Nodes, NEW p \in Props, NEW v \in Values, Set(n, p, v)
      PROVE  TypeOK'
  <2>1. RegistrySet(n, p, v, channel, accept) /\ channel \in [Links -> Seq(Messages)]
    BY <1>1 DEF Set, TypeOK
  <2> QED
    BY <1>1, <2>1, RegistrySetTypes DEF Set, TypeOK
<1>2. ASSUME NEW e \in Links, NEW p \in Props, Subscribe(e, p)
      PROVE  TypeOK'
  BY <1>2, SendControlTypes DEF Subscribe, TypeOK
<1>3. ASSUME NEW e \in Links, NEW p \in Props, Unsubscribe(e, p)
      PROVE  TypeOK'
  BY <1>3, SendControlTypes DEF Unsubscribe, TypeOK
<1>4. ASSUME NEW e \in Links, NEW p \in Props, Request(e, p)
      PROVE  TypeOK'
  BY <1>4, SendControlTypes DEF Request, TypeOK
<1>5. ASSUME NEW e \in Links, NEW p \in Props, NEW b \in BOOLEAN, SetSubscribed(e, p, b)
      PROVE  TypeOK'
  BY <1>5 DEF SetSubscribed, TypeOK
<1>6. ASSUME NEW e \in Links, NEW b \in BOOLEAN, SetAcceptProperty(e, b)
      PROVE  TypeOK'
  BY <1>6 DEF SetAcceptProperty, TypeOK
<1>7. ASSUME NEW a \in Links, HandleUpdate(a)
      PROVE  TypeOK'
  <2> DEFINE msg == Head(channel[Rev(a)])
  <2>1. /\ channel[Rev(a)] # <<>>
        /\ msg.kind = "UPDATE"
        /\ RegistrySet(a[1], msg.prop, msg.val, Taken(Rev(a)), [accept EXCEPT ![a] = FALSE])
        /\ accept' = [accept EXCEPT ![a] = TRUE]
        /\ UNCHANGED <<subscribed, subscribedTo>>
    BY <1>7 DEF HandleUpdate, Receives
  <2>2. a[1] \in Nodes /\ msg.prop \in Props /\ msg.val \in Values
    BY <2>1, HeadMessage
  <2>3. Taken(Rev(a)) \in [Links -> Seq(Messages)]
    BY <2>1, HeadMessage
  <2>4. /\ value' \in [Nodes -> [Props -> Values]]
        /\ channel' \in [Links -> Seq(Messages)]
    BY <2>1, <2>2, <2>3, RegistrySetTypes
  <2> QED
    BY <2>1, <2>4 DEF TypeOK
<1>8. ASSUME NEW a \in Links, HandleRequest(a)
      PROVE  TypeOK'
  <2> DEFINE p == Head(channel[Rev(a)]).prop
  <2>1. channel[Rev(a)] # <<>>
    BY <1>8 DEF HandleRequest, setBack, Receives
  <2>2. p \in Props /\ Taken(Rev(a)) \in [Links -> Seq(Messages)] /\ a[1] \in Nodes
    BY <2>1, HeadMessage
  <2>3. Update(p, value[a[1]][p]) \in Messages
    BY <2>2, MessageTypes DEF TypeOK
  <2>4. Append(Taken(Rev(a))[a], Update(p, value[a[1]][p])) \in Seq(Messages)
    BY <2>2, <2>3
  <2> QED
    BY <1>8, <2>2, <2>4 DEF HandleRequest, setBack, TypeOK
<1>9. ASSUME NEW a \in Links, HandleSubscribe(a)
      PROVE  TypeOK'
  BY <1>9, HeadMessage DEF HandleSubscribe, Receives, TypeOK
<1>10. ASSUME NEW a \in Links, HandleUnsubscribe(a)
       PROVE  TypeOK'
  BY <1>10, HeadMessage DEF HandleUnsubscribe, Receives, TypeOK
<1>11. ASSUME NEW a \in Links, HandleUnknown(a)
       PROVE  TypeOK'
  BY <1>11, HeadMessage DEF HandleUnknown, TypeOK
<1>12. CASE UNCHANGED vars
  BY <1>12 DEF TypeOK, vars
<1> QED
  BY <1>1, <1>2, <1>3, <1>4, <1>5, <1>6, <1>7, <1>8, <1>9, <1>10, <1>11, <1>12
  DEF Next, Handle

\* The state has the declared types: every channel holds well formed messages
\* of known kinds only, also after a handler has forwarded or answered.
THEOREM TypeCorrect == Spec => []TypeOK
<1>1. Init => TypeOK
  BY PropertiesAssumption DEF Init, initDefaults, InitSubscriptionMap, TypeOK
<1> QED
  BY <1>1, TypeStep, PTL DEF Spec
-----------------------------------------------------------------------------
(* Which way messages travel.                                              *)

Holds(s, m) == \E i \in DOMAIN s : s[i] = m

\* The inductive part behind NoUpstream: an update sent towards the source
\* could only answer a request, and requests themselves only climb.
Direction ==
    \A e \in Links : \A m \in Messages :
       Holds(channel[e], m) =>
          /\ m.kind = "UPDATE" => ~Up(e, m.prop)
          /\ m.kind = "REQUEST" => Up(e, m.prop)

LEMMA Contents ==
    ASSUME NEW s \in Seq(Messages), NEW m \in Messages, NEW x
    PROVE  /\ Holds(Append(s, m), x) => Holds(s, x) \/ x = m
           /\ s # <<>> /\ Holds(Tail(s), x) => Holds(s, x)
           /\ s # <<>> => Holds(s, Head(s))
<1>1. Holds(Append(s, m), x) => Holds(s, x) \/ x = m
  BY DEF Holds
<1>2. s # <<>> /\ Holds(Tail(s), x) => Holds(s, x)
  <2> SUFFICES ASSUME s # <<>>, NEW i \in DOMAIN Tail(s), Tail(s)[i] = x
               PROVE  Holds(s, x)
    BY DEF Holds
  <2>1. i + 1 \in DOMAIN s /\ s[i + 1] = x
    OBVIOUS
  <2> QED
    BY <2>1 DEF Holds
<1>3. s # <<>> => Holds(s, Head(s))
  <2> SUFFICES ASSUME s # <<>> PROVE \E i \in DOMAIN s : s[i] = Head(s)
    BY DEF Holds
  <2>1. 1 \in DOMAIN s /\ s[1] = Head(s)
    OBVIOUS
  <2> QED
    BY <2>1
<1> QED
  BY <1>1, <1>2, <1>3

\* Taking a message off adds nothing to any connection.
LEMMA TakenContents ==
    ASSUME TypeOK, NEW e \in Links, channel[e] # <<>>, NEW f \in Links, NEW x,
           Holds(Taken(e)[f], x)
    PROVE  Holds(channel[f], x)
<1>1. channel[f] \in Seq(Messages) /\ Head(channel[e]) \in Messages
  BY HeadMessage DEF TypeOK
<1>2. CASE f = e
  <2>1. Taken(e)[f] = Tail(channel[f])
    BY <1>2 DEF Taken, TypeOK
  <2> QED
    BY <1>1, <1>2, <2>1, Contents
<1>3. CASE f # e
  BY <1>3 DEF Taken, TypeOK
<1> QED
  BY <1>2, <1>3

\* Registry::set at n puts an update of p on open adapters of n only.
LEMMA RegistrySetContents ==
    ASSUME TypeOK, NEW n \in Nodes, NEW p \in Props, NEW v \in Values,
           NEW ch \in [Links -> Seq(Messages)], NEW acc, RegistrySet(n, p, v, ch, acc),
           NEW e \in Links, NEW x, Holds(channel'[e], x)
    PROVE  Holds(ch[e], x) \/ (x = Update(p, v) /\ e[1] = n /\ Open(e, p, acc))
<1>1. CASE channel'[e] = ch[e]
  BY <1>1
<1>2. CASE channel'[e] = Append(ch[e], Update(p, v)) /\ e[1] = n /\ Open(e, p, acc)
  BY <1>2, Contents, MessageTypes
<1> QED
  BY <1>1, <1>2 DEF RegistrySet, Broadcast

LEMMA SendControlContents ==
    ASSUME TypeOK, NEW f \in Links, NEW p \in Props,
           NEW k \in {"REQUEST", "SUBSCRIBE", "UNSUBSCRIBE"}, SendControl(f, k, p),
           NEW e \in Links, NEW x, Holds(channel'[e], x)
    PROVE  Holds(channel[e], x) \/ (x = Control(k, p) /\ e = f)
<1>1. channel[e] \in Seq(Messages) /\ Control(k, p) \in Messages
  BY MessageTypes DEF TypeOK
<1>2. CASE e = f
  <2>1. channel'[e] = Append(channel[e], Control(k, p))
    BY <1>2 DEF SendControl, TypeOK
  <2> QED
    BY <1>1, <1>2, <2>1, Contents
<1>3. CASE e # f
  BY <1>3 DEF SendControl, TypeOK
<1> QED
  BY <1>2, <1>3

\* The opposite ends of a connection: exactly one of them faces the source.
LEMMA UpOrDown ==
    ASSUME NEW e \in Links, NEW p \in Props
    PROVE  Up(Rev(e), p) <=> ~Up(e, p)
  BY TreeAssumption DEF Down, Up

\* Direction holds at first, and a step keeps it: a writer has no adapter that
\* faces the source, a forwarding node refuses the only one it has, and who
\* is asked for a property is nearer to its source than who asks.
LEMMA DirectionStep == TypeOK /\ Direction /\ [Next]_vars => Direction'
<1> SUFFICES ASSUME TypeOK, Direction, [Next]_vars,
                    NEW e \in Links, NEW m \in Messages, Holds(channel'[e], m)
             PROVE  /\ m.kind = "UPDATE" => ~Up(e, m.prop)
                    /\ m.kind = "REQUEST" => Up(e, m.prop)
  BY DEF Direction, Up
<1> DEFINE Goal == /\ m.kind = "UPDATE" => ~Up(e, m.prop)
                   /\ m.kind = "REQUEST" => Up(e, m.prop)
<1>a. Holds(channel[e], m) => Goal
  BY DEF Direction
<1> USE RevLink
<1>1. ASSUME NEW n \in Nodes, NEW p \in Props, NEW v \in Values, Set(n, p, v)
      PROVE  Goal
  <2>1. RegistrySet(n, p, v, channel, accept)
    BY <1>1 DEF Set
  <2>2. CASE m = Update(p, v) /\ e[1] = n
    BY <1>1, <2>2, TreeAssumption DEF Set, Update
  <2>3. Holds(channel[e], m) \/ (m = Update(p, v) /\ e[1] = n)
    <3>1. channel[e] \in Seq(Messages) /\ Update(p, v) \in Messages
      BY MessageTypes DEF TypeOK
    <3>2. CASE channel'[e] = channel[e]
      BY <3>2
    <3>3. CASE channel'[e] = Append(channel[e], Update(p, v)) /\ e[1] = n
      BY <3>1, <3>3, Contents
    <3> QED
      BY <2>1, <3>2, <3>3 DEF RegistrySet, Broadcast
  <2> QED
    BY <1>a, <2>2, <2>3
<1>2. ASSUME NEW f \in Links, NEW p \in Props,
             Subscribe(f, p) \/ Unsubscribe(f, p) \/ Request(f, p)
      PROVE  Goal
  <2>1. CASE Subscribe(f, p)
    BY <1>a, <2>1, SendControlContents DEF Subscribe, Control
  <2>2. CASE Unsubscribe(f, p)
    BY <1>a, <2>2, SendControlContents DEF Unsubscribe, Control
  <2>3. CASE Request(f, p)
    <3>1. f \in Askers[p] /\ SendControl(f, "REQUEST", p)
      BY <2>3 DEF Request
    <3>2. Up(f, p)
      BY <3>1, TreeAssumption
    <3> QED
      BY <1>a, <3>1, <3>2, SendControlContents DEF Control
  <2> QED
    BY <1>2, <2>1, <2>2, <2>3
<1>3. ASSUME NEW a \in Links, HandleUpdate(a)
      PROVE  Goal
  <2> DEFINE msg == Head(channel[Rev(a)])
             acc == [accept EXCEPT ![a] = FALSE]
  <2>1. /\ channel[Rev(a)] # <<>> /\ msg.kind = "UPDATE"
        /\ RegistrySet(a[1], msg.prop, msg.val, Taken(Rev(a)), acc)
    BY <1>3 DEF HandleUpdate, Receives
  <2>2. /\ a[1] \in Nodes /\ msg \in Messages /\ msg.prop \in Props /\ msg.val \in Values
        /\ Taken(Rev(a)) \in [Links -> Seq(Messages)]
    BY <2>1, HeadMessage
  <2>3. Up(a, msg.prop)
    <3>1. Holds(channel[Rev(a)], msg)
      BY <2>1, <2>2, Contents DEF TypeOK
    <3> QED
      BY <2>1, <2>2, <3>1, UpOrDown DEF Direction
  <2>4. CASE Holds(Taken(Rev(a))[e], m)
    BY <1>a, <2>1, <2>4, TakenContents
  <2>5. CASE m = Update(msg.prop, msg.val) /\ e[1] = a[1] /\ Open(e, msg.prop, acc)
    <3>1. e # a
      BY <2>5 DEF Open, TypeOK
    <3>2. ~Up(e, msg.prop)
      BY <2>3, <2>5, <3>1 DEF Up
    <3> QED
      BY <2>5, <3>2 DEF Update
  <2>6. \/ Holds(Taken(Rev(a))[e], m)
        \/ m = Update(msg.prop, msg.val) /\ e[1] = a[1] /\ Open(e, msg.prop, acc)
    <3> HIDE DEF acc, msg
    <3> QED
      BY <2>1, <2>2, RegistrySetContents
  <2> QED
    BY <2>4, <2>5, <2>6
<1>4. ASSUME NEW a \in Links, HandleRequest(a)
      PROVE  Goal
  <2> DEFINE req == Head(channel[Rev(a)])
             ans == Update(req.prop, value[a[1]][req.prop])
  <2>1. channel[Rev(a)] # <<>> /\ req.kind = "REQUEST"
    BY <1>4 DEF HandleRequest, setBack, Receives
  <2>2. /\ a[1] \in Nodes /\ req \in Messages /\ req.prop \in Props
        /\ Taken(Rev(a)) \in [Links -> Seq(Messages)]
    BY <2>1, HeadMessage
  <2>3. ~Up(a, req.prop)
    <3>1. Holds(channel[Rev(a)], req)
      BY <2>1, <2>2, Contents DEF TypeOK
    <3> QED
      BY <2>1, <2>2, <3>1, UpOrDown DEF Direction
  <2>4. CASE Holds(Taken(Rev(a))[e], m)
    BY <1>a, <2>1, <2>4, TakenContents
  <2>5. CASE e = a /\ channel'[e] = Append(Taken(Rev(a))[e], ans)
    <3>1. ans \in Messages
      BY <2>2, MessageTypes DEF TypeOK
    <3>2. Holds(Taken(Rev(a))[e], m) \/ m = ans
      BY <2>2, <2>5, <3>1, Contents
    <3> QED
      BY <2>3, <2>4, <2>5, <3>2 DEF Update
  <2>6. CASE channel'[e] = Taken(Rev(a))[e]
    BY <2>4, <2>6
  <2> QED
    BY <1>4, <2>2, <2>5, <2>6 DEF HandleRequest, setBack
<1>5. ASSUME NEW a \in Links, HandleSubscribe(a) \/ HandleUnsubscribe(a) \/ HandleUnknown(a)
      PROVE  Goal
  BY <1>a, <1>5, TakenContents
  DEF HandleSubscribe, HandleUnsubscribe, HandleUnknown, Receives
<1>6. CASE UNCHANGED channel
  BY <1>a, <1>6
<1> QED
  BY <1>1, <1>2, <1>3, <1>4, <1>5, <1>6
  DEF Next, Handle, SetSubscribed, SetAcceptProperty, vars

LEMMA DirectionInvariant == Spec => [](TypeOK /\ Direction)
<1>1. Init => Direction
  BY DEF Init, initDefaults, InitSubscriptionMap, Direction, Holds
<1> QED
  BY <1>1, TypeCorrect, DirectionStep, PTL DEF Spec

\* No update of a property ever travels towards the node that sets it.
THEOREM NoUpstreamCorrect == Spec => []NoUpstream
<1>1. TypeOK /\ Direction => NoUpstream
  BY DEF TypeOK, Direction, NoUpstream, Updates, Holds
<1> QED
  BY <1>1, DirectionInvariant, PTL

\* A node that sets a property never has it changed by a message.
THEOREM OwnerUndisturbedCorrect == Spec => OwnerUndisturbed
<1>1. TypeOK /\ Direction /\ [Next]_vars =>
         [\A p \in Props : \A n \in Writers[p] :
            value'[n][p] # value[n][p] => \E v \in Values : Set(n, p, v)]_vars
  <2> SUFFICES ASSUME TypeOK, Direction, Next, NEW p \in Props, NEW n \in Writers[p],
                      value'[n][p] # value[n][p]
               PROVE  \E v \in Values : Set(n, p, v)
    BY DEF vars
  <2>1. n \in Nodes
    BY PropertiesAssumption
  <2>2. CASE \E k \in Nodes, q \in Props, v \in Values : Set(k, q, v)
    <3>1. PICK k \in Nodes, q \in Props, v \in Values : Set(k, q, v)
      BY <2>2
    <3>2. k = n /\ q = p
      BY <2>1, <3>1 DEF Set, RegistrySet, TypeOK
    <3> QED
      BY <3>1, <3>2
  <2>3. CASE \E a \in Links : HandleUpdate(a)
    <3>1. PICK a \in Links : HandleUpdate(a)
      BY <2>3
    <3> DEFINE msg == Head(channel[Rev(a)])
    <3>2. channel[Rev(a)] # <<>> /\ msg.kind = "UPDATE" /\ Rev(a) \in Links
      BY <3>1, RevLink DEF HandleUpdate, Receives
    <3>3. msg \in Messages /\ msg.prop \in Props /\ a[1] \in Nodes
      BY <3>2, HeadMessage, RevLink
    <3>4. n = a[1] /\ p = msg.prop
      BY <2>1, <3>1, <3>3 DEF HandleUpdate, RegistrySet, TypeOK
    <3>5. Holds(channel[Rev(a)], msg)
      BY <3>2, <3>3, Contents DEF TypeOK
    <3>6. Up(a, p)
      BY <3>2, <3>3, <3>4, <3>5, UpOrDown DEF Direction
    <3> QED
      BY <3>4, <3>6, TreeAssumption
  <2>4. CASE UNCHANGED value
    BY <2>4
  <2> QED
    BY <2>2, <2>3, <2>4
    DEF Next, Handle, Subscribe, Unsubscribe, Request, SendControl, SetSubscribed,
        SetAcceptProperty, HandleRequest, setBack, HandleSubscribe, HandleUnsubscribe, HandleUnknown
<1> QED
  BY <1>1, DirectionInvariant, PTL DEF Spec, OwnerUndisturbed

-----------------------------------------------------------------------------
(* What two ends agree on once the messages between them are handled, as a  *)
(* fact about one sequence of messages: those of the set C count, and each  *)
(* of them leaves the far end with its val.                                *)

Synced(s, C, val, near, far) ==
    /\ (\A i \in DOMAIN s : s[i] \notin C) => far = near
    /\ \A i \in DOMAIN s :
          /\ s[i] \in C
          /\ \A j \in DOMAIN s : s[j] \in C => j <= i
          => val[s[i]] = near

\* A copy and the updates on their way to it.
UpdatesOf(p) == {m \in Messages : m.kind = "UPDATE" /\ m.prop = p}
Carried == [m \in Messages |-> IF m.kind = "UPDATE" THEN m.val ELSE FALSE]

LEMMA InSyncSynced ==
    ASSUME TypeOK, NEW e \in Links, NEW p \in Props
    PROVE  InSync(e, p)
              <=> Synced(channel[e], UpdatesOf(p), Carried, value[e[1]][p], value[e[2]][p])
<1>1. \A i \in DOMAIN channel[e] : channel[e][i] \in Messages
  BY DEF TypeOK
<1> QED
  BY <1>1 DEF InSync, Synced, Updates, Latest, UpdatesOf, Carried

LEMMA InSyncSyncedPrime ==
    ASSUME TypeOK', NEW e \in Links, NEW p \in Props
    PROVE  InSync(e, p)'
              <=> Synced(channel'[e], UpdatesOf(p), Carried, value'[e[1]][p], value'[e[2]][p])
<1>1. \A i \in DOMAIN channel'[e] : channel'[e][i] \in Messages
  BY DEF TypeOK
<1> QED
  BY <1>1 DEF InSync, Synced, Updates, Latest, UpdatesOf, Carried

\* What a peer is sent and the subscription messages on their way to it.
SubscriptionsOf(p) == {m \in Messages : m.kind \in {"SUBSCRIBE", "UNSUBSCRIBE"} /\ m.prop = p}
Subscribes == [m \in Messages |-> m.kind = "SUBSCRIBE"]

Subscribed(e, p) ==
    Synced(channel[e], SubscriptionsOf(p), Subscribes, subscribedTo[e][p], subscribed[Rev(e)][p])

LEMMA AppendIndices ==
    ASSUME NEW s \in Seq(Messages), NEW m \in Messages
    PROVE  /\ DOMAIN Append(s, m) = DOMAIN s \cup {Len(s) + 1}
           /\ \A i \in DOMAIN s : Append(s, m)[i] = s[i] /\ i < Len(s) + 1
           /\ Append(s, m)[Len(s) + 1] = m
           /\ Len(s) + 1 \in Nat
<1>1. Len(s) \in Nat /\ DOMAIN s = 1..Len(s)
  OBVIOUS
<1>2. DOMAIN Append(s, m) = 1..(Len(s) + 1)
  OBVIOUS
<1>3. 1..(Len(s) + 1) = (1..Len(s)) \cup {Len(s) + 1}
  BY <1>1
<1>4. \A i \in DOMAIN s : Append(s, m)[i] = s[i]
  OBVIOUS
<1>5. Append(s, m)[Len(s) + 1] = m
  OBVIOUS
<1> QED
  BY <1>1, <1>2, <1>3, <1>4, <1>5

\* A message that does not count changes nothing.
LEMMA SyncedAppendOther ==
    ASSUME NEW s \in Seq(Messages), NEW m \in Messages, NEW C, NEW val, NEW near, NEW far,
           Synced(s, C, val, near, far), m \notin C
    PROVE  Synced(Append(s, m), C, val, near, far)
<1> DEFINE t == Append(s, m)
<1>1. /\ DOMAIN t = DOMAIN s \cup {Len(s) + 1}
      /\ \A i \in DOMAIN s : t[i] = s[i]
      /\ t[Len(s) + 1] = m
  BY AppendIndices
<1>2. \A i \in DOMAIN t : t[i] \in C <=> i \in DOMAIN s /\ s[i] \in C
  BY <1>1
<1>3. Synced(t, C, val, near, far)
  <2> HIDE DEF t
  <2> QED
    BY <1>1, <1>2 DEF Synced
<1> QED
  BY <1>3

\* Sending what the near end has brings the far end into step, whatever it had.
LEMMA SyncedAppend ==
    ASSUME NEW s \in Seq(Messages), NEW m \in Messages, NEW C, NEW val, NEW far, m \in C
    PROVE  Synced(Append(s, m), C, val, val[m], far)
<1> DEFINE t == Append(s, m)
           last == Len(s) + 1
<1>1. /\ DOMAIN t = DOMAIN s \cup {last}
      /\ \A i \in DOMAIN s : i \in Nat /\ i < last
      /\ t[last] = m
      /\ last \in Nat
  BY AppendIndices
<1>2. last \in DOMAIN t /\ t[last] \in C
  BY <1>1
<1>3. \A i \in DOMAIN t : last <= i => i = last
  BY <1>1
<1>4. Synced(t, C, val, val[m], far)
  <2> HIDE DEF t, last
  <2> QED
    BY <1>1, <1>2, <1>3 DEF Synced
<1> QED
  BY <1>4

LEMMA TailIndices ==
    ASSUME NEW s \in Seq(Messages), s # <<>>
    PROVE  /\ \A i \in DOMAIN Tail(s) : i \in Nat /\ i + 1 \in DOMAIN s /\ Tail(s)[i] = s[i + 1]
           /\ \A j \in DOMAIN s : j \in Nat /\ (j = 1 \/ (j - 1 \in DOMAIN Tail(s) /\ (j - 1) + 1 = j))
           /\ 1 \in DOMAIN s /\ s[1] = Head(s)
  OBVIOUS

\* The far end handles a message; one that counts leaves it with its val.
LEMMA SyncedTail ==
    ASSUME NEW s \in Seq(Messages), s # <<>>, NEW C, NEW val, NEW near, NEW far,
           Synced(s, C, val, near, far)
    PROVE  /\ Head(s) \in C => Synced(Tail(s), C, val, near, val[Head(s)])
           /\ Head(s) \notin C => Synced(Tail(s), C, val, near, far)
<1> DEFINE t == Tail(s)
           then == IF Head(s) \in C THEN val[Head(s)] ELSE far
<1>1. \A i \in DOMAIN t : t[i] = s[i + 1] /\ i \in Nat /\ i + 1 \in DOMAIN s
  BY TailIndices
<1>2. \A j \in DOMAIN s :
         s[j] \in C => j = 1 \/ (j - 1 \in DOMAIN t /\ t[j - 1] \in C)
  BY <1>1, TailIndices
<1>3. 1 \in DOMAIN s /\ s[1] = Head(s)
  BY TailIndices
<1>4. ASSUME \A i \in DOMAIN t : t[i] \notin C
      PROVE  then = near
  <2>1. \A j \in DOMAIN s : s[j] \in C => j = 1
    BY <1>2, <1>4
  <2>2. CASE s[1] \in C
    <3>1. \A j \in DOMAIN s : s[j] \in C => j <= 1
      BY <2>1
    <3>2. val[s[1]] = near
      BY <1>3, <2>2, <3>1 DEF Synced
    <3> QED
      BY <1>3, <2>2, <3>2
  <2>3. CASE s[1] \notin C
    <3>1. far = near
      BY <2>1, <2>3 DEF Synced
    <3> QED
      BY <1>3, <2>3, <3>1
  <2> QED
    BY <2>2, <2>3
<1>5. ASSUME NEW i \in DOMAIN t, t[i] \in C, \A j \in DOMAIN t : t[j] \in C => j <= i
      PROVE  val[t[i]] = near
  <2>1. i + 1 \in DOMAIN s /\ s[i + 1] \in C /\ t[i] = s[i + 1] /\ i \in Nat
    BY <1>1, <1>5
  <2>2. \A j \in DOMAIN s : s[j] \in C => j <= i + 1
    <3> TAKE j \in DOMAIN s
    <3> HAVE s[j] \in C
    <3>1. (j = 1 \/ j - 1 <= i) /\ j \in Nat
      BY <1>2, <1>5, TailIndices
    <3> QED
      BY <2>1, <3>1
  <2> QED
    BY <2>1, <2>2 DEF Synced
<1>6. Synced(t, C, val, near, then)
  <2> HIDE DEF then
  <2> QED
    BY <1>4, <1>5 DEF Synced
<1> QED
  BY <1>6
-----------------------------------------------------------------------------
(* Steps.                                                                  *)

\* The two ends of a connection through which p flows: the far one does not
\* set p, and gets p from the near one only.
LEMMA FlowEnds ==
    ASSUME NEW e \in Links, NEW p \in Props, Flows(e, p)
    PROVE  /\ ~Up(e, p)
           /\ e[1] # e[2] /\ e[1] \in Nodes /\ e[2] \in Nodes
           /\ e[2] \notin Writers[p]
           /\ \A a \in Links : Up(a, p) /\ a[1] = e[2] => a = Rev(e)
<1>1. Down(e, p) /\ Up(Rev(e), p) /\ ~Up(e, p)
  BY TreeAssumption DEF Flows, Down, Up
<1>2. Rev(e) \in Links /\ Rev(e)[1] = e[2] /\ Rev(e)[2] = e[1]
  BY RevLink DEF Rev
<1>3. e[2] \notin Writers[p]
  BY <1>1, <1>2, TreeAssumption
<1>4. ASSUME NEW a \in Links, Up(a, p), a[1] = e[2]
      PROVE  a = Rev(e)
  <2>1. a[2] = e[1]
    BY <1>1, <1>2, <1>4 DEF Up
  <2> QED
    BY <1>4, <2>1, RevLink DEF Rev
<1> QED
  BY <1>1, <1>3, <1>4, TopologyAssumption

\* What a step may do to a connection and to the two copies of p at its ends: it
\* has nothing to do with p there, ...
Aside(e, p) ==
    /\ value'[e[1]][p] = value[e[1]][p]
    /\ value'[e[2]][p] = value[e[2]][p]
    /\ \/ channel'[e] = channel[e]
       \/ \E m \in Messages \ UpdatesOf(p) : channel'[e] = Append(channel[e], m)
       \/ /\ channel[e] # <<>>
          /\ Head(channel[e]) \notin UpdatesOf(p)
          /\ channel'[e] = Tail(channel[e])

\* ... or changes the near copy and sends the new value, ...
Changes(e, p) ==
    /\ value'[e[1]][p] \in Values \ {value[e[1]][p]}
    /\ value'[e[2]][p] = value[e[2]][p]
    /\ channel'[e] = Append(channel[e], Update(p, value'[e[1]][p]))

\* ... sends the value once more, ...
Repeats(e, p) ==
    /\ value'[e[1]][p] = value[e[1]][p]
    /\ value'[e[2]][p] = value[e[2]][p]
    /\ channel'[e] = Append(channel[e], Update(p, value[e[1]][p]))

\* ... or brings a value to the far copy.
Takes(e, p) ==
    /\ channel[e] # <<>>
    /\ Head(channel[e]) \in UpdatesOf(p)
    /\ channel'[e] = Tail(channel[e])
    /\ value'[e[1]][p] = value[e[1]][p]
    /\ value'[e[2]][p] = Head(channel[e]).val

Carries(e, p) == Aside(e, p) \/ Changes(e, p) \/ Repeats(e, p) \/ Takes(e, p)

\* A program sets some property at some node.
LEMMA CarriesSet ==
    ASSUME TypeOK, NEW e \in Links, NEW p \in Props, Flows(e, p), Open(e, p, accept),
           NEW n \in Nodes, NEW q \in Props, NEW v \in Values, Set(n, q, v)
    PROVE  Carries(e, p)
<1>1. /\ n \in Writers[q] /\ value' = [value EXCEPT ![n][q] = v] /\ v # value[n][q]
      /\ channel' = Broadcast(n, q, v, channel, accept)
  BY DEF Set, RegistrySet
<1>2. CASE q = p /\ n = e[1]
  <2>1. value'[e[1]][p] = v /\ value'[e[2]][p] = value[e[2]][p]
    BY <1>1, <1>2, FlowEnds DEF TypeOK
  <2>2. channel'[e] = Append(channel[e], Update(p, v))
    BY <1>1, <1>2 DEF Broadcast
  <2> QED
    BY <1>1, <1>2, <2>1, <2>2 DEF Carries, Changes
<1>3. CASE ~(q = p /\ n = e[1])
  <2>1. value'[e[1]][p] = value[e[1]][p] /\ value'[e[2]][p] = value[e[2]][p]
    BY <1>1, <1>3, FlowEnds DEF TypeOK
  <2>2. \/ channel'[e] = channel[e]
        \/ channel'[e] = Append(channel[e], Update(q, v)) /\ n = e[1]
    BY <1>1 DEF Broadcast
  <2>3. Update(q, v) \in Messages /\ (q # p => Update(q, v) \notin UpdatesOf(p))
    BY MessageTypes DEF Update, UpdatesOf
  <2> QED
    BY <1>3, <2>1, <2>2, <2>3 DEF Carries, Aside
<1> QED
  BY <1>2, <1>3

LEMMA CarriesControl ==
    ASSUME TypeOK, NEW e \in Links, NEW p \in Props, NEW f \in Links,
           NEW q \in Props, NEW k \in {"REQUEST", "SUBSCRIBE", "UNSUBSCRIBE"},
           SendControl(f, k, q)
    PROVE  Carries(e, p)
<1>1. Control(k, q) \in Messages \ UpdatesOf(p)
  BY MessageTypes DEF Control, UpdatesOf
<1>2. channel'[e] = channel[e] \/ channel'[e] = Append(channel[e], Control(k, q))
  BY DEF SendControl, TypeOK
<1> QED
  BY <1>1, <1>2 DEF SendControl, Carries, Aside

\* A node receives an update: over e itself, over the connection by which the
\* near node gets p, or anywhere else.
LEMMA CarriesHandleUpdate ==
    ASSUME TypeOK, Direction, NEW e \in Links, NEW p \in Props, Flows(e, p),
           Open(e, p, accept), NEW a \in Links, HandleUpdate(a)
    PROVE  Carries(e, p)
<1> DEFINE msg == Head(channel[Rev(a)])
           acc == [accept EXCEPT ![a] = FALSE]
<1>1. /\ Rev(a) \in Links /\ channel[Rev(a)] # <<>> /\ msg.kind = "UPDATE"
      /\ RegistrySet(a[1], msg.prop, msg.val, Taken(Rev(a)), acc)
  BY RevLink DEF HandleUpdate, Receives
<1>2. /\ msg \in Messages /\ msg.prop \in Props /\ msg.val \in Values
      /\ Update(msg.prop, msg.val) \in Messages
      /\ Update(msg.prop, msg.val).prop = msg.prop
      /\ a[1] \in Nodes
      /\ msg \in UpdatesOf(p) <=> msg.prop = p
  BY <1>1, HeadMessage, MessageTypes, RevLink DEF Update, UpdatesOf
<1>3. Up(a, msg.prop)
  <2>1. Holds(channel[Rev(a)], msg)
    BY <1>1, <1>2, Contents DEF TypeOK
  <2> QED
    BY <1>1, <1>2, <2>1, UpOrDown DEF Direction
<1>4. Taken(Rev(a))[e] = IF e = Rev(a) THEN Tail(channel[e]) ELSE channel[e]
  BY DEF Taken, TypeOK
<1>5. e = Rev(a) <=> a = Rev(e)
  BY RevLink
<1>6. value'[a[1]][msg.prop] = msg.val
  BY <1>1, <1>2 DEF RegistrySet, TypeOK
<1>7. \A n \in Nodes : n # a[1] \/ msg.prop # p => value'[n][p] = value[n][p]
  BY <1>1, <1>2 DEF RegistrySet, TypeOK
<1>8. \/ channel'[e] = Taken(Rev(a))[e]
      \/ channel'[e] = Append(Taken(Rev(a))[e], Update(msg.prop, msg.val)) /\ e[1] = a[1]
  BY <1>1 DEF RegistrySet, Broadcast
<1>9. CASE e = Rev(a)
  <2>1. e[1] # a[1] /\ e[2] = a[1] /\ channel'[e] = Tail(channel[e])
    BY <1>4, <1>8, <1>9, TopologyAssumption DEF Rev
  <2>2. CASE msg.prop = p
    BY <1>1, <1>2, <1>6, <1>7, <1>9, <2>1, <2>2, FlowEnds DEF Carries, Takes
  <2>3. CASE msg.prop # p
    <3>1. value'[e[1]][p] = value[e[1]][p] /\ value'[e[2]][p] = value[e[2]][p]
      BY <1>7, <2>3, FlowEnds
    <3> QED
      BY <1>1, <1>2, <1>9, <2>1, <2>3, <3>1 DEF Carries, Aside
  <2> QED
    BY <2>2, <2>3
<1>10. CASE e # Rev(a) /\ msg.prop = p
  <2>1. a[1] # e[2]
    BY <1>3, <1>5, <1>10, FlowEnds
  <2>2. CASE a[1] # e[1]
    <3>1. value'[e[1]][p] = value[e[1]][p] /\ value'[e[2]][p] = value[e[2]][p]
      BY <1>7, <2>1, <2>2, FlowEnds
    <3>2. channel'[e] = channel[e]
      BY <1>4, <1>8, <1>10, <2>2
    <3> QED
      BY <3>1, <3>2 DEF Carries, Aside
  <2>3. CASE a[1] = e[1]
    <3>1. e # a
      BY <1>3, <1>10, FlowEnds
    <3>2. Open(e, p, acc)
      BY <3>1 DEF Open, TypeOK
    <3>3. CASE value[a[1]][p] = msg.val
      <4>1. value' = value /\ channel'[e] = channel[e]
        BY <1>1, <1>4, <1>10, <3>3 DEF RegistrySet
      <4> QED
        BY <4>1 DEF Carries, Aside
    <3>4. CASE value[a[1]][p] # msg.val
      <4>1. channel' = Broadcast(a[1], p, msg.val, Taken(Rev(a)), acc)
        BY <1>1, <1>10, <3>4 DEF RegistrySet
      <4>2. channel'[e] = Append(channel[e], Update(p, msg.val))
        BY <1>4, <1>10, <2>3, <3>2, <4>1 DEF Broadcast
      <4>3. value'[e[1]][p] = msg.val /\ value'[e[2]][p] = value[e[2]][p]
        BY <1>6, <1>7, <1>10, <2>1, <2>3, FlowEnds
      <4> QED
        BY <1>2, <2>3, <3>4, <4>2, <4>3 DEF Carries, Changes
    <3> QED
      BY <3>3, <3>4
  <2> QED
    BY <2>2, <2>3
<1>11. CASE e # Rev(a) /\ msg.prop # p
  <2>1. value'[e[1]][p] = value[e[1]][p] /\ value'[e[2]][p] = value[e[2]][p]
    BY <1>7, <1>11, FlowEnds
  <2>2. \/ channel'[e] = channel[e]
        \/ channel'[e] = Append(channel[e], Update(msg.prop, msg.val))
    BY <1>4, <1>8, <1>11
  <2>3. Update(msg.prop, msg.val) \in Messages \ UpdatesOf(p)
    BY <1>2, <1>11 DEF UpdatesOf
  <2> QED
    BY <2>1, <2>2, <2>3 DEF Carries, Aside
<1> QED
  BY <1>9, <1>10, <1>11

\* A request is answered over the adapter it came to; that disturbs no other
\* property.
LEMMA CarriesHandleRequest ==
    ASSUME TypeOK, NEW e \in Links, NEW p \in Props, NEW a \in Links, HandleRequest(a)
    PROVE  /\ Carries(e, p)
           /\ a = e /\ Head(channel[Rev(a)]).prop = p /\ Open(e, p, accept) => Repeats(e, p)
<1> DEFINE req == Head(channel[Rev(a)])
           ans == Update(req.prop, value[a[1]][req.prop])
<1>1. /\ Rev(a) \in Links /\ channel[Rev(a)] # <<>> /\ req.kind = "REQUEST"
      /\ a # Rev(a) /\ value' = value
  BY RevLink, TopologyAssumption DEF HandleRequest, setBack, Receives, Rev
<1>2. /\ req \in Messages /\ req.prop \in Props /\ req \notin UpdatesOf(p)
      /\ ans \in Messages /\ (req.prop # p => ans \notin UpdatesOf(p))
  BY <1>1, HeadMessage, MessageTypes, RevLink DEF Update, UpdatesOf, TypeOK
<1>3. Taken(Rev(a))[e] = IF e = Rev(a) THEN Tail(channel[e]) ELSE channel[e]
  BY DEF Taken, TypeOK
<1>4. channel'[e] = IF e = a /\ Open(a, req.prop, accept)
                    THEN Append(channel[e], ans) ELSE Taken(Rev(a))[e]
  BY <1>1, <1>3, HeadMessage DEF HandleRequest, setBack
<1>5. CASE e = a /\ Open(a, req.prop, accept) /\ req.prop = p
  BY <1>1, <1>4, <1>5 DEF Carries, Repeats
<1>6. CASE ~(e = a /\ Open(a, req.prop, accept) /\ req.prop = p)
  <2>1. CASE e = a /\ Open(a, req.prop, accept)
    BY <1>1, <1>2, <1>4, <1>6, <2>1 DEF Carries, Aside
  <2>2. CASE channel'[e] = Taken(Rev(a))[e]
    BY <1>1, <1>2, <1>3, <1>6, <2>2 DEF Carries, Aside
  <2> QED
    BY <1>4, <2>1, <2>2
<1> QED
  BY <1>5, <1>6

LEMMA CarriesHandleOther ==
    ASSUME TypeOK, NEW e \in Links, NEW p \in Props, Flows(e, p),
           NEW a \in Links, HandleSubscribe(a) \/ HandleUnsubscribe(a) \/ HandleUnknown(a)
    PROVE  Carries(e, p)
<1>1. Rev(a) \in Links /\ channel[Rev(a)] # <<>> /\ channel' = Taken(Rev(a)) /\ value' = value
  BY RevLink DEF HandleSubscribe, HandleUnsubscribe, HandleUnknown, Receives
<1>2. Taken(Rev(a))[e] = IF e = Rev(a) THEN Tail(channel[e]) ELSE channel[e]
  BY DEF Taken, TypeOK
<1>3. e = Rev(a) => Head(channel[e]) \notin UpdatesOf(p)
  BY DEF HandleSubscribe, HandleUnsubscribe, HandleUnknown, Receives, Flows, Rev, UpdatesOf
<1> QED
  BY <1>1, <1>2, <1>3 DEF Carries, Aside

\* Every step of the system is one of these for a connection that sends p.
LEMMA CarriesStep ==
    ASSUME TypeOK, Direction, [Next]_vars, NEW e \in Links, NEW p \in Props,
           Flows(e, p), Open(e, p, accept)
    PROVE  Carries(e, p)
<1>1. ASSUME NEW f \in Links, NEW q \in Props,
             Subscribe(f, q) \/ Unsubscribe(f, q) \/ Request(f, q)
      PROVE  Carries(e, p)
  BY <1>1, CarriesControl DEF Subscribe, Unsubscribe, Request
<1>2. CASE UNCHANGED <<value, channel>>
  BY <1>2 DEF Carries, Aside
<1> QED
  BY <1>1, <1>2, CarriesSet, CarriesHandleUpdate, CarriesHandleRequest, CarriesHandleOther
  DEF Next, Handle, SetSubscribed, SetAcceptProperty, vars

LEMMA UpdateSent ==
    ASSUME NEW p \in Props, NEW v \in Values
    PROVE  Update(p, v) \in UpdatesOf(p) /\ Carried[Update(p, v)] = v
<1>1. Update(p, v) \in Messages
  BY MessageTypes
<1> QED
  BY <1>1 DEF Update, UpdatesOf, Carried

\* None of them puts a copy out of step, and sending the value puts it back.
LEMMA InSyncCarried ==
    ASSUME TypeOK, TypeOK', NEW e \in Links, NEW p \in Props,
           (InSync(e, p) /\ Carries(e, p)) \/ Repeats(e, p)
    PROVE  InSync(e, p)'
<1> DEFINE InStep(s, near, far) == Synced(s, UpdatesOf(p), Carried, near, far)
<1>1. /\ channel[e] \in Seq(Messages)
      /\ value'[e[1]][p] \in Values
      /\ InSync(e, p) => InStep(channel[e], value[e[1]][p], value[e[2]][p])
  BY RevLink, InSyncSynced DEF TypeOK
<1>2. ASSUME channel'[e] = Append(channel[e], Update(p, value'[e[1]][p]))
      PROVE  InStep(channel'[e], value'[e[1]][p], value'[e[2]][p])
  <2>1. PICK m \in Messages : m \in UpdatesOf(p) /\ Carried[m] = value'[e[1]][p]
                              /\ channel'[e] = Append(channel[e], m)
    BY <1>1, <1>2, MessageTypes, UpdateSent
  <2> QED
    BY <1>1, <2>1, SyncedAppend
<1>3. ASSUME InSync(e, p), Takes(e, p)
      PROVE  InStep(channel'[e], value'[e[1]][p], value'[e[2]][p])
  <2>1. Carried[Head(channel[e])] = Head(channel[e]).val
    BY <1>3 DEF Takes, UpdatesOf, Carried
  <2> QED
    BY <1>1, <1>3, <2>1, SyncedTail DEF Takes
<1>4. ASSUME InSync(e, p), Aside(e, p)
      PROVE  InStep(channel'[e], value'[e[1]][p], value'[e[2]][p])
  BY <1>1, <1>4, SyncedAppendOther, SyncedTail DEF Aside
<1>5. InStep(channel'[e], value'[e[1]][p], value'[e[2]][p])
  BY <1>2, <1>3, <1>4 DEF Carries, Changes, Repeats
<1> QED
  BY <1>5, InSyncSyncedPrime

LEMMA SyncStep ==
    ASSUME TypeOK, Direction, [Next]_vars, NEW e \in Links, NEW p \in Props,
           Flows(e, p), Open(e, p, accept), InSync(e, p)
    PROVE  InSync(e, p)'
BY TypeStep, CarriesStep, InSyncCarried

\* A copy that has caught up stays caught up while its adapter sends.
THEOREM SyncPreservedCorrect == Spec => SyncPreserved
<1>1. TypeOK /\ Direction /\ [Next]_vars =>
        [\A e \in Links, p \in Props :
            Flows(e, p) /\ Open(e, p, accept) /\ InSync(e, p) => InSync(e, p)']_vars
  BY SyncStep
<1> QED
  BY <1>1, DirectionInvariant, PTL DEF Spec, SyncPreserved

\* A request handled by an adapter that sends brings the copy back into step.
THEOREM RequestRefreshesCorrect == Spec => RequestRefreshes
<1>1. TypeOK /\ [Next]_vars =>
        [\A e \in Links, p \in Props :
           /\ Flows(e, p)
           /\ Open(e, p, accept)
           /\ HandleRequest(e)
           /\ Head(channel[Rev(e)]).prop = p
           => InSync(e, p)']_vars
  BY TypeStep, CarriesHandleRequest, InSyncCarried
<1> QED
  BY <1>1, TypeCorrect, PTL DEF Spec, RequestRefreshes
-----------------------------------------------------------------------------
(* Subscriptions.                                                          *)

LEMMA SubscribedSynced ==
    ASSUME TypeOK, NEW e \in Links, NEW p \in Props
    PROVE  Subscribed(e, p) <=>
              /\ Subscriptions(e, p) = {} => subscribed[Rev(e)][p] = subscribedTo[e][p]
              /\ \A i \in Subscriptions(e, p) :
                    Latest(i, Subscriptions(e, p)) =>
                       (channel[e][i].kind = "SUBSCRIBE") = subscribedTo[e][p]
<1>1. \A i \in DOMAIN channel[e] : channel[e][i] \in Messages
  BY DEF TypeOK
<1>2. \A i \in DOMAIN channel[e] :
         /\ channel[e][i] \in SubscriptionsOf(p) <=> i \in Subscriptions(e, p)
         /\ Subscribes[channel[e][i]] = (channel[e][i].kind = "SUBSCRIBE")
  BY <1>1 DEF SubscriptionsOf, Subscriptions, Subscribes
<1>3. Subscriptions(e, p) \subseteq DOMAIN channel[e]
  BY DEF Subscriptions
<1> QED
  BY <1>2, <1>3 DEF Subscribed, Synced, Latest

\* What a step may do to a connection, the belief at its one end and the fact at
\* the other.
LEMMA Heard ==
    ASSUME TypeOK, NEW e \in Links, NEW p \in Props, Subscribed(e, p),
           subscribedTo'[e][p] = subscribedTo[e][p],
           \/ /\ channel'[e] = channel[e]
              /\ subscribed'[Rev(e)][p] = subscribed[Rev(e)][p]
           \/ /\ \E m \in Messages : m \notin SubscriptionsOf(p)
                                     /\ channel'[e] = Append(channel[e], m)
              /\ subscribed'[Rev(e)][p] = subscribed[Rev(e)][p]
           \/ /\ channel[e] # <<>>
              /\ channel'[e] = Tail(channel[e])
              /\ subscribed'[Rev(e)][p] = IF Head(channel[e]) \in SubscriptionsOf(p)
                                          THEN Subscribes[Head(channel[e])]
                                          ELSE subscribed[Rev(e)][p]
    PROVE  Subscribed(e, p)'
<1> DEFINE Agreed(s, far) ==
              Synced(s, SubscriptionsOf(p), Subscribes, subscribedTo[e][p], far)
<1>1. channel[e] \in Seq(Messages) /\ Agreed(channel[e], subscribed[Rev(e)][p])
  BY DEF TypeOK, Subscribed
<1>2. ASSUME NEW m \in Messages, m \notin SubscriptionsOf(p),
             channel'[e] = Append(channel[e], m),
             subscribed'[Rev(e)][p] = subscribed[Rev(e)][p]
      PROVE  Agreed(channel'[e], subscribed'[Rev(e)][p])
  BY <1>1, <1>2, SyncedAppendOther
<1>3. ASSUME channel[e] # <<>>, channel'[e] = Tail(channel[e]),
             subscribed'[Rev(e)][p] = IF Head(channel[e]) \in SubscriptionsOf(p)
                                      THEN Subscribes[Head(channel[e])]
                                      ELSE subscribed[Rev(e)][p]
      PROVE  Agreed(channel'[e], subscribed'[Rev(e)][p])
  BY <1>1, <1>3, SyncedTail
<1>4. Agreed(channel'[e], subscribed'[Rev(e)][p])
  BY <1>1, <1>2, <1>3
<1> QED
  BY <1>4 DEF Subscribed

\* Calling subscribe or unsubscribe changes the belief and sends what will make
\* it true.
LEMMA Told ==
    ASSUME TypeOK, NEW e \in Links, NEW p \in Props,
           NEW k \in {"SUBSCRIBE", "UNSUBSCRIBE"}, SendControl(e, k, p),
           subscribedTo'[e][p] = (k = "SUBSCRIBE")
    PROVE  Subscribed(e, p)'
<1> DEFINE m == Control(k, p)
<1>1. m \in Messages
  BY MessageTypes
<1>2. m \in SubscriptionsOf(p) /\ Subscribes[m] = subscribedTo'[e][p]
  BY <1>1 DEF Control, SubscriptionsOf, Subscribes
<1>3. channel[e] \in Seq(Messages) /\ channel'[e] = Append(channel[e], m)
  BY DEF TypeOK, SendControl
<1> HIDE DEF m
<1> QED
  BY <1>1, <1>2, <1>3, SyncedAppend DEF Subscribed

LEMMA SubscribedCall ==
    ASSUME TypeOK, NEW e \in Links, NEW p \in Props, Subscribed(e, p),
           NEW f \in Links, NEW q \in Props, Subscribe(f, q) \/ Unsubscribe(f, q) \/ Request(f, q)
    PROVE  Subscribed(e, p)'
<1>1. PICK k \in {"REQUEST", "SUBSCRIBE", "UNSUBSCRIBE"} :
         /\ SendControl(f, k, q)
         /\ k = "REQUEST" => subscribedTo' = subscribedTo
         /\ k # "REQUEST" => subscribedTo' = [subscribedTo EXCEPT ![f][q] = (k = "SUBSCRIBE")]
  <2>1. CASE Subscribe(f, q)
    BY <2>1 DEF Subscribe
  <2>2. CASE Unsubscribe(f, q)
    BY <2>2 DEF Unsubscribe
  <2>3. CASE Request(f, q)
    BY <2>3 DEF Request
  <2> QED
    BY <2>1, <2>2, <2>3
<1>2. CASE e = f /\ p = q /\ k # "REQUEST"
  BY <1>1, <1>2, Told DEF TypeOK
<1>3. CASE ~(e = f /\ p = q /\ k # "REQUEST")
  <2>1. subscribedTo'[e][p] = subscribedTo[e][p]
    BY <1>1, <1>3 DEF TypeOK
  <2>2. Control(k, q) \in Messages /\ (e = f => Control(k, q) \notin SubscriptionsOf(p))
    BY <1>3, MessageTypes DEF Control, SubscriptionsOf
  <2>3. \/ channel'[e] = channel[e]
        \/ e = f /\ channel'[e] = Append(channel[e], Control(k, q))
    BY <1>1 DEF SendControl, TypeOK
  <2>4. subscribed'[Rev(e)][p] = subscribed[Rev(e)][p]
    BY <1>1 DEF SendControl
  <2> QED
    BY <2>1, <2>2, <2>3, <2>4, Heard
<1> QED
  BY <1>2, <1>3

\* The adapter at the far end takes a message, and its node may pass it on.
LEMMA SubscribedHandle ==
    ASSUME TypeOK, NEW e \in Links, NEW p \in Props, p \in Known[e[2]], Subscribed(e, p),
           NEW a \in Links, Handle(a)
    PROVE  Subscribed(e, p)'
<1> DEFINE msg == Head(channel[Rev(a)])
<1>1. /\ Rev(a) \in Links /\ channel[Rev(a)] # <<>> /\ msg \in Messages
      /\ msg.prop \in Props /\ a[1] \in Nodes /\ subscribedTo' = subscribedTo
      /\ Rev(e) \in Links
  BY RevLink, HeadMessage
  DEF Handle, HandleUpdate, HandleRequest, setBack, HandleSubscribe, HandleUnsubscribe,
      HandleUnknown, Receives
<1>2. Taken(Rev(a))[e] = IF e = Rev(a) THEN Tail(channel[e]) ELSE channel[e]
  BY DEF Taken, TypeOK
<1>3. e = Rev(a) <=> a = Rev(e)
  BY RevLink
<1>4. e = Rev(a) => a[1] = e[2] /\ e[1] # a[1] /\ e # a
  BY TopologyAssumption DEF Rev
<1>5. subscribed'[Rev(e)][p] = IF e = Rev(a) /\ msg \in SubscriptionsOf(p)
                               THEN Subscribes[msg] ELSE subscribed[Rev(e)][p]
  <2>1. CASE HandleSubscribe(a)
    <3>1. msg.kind = "SUBSCRIBE" /\ subscribed' = [subscribed EXCEPT ![a][msg.prop] = TRUE]
      BY <2>1 DEF HandleSubscribe, Receives
    <3>2. subscribed'[Rev(e)][p] = IF a = Rev(e) /\ msg.prop = p
                                   THEN TRUE ELSE subscribed[Rev(e)][p]
      BY <1>1, <3>1 DEF TypeOK
    <3> QED
      BY <1>1, <1>3, <3>1, <3>2 DEF SubscriptionsOf, Subscribes
  <2>2. CASE HandleUnsubscribe(a)
    <3>1. msg.kind = "UNSUBSCRIBE" /\ subscribed' = [subscribed EXCEPT ![a][msg.prop] = FALSE]
      BY <2>2 DEF HandleUnsubscribe, Receives
    <3>2. subscribed'[Rev(e)][p] = IF a = Rev(e) /\ msg.prop = p
                                   THEN FALSE ELSE subscribed[Rev(e)][p]
      BY <1>1, <3>1 DEF TypeOK
    <3> QED
      BY <1>1, <1>3, <3>1, <3>2 DEF SubscriptionsOf, Subscribes
  <2>3. CASE HandleUpdate(a) \/ HandleRequest(a) \/ HandleUnknown(a)
    <3>1. subscribed' = subscribed
      BY <2>3 DEF HandleUpdate, HandleRequest, HandleUnknown
    <3>2. ~(e = Rev(a) /\ msg \in SubscriptionsOf(p))
      BY <1>4, <2>3
      DEF HandleUpdate, HandleRequest, HandleUnknown, Receives, SubscriptionsOf
    <3> QED
      BY <3>1, <3>2
  <2> QED
    BY <2>1, <2>2, <2>3 DEF Handle
<1>6. PICK v \in Values :
         \/ channel'[e] = Taken(Rev(a))[e]
         \/ e # Rev(a) /\ channel'[e] = Append(channel[e], Update(msg.prop, v))
  <2>1. CASE HandleUpdate(a)
    <3>1. msg.val \in Values
      BY <1>1, <2>1, HeadMessage DEF HandleUpdate, Receives
    <3> QED
      BY <1>2, <1>4, <2>1, <3>1 DEF HandleUpdate, RegistrySet, Broadcast
  <2>2. CASE HandleRequest(a)
    <3>1. value[a[1]][msg.prop] \in Values /\ Taken(Rev(a)) \in [Links -> Seq(Messages)]
      BY <1>1, HeadMessage DEF TypeOK
    <3> QED
      BY <1>2, <1>4, <2>2, <3>1 DEF HandleRequest, setBack
  <2>3. CASE HandleSubscribe(a) \/ HandleUnsubscribe(a) \/ HandleUnknown(a)
    <3>1. Default[msg.prop] \in Values
      BY <1>1, PropertiesAssumption
    <3> QED
      BY <2>3, <3>1 DEF HandleSubscribe, HandleUnsubscribe, HandleUnknown
  <2> QED
    BY <2>1, <2>2, <2>3 DEF Handle
<1>7. Update(msg.prop, v) \in Messages /\ Update(msg.prop, v) \notin SubscriptionsOf(p)
  BY <1>1, MessageTypes DEF Update, SubscriptionsOf
<1>8. CASE e = Rev(a)
  BY <1>1, <1>2, <1>5, <1>6, <1>8, Heard
<1>9. CASE e # Rev(a)
  BY <1>1, <1>2, <1>5, <1>6, <1>7, <1>9, Heard
<1> QED
  BY <1>8, <1>9

LEMMA SubscribedStep ==
    ASSUME TypeOK, [Next]_vars, NEW e \in Links, NEW p \in Props, p \in Known[e[2]],
           Rev(e) \notin Manual, Subscribed(e, p)
    PROVE  Subscribed(e, p)'
<1>1. ASSUME NEW n \in Nodes, NEW q \in Props, NEW v \in Values, Set(n, q, v)
      PROVE  Subscribed(e, p)'
  <2>1. Update(q, v) \in Messages /\ Update(q, v) \notin SubscriptionsOf(p)
    BY MessageTypes DEF Update, SubscriptionsOf
  <2>2. channel'[e] = channel[e] \/ channel'[e] = Append(channel[e], Update(q, v))
    BY <1>1 DEF Set, RegistrySet, Broadcast
  <2> QED
    BY <1>1, <2>1, <2>2, Heard DEF Set
<1>2. ASSUME NEW f \in Links, NEW q \in Props, NEW b \in BOOLEAN, SetSubscribed(f, q, b)
      PROVE  Subscribed(e, p)'
  <2>1. subscribed'[Rev(e)][p] = subscribed[Rev(e)][p]
    BY <1>2, RevLink DEF SetSubscribed, TypeOK
  <2> QED
    BY <1>2, <2>1, Heard DEF SetSubscribed
<1>3. CASE UNCHANGED <<subscribed, subscribedTo, channel>>
  BY <1>3, Heard
<1> QED
  BY <1>1, <1>2, <1>3, SubscribedCall, SubscribedHandle DEF Next, SetAcceptProperty, vars

\* What a program believes to be subscribed to is what the peer will send it
\* once the subscription messages under way are handled.
THEOREM SubscriptionsAgreeCorrect == Spec => []SubscriptionsAgree
<1> DEFINE Inv == \A e \in Links, p \in Props :
              (Rev(e) \notin SubscribedToAll /\ Rev(e) \notin Manual /\ p \in Known[e[2]])
                 => Subscribed(e, p)
<1>1. Init => Inv
  <2> SUFFICES ASSUME Init, NEW e \in Links, NEW p \in Props, Rev(e) \notin SubscribedToAll
               PROVE  Subscribed(e, p)
    OBVIOUS
  <2>1. channel[e] = <<>> /\ subscribed[Rev(e)][p] = subscribedTo[e][p]
    <3>1. Rev(e) \in Links
      BY RevLink
    <3>2. subscribed[Rev(e)][p] = FALSE
      <4>1. subscribed[Rev(e)] = [q \in Props |-> Rev(e) \in SubscribedToAll]
        BY <3>1, Zenon DEF Init, InitSubscriptionMap
      <4>2. subscribed[Rev(e)][p] = (Rev(e) \in SubscribedToAll)
        BY <4>1, Zenon
      <4>3. (Rev(e) \in SubscribedToAll) = FALSE
        OBVIOUS
      <4> QED
        BY <4>2, <4>3, Zenon
    <3>3. channel[e] = <<>> /\ subscribedTo[e][p] = FALSE
      BY DEF Init, InitSubscriptionMap
    <3> QED
      BY <3>2, <3>3
  <2> QED
    BY <2>1 DEF Subscribed, Synced
<1>2. TypeOK /\ Inv /\ [Next]_vars => Inv'
  <2> SUFFICES ASSUME TypeOK, Inv, [Next]_vars, NEW e \in Links, NEW p \in Props,
                      Rev(e) \notin SubscribedToAll, Rev(e) \notin Manual, p \in Known[e[2]]
               PROVE  Subscribed(e, p)'
    BY DEF Rev
  <2> QED
    BY SubscribedStep
<1>3. TypeOK /\ Inv => SubscriptionsAgree
  BY SubscribedSynced DEF SubscriptionsAgree
<1> QED
  BY <1>1, <1>2, <1>3, TypeCorrect, PTL DEF Spec

-----------------------------------------------------------------------------
(* Connections that always send.                                           *)

\* Only a program that unsubscribes puts an unsubscription on a connection.
LEMMA UnsubscribeContents ==
    ASSUME TypeOK, [Next]_vars, NEW e \in Links, e \notin Unsubscribers,
           NEW m \in Messages, Holds(channel'[e], m), m.kind = "UNSUBSCRIBE"
    PROVE  Holds(channel[e], m)
<1>1. ASSUME NEW n \in Nodes, NEW p \in Props, NEW v \in Values, Set(n, p, v)
      PROVE  Holds(channel[e], m)
  <2>1. channel[e] \in Seq(Messages) /\ Update(p, v) \in Messages /\ Update(p, v) # m
    BY MessageTypes DEF TypeOK, Update
  <2>2. channel'[e] = channel[e] \/ channel'[e] = Append(channel[e], Update(p, v))
    BY <1>1 DEF Set, RegistrySet, Broadcast
  <2> QED
    BY <2>1, <2>2, Contents
<1>2. ASSUME NEW f \in Links, NEW p \in Props,
             Subscribe(f, p) \/ Unsubscribe(f, p) \/ Request(f, p)
      PROVE  Holds(channel[e], m)
  <2>1. CASE Subscribe(f, p)
    BY <2>1, SendControlContents DEF Subscribe, Control
  <2>2. CASE Unsubscribe(f, p)
    BY <2>2, SendControlContents DEF Unsubscribe
  <2>3. CASE Request(f, p)
    BY <2>3, SendControlContents DEF Request, Control
  <2> QED
    BY <1>2, <2>1, <2>2, <2>3
<1>3. ASSUME NEW a \in Links, Handle(a)
      PROVE  Holds(channel[e], m)
  <2> DEFINE msg == Head(channel[Rev(a)])
  <2>1. /\ Rev(a) \in Links /\ a[1] \in Nodes /\ channel[Rev(a)] # <<>>
        /\ msg.prop \in Props /\ Taken(Rev(a))[e] \in Seq(Messages)
    BY <1>3, RevLink, HeadMessage
    DEF Handle, HandleUpdate, HandleRequest, setBack, HandleSubscribe, HandleUnsubscribe,
        HandleUnknown, Receives
  <2>2. PICK v \in Values : \/ channel'[e] = Taken(Rev(a))[e]
                            \/ channel'[e] = Append(Taken(Rev(a))[e], Update(msg.prop, v))
    <3>1. CASE HandleUpdate(a)
      <4>1. msg.val \in Values
        BY <2>1, <3>1, RevLink, HeadMessage DEF HandleUpdate, Receives
      <4> QED
        BY <3>1, <4>1 DEF HandleUpdate, RegistrySet, Broadcast
    <3>2. CASE HandleRequest(a)
      <4>1. value[a[1]][msg.prop] \in Values
        BY <2>1 DEF TypeOK
      <4>2. Taken(Rev(a)) \in [Links -> Seq(Messages)]
        BY <2>1, HeadMessage
      <4> QED
        BY <3>2, <4>1, <4>2 DEF HandleRequest, setBack
    <3>3. CASE HandleSubscribe(a) \/ HandleUnsubscribe(a) \/ HandleUnknown(a)
      <4>1. Default[msg.prop] \in Values
        BY <2>1, PropertiesAssumption
      <4> QED
        BY <3>3, <4>1 DEF HandleSubscribe, HandleUnsubscribe, HandleUnknown
    <3> QED
      BY <1>3, <3>1, <3>2, <3>3 DEF Handle
  <2>3. Update(msg.prop, v) \in Messages /\ Update(msg.prop, v) # m
    BY <2>1, MessageTypes DEF Update
  <2>4. Holds(Taken(Rev(a))[e], m)
    <3>1. CASE channel'[e] = Taken(Rev(a))[e]
      BY <3>1
    <3>2. CASE channel'[e] = Append(Taken(Rev(a))[e], Update(msg.prop, v))
      <4> HIDE DEF msg
      <4> QED
        BY <2>1, <2>3, <3>2, Contents
    <3> QED
      BY <2>2, <3>1, <3>2
  <2> QED
    BY <2>1, <2>4, TakenContents
<1>4. CASE UNCHANGED channel
  BY <1>4
<1> QED
  BY <1>1, <1>2, <1>3, <1>4 DEF Next, SetSubscribed, SetAcceptProperty, vars

\* A pinned adapter sends at every moment, and nothing under way will stop it.
PinnedOpen ==
    \A e \in Links : Pinned(e) =>
       /\ accept[e]
       /\ \A p \in Props : subscribed[e][p]
       /\ \A m \in Messages : Holds(channel[Rev(e)], m) => m.kind # "UNSUBSCRIBE"

LEMMA PinnedOpenStep == TypeOK /\ PinnedOpen /\ [Next]_vars => PinnedOpen'
<1> SUFFICES ASSUME TypeOK, PinnedOpen, [Next]_vars, NEW e \in Links, Pinned(e)
             PROVE  /\ accept'[e]
                    /\ \A p \in Props : subscribed'[e][p]
                    /\ \A m \in Messages :
                          Holds(channel'[Rev(e)], m) => m.kind # "UNSUBSCRIBE"
  BY DEF PinnedOpen, Pinned
<1>1. accept[e] /\ (\A p \in Props : subscribed[e][p]) /\ e \notin Manual
  BY DEF PinnedOpen, Pinned
<1>2. \A m \in Messages : Holds(channel'[Rev(e)], m) => m.kind # "UNSUBSCRIBE"
  BY RevLink, UnsubscribeContents DEF PinnedOpen, Pinned
<1>3. ~HandleUnsubscribe(e)
  <2> SUFFICES ASSUME HandleUnsubscribe(e) PROVE FALSE
    OBVIOUS
  <2> DEFINE msg == Head(channel[Rev(e)])
  <2>1. channel[Rev(e)] # <<>> /\ msg.kind = "UNSUBSCRIBE" /\ Rev(e) \in Links
    BY RevLink DEF HandleUnsubscribe, Receives
  <2>2. msg \in Messages /\ Holds(channel[Rev(e)], msg)
    BY <2>1, HeadMessage, Contents DEF TypeOK
  <2> QED
    BY <2>1, <2>2 DEF PinnedOpen
<1>4. accept'[e]
  BY <1>1 DEF Next, Handle, vars, TypeOK, Set, Subscribe, Unsubscribe, Request, SendControl,
     SetSubscribed, SetAcceptProperty, HandleUpdate, HandleRequest, setBack, HandleSubscribe,
     HandleUnsubscribe, HandleUnknown
<1>5. ASSUME NEW p \in Props
      PROVE  subscribed'[e][p]
  <2>1. ASSUME NEW a \in Links, HandleSubscribe(a)
        PROVE  subscribed'[e][p]
    BY <1>1, <2>1 DEF HandleSubscribe, TypeOK
  <2>2. ASSUME NEW a \in Links, HandleUnsubscribe(a)
        PROVE  subscribed'[e][p]
    BY <1>1, <1>3, <2>2 DEF HandleUnsubscribe, TypeOK
  <2>3. ASSUME NEW f \in Links, NEW q \in Props, NEW b \in BOOLEAN, SetSubscribed(f, q, b)
        PROVE  subscribed'[e][p]
    BY <1>1, <2>3 DEF SetSubscribed, TypeOK
  <2>4. CASE UNCHANGED subscribed
    BY <1>1, <2>4
  <2> QED
    BY <2>1, <2>2, <2>3, <2>4
    DEF Next, Handle, vars, Set, Subscribe, Unsubscribe, Request, SendControl,
        SetAcceptProperty, HandleUpdate, HandleRequest, setBack, HandleUnknown
<1> QED
  BY <1>2, <1>4, <1>5

LEMMA PinnedOpenInit == Init => PinnedOpen
<1> SUFFICES ASSUME Init, NEW e \in Links, Pinned(e)
             PROVE  /\ accept[e]
                    /\ \A p \in Props : subscribed[e][p]
                    /\ \A m : ~Holds(channel[Rev(e)], m)
  BY DEF PinnedOpen
<1>1. channel[Rev(e)] = <<>>
  BY RevLink DEF Init, initDefaults, InitSubscriptionMap
<1>2. accept[e] /\ \A p \in Props : subscribed[e][p]
  BY DEF Init, initDefaults, InitSubscriptionMap, Pinned
<1>3. DOMAIN channel[Rev(e)] = {}
  BY <1>1
<1> QED
  BY <1>2, <1>3 DEF Holds

\* Along a connection that always sends, the far copy is never further behind
\* than what is under way.
THEOREM AgreementCorrect == Spec => []Agreement
<1>1. Init => PinnedOpen /\ Agreement
  <2> SUFFICES ASSUME Init PROVE PinnedOpen /\ Agreement
    OBVIOUS
  <2>1. PinnedOpen
    BY PinnedOpenInit
  <2>2. ASSUME NEW e \in Links, NEW p \in Props
        PROVE  InSync(e, p)
    BY TopologyAssumption DEF Init, initDefaults, InitSubscriptionMap, InSync, Updates
  <2> QED
    BY <2>1, <2>2 DEF Agreement
<1>2. TypeOK /\ Direction /\ PinnedOpen /\ Agreement /\ [Next]_vars => Agreement'
  <2> SUFFICES ASSUME TypeOK, Direction, PinnedOpen, Agreement, [Next]_vars,
                      NEW e \in Links, NEW p \in Props, Pinned(e), Flows(e, p)
               PROVE  InSync(e, p)'
    BY DEF Agreement, Pinned, Flows, Down, Up
  <2>1. Open(e, p, accept) /\ InSync(e, p)
    BY DEF PinnedOpen, Open, Agreement
  <2> QED
    BY <2>1, SyncStep
<1> QED
  BY <1>1, <1>2, DirectionInvariant, PinnedOpenStep, PTL DEF Spec
-----------------------------------------------------------------------------
(* The refinement of Mirror.                                               *)

LEMMA UnderWayCounting ==
    ASSUME TypeOK, NEW e \in Links, NEW p \in Props
    PROVE  UnderWay(e, p) = Counting(channel[e], UpdatesOf(p), Carried)
<1> DEFINE s == channel[e]
           P == Updates(e, p)
<1>1. s \in Seq(Messages) /\ \A i \in DOMAIN s : s[i] \in Messages
  BY DEF TypeOK
<1>2. P = Places(s, UpdatesOf(p))
  BY <1>1 DEF Updates, Places, UpdatesOf
<1>3. P \in SUBSET Nat /\ IsFiniteSet(P)
  BY <1>1, <1>2, FinitePlaces
<1>4. \A k \in 1..Cardinality(P) : s[Nth(P, k)].val = Carried[s[Nth(P, k)]]
  <2>1. \A i \in P : s[i].val = Carried[s[i]]
    BY <1>1 DEF Updates, Carried
  <2> HIDE DEF P
  <2> QED
    BY <1>3, <2>1, Ranks
<1>5. UnderWay(e, p) = [k \in 1..Cardinality(P) |-> s[Nth(P, k)].val]
  BY DEF UnderWay, Sublist
<1> HIDE DEF P
<1> QED
  BY <1>2, <1>4, <1>5, CountingIs

LEMMA UnderWayCountingPrime ==
    ASSUME TypeOK', NEW e \in Links, NEW p \in Props
    PROVE  UnderWay(e, p)' = Counting(channel'[e], UpdatesOf(p), Carried)
<1> DEFINE s == channel'[e]
           P == Updates(e, p)'
<1>1. s \in Seq(Messages) /\ \A i \in DOMAIN s : s[i] \in Messages
  BY DEF TypeOK
<1>2. P = Places(s, UpdatesOf(p))
  BY <1>1 DEF Updates, Places, UpdatesOf
<1>3. P \in SUBSET Nat /\ IsFiniteSet(P)
  BY <1>1, <1>2, FinitePlaces
<1>4. \A k \in 1..Cardinality(P) : s[Nth(P, k)].val = Carried[s[Nth(P, k)]]
  <2>1. \A i \in P : s[i].val = Carried[s[i]]
    BY <1>1 DEF Updates, Carried
  <2> HIDE DEF P
  <2> QED
    BY <1>3, <2>1, Ranks
<1>5. UnderWay(e, p)' = [k \in 1..Cardinality(P) |-> s[Nth(P, k)].val]
  BY DEF UnderWay, Sublist
<1> HIDE DEF P
<1> QED
  BY <1>2, <1>4, <1>5, CountingIs

\* What a step does to a connection that sends p is a step of Mirror or none.
LEMMA FarStep ==
    ASSUME TypeOK, TypeOK', NEW e \in Links, NEW p \in Props, Carries(e, p)
    PROVE  Far(e, p)!Next \/ UNCHANGED Far(e, p)!vars
<1> DEFINE Far0 == Counting(channel[e], UpdatesOf(p), Carried)
           Far1 == Counting(channel'[e], UpdatesOf(p), Carried)
<1>1. UnderWay(e, p) = Far0 /\ UnderWay(e, p)' = Far1
  BY UnderWayCounting, UnderWayCountingPrime
<1>2. channel[e] \in Seq(Messages) /\ value[e[1]][p] \in Values
  BY RevLink DEF TypeOK
<1>3. ASSUME NEW v \in Values, channel'[e] = Append(channel[e], Update(p, v))
      PROVE  Far1 = Append(Far0, v)
  <2>1. PICK m \in Messages : m \in UpdatesOf(p) /\ Carried[m] = v
                              /\ channel'[e] = Append(channel[e], m)
    BY <1>3, MessageTypes, UpdateSent
  <2> QED
    BY <1>2, <2>1, CountingAppend
<1>4. CASE Aside(e, p)
  <2>1. Far1 = Far0
    <3>1. CASE channel'[e] = channel[e]
      BY <3>1
    <3>2. ASSUME NEW m \in Messages \ UpdatesOf(p), channel'[e] = Append(channel[e], m)
          PROVE  Far1 = Far0
      BY <1>2, <3>2, CountingAppend
    <3>3. ASSUME channel[e] # <<>>, Head(channel[e]) \notin UpdatesOf(p),
                 channel'[e] = Tail(channel[e])
          PROVE  Far1 = Far0
      BY <1>2, <3>3, CountingTail
    <3> QED
      BY <1>4, <3>1, <3>2, <3>3 DEF Aside
  <2> QED
    BY <1>1, <1>4, <2>1 DEF Aside, Far!vars
<1>5. CASE Changes(e, p)
  <2>1. Far1 = Append(Far0, value'[e[1]][p])
    BY <1>3, <1>5 DEF Changes
  <2>2. Far(e, p)!Change(value'[e[1]][p])
    <3> HIDE DEF Far0, Far1
    <3> QED
      BY <1>1, <1>5, <2>1 DEF Changes, Far!Change
  <2> QED
    BY <1>5, <2>2 DEF Changes, Far!Next
<1>6. CASE Repeats(e, p)
  <2>1. Far1 = Append(Far0, value[e[1]][p])
    BY <1>2, <1>3, <1>6 DEF Repeats
  <2> HIDE DEF Far0, Far1
  <2> QED
    BY <1>1, <1>6, <2>1 DEF Repeats, Far!Next, Far!Repeat
<1>7. CASE Takes(e, p)
  <2>1. Far0 # <<>> /\ Head(Far0) = Carried[Head(channel[e])] /\ Far1 = Tail(Far0)
    BY <1>2, <1>7, CountingTail DEF Takes
  <2>2. Carried[Head(channel[e])] = value'[e[2]][p]
    BY <1>7 DEF Takes, UpdatesOf, Carried
  <2> HIDE DEF Far0, Far1
  <2> QED
    BY <1>1, <1>7, <2>1, <2>2 DEF Takes, Far!Next, Far!Take
<1> QED
  BY <1>4, <1>5, <1>6, <1>7 DEF Carries

\* Every connection that always sends implements Mirror for every property that
\* flows over it.
THEOREM MirrorsCorrect == Spec => Mirrors
<1>1. Init => \A f \in FarFlows : Far(f[1], f[2])!Init
  <2> SUFFICES ASSUME Init, NEW e \in Links, NEW p \in Props
               PROVE  Far(e, p)!Init
    BY DEF FarFlows
  <2>1. value[e[1]][p] = Default[p] /\ value[e[2]][p] = Default[p]
    BY TopologyAssumption DEF Init, initDefaults
  <2>2. UnderWay(e, p) = <<>>
    <3>1. Updates(e, p) = {}
      BY DEF Init, Updates
    <3>2. Cardinality({}) = 0
      BY FS_EmptySet
    <3> QED
      BY <3>1, <3>2 DEF UnderWay, Sublist
  <2> QED
    BY <2>1, <2>2 DEF Far!Init
<1>2. TypeOK /\ Direction /\ PinnedOpen /\ [Next]_vars
        => [\A f \in FarFlows : Far(f[1], f[2])!Next \/ UNCHANGED Far(f[1], f[2])!vars]_vars
  <2> SUFFICES ASSUME TypeOK, Direction, PinnedOpen, [Next]_vars,
                      NEW e \in Links, NEW p \in Props, Pinned(e), Flows(e, p)
               PROVE  Far(e, p)!Next \/ UNCHANGED Far(e, p)!vars
    BY DEF FarFlows
  <2>1. Open(e, p, accept)
    BY DEF PinnedOpen, Open
  <2> QED
    BY <2>1, TypeStep, CarriesStep, FarStep
<1>3. Spec => []PinnedOpen
  BY PinnedOpenInit, TypeCorrect, PinnedOpenStep, PTL DEF Spec
<1> QED
  BY <1>1, <1>2, <1>3, DirectionInvariant, PTL DEF Spec, Mirrors
=============================================================================
