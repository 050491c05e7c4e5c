------------------------ MODULE RSupportClientProofs ------------------------
(***************************************************************************)
(* Theorems about RSupportClient, for any number of descriptors and         *)
(* connections, any capacity and any host.                                 *)
(***************************************************************************)
EXTENDS RSupportClient, TLAPS

-----------------------------------------------------------------------------
(* Types.                                                                  *)

\* 0, which the adapter uses for none, is the number of a descriptor.
LEMMA ZeroIsNumber == 0 \in Numbers
  BY ParametersAssumption DEF Numbers

\* What the transmit callback does to the streams and to the process.
LEMMA TransmitType ==
    ASSUME TypeOK, NEW msg \in Messages, NEW place \in {"running", "waiting"},
           Transmit(msg, place)
    PROVE  /\ toHost' \in [Conns -> Seq(Messages)]
           /\ process' \in {"running", "waiting", "reading", "killed"}
           /\ clean' \in BOOLEAN
<1>1. Connection # 0 => Connection \in Conns
  BY DEF TypeOK, Connection, Socket, Input, Free, Other, Dead
<1>2. toHost' \in [Conns -> Seq(Messages)]
  BY <1>1 DEF Transmit, Reaches, TypeOK
<1>3. clean' \in BOOLEAN
  BY DEF Transmit, TypeOK
<1>4. process' \in {"running", "waiting", "reading", "killed"}
  BY DEF Transmit
<1> QED BY <1>2, <1>3, <1>4

\* Every action preserves the types.
LEMMA TypeStep == TypeOK /\ [Next]_vars => TypeOK'
<1> SUFFICES ASSUME TypeOK, [Next]_vars PROVE TypeOK'
  OBVIOUS
<1> USE ParametersAssumption
<1>1. ASSUME NEW v \in Values, SetMove(v) PROVE TypeOK'
  <2>1. MoveTo(v) \in Messages
    BY DEF Messages
  <2>2. Transmit(MoveTo(v), "running")
    BY <1>1 DEF SetMove
  <2> QED
    BY <1>1, <2>1, <2>2, TransmitType DEF SetMove, adapter, host, TypeOK
<1>2. ASSUME Ask PROVE TypeOK'
  <2>1. Control \in Messages
    BY DEF Messages
  <2>2. Transmit(Control, "running")
    BY <1>2 DEF Ask
  <2> QED
    BY <1>2, <2>1, <2>2, TransmitType DEF Ask, program, adapter, host, TypeOK
<1>3. ASSUME NEW b \in BOOLEAN, SetOption(b) PROVE TypeOK'
  BY <1>3 DEF SetOption, adapter, host, TypeOK
<1>4. ASSUME ConnectNoSocket PROVE TypeOK'
  <2>1. fd' \in Numbers /\ link' \in {"none", "linked", "gone"} /\ clean' \in BOOLEAN
    BY <1>4, ZeroIsNumber DEF ConnectNoSocket
  <2> QED
    BY <1>4, <2>1 DEF ConnectNoSocket, program, host, TypeOK
<1>5. ASSUME ConnectRefused PROVE TypeOK'
  <2>1. fd' \in Numbers /\ link' \in {"none", "linked", "gone"} /\ clean' \in BOOLEAN
    BY <1>5, ZeroIsNumber DEF ConnectRefused
  <2>2. files' \in [Numbers -> {Input, Free, Other, Dead} \cup {Socket(c) : c \in Conns}]
    BY <1>5 DEF ConnectRefused, TypeOK
  <2> QED
    BY <1>5, <2>1, <2>2 DEF ConnectRefused, program, host, TypeOK
<1>6. ASSUME NEW b \in BOOLEAN, Connect(b) PROVE TypeOK'
  <2>1. made + 1 \in Conns /\ made' = made + 1 /\ made' \in 0..MaxConnects
    BY <1>6 DEF Connect, Conns, TypeOK
  <2>2. toHost' \in [Conns -> Seq(Messages)]
    <3>1. <<Control>> \in Seq(Messages)
      BY DEF Messages
    <3> QED BY <1>6, <2>1, <3>1 DEF Connect, TypeOK
  <2>3. files' \in [Numbers -> {Input, Free, Other, Dead} \cup {Socket(c) : c \in Conns}]
        /\ fd' \in Numbers
    BY <1>6, <2>1 DEF Connect, TypeOK
  <2>4. open' \in [Conns -> BOOLEAN] /\ clean' \in BOOLEAN
    BY <1>6, <2>1 DEF Connect, TypeOK
  <2> QED
    BY <1>6, <2>1, <2>2, <2>3, <2>4 DEF Connect, program, TypeOK
<1>7. ASSUME Disconnect PROVE TypeOK'
  BY <1>7 DEF Disconnect, program, host, TypeOK
<1>8. ASSUME Service PROVE TypeOK'
  <2>1. BurstOf(move) \in Messages
    BY DEF Messages, TypeOK
  <2>2. CASE autoBurst /\ ~burst
    <3>1. Transmit(BurstOf(move), "waiting") /\ burst' = TRUE
      BY <1>8, <2>2 DEF Service
    <3> QED
      BY <1>8, <2>1, <3>1, TransmitType DEF Service, adapter, host, TypeOK
  <2>3. CASE ~(autoBurst /\ ~burst)
    BY <1>8, <2>3 DEF Service, adapter, host, TypeOK
  <2> QED BY <2>2, <2>3
<1>9. ASSUME ServiceRead PROVE TypeOK'
  <2>1. clears' \in [Conns -> Nat] /\ burst' \in BOOLEAN
    <3>1. CASE Connection # 0 /\ clears[Connection] > 0
      <4>1. PICK k \in 1..clears[Connection] :
               clears' = [clears EXCEPT ![Connection] = @ - k]
        BY <1>9, <3>1 DEF ServiceRead
      <4>2. Connection \in Conns
        BY <3>1 DEF TypeOK, Connection, Socket, Input, Free, Other, Dead
      <4>3. clears[Connection] - k \in Nat
        BY <4>2 DEF TypeOK
      <4>4. clears' \in [Conns -> Nat]
        BY <4>1, <4>3 DEF TypeOK
      <4> QED BY <1>9, <3>1, <4>4 DEF ServiceRead
    <3>2. CASE ~(Connection # 0 /\ clears[Connection] > 0)
      BY <1>9, <3>2 DEF ServiceRead, TypeOK
    <3> QED BY <3>1, <3>2
  <2>2. process' \in {"reading", "running"}
    BY <1>9 DEF ServiceRead
  <2> QED
    BY <1>9, <2>1, <2>2 DEF ServiceRead, adapter, host, TypeOK
<1>10. ASSUME InputArrives PROVE TypeOK'
  BY <1>10 DEF InputArrives, program, adapter, host, TypeOK
<1>11. ASSUME OpenOther PROVE TypeOK'
  BY <1>11 DEF OpenOther, program, host, TypeOK
<1>12. ASSUME NEW c \in Conns, HostHandle(c) PROVE TypeOK'
  <2> DEFINE msg == Head(toHost[c])
  <2>1. msg \in Messages /\ Tail(toHost[c]) \in Seq(Messages)
    BY <1>12 DEF HostHandle, TypeOK
  <2>2. toHost' \in [Conns -> Seq(Messages)]
    BY <1>12, <2>1 DEF HostHandle, TypeOK
  <2>3. msg.kind = "MOVE" => msg.val \in Values
    BY <2>1 DEF Messages, MoveTo, BurstOf, Control
  <2>4. hostMove' \in Values /\ forwarded' \in Values
    BY <1>12, <2>3 DEF HostHandle, TypeOK
  <2>5. clears' \in [Conns -> Nat]
    BY <1>12 DEF HostHandle, TypeOK
  <2> QED
    BY <1>12, <2>2, <2>4, <2>5 DEF HostHandle, program, adapter, TypeOK
<1>13. ASSUME NEW c \in Conns, HostClose(c) PROVE TypeOK'
  <2>1. toHost' \in [Conns -> Seq(Messages)]
    <3>1. <<>> \in Seq(Messages)
      OBVIOUS
    <3> QED BY <1>13, <3>1 DEF HostClose, TypeOK
  <2>2. open' \in [Conns -> BOOLEAN] /\ clean' \in BOOLEAN
    BY <1>13 DEF HostClose, TypeOK
  <2> QED
    BY <1>13, <2>1, <2>2 DEF HostClose, program, adapter, TypeOK
<1>14. CASE UNCHANGED vars
  BY <1>14 DEF vars, program, adapter, host, TypeOK
<1> QED
  BY <1>1, <1>2, <1>3, <1>4, <1>5, <1>6, <1>7, <1>8, <1>9, <1>10, <1>11, <1>12,
     <1>13, <1>14 DEF Next, ServiceStep, HostStep

LEMMA TypeInit == Init => TypeOK
<1>1. ASSUME Init PROVE TypeOK
  <2>1. fd \in Numbers /\ made \in 0..MaxConnects
    BY <1>1, ZeroIsNumber, ParametersAssumption DEF Init
  <2>2. toHost \in [Conns -> Seq(Messages)] /\ clears \in [Conns -> Nat]
    BY <1>1 DEF Init
  <2>3. files \in [Numbers -> {Input, Free, Other, Dead} \cup {Socket(c) : c \in Conns}]
    BY <1>1 DEF Init
  <2>4. move \in Values /\ hostMove \in Values /\ forwarded \in Values
    BY <1>1, ParametersAssumption DEF Init
  <2>5. open \in [Conns -> BOOLEAN] /\ burst \in BOOLEAN /\ autoBurst \in BOOLEAN
        /\ clean \in BOOLEAN
    BY <1>1 DEF Init
  <2> QED
    BY <1>1, <2>1, <2>2, <2>3, <2>4, <2>5 DEF Init, TypeOK
<1> QED BY <1>1

\* The variables keep their types; in particular no error result of socket is
\* ever taken for a number.
THEOREM TypeCorrect == Spec => []TypeOK
  BY TypeInit, TypeStep, PTL DEF Spec

-----------------------------------------------------------------------------
(* The descriptor.                                                         *)

\* What the adapter's number refers to: in a program that connects before it
\* disconnects, standard input keeps number 0, a connection has another one,
\* and that one is the connection made last.
DescriptorInv ==
    /\ link = "linked" => made \in Conns /\ files[fd] = Socket(made)
    /\ link = "none" => fd = 0
    /\ Orderly => /\ files[0] = Input
                  /\ link = "linked" => fd > 0

\* Actions that leave the adapter alone leave the invariant alone.
LEMMA AdapterUnchanged == DescriptorInv /\ UNCHANGED adapter => DescriptorInv'
  BY DEF DescriptorInv, adapter

LEMMA DescriptorStep == TypeOK /\ DescriptorInv /\ [Next]_vars => DescriptorInv'
<1> SUFFICES ASSUME TypeOK, DescriptorInv, [Next]_vars PROVE DescriptorInv'
  OBVIOUS
<1> USE ParametersAssumption
<1>0. 0 \in Numbers /\ Input # Free
  BY ZeroIsNumber DEF Input, Free
<1>1. ASSUME UNCHANGED adapter PROVE DescriptorInv'
  BY <1>1, AdapterUnchanged
<1>2. ASSUME ConnectNoSocket PROVE DescriptorInv'
  BY <1>2 DEF ConnectNoSocket, DescriptorInv
<1>3. ASSUME ConnectRefused PROVE DescriptorInv'
  <2>1. PICK n \in Numbers : Lowest(n) /\ files' = [files EXCEPT ![n] = Dead]
    BY <1>3 DEF ConnectRefused
  <2>2. Orderly => files'[0] = Input
    BY <1>0, <2>1 DEF Lowest, DescriptorInv, TypeOK
  <2> QED BY <1>3, <2>2 DEF ConnectRefused, DescriptorInv
<1>4. ASSUME NEW b \in BOOLEAN, Connect(b) PROVE DescriptorInv'
  <2>1. PICK n \in Numbers : /\ Lowest(n) /\ fd' = n
                             /\ files' = [files EXCEPT ![n] = Socket(made + 1)]
    BY <1>4 DEF Connect
  <2>2. made' \in Conns /\ made' = made + 1
    BY <1>4 DEF Connect, Conns, TypeOK
  <2>3. files'[fd'] = Socket(made')
    BY <2>1, <2>2 DEF TypeOK
  <2>4. Orderly => files'[0] = Input /\ n # 0
    BY <1>0, <2>1 DEF Lowest, DescriptorInv, TypeOK
  <2>5. Orderly => fd' > 0
    BY <2>1, <2>4 DEF Numbers
  <2> QED BY <1>4, <2>2, <2>3, <2>4, <2>5 DEF Connect, DescriptorInv
<1>5. ASSUME Disconnect PROVE DescriptorInv'
  <2>1. Orderly => fd > 0
    BY <1>5 DEF Disconnect, DescriptorInv
  <2>2. Orderly => files'[0] = Input
    BY <1>0, <1>5, <2>1 DEF Disconnect, DescriptorInv, TypeOK
  <2> QED BY <1>5, <2>2 DEF Disconnect, DescriptorInv
<1>6. ASSUME OpenOther PROVE DescriptorInv'
  <2>1. PICK n \in Numbers : Lowest(n) /\ files' = [files EXCEPT ![n] = Other]
    BY <1>6 DEF OpenOther
  <2>2. Orderly => files'[0] = Input
    BY <1>0, <2>1 DEF Lowest, DescriptorInv, TypeOK
  <2>3. link = "linked" => files'[fd] = files[fd]
    <3>1. Socket(made) # Free
      BY DEF Socket, Free
    <3> QED BY <2>1, <3>1 DEF Lowest, DescriptorInv, TypeOK
  <2> QED BY <1>6, <2>2, <2>3 DEF OpenOther, DescriptorInv
<1> QED
  BY <1>1, <1>2, <1>3, <1>4, <1>5, <1>6 DEF Next, ServiceStep, HostStep, SetMove, Ask,
     SetOption, Service, ServiceRead, InputArrives, HostHandle, HostClose, vars

LEMMA DescriptorCorrect == Spec => [](TypeOK /\ DescriptorInv)
<1>1. Init => TypeOK /\ DescriptorInv
  <2>1. Init => TypeOK
    BY TypeInit
  <2>2. Init => DescriptorInv
    BY ZeroIsNumber DEF Init, DescriptorInv
  <2> QED BY <2>1, <2>2
<1> QED BY <1>1, TypeStep, DescriptorStep, PTL DEF Spec

\* A program that disconnects only while connected never writes to or reads
\* from another file of its own before it has disconnected.
THEOREM ForeignOnlyWhenGoneCorrect ==
    ASSUME Orderly = TRUE PROVE Spec => []ForeignOnlyWhenGone
<1>1. TypeOK /\ DescriptorInv => ForeignOnlyWhenGone
  BY DEF TypeOK, DescriptorInv, ForeignOnlyWhenGone, Input, Other, Socket
<1> QED BY <1>1, DescriptorCorrect, PTL

\* A change that is made while connected goes to the connection made last.
THEOREM LinkedSendsCorrect ==
    ASSUME Orderly = TRUE PROVE Spec => LinkedSends
<1>1. ASSUME TypeOK, DescriptorInv, NEW v \in Values, SetMove(v), link = "linked",
             open[made], Len(toHost[made]) < Capacity
      PROVE  toHost'[made] = Append(toHost[made], MoveTo(v))
  <2>1. fd > 0 /\ made \in Conns /\ files[fd] = Socket(made)
    BY <1>1 DEF DescriptorInv
  <2>2. Connection = made /\ made # 0
    BY <2>1 DEF Connection, Socket, Conns
  <2>3. Reaches
    BY <1>1, <2>1, <2>2 DEF Reaches
  <2> QED
    BY <1>1, <2>1, <2>2, <2>3 DEF SetMove, Transmit, TypeOK
<1>2. TypeOK /\ DescriptorInv =>
        [\A v \in Values :
          SetMove(v) /\ link = "linked" /\ open[made] /\ Len(toHost[made]) < Capacity
          => toHost'[made] = Append(toHost[made], MoveTo(v))]_vars
  BY <1>1
<1> QED BY <1>2, DescriptorCorrect, PTL DEF LinkedSends

-----------------------------------------------------------------------------
(* The stream.                                                             *)

\* A host that has h and takes the first k messages of q then has v.
Shows(q, h, k, v) ==
    \/ \E j \in 1..k : q[j] = MoveTo(v) /\ \A i \in j + 1..k : q[i].kind # "MOVE"
    \/ v = h /\ \A i \in 1..k : q[i].kind # "MOVE"

StreamInv ==
    clean => /\ link = "linked"
             /\ \A c \in Conns \ {made} : toHost[c] = <<>>
             /\ Shows(toHost[made], hostMove, Len(toHost[made]), move)
             /\ \A i \in 1..Len(toHost[made]) : toHost[made][i].kind = "BURST"
                   => Shows(toHost[made], hostMove, i - 1, toHost[made][i].val)

\* The next lemmas say how Shows goes with messages that come and are taken.
LEMMA ShowsAppend ==
    ASSUME NEW M, NEW q \in Seq(M), NEW msg \in M, NEW h, NEW v,
           NEW k \in 0..Len(q), Shows(q, h, k, v)
    PROVE  Shows(Append(q, msg), h, k, v)
<1>1. \A i \in 1..k : Append(q, msg)[i] = q[i]
  OBVIOUS
<1> QED BY <1>1 DEF Shows

LEMMA ShowsMove ==
    ASSUME NEW M, NEW q \in Seq(M), NEW h, NEW v, MoveTo(v) \in M
    PROVE  Shows(Append(q, MoveTo(v)), h, Len(q) + 1, v)
<1>1. Append(q, MoveTo(v))[Len(q) + 1] = MoveTo(v)
  OBVIOUS
<1>2. Len(q) + 1 \in 1..Len(q) + 1
  OBVIOUS
<1>3. Len(q) + 1 + 1..Len(q) + 1 = {}
  OBVIOUS
<1> QED BY <1>1, <1>2, <1>3 DEF Shows

LEMMA ShowsOther ==
    ASSUME NEW M, NEW q \in Seq(M), NEW msg \in M, msg.kind # "MOVE",
           NEW h, NEW v, Shows(q, h, Len(q), v)
    PROVE  Shows(Append(q, msg), h, Len(q) + 1, v)
<1> DEFINE r == Append(q, msg)
<1>1. \A i \in 1..Len(q) : r[i] = q[i]
  OBVIOUS
<1>2. r[Len(q) + 1] = msg
  OBVIOUS
<1>3. CASE v = h /\ \A i \in 1..Len(q) : q[i].kind # "MOVE"
  <2>1. \A i \in 1..Len(q) + 1 : r[i].kind # "MOVE"
    BY <1>1, <1>2, <1>3
  <2> QED BY <1>3, <2>1 DEF Shows
<1>4. ASSUME NEW j \in 1..Len(q), q[j] = MoveTo(v),
             \A i \in j + 1..Len(q) : q[i].kind # "MOVE"
      PROVE  Shows(r, h, Len(q) + 1, v)
  <2>1. r[j] = MoveTo(v) /\ j \in 1..Len(q) + 1
    BY <1>1, <1>4
  <2>2. \A i \in j + 1..Len(q) + 1 : r[i].kind # "MOVE"
    BY <1>1, <1>2, <1>4
  <2> QED BY <2>1, <2>2 DEF Shows
<1> QED BY <1>3, <1>4 DEF Shows

LEMMA ShowsTail ==
    ASSUME NEW M, NEW q \in Seq(M), q # <<>>, NEW h, NEW v,
           NEW k \in 1..Len(q), Shows(q, h, k, v)
    PROVE  Shows(Tail(q), IF Head(q).kind = "MOVE" THEN Head(q).val ELSE h, k - 1, v)
<1> DEFINE t == Tail(q)
           g == IF Head(q).kind = "MOVE" THEN Head(q).val ELSE h
<1>1. Head(q) = q[1] /\ Len(t) = Len(q) - 1 /\ \A i \in 1..Len(q) - 1 : t[i] = q[i + 1]
  OBVIOUS
<1>2. CASE v = h /\ \A i \in 1..k : q[i].kind # "MOVE"
  <2>1. g = h
    BY <1>1, <1>2
  <2>2. \A i \in 1..k - 1 : t[i].kind # "MOVE"
    <3>1. ASSUME NEW i \in 1..k - 1 PROVE t[i].kind # "MOVE"
      <4>1. i + 1 \in 1..k /\ i \in 1..Len(q) - 1
        OBVIOUS
      <4> QED BY <1>1, <1>2, <4>1
    <3> QED BY <3>1
  <2> QED BY <1>2, <2>1, <2>2 DEF Shows
<1>3. ASSUME NEW j \in 1..k, q[j] = MoveTo(v),
             \A i \in j + 1..k : q[i].kind # "MOVE"
      PROVE  Shows(t, g, k - 1, v)
  <2>1. \A i \in j..k - 1 : t[i].kind # "MOVE"
    <3>1. ASSUME NEW i \in j..k - 1 PROVE t[i].kind # "MOVE"
      <4>1. i + 1 \in j + 1..k /\ i \in 1..Len(q) - 1
        OBVIOUS
      <4> QED BY <1>1, <1>3, <4>1
    <3> QED BY <3>1
  <2>2. CASE j = 1
    <3>1. g = v
      BY <1>1, <1>3, <2>2 DEF MoveTo
    <3> QED BY <2>1, <2>2, <3>1 DEF Shows
  <2>3. CASE j # 1
    <3>1. j - 1 \in 1..k - 1 /\ j - 1 \in 1..Len(q) - 1 /\ (j - 1) + 1 = j
      BY <2>3
    <3>2. t[j - 1] = MoveTo(v)
      BY <1>1, <1>3, <3>1
    <3>3. \A i \in (j - 1) + 1..k - 1 : t[i].kind # "MOVE"
      BY <2>1, <3>1
    <3> QED BY <3>1, <3>2, <3>3 DEF Shows
  <2> QED BY <2>2, <2>3
<1> QED BY <1>2, <1>3 DEF Shows

\* A message that the adapter sends, when it fits: it goes to the end of the one
\* stream there is.
LEMMA StreamTransmit ==
    ASSUME TypeOK, DescriptorInv, StreamInv, NEW msg \in Messages, NEW place,
           Transmit(msg, place), UNCHANGED <<made, hostMove, link>>,
           clean => Shows(Append(toHost[made], msg), hostMove, Len(toHost[made]) + 1, move'),
           msg.kind = "BURST" /\ clean
             => Shows(toHost[made], hostMove, Len(toHost[made]), msg.val)
    PROVE  StreamInv'
<1> SUFFICES ASSUME clean' PROVE StreamInv'
  BY DEF StreamInv
<1> DEFINE q == toHost[made]
           r == Append(q, msg)
<1>1. clean /\ Reaches
  BY DEF Transmit, TypeOK
<1>2. link = "linked" /\ made \in Conns /\ q \in Seq(Messages)
  BY <1>1 DEF StreamInv, DescriptorInv, TypeOK
<1>3. Connection = made
  BY <1>2 DEF DescriptorInv, Connection, Socket
<1>4. toHost' = [toHost EXCEPT ![made] = r]
  BY <1>1, <1>3 DEF Transmit
<1>5. toHost'[made] = r /\ \A c \in Conns \ {made} : toHost'[c] = <<>>
  BY <1>1, <1>2, <1>4 DEF StreamInv, TypeOK
<1>6. Len(r) = Len(q) + 1 /\ r[Len(q) + 1] = msg /\ \A i \in 1..Len(q) : r[i] = q[i]
  BY <1>2
<1>7. ASSUME NEW i \in 1..Len(r), r[i].kind = "BURST"
      PROVE  Shows(r, hostMove, i - 1, r[i].val)
  <2>1. CASE i = Len(q) + 1
    <3>1. Shows(q, hostMove, Len(q), r[i].val)
      BY <1>1, <1>6, <1>7, <2>1
    <3>2. Len(q) \in 0..Len(q) /\ i - 1 = Len(q)
      BY <1>2, <2>1
    <3> HIDE DEF q
    <3> QED BY <1>2, <3>1, <3>2, ShowsAppend
  <2>2. CASE i \in 1..Len(q)
    <3>1. r[i] = q[i] /\ i - 1 \in 0..Len(q)
      BY <1>2, <1>6, <2>2
    <3>2. Shows(q, hostMove, i - 1, r[i].val)
      BY <1>1, <1>7, <2>2, <3>1 DEF StreamInv
    <3> HIDE DEF q
    <3> QED BY <1>2, <3>1, <3>2, ShowsAppend
  <2> QED BY <1>2, <1>6, <1>7, <2>1, <2>2
<1>8. Shows(r, hostMove, Len(r), move')
  BY <1>1, <1>6
<1>9. made' = made /\ hostMove' = hostMove /\ link' = "linked"
  BY <1>2
<1> QED BY <1>5, <1>7, <1>8, <1>9 DEF StreamInv

\* Actions that touch neither the streams nor what they are about.
LEMMA StreamUnchanged ==
    StreamInv /\ UNCHANGED <<clean, link, made, toHost, hostMove, move>> => StreamInv'
  BY DEF StreamInv, Shows

\* What the host takes, it then has.
LEMMA StreamHandle ==
    ASSUME TypeOK, DescriptorInv, StreamInv, NEW c \in Conns, HostHandle(c)
    PROVE  StreamInv'
<1> SUFFICES ASSUME clean' PROVE StreamInv'
  BY DEF StreamInv
<1> DEFINE q == toHost[c]
           t == Tail(q)
           g == IF Head(q).kind = "MOVE" THEN Head(q).val ELSE hostMove
<1>1. clean /\ UNCHANGED <<link, made, move>> /\ hostMove' = g
  BY DEF HostHandle, adapter, program
<1>2. c = made /\ q # <<>> /\ q \in Seq(Messages)
  BY <1>1 DEF HostHandle, StreamInv, TypeOK
<1>3. Len(q) \in 1..Len(q) /\ Len(t) = Len(q) - 1
      /\ \A i \in 1..Len(t) : t[i] = q[i + 1] /\ i + 1 \in 1..Len(q) /\ i \in 1..Len(q)
  BY <1>2
<1>4. toHost'[c] = t /\ \A d \in Conns \ {c} : toHost'[d] = <<>>
  BY <1>1, <1>2 DEF HostHandle, StreamInv, TypeOK
<1>5. Shows(t, g, Len(t), move)
  <2>1. Shows(q, hostMove, Len(q), move)
    BY <1>1, <1>2 DEF StreamInv
  <2> HIDE DEF q
  <2> QED BY <1>2, <1>3, <2>1, ShowsTail
<1>6. ASSUME NEW i \in 1..Len(t), t[i].kind = "BURST"
      PROVE  Shows(t, g, i - 1, t[i].val)
  <2>1. t[i] = q[i + 1] /\ i + 1 \in 1..Len(q) /\ i \in 1..Len(q)
    BY <1>3
  <2>2. Shows(q, hostMove, (i + 1) - 1, t[i].val)
    BY <1>1, <1>2, <1>6, <2>1 DEF StreamInv
  <2>3. Shows(q, hostMove, i, t[i].val)
    BY <2>2, <2>1
  <2> HIDE DEF q
  <2> QED BY <1>2, <2>1, <2>3, ShowsTail
<1>7. link = "linked"
  BY <1>1 DEF StreamInv
<1> QED BY <1>1, <1>2, <1>4, <1>5, <1>6, <1>7 DEF StreamInv

LEMMA StreamStep ==
    TypeOK /\ DescriptorInv /\ StreamInv /\ [Next]_vars => StreamInv'
<1> SUFFICES ASSUME TypeOK, DescriptorInv, StreamInv, [Next]_vars PROVE StreamInv'
  OBVIOUS
<1>0. clean => made \in Conns /\ toHost[made] \in Seq(Messages)
  BY DEF StreamInv, DescriptorInv, TypeOK
<1>1. ASSUME NEW v \in Values, SetMove(v) PROVE StreamInv'
  <2>1. Transmit(MoveTo(v), "running") /\ UNCHANGED <<made, hostMove, link>> /\ move' = v
    BY <1>1 DEF SetMove, adapter, host
  <2>2. MoveTo(v) \in Messages /\ MoveTo(v).kind # "BURST"
    BY DEF Messages, MoveTo
  <2>3. clean => Shows(Append(toHost[made], MoveTo(v)), hostMove,
                       Len(toHost[made]) + 1, move')
    BY <1>0, <2>1, <2>2, ShowsMove
  <2> QED BY <2>1, <2>2, <2>3, StreamTransmit
<1>2. ASSUME Ask PROVE StreamInv'
  <2>1. Transmit(Control, "running") /\ UNCHANGED <<made, hostMove, link, move>>
    BY <1>2 DEF Ask, adapter, host, program
  <2>2. Control \in Messages /\ Control.kind = "CONTROL"
    BY DEF Messages, Control
  <2>3. clean => Shows(toHost[made], hostMove, Len(toHost[made]), move)
    BY DEF StreamInv
  <2>4. clean => Shows(Append(toHost[made], Control), hostMove,
                       Len(toHost[made]) + 1, move')
    BY <1>0, <2>1, <2>2, <2>3, ShowsOther
  <2> QED BY <2>1, <2>2, <2>4, StreamTransmit
<1>3. ASSUME Service PROVE StreamInv'
  <2>1. CASE autoBurst /\ ~burst
    <3>1. Transmit(BurstOf(move), "waiting") /\ UNCHANGED <<made, hostMove, link, move>>
      BY <1>3, <2>1 DEF Service, adapter, host
    <3>2. BurstOf(move) \in Messages /\ BurstOf(move).kind = "BURST"
          /\ BurstOf(move).val = move
      BY DEF Messages, BurstOf, TypeOK
    <3>3. clean => Shows(toHost[made], hostMove, Len(toHost[made]), move)
      BY DEF StreamInv
    <3>4. clean => Shows(Append(toHost[made], BurstOf(move)), hostMove,
                         Len(toHost[made]) + 1, move')
      BY <1>0, <3>1, <3>2, <3>3, ShowsOther
    <3> QED BY <3>1, <3>2, <3>3, <3>4, StreamTransmit
  <2>2. CASE ~(autoBurst /\ ~burst)
    BY <1>3, <2>2, StreamUnchanged DEF Service, adapter, host
  <2> QED BY <2>1, <2>2
<1>4. ASSUME NEW b \in BOOLEAN, Connect(b) PROVE StreamInv'
  <2> SUFFICES ASSUME clean' PROVE StreamInv'
    BY DEF StreamInv
  <2>1. /\ hostMove = move /\ hostMove' = hostMove /\ move' = move /\ link' = "linked"
        /\ \A c \in Conns : toHost[c] = <<>>
    BY <1>4 DEF Connect, program
  <2>2. made' = made + 1 /\ made' \in Conns
    BY <1>4, ParametersAssumption DEF Connect, Conns, TypeOK
  <2>3. /\ \A c \in Conns \ {made'} : toHost'[c] = <<>>
        /\ toHost'[made'] \in {<<>>, <<Control>>}
    BY <1>4, <2>1, <2>2 DEF Connect, TypeOK
  <2>4. \A i \in 1..Len(toHost'[made']) : toHost'[made'][i].kind = "CONTROL"
    <3>1. CASE toHost'[made'] = <<>>
      BY <3>1
    <3>2. CASE toHost'[made'] = <<Control>>
      BY <3>2 DEF Control
    <3> QED BY <2>3, <3>1, <3>2
  <2>5. Shows(toHost'[made'], hostMove', Len(toHost'[made']), move')
    BY <2>1, <2>4 DEF Shows
  <2> QED BY <2>1, <2>3, <2>4, <2>5 DEF StreamInv
<1>5. ASSUME ConnectNoSocket \/ ConnectRefused \/ Disconnect \/ \E c \in Conns : HostClose(c)
      PROVE  StreamInv'
  BY <1>5 DEF ConnectNoSocket, ConnectRefused, Disconnect, HostClose, StreamInv
<1>6. ASSUME \/ \E b \in BOOLEAN : SetOption(b)
             \/ ServiceRead \/ InputArrives \/ OpenOther \/ UNCHANGED vars
      PROVE  StreamInv'
  BY <1>6, StreamUnchanged DEF SetOption, ServiceRead, InputArrives, OpenOther, vars,
     program, adapter, host
<1>7. ASSUME NEW c \in Conns, HostHandle(c) PROVE StreamInv'
  BY <1>7, StreamHandle
<1> QED
  BY <1>1, <1>2, <1>3, <1>4, <1>5, <1>6, <1>7 DEF Next, ServiceStep, HostStep

\* On a connection that lost nothing, a burst makes the host forward the movement
\* of the frame that sent it, whatever was set or sent in between.
THEOREM BurstMeansItsFrameCorrect == Spec => BurstMeansItsFrame
<1>1. Init => StreamInv
  BY DEF Init, StreamInv
<1>2. Spec => []StreamInv
  BY <1>1, DescriptorCorrect, StreamStep, PTL DEF Spec
<1>3. ASSUME TypeOK, StreamInv, NEW c \in Conns, HostHandle(c), clean,
             Head(toHost[c]).kind = "BURST"
      PROVE  forwarded' = Head(toHost[c]).val
  <2>1. c = made /\ toHost[c] # <<>> /\ toHost[c] \in Seq(Messages)
    BY <1>3 DEF HostHandle, StreamInv, TypeOK
  <2>2. Head(toHost[c]) = toHost[c][1] /\ 1 \in 1..Len(toHost[c]) /\ 1 - 1 = 0
    BY <2>1
  <2>3. Shows(toHost[c], hostMove, 0, Head(toHost[c]).val)
    BY <1>3, <2>1, <2>2 DEF StreamInv
  <2>4. Head(toHost[c]).val = hostMove
    BY <2>3 DEF Shows
  <2> QED BY <1>3, <2>4 DEF HostHandle
<1>4. TypeOK /\ StreamInv =>
        [\A c \in Conns : HostHandle(c) /\ clean /\ Head(toHost[c]).kind = "BURST"
           => forwarded' = Head(toHost[c]).val]_vars
  BY <1>3
<1> QED BY <1>2, <1>4, TypeCorrect, PTL DEF BurstMeansItsFrame
=============================================================================
