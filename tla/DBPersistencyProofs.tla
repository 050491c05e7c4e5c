------------------------ MODULE DBPersistencyProofs ------------------------
(***************************************************************************)
(* Proofs about DBPersistency, for every trigger, with failing opens,      *)
(* spurious wake-ups and a program that does not wait for the worker, and   *)
(* about Capture, whose program may be one that does.                      *)
(***************************************************************************)
EXTENDS Capture, TLAPS

\* A transaction makes one row of each record of the queue, in their order.
LEMMA WrittenRows ==
    ASSUME TypeOK
    PROVE  /\ Written \in Seq(Rows) /\ Len(Written) = Len(queue)
           /\ \A i \in DOMAIN queue : Written[i].id = queue[i].id
<1>1. Len(queue) \in Nat /\ DOMAIN queue = 1..Len(queue)
  BY DEF TypeOK
<1>2. session \in Nat
  BY ParametersAssumption DEF TypeOK
<1>3. \A i \in DOMAIN queue : queue[i] \in Records
  BY DEF TypeOK
<1>4. \A i \in DOMAIN queue :
         [id |-> queue[i].id, session |-> queue[i].session,
          val |-> queue[i].val, file |-> session] \in Rows
  BY <1>2, <1>3 DEF Records, Rows
<1>5. Written \in [1..Len(queue) -> Rows]
  BY <1>1, <1>4 DEF Written
<1>6. Written \in Seq(Rows) /\ Len(Written) = Len(queue)
  BY <1>1, <1>5
<1> QED
  BY <1>6 DEF Written

\* Whatever holds of the elements of two sequences holds of those of both.
LEMMA Appended ==
    ASSUME NEW S, NEW r \in Seq(S), NEW w \in Seq(S)
    PROVE  /\ Len(r \o w) = Len(r) + Len(w)
           /\ DOMAIN (r \o w) = 1..(Len(r) + Len(w))
           /\ \A i \in 1..Len(r) : (r \o w)[i] = r[i]
           /\ \A i \in 1..Len(w) : (r \o w)[Len(r) + i] = w[i]
           /\ \A i \in DOMAIN (r \o w) : \/ i \in 1..Len(r) /\ (r \o w)[i] = r[i]
                                        \/ \E j \in 1..Len(w) : (r \o w)[i] = w[j]
<1>1. Len(r) \in Nat /\ Len(w) \in Nat
  OBVIOUS
<1>2. /\ Len(r \o w) = Len(r) + Len(w)
      /\ DOMAIN (r \o w) = 1..(Len(r) + Len(w))
      /\ \A i \in 1..Len(r) : (r \o w)[i] = r[i]
      /\ \A i \in 1..Len(w) : (r \o w)[Len(r) + i] = w[i]
  OBVIOUS
<1>3. ASSUME NEW i \in DOMAIN (r \o w), i \notin 1..Len(r)
      PROVE  \E j \in 1..Len(w) : (r \o w)[i] = w[j]
  <2>1. i - Len(r) \in 1..Len(w) /\ i = Len(r) + (i - Len(r))
    BY <1>1, <1>2, <1>3
  <2> QED
    BY <1>2, <2>1
<1> QED
  BY <1>2, <1>3

\* What that makes of the rows.
LEMMA RowsAppended ==
    ASSUME TypeOK, rows' = rows \o Written
    PROVE  /\ Len(rows') = Len(rows) + Len(queue)
           /\ DOMAIN rows' = 1..(Len(rows) + Len(queue))
           /\ \A i \in 1..Len(rows) : rows'[i] = rows[i]
           /\ \A i \in 1..Len(queue) : rows'[Len(rows) + i] = Written[i]
           /\ \A i \in DOMAIN rows' : \/ i \in 1..Len(rows) /\ rows'[i] = rows[i]
                                    \/ \E j \in 1..Len(queue) : rows'[i] = Written[j]
<1>1. rows \in Seq(Rows) /\ Written \in Seq(Rows) /\ Len(Written) = Len(queue)
  BY WrittenRows DEF TypeOK
<1>2. ASSUME NEW r \in Seq(Rows), NEW w \in Seq(Rows), Len(w) = Len(queue),
             rows = r, rows' = r \o w, Written = w
      PROVE  /\ Len(rows') = Len(rows) + Len(queue)
             /\ DOMAIN rows' = 1..(Len(rows) + Len(queue))
             /\ \A i \in 1..Len(rows) : rows'[i] = rows[i]
             /\ \A i \in 1..Len(queue) : rows'[Len(rows) + i] = Written[i]
             /\ \A i \in DOMAIN rows' : \/ i \in 1..Len(rows) /\ rows'[i] = rows[i]
                                      \/ \E j \in 1..Len(queue) : rows'[i] = Written[j]
  <2>1. /\ Len(r \o w) = Len(r) + Len(w)
        /\ DOMAIN (r \o w) = 1..(Len(r) + Len(w))
        /\ \A i \in 1..Len(r) : (r \o w)[i] = r[i]
        /\ \A i \in 1..Len(w) : (r \o w)[Len(r) + i] = w[i]
        /\ \A i \in DOMAIN (r \o w) : \/ i \in 1..Len(r) /\ (r \o w)[i] = r[i]
                                     \/ \E j \in 1..Len(w) : (r \o w)[i] = w[j]
    BY Appended
  <2> QED
    BY <1>2, <2>1
<1> QED
  BY <1>1, <1>2

\* The steps with which the policy may go; if it does so does its queue.
LEMMA Leaving ==
    ASSUME Start \/ Destroy \/ Join
    PROVE  /\ UNCHANGED <<counter, rows, accepted, parked>>
           /\ caller \notin Gone
           /\ queue' = IF caller' \in Gone THEN <<>> ELSE queue
BY DEF Start, Destroy, Join, Free, Left, Gone

LEMMA LeavingTypes ==
    ASSUME TypeOK, Start \/ Destroy \/ Join
    PROVE  queue' \in Seq(Records) /\ UNCHANGED <<counter, rows, accepted, parked>>
<1>1. <<>> \in Seq(Records) /\ queue \in Seq(Records)
  BY DEF TypeOK
<1> QED
  BY <1>1, Leaving

\* The flags and queues have the declared types; the trigger counter never
\* passes the trigger.
THEOREM TypeCorrect == Spec => []TypeOK
<1>1. Init => TypeOK
  <2> SUFFICES ASSUME Init PROVE TypeOK
    OBVIOUS
  <2>1. queue \in Seq(Records) /\ rows \in Seq(Rows)
    BY DEF Init
  <2>2. 0 \in 0..Trigger /\ 0 \in 0..MaxPushes /\ 0 \in 0..0
    BY ParametersAssumption
  <2> QED
    BY <2>1, <2>2 DEF Init, TypeOK, CallerPlaces, WorkerPlaces
<1>2. TypeOK /\ [Next]_vars => TypeOK'
  <2> SUFFICES ASSUME TypeOK, [Next]_vars PROVE TypeOK'
    OBVIOUS
  <2> USE DEF CallerPlaces, WorkerPlaces
  <2>0. /\ Trigger \in Nat /\ MaxPushes \in Nat /\ MaxSessions \in Nat
        /\ accepted \in Nat /\ parked \in Nat /\ session \in Nat /\ counter \in Nat
    BY ParametersAssumption DEF TypeOK
  <2>1. ASSUME NEW c \in Contents, Push(c) PROVE TypeOK'
    <3>1. [id |-> accepted + 1, session |-> session, val |-> c] \in Records
      BY <2>0 DEF Records
    <3>2. queue' \in Seq(Records)
      BY <2>1, <3>1 DEF Push, TypeOK
    <3>3. accepted' \in 0..MaxPushes /\ parked' \in 0..accepted'
      BY <2>0, <2>1 DEF Push, TypeOK
    <3>4. counter' \in 0..Trigger /\ worker' \in WorkerPlaces
      BY <2>0, <2>1 DEF Push, Notified, TypeOK
    <3> QED
      BY <2>1, <3>2, <3>3, <3>4 DEF Push, flags, TypeOK
  <2>2. CASE Enable
    BY <2>2 DEF Enable, flags, data, TypeOK
  <2>3. CASE Disable
    BY <2>3 DEF Disable, flags, data, TypeOK
  <2>4. CASE Destroy
    BY <2>4, LeavingTypes DEF Destroy, Destroyed, flags, TypeOK
  <2>5. CASE Start
    <3>1. CASE joinable
      BY <2>5, <3>1, LeavingTypes DEF Start, TypeOK
    <3>2. CASE ~joinable
      <4>1. /\ caller' = "idle" /\ worker' = "born" /\ session' = session + 1
            /\ joinable' = TRUE /\ wanted' = TRUE
        BY <2>5, <3>2, Zenon DEF Start
      <4>2. /\ stop' = FALSE /\ closing' = closing /\ running' = running
            /\ counter' = counter /\ queue' \in Seq(Records) /\ rows' = rows
            /\ accepted' = accepted /\ parked' = parked
        BY <2>5, LeavingTypes DEF Start
      <4>3. session' \in Nat
        BY <2>0, <4>1
      <4> QED
        BY <4>1, <4>2, <4>3 DEF TypeOK
    <3> QED
      BY <3>1, <3>2
  <2>6. CASE SetStop
    BY <2>6 DEF SetStop, data, TypeOK
  <2>7. CASE NotifyAll
    BY <2>7 DEF NotifyAll, Notified, flags, data, TypeOK
  <2>8. CASE Join
    BY <2>8, LeavingTypes DEF Join, Destroyed, TypeOK
  <2>9. CASE Run
    BY <2>9 DEF Run, data, TypeOK
  <2>10. CASE Open \/ OpenFails \/ Loop \/ WakeUp
    BY <2>10 DEF Open, OpenFails, Loop, WakeUp, flags, data, TypeOK
  <2>11. CASE Finish
    BY <2>11 DEF Finish, data, TypeOK
  <2>12. CASE Wait
    BY <2>0, <2>12 DEF Wait, flags, data, TypeOK
  <2>13. CASE Write
    <3>1. rows' = rows \o Written /\ queue' = <<>>
      BY <2>13 DEF Write
    <3>2. rows' \in Seq(Rows) /\ queue' \in Seq(Records)
      BY <3>1, WrittenRows DEF TypeOK
    <3> QED
      BY <2>13, <3>2 DEF Write, flags, TypeOK
  <2>14. CASE UNCHANGED vars
    BY <2>14 DEF vars, flags, data, TypeOK
  <2> QED
    BY <2>1, <2>2, <2>3, <2>4, <2>5, <2>6, <2>7, <2>8, <2>9, <2>10, <2>11, <2>12, <2>13,
       <2>14 DEF Next, CallerStep, WorkerStep
<1> QED
  BY <1>1, <1>2, PTL DEF Spec

\* As long as there is a policy every record taken is queued or written exactly
\* once, in the order of the pushes, whatever the threads do to each other; what
\* is written when it goes are the first of them.
THEOREM ConservationCorrect == Spec => []Conservation
<1>1. Init => Conservation
  BY DEF Init, Conservation, Gone
<1>2. TypeOK /\ Conservation /\ [Next]_vars => Conservation'
  <2> SUFFICES ASSUME TypeOK, Conservation, [Next]_vars PROVE Conservation'
    OBVIOUS
  <2>1. /\ Len(queue) \in Nat /\ DOMAIN queue = 1..Len(queue)
        /\ Len(rows) \in Nat /\ DOMAIN rows = 1..Len(rows)
        /\ accepted \in Nat /\ Len(rows) + Len(queue) <= accepted
    BY ParametersAssumption DEF TypeOK, Conservation
  <2>2. ASSUME NEW c \in Contents, Push(c) PROVE Conservation'
    <3> DEFINE new == [id |-> accepted + 1, session |-> session, val |-> c]
    <3>0. caller \notin Gone /\ caller' = caller /\ Len(rows) + Len(queue) = accepted
      BY <2>2 DEF Push, Free, Gone, Conservation
    <3>1. queue' = Append(queue, new) /\ rows' = rows /\ accepted' = accepted + 1
      BY <2>2 DEF Push
    <3>2. /\ Len(queue') = Len(queue) + 1
          /\ DOMAIN queue' = 1..(Len(queue) + 1)
          /\ \A i \in 1..Len(queue) : queue'[i] = queue[i]
          /\ queue'[Len(queue) + 1] = new
      BY <2>1, <3>1 DEF TypeOK
    <3>3. new.id = Len(rows) + (Len(queue) + 1)
      BY <2>1, <3>0
    <3> HIDE DEF new
    <3>4. ASSUME NEW i \in DOMAIN queue'
          PROVE  queue'[i].id = Len(rows) + i
      <4>1. CASE i \in 1..Len(queue)
        BY <2>1, <3>2, <4>1 DEF Conservation
      <4>2. CASE i = Len(queue) + 1
        BY <3>2, <3>3, <4>2
      <4> QED
        BY <2>1, <3>2, <4>1, <4>2
    <3> QED
      BY <2>1, <3>0, <3>1, <3>2, <3>4 DEF Conservation
  <2>3. CASE Write
    <3>1. rows' = rows \o Written /\ queue' = <<>> /\ UNCHANGED <<accepted, caller>>
      BY <2>3 DEF Write
    <3>2. /\ Len(rows') = Len(rows) + Len(queue)
          /\ DOMAIN rows' = 1..(Len(rows) + Len(queue))
          /\ \A i \in 1..Len(rows) : rows'[i] = rows[i]
          /\ \A i \in 1..Len(queue) : rows'[Len(rows) + i] = Written[i]
      BY <3>1, RowsAppended
    <3>3. ASSUME NEW i \in DOMAIN rows'
          PROVE  rows'[i].id = i
      <4>1. CASE i \in 1..Len(rows)
        BY <2>1, <3>2, <4>1 DEF Conservation
      <4>2. CASE i \in (Len(rows) + 1)..(Len(rows) + Len(queue))
        <5>1. PICK j \in 1..Len(queue) : i = Len(rows) + j
          <6>1. i - Len(rows) \in 1..Len(queue) /\ i = Len(rows) + (i - Len(rows))
            BY <2>1, <4>2
          <6> QED
            BY <6>1
        <5>2. Written[j].id = queue[j].id /\ queue[j].id = Len(rows) + j
          BY <2>1, WrittenRows DEF Conservation
        <5> QED
          BY <3>2, <5>1, <5>2
      <4> QED
        BY <2>1, <3>2, <4>1, <4>2
    <3>4. Len(queue') = 0 /\ DOMAIN queue' = {}
      BY <3>1
    <3> QED
      BY <2>1, <3>1, <3>2, <3>3, <3>4 DEF Conservation
  <2>4. CASE UNCHANGED <<queue, rows, accepted>> /\ (caller' \in Gone <=> caller \in Gone)
    BY <2>4 DEF Conservation
  <2>5. CASE Start \/ Destroy \/ Join
    <3>1. CASE caller' \in Gone
      <4>1. queue' = <<>> /\ rows' = rows /\ accepted' = accepted
        BY <2>5, <3>1, Leaving
      <4>2. Len(queue') = 0 /\ DOMAIN queue' = {}
        BY <4>1
      <4> QED
        BY <2>1, <3>1, <4>1, <4>2 DEF Conservation
    <3>2. CASE caller' \notin Gone
      BY <2>5, <3>2, Leaving DEF Conservation
    <3> QED
      BY <3>1, <3>2
  <2>6. ASSUME \/ Enable \/ Disable \/ SetStop \/ NotifyAll \/ WakeUp
               \/ Run \/ Open \/ OpenFails \/ Loop \/ Finish \/ Wait
        PROVE  UNCHANGED <<queue, rows, accepted>> /\ (caller' \in Gone <=> caller \in Gone)
    BY <2>6 DEF Enable, Disable, SetStop, NotifyAll, WakeUp, Run, Open, OpenFails, Loop, Finish,
                Wait, data, Free, Gone
  <2> QED
    BY <2>2, <2>3, <2>4, <2>5, <2>6 DEF Next, CallerStep, WorkerStep, vars, data
<1> QED
  BY <1>1, <1>2, TypeCorrect, PTL DEF Spec

\* While the worker sleeps the trigger counter has counted every record that
\* came in; it may also have counted some from before.
Counted == worker = "waiting" => accepted - parked <= counter

\* A sleeping worker never leaves more than Trigger of the records that came in
\* since it went to sleep.
THEOREM SleepsOnLittleCorrect == Spec => []SleepsOnLittle
<1>1. Init => Counted
  BY DEF Init, Counted
<1>2. TypeOK /\ Counted /\ [Next]_vars => Counted'
  <2> SUFFICES ASSUME TypeOK, Counted, [Next]_vars PROVE Counted'
    OBVIOUS
  <2>1. /\ accepted \in Nat /\ parked \in Nat /\ counter \in Nat /\ Trigger \in Nat
    BY ParametersAssumption DEF TypeOK
  <2>2. ASSUME NEW c \in Contents, Push(c) PROVE Counted'
    BY <2>1, <2>2 DEF Push, Notified, Counted
  <2>3. CASE Wait
    BY <2>1, <2>3 DEF Wait, data, Counted
  <2>4. CASE NotifyAll
    BY <2>4 DEF NotifyAll, Notified, data, Counted
  <2>5. CASE Run \/ Open \/ OpenFails \/ Loop \/ Finish \/ WakeUp \/ Write
    BY <2>5 DEF Run, Open, OpenFails, Loop, Finish, WakeUp, Write, Counted
  <2>6. CASE UNCHANGED <<worker, accepted, parked, counter>>
    BY <2>6 DEF Counted
  <2>7. CASE Start \/ Destroy \/ Join
    BY <2>7, Leaving DEF Start, Destroy, Join, Counted
  <2> QED
    BY <2>2, <2>3, <2>4, <2>5, <2>6, <2>7
    DEF Next, CallerStep, WorkerStep, vars, data, Enable, Disable, SetStop
<1>3. TypeOK /\ Counted => SleepsOnLittle
  <2> SUFFICES ASSUME TypeOK, Counted, worker = "waiting"
               PROVE  accepted - parked <= Trigger
    BY DEF SleepsOnLittle
  <2>1. /\ accepted \in Nat /\ parked \in Nat /\ Trigger \in Nat
        /\ counter \in Nat /\ counter <= Trigger
    BY ParametersAssumption DEF TypeOK
  <2> QED
    BY <2>1 DEF Counted
<1> QED
  BY <1>1, <1>2, <1>3, TypeCorrect, PTL DEF Spec

-----------------------------------------------------------------------------
(* Capture.                                                                *)

\* A step of Capture is one of DBPersistency or leaves it alone.
LEMMA CaptureStep == [CaptureNext]_captureVars => [Next]_vars
<1> SUFFICES ASSUME [CaptureNext]_captureVars PROVE [Next]_vars
  OBVIOUS
<1>1. ASSUME NEW v \in Contents, SetLocally(v) \/ ReceiveUnheard(v) PROVE UNCHANGED vars
  BY <1>1 DEF SetLocally, ReceiveUnheard
<1>2. ASSUME NEW v \in Contents, Receive(v) PROVE Next
  BY <1>2 DEF Receive, Next
<1>3. CASE Control \/ Mishap \/ Proceed
  BY <1>3 DEF Control, Mishap, Proceed, Next, WorkerStep
<1>4. CASE UNCHANGED captureVars
  BY <1>4 DEF captureVars
<1> QED
  BY <1>1, <1>2, <1>3, <1>4 DEF CaptureNext

\* A registry with a policy only does to it what DBPersistency allows, so that
\* what is proved there holds here.
THEOREM CaptureImplements == CaptureSpec => Spec
<1>1. CaptureInit => Init
  BY DEF CaptureInit
<1> QED
  BY <1>1, CaptureStep, PTL DEF CaptureSpec, Spec

\* Off: there is no worker and nothing is queued.  On: there is one, it is known
\* to run as soon as it does, and it has not been told to stop.
Off == worker \in {"none", "ended"} /\ ~joinable /\ ~running /\ stop /\ queue = <<>>
On  == worker \notin {"none", "ended"} /\ joinable /\ ~stop /\ (running <=> worker # "born")

\* Between two calls the policy is on or off, as the program wants it; a call
\* that stops it finds the worker waiting, and the worker that it wakes writes
\* what is queued before it sees m_stop.
Places ==
    /\ caller # "crashed"
    /\ caller = "idle" => IF wanted THEN On ELSE Off
    /\ caller \in {"starting", "destroyed"} => Off
    /\ caller = "stopping" => On /\ worker = "waiting"
    /\ caller = "notifying" => worker = "waiting" /\ joinable /\ stop /\ running
    /\ caller = "joining" => joinable /\ stop /\ (running <=> worker # "ended")
    /\ caller = "joining" => worker = "notified" \/ (worker \in {"looping", "ended"} /\ queue = <<>>)

\* What is queued was pushed in the session that is going on.
OneSession == \A i \in DOMAIN queue : queue[i].session = session

\* The destructor left nothing.
AllWritten == caller = "destroyed" => Len(rows) = accepted

Care == tame => Places /\ OneSession /\ RightFile /\ AllWritten

\* The places, step by step, as long as the policy is handled with care.
LEMMA PlacesKept ==
    ASSUME TypeOK, CaptureNext, tame => Places, tame'
    PROVE  tame /\ Places'
<1> USE DEF Off, On
<1>1. tame
  BY DEF CaptureNext, SetLocally, Receive, ReceiveUnheard, Control, Mishap, Proceed
<1>2. Places
  BY <1>1
<1> SUFFICES Places'
  BY <1>1
<1>3. ASSUME NEW v \in Contents, SetLocally(v) \/ ReceiveUnheard(v) PROVE Places'
  <2>1. UNCHANGED <<caller, worker, joinable, running, stop, queue, wanted>>
    BY <1>3 DEF SetLocally, ReceiveUnheard, vars, flags, data
  <2> QED
    BY <1>2, <2>1, Zenon DEF Places
<1>4. ASSUME NEW v \in Contents, Receive(v) PROVE Places'
  <2>1. /\ caller = "idle" /\ ~stop /\ wanted /\ On
    BY <1>2, <1>4, Zenon DEF Receive, Push, Free, Places
  <2>2. worker' \notin {"none", "ended", "born"} \/ worker' = worker
    BY <1>4 DEF Receive, Push, Notified
  <2>3. worker = "born" => worker' = worker
    BY <1>4 DEF Receive, Push, Notified
  <2> QED
    BY <1>4, <2>1, <2>2, <2>3 DEF Receive, Push, flags, Places
<1>5. CASE Control
  <2>1. caller = "idle" /\ worker \in {"none", "waiting", "ended"}
    BY <1>5 DEF Control, Enable, Disable, Destroy, Free
  <2>2. CASE Enable
    BY <1>2, <2>1, <2>2 DEF Enable, flags, data, Places
  <2>3. CASE Disable
    BY <1>2, <2>1, <2>3 DEF Disable, flags, data, Places
  <2>4. CASE Destroy
    BY <1>2, <2>1, <2>4 DEF Destroy, Destroyed, Left, flags, Places
  <2> QED
    BY <1>5, <2>2, <2>3, <2>4 DEF Control
<1>6. CASE Proceed
  <2>1. CASE Start
    BY <1>2, <2>1 DEF Start, Left, Gone, Places
  <2>2. CASE SetStop
    BY <1>2, <2>2 DEF SetStop, data, Places
  <2>3. CASE NotifyAll
    BY <1>2, <2>3 DEF NotifyAll, Notified, flags, data, Places
  <2>4. CASE Join
    BY <1>2, <2>4 DEF Join, Destroyed, Left, Places
  <2>5. CASE Run
    BY <1>2, <2>5 DEF Run, data, Places
  <2>6. CASE Open \/ Loop
    BY <1>2, <2>6 DEF Open, Loop, flags, data, Places
  <2>7. CASE Finish
    BY <1>2, <2>7 DEF Finish, data, Places
  <2>8. CASE Wait
    BY <1>2, <2>8 DEF Wait, flags, data, Places
  <2>9. CASE Write
    BY <1>2, <2>9 DEF Write, flags, Places
  <2> QED
    BY <1>6, <2>1, <2>2, <2>3, <2>4, <2>5, <2>6, <2>7, <2>8, <2>9 DEF Proceed, CallerStep
<1> QED
  BY <1>1, <1>3, <1>4, <1>5, <1>6 DEF CaptureNext, Mishap

LEMMA NothingQueued == ASSUME queue' = <<>> PROVE OneSession'
<1>1. Len(queue') = 0 /\ DOMAIN queue' = {}
  OBVIOUS
<1> QED
  BY <1>1 DEF OneSession

\* Handled with care, the policy is where the calls left it, holds records of
\* one session only and has written each into the file of its session.
THEOREM CareKept == CaptureSpec => []Care
<1>1. CaptureInit => Care
  BY DEF CaptureInit, Init, Care, Places, Off, OneSession, RightFile, AllWritten
<1>2. TypeOK /\ Conservation /\ Care /\ [CaptureNext]_captureVars => Care'
  <2> SUFFICES ASSUME TypeOK, Conservation, Care, [CaptureNext]_captureVars, tame'
               PROVE  Places' /\ OneSession' /\ RightFile' /\ AllWritten'
    BY DEF Care
  <2>1. CASE UNCHANGED captureVars
    BY <2>1 DEF captureVars, vars, flags, data, Care, Places, On, Off, OneSession, RightFile,
                AllWritten
  <2>2. CASE CaptureNext
    <3>1. tame /\ Places' /\ Places /\ OneSession /\ RightFile /\ AllWritten
      BY <2>2, PlacesKept DEF Care
    <3>2. /\ Len(queue) \in Nat /\ DOMAIN queue = 1..Len(queue)
          /\ Len(rows) \in Nat /\ DOMAIN rows = 1..Len(rows)
      BY DEF TypeOK
    <3>3. ASSUME NEW v \in Contents, Receive(v) PROVE OneSession' /\ RightFile'
      <4> DEFINE new == [id |-> accepted + 1, session |-> session, val |-> v]
      <4>1. queue' = Append(queue, new) /\ rows' = rows /\ session' = session
        BY <3>3 DEF Receive, Push
      <4>2. /\ DOMAIN queue' = 1..(Len(queue) + 1)
            /\ \A i \in 1..Len(queue) : queue'[i] = queue[i]
            /\ queue'[Len(queue) + 1] = new
        BY <3>2, <4>1 DEF TypeOK
      <4>3. new.session = session
        OBVIOUS
      <4> HIDE DEF new
      <4> QED
        BY <3>1, <3>2, <4>1, <4>2, <4>3 DEF OneSession, RightFile
    <3>4. ASSUME Start, Proceed PROVE OneSession' /\ RightFile'
      <4>1. queue = <<>> /\ queue' = <<>> /\ rows' = rows
        BY <3>1, <3>4 DEF Start, Left, Places, Off
      <4>2. OneSession'
        BY <4>1, NothingQueued
      <4> QED
        BY <3>1, <4>1, <4>2 DEF RightFile
    <3>5. ASSUME Write PROVE OneSession' /\ RightFile'
      <4>1. rows' = rows \o Written /\ queue' = <<>>
        BY <3>5 DEF Write
      <4>2. /\ Written \in Seq(Rows) /\ Len(Written) = Len(queue)
            /\ \A i \in 1..Len(queue) : Written[i].file = Written[i].session
        BY <3>1, <3>2, WrittenRows DEF Written, OneSession
      <4>3. \A i \in DOMAIN rows' : rows'[i].file = rows'[i].session
        BY <3>1, <3>2, <4>1, <4>2, RowsAppended DEF RightFile
      <4>4. OneSession'
        BY <4>1, NothingQueued
      <4> QED
        BY <4>3, <4>4 DEF RightFile
    <3>6. ASSUME queue' \in {queue, <<>>}, UNCHANGED <<rows, session>>
          PROVE  OneSession' /\ RightFile'
      <4>1. OneSession'
        BY <3>1, <3>6, NothingQueued DEF OneSession
      <4> QED
        BY <3>1, <3>6, <4>1 DEF RightFile
    <3>7. \/ \E v \in Contents : Receive(v)
          \/ Start /\ Proceed
          \/ Write
          \/ queue' \in {queue, <<>>} /\ UNCHANGED <<rows, session>>
      <4>1. ASSUME NEW v \in Contents, SetLocally(v) \/ ReceiveUnheard(v)
            PROVE  UNCHANGED <<queue, rows, session>>
        BY <4>1 DEF SetLocally, ReceiveUnheard, vars, data
      <4>2. Destroy \/ Join => queue' \in {queue, <<>>} /\ UNCHANGED <<rows, session>>
        BY Leaving DEF Destroy, Join
      <4>3. Enable \/ Disable \/ Mishap => UNCHANGED <<queue, rows, session>>
        BY DEF Mishap, Enable, Disable, OpenFails, WakeUp, data
      <4>4. SetStop \/ NotifyAll \/ Run \/ Open \/ Loop \/ Finish \/ Wait
              => UNCHANGED <<queue, rows, session>>
        BY DEF SetStop, NotifyAll, Run, Open, Loop, Finish, Wait, data
      <4> QED
        BY <2>2, <4>1, <4>2, <4>3, <4>4 DEF CaptureNext, Proceed, Control, CallerStep
    <3>8. AllWritten'
      <4> SUFFICES ASSUME caller' = "destroyed" PROVE Len(rows') = accepted'
        BY DEF AllWritten
      <4>1. CASE caller = "destroyed"
        <5>1. worker \in {"none", "ended"}
          BY <3>1, <4>1, Zenon DEF Places, Off
        <5>2. UNCHANGED <<rows, accepted>>
          BY <2>2, <4>1, <5>1
          DEF CaptureNext, SetLocally, Receive, ReceiveUnheard, Control, Mishap, Proceed,
              CallerStep, Push, Enable, Disable, Destroy, Start, SetStop, NotifyAll, Join, Run,
              Open, OpenFails, Loop, Finish, Wait, WakeUp, Write, Free, vars, data
        <5> QED
          BY <3>1, <4>1, <5>2 DEF AllWritten
      <4>2. CASE caller # "destroyed"
        <5>1. Destroy \/ Join
          BY <2>2, <4>2
          DEF CaptureNext, SetLocally, Receive, ReceiveUnheard, Control, Mishap, Proceed,
              CallerStep, Push, Enable, Disable, Start, SetStop, NotifyAll, Run,
              Open, OpenFails, Loop, Finish, Wait, WakeUp, Write, vars
        <5>2. queue = <<>>
          BY <3>1, <4>2, <5>1
          DEF Destroy, Destroyed, Join, Free, Places, On, Off
        <5>3. Len(queue) = 0 /\ Len(rows) + Len(queue) = accepted
          BY <5>1, <5>2, Leaving DEF Conservation
        <5> QED
          BY <3>2, <5>1, <5>3, Leaving
      <4> QED
        BY <4>1, <4>2
    <3> QED
      BY <3>1, <3>3, <3>4, <3>5, <3>6, <3>7, <3>8
  <2> QED
    BY <2>1, <2>2
<1> QED
  BY <1>1, <1>2, TypeCorrect, ConservationCorrect, CaptureImplements, PTL DEF CaptureSpec

\* Handled with care, no call of enable, disable or the destructor ends the
\* process.
THEOREM TameNoCrashCorrect == CaptureSpec => []TameNoCrash
<1>1. Care => TameNoCrash
  BY DEF Care, Places, TameNoCrash, NoCrash
<1> QED
  BY <1>1, CareKept, PTL

\* Handled with care, all that push has taken is in the database when the capture
\* has been turned off or the policy destroyed, though its queue goes with it.
THEOREM TameSavedWhenOffCorrect == CaptureSpec => []TameSavedWhenOff
<1>1. TypeOK /\ Conservation /\ Care => TameSavedWhenOff
  <2> SUFFICES ASSUME TypeOK, Conservation, Care, tame, stop,
                      caller \in {"idle", "destroyed"}
               PROVE  Len(rows) = accepted
    BY DEF TameSavedWhenOff, SavedWhenOff
  <2>1. CASE caller = "destroyed"
    BY <2>1 DEF Care, AllWritten
  <2>2. CASE caller = "idle"
    <3>1. queue = <<>>
      BY <2>2, Zenon DEF Care, Places, On, Off
    <3>2. Len(queue) = 0 /\ Len(rows) \in Nat /\ Len(rows) + Len(queue) = accepted
      BY <2>2, <3>1 DEF TypeOK, Conservation, Gone
    <3> QED
      BY <3>2
  <2> QED
    BY <2>1, <2>2
<1> QED
  BY <1>1, CareKept, TypeCorrect, ConservationCorrect, CaptureImplements, PTL

\* Handled with care, every record is in the file of the capture it was pushed
\* in.
THEOREM TameRightFileCorrect == CaptureSpec => []TameRightFile
<1>1. Care => TameRightFile
  BY DEF Care, TameRightFile
<1> QED
  BY <1>1, CareKept, PTL

\* Handled with care, push takes records between two calls exactly if the last
\* of enable and disable was enable.
THEOREM TameControlObeyedCorrect == CaptureSpec => []TameControlObeyed
<1>1. Care => TameControlObeyed
  BY Zenon DEF Care, Places, On, Off, TameControlObeyed, ControlObeyed, Free
<1> QED
  BY <1>1, CareKept, PTL

\* What the last record holds.
LastRecorded ==
    IF Len(queue) > 0 THEN queue[Len(queue)].val ELSE rows[Len(rows)].val

\* It is what the records, put together, end with.
LEMMA LastOfBoth ==
    ASSUME TypeOK, Len(rows) + Len(queue) > 0
    PROVE  LET records == [i \in DOMAIN rows |-> rows[i].val] \o [i \in DOMAIN queue |-> queue[i].val]
           IN  records[Len(records)] = LastRecorded
<1> DEFINE written == [i \in DOMAIN rows |-> rows[i].val]
           queued  == [i \in DOMAIN queue |-> queue[i].val]
<1>1. /\ Len(queue) \in Nat /\ DOMAIN queue = 1..Len(queue)
      /\ Len(rows) \in Nat /\ DOMAIN rows = 1..Len(rows)
  BY DEF TypeOK
<1>2. /\ \A i \in 1..Len(rows) : rows[i].val \in Contents
      /\ \A i \in 1..Len(queue) : queue[i].val \in Contents
  <2>1. /\ \A i \in 1..Len(rows) : rows[i] \in Rows
        /\ \A i \in 1..Len(queue) : queue[i] \in Records
    BY <1>1 DEF TypeOK
  <2> QED
    BY <2>1 DEF Records, Rows
<1>3. written \in Seq(Contents) /\ Len(written) = Len(rows)
  <2>1. written \in [1..Len(rows) -> Contents]
    BY <1>1, <1>2
  <2> QED
    BY <1>1, <2>1
<1>4. queued \in Seq(Contents) /\ Len(queued) = Len(queue)
  <2>1. queued \in [1..Len(queue) -> Contents]
    BY <1>1, <1>2
  <2> QED
    BY <1>1, <2>1
<1>5. /\ \A i \in 1..Len(rows) : written[i] = rows[i].val
      /\ \A i \in 1..Len(queue) : queued[i] = queue[i].val
  BY <1>1
<1> HIDE DEF written, queued
<1>6. /\ Len(written \o queued) = Len(rows) + Len(queue)
      /\ \A i \in 1..Len(rows) : (written \o queued)[i] = written[i]
      /\ \A i \in 1..Len(queue) : (written \o queued)[Len(rows) + i] = queued[i]
  BY <1>3, <1>4
<1>7. (written \o queued)[Len(rows) + Len(queue)] = LastRecorded
  <2>1. CASE Len(queue) > 0
    <3>1. Len(queue) \in 1..Len(queue)
      BY <1>1, <2>1
    <3> QED
      BY <1>5, <1>6, <2>1, <3>1 DEF LastRecorded
  <2>2. CASE Len(queue) = 0
    <3>1. Len(rows) \in 1..Len(rows) /\ Len(rows) + Len(queue) = Len(rows)
      BY <1>1, <2>2
    <3> QED
      BY <1>5, <1>6, <2>2, <3>1 DEF LastRecorded
  <2>3. Len(queue) > 0 \/ Len(queue) = 0
    BY <1>1
  <2> QED
    BY <2>1, <2>2, <2>3
<1>8. (written \o queued)[Len(written \o queued)] = LastRecorded
  BY <1>6, <1>7
<1> QED
  BY <1>8, Zenon DEF written, queued

Current == caller \notin Gone /\ accepted > 0 /\ ~unrecorded => LastRecorded = value

\* As long as there is a policy, the records end with the value the registry has,
\* unless it was changed by the program itself or while the capture was off; how far the worker has got makes
\* no difference.
THEOREM CaptureCurrentCorrect == CaptureSpec => []CaptureCurrent
<1>1. CaptureInit => Current
  BY DEF CaptureInit, Init, Current
<1>2. TypeOK /\ Conservation /\ Current /\ [CaptureNext]_captureVars => Current'
  <2> SUFFICES ASSUME TypeOK, Conservation, Current, [CaptureNext]_captureVars
               PROVE  Current'
    OBVIOUS
  <2>1. /\ Len(queue) \in Nat /\ DOMAIN queue = 1..Len(queue)
        /\ Len(rows) \in Nat /\ DOMAIN rows = 1..Len(rows)
        /\ caller \notin Gone => Len(rows) + Len(queue) = accepted
    BY DEF TypeOK, Conservation
  <2>2. ASSUME NEW v \in Contents, SetLocally(v) \/ ReceiveUnheard(v) PROVE Current'
    BY <2>2 DEF SetLocally, ReceiveUnheard, Current
  <2>3. ASSUME NEW v \in Contents, Receive(v) PROVE Current'
    <3> DEFINE new == [id |-> accepted + 1, session |-> session, val |-> v]
    <3>1. queue' = Append(queue, new) /\ value' = v
      BY <2>3 DEF Receive, Push
    <3>2. Len(queue') = Len(queue) + 1 /\ queue'[Len(queue) + 1] = new
      BY <2>1, <3>1 DEF TypeOK
    <3>3. new.val = v
      OBVIOUS
    <3> HIDE DEF new
    <3>4. Len(queue') > 0 /\ queue'[Len(queue')].val = v
      BY <2>1, <3>2, <3>3
    <3> QED
      BY <3>1, <3>4 DEF Current, LastRecorded
  <2>4. CASE Write /\ Proceed
    <3>1. /\ rows' = rows \o Written /\ queue' = <<>>
          /\ UNCHANGED <<accepted, value, unrecorded, caller>>
      BY <2>4 DEF Write, Proceed
    <3>3. /\ Len(rows') = Len(rows) + Len(queue)
          /\ \A i \in 1..Len(rows) : rows'[i] = rows[i]
          /\ \A i \in 1..Len(queue) : rows'[Len(rows) + i] = Written[i]
      BY <3>1, RowsAppended
    <3>4. \A i \in 1..Len(queue) : Written[i].val = queue[i].val
      BY <2>1 DEF Written
    <3>5. Len(queue') = 0
      BY <3>1
    <3>6. caller \notin Gone /\ accepted > 0 => LastRecorded' = LastRecorded
      <4>1. CASE Len(queue) > 0
        <5>1. Len(queue) \in 1..Len(queue)
          BY <2>1, <4>1
        <5> QED
          BY <3>3, <3>4, <3>5, <4>1, <5>1 DEF LastRecorded
      <4>2. CASE Len(queue) = 0 /\ Len(rows) > 0
        <5>1. Len(rows) \in 1..Len(rows) /\ Len(rows') = Len(rows)
          BY <2>1, <3>3, <4>2
        <5> QED
          BY <3>3, <3>5, <4>2, <5>1 DEF LastRecorded
      <4> QED
        BY <2>1, <4>1, <4>2
    <3> QED
      BY <3>1, <3>6 DEF Current
  <2>5. CASE /\ UNCHANGED <<queue, rows, accepted, value, unrecorded>>
             /\ caller' \notin Gone => caller \notin Gone
    BY <2>5 DEF Current, LastRecorded
  <2>6. CASE (Start \/ Destroy \/ Join) /\ UNCHANGED <<value, unrecorded>>
    BY <2>6, Leaving DEF Current, LastRecorded
  <2>7. Enable \/ Disable \/ SetStop \/ NotifyAll \/ Run \/ Open \/ Loop \/ Finish
          \/ Wait \/ OpenFails \/ WakeUp
          => /\ UNCHANGED <<queue, rows, accepted>>
             /\ caller' \notin Gone => caller \notin Gone
    BY DEF Enable, Disable, SetStop, NotifyAll, Run, Open, Loop, Finish, Wait, OpenFails, WakeUp,
           data, Free, Gone
  <2>8. UNCHANGED captureVars => UNCHANGED <<queue, rows, accepted, value, unrecorded, caller>>
    BY DEF captureVars, vars, data
  <2>9. Control \/ Mishap \/ Proceed => UNCHANGED <<value, unrecorded>>
    BY DEF Control, Mishap, Proceed
  <2> QED
    BY <2>2, <2>3, <2>4, <2>5, <2>6, <2>7, <2>8, <2>9
    DEF CaptureNext, Control, Mishap, Proceed, CallerStep
<1>3. TypeOK /\ Conservation /\ Current => CaptureCurrent
  <2> SUFFICES ASSUME TypeOK, Conservation, Current, caller \notin Gone, accepted > 0,
                      ~unrecorded
               PROVE  LET records == [i \in DOMAIN rows |-> rows[i].val]
                                       \o [i \in DOMAIN queue |-> queue[i].val]
                      IN  records[Len(records)] = value
    BY Zenon DEF CaptureCurrent
  <2> QED
    BY LastOfBoth DEF Conservation, Current
<1> QED
  BY <1>1, <1>2, <1>3, TypeCorrect, ConservationCorrect, CaptureImplements, PTL
  DEF CaptureSpec
=============================================================================
