--------------------------- MODULE DBPersistency ---------------------------
(***************************************************************************)
(* The DBPersistencyPolicy of RRegistry: a program thread calls enable,     *)
(* push, disable and at last the destructor, and a worker thread writes the *)
(* queued records into a database file.  Between two actions lie the places *)
(* where the other thread may run: around each use of m_queueMutex, the     *)
(* condition variable and the two flags both threads use without it.        *)
(* m_queueMutex is never held between two actions: the worker gives it up   *)
(* in wait and keeps it while it writes, which is one action.               *)
(***************************************************************************)
EXTENDS Naturals, Sequences

CONSTANTS
    Trigger,      \* m_trigger: the worker is notified when more have come in
    OpenMayFail,  \* whether sqlite3_open may fail
    Spurious,     \* whether the wait may end without a notification
    Contents,     \* what a record may hold
    MaxPushes,    \* bound: records pushed
    MaxSessions   \* bound: times the worker is started

ASSUME ParametersAssumption ==
    /\ Trigger \in Nat
    /\ OpenMayFail \in BOOLEAN /\ Spurious \in BOOLEAN
    /\ MaxPushes \in Nat /\ MaxSessions \in Nat

VARIABLES
    caller,   \* where the program thread is
    closing,  \* the stop it is in was called by the destructor
    worker,   \* where the worker thread is
    joinable, \* m_workerThread holds a thread that was not joined
    running,  \* m_running
    stop,     \* m_stop
    counter,  \* m_triggerCounter
    queue,    \* m_recordsQueue, each record with the session of its push
    rows,     \* rows written, oldest first, each with the session of its file
    session,  \* times the worker was started
    accepted, \* history: records queued so far, the number of the last one
    wanted,   \* history: the last enable or disable that returned
    parked    \* history: accepted when the worker began to wait

flags == <<joinable, running, stop>>
data  == <<counter, queue, rows, accepted>>
vars  == <<caller, closing, worker, flags, data, session, wanted, parked>>

CallerPlaces == {"idle", "starting", "stopping", "notifying", "joining", "destroyed", "crashed"}
WorkerPlaces == {"none", "born", "opening", "looping", "entering", "waiting", "notified", "ended"}

Records == [id : Nat, session : Nat, val : Contents]
Rows    == [id : Nat, session : Nat, val : Contents, file : Nat]

TypeOK ==
    /\ caller \in CallerPlaces
    /\ worker \in WorkerPlaces
    /\ closing \in BOOLEAN /\ joinable \in BOOLEAN /\ running \in BOOLEAN
    /\ stop \in BOOLEAN /\ wanted \in BOOLEAN
    /\ counter \in 0..Trigger
    /\ queue \in Seq(Records)
    /\ rows \in Seq(Rows)
    /\ session \in Nat
    /\ accepted \in 0..MaxPushes
    /\ parked \in 0..accepted

Init ==
    /\ caller = "idle"
    /\ worker = "none"
    /\ closing = FALSE
    /\ joinable = FALSE
    /\ running = FALSE
    /\ stop = TRUE
    /\ wanted = FALSE
    /\ counter = 0
    /\ queue = <<>>
    /\ rows = <<>>
    /\ session = 0
    /\ accepted = 0
    /\ parked = 0

-----------------------------------------------------------------------------
(* The program thread.                                                     *)

\* The program is between two calls.
Free == caller = "idle"

\* notify_one and notify_all: there is at most one thread to wake, and one
\* that is not waiting yet will not learn of it.
Notified == IF worker = "waiting" THEN "notified" ELSE worker

\* Mutant: the trigger counter is not reset.
PushCounting(c) ==
    /\ Free
    /\ ~stop
    /\ accepted < MaxPushes
    /\ accepted' = accepted + 1
    /\ queue' = Append(queue, [id |-> accepted + 1, session |-> session, val |-> c])
    /\ counter' = counter + 1
    /\ worker' = IF counter + 1 > Trigger THEN Notified ELSE worker
    /\ UNCHANGED <<caller, closing, flags, rows, session, wanted, parked>>

\* Mutant: the counter is compared before it is incremented.
PushLate(c) ==
    /\ Free
    /\ ~stop
    /\ accepted < MaxPushes
    /\ accepted' = accepted + 1
    /\ queue' = Append(queue, [id |-> accepted + 1, session |-> session, val |-> c])
    /\ IF counter > Trigger
       THEN counter' = 0 /\ worker' = Notified
       ELSE counter' = counter + 1 /\ worker' = worker
    /\ UNCHANGED <<caller, closing, flags, rows, session, wanted, parked>>

\* push, of a property whose entry is c: nothing while stopped.  m_stop is only
\* written by this thread, so the test and the queueing under the mutex are one
\* action.
Push(c) ==
    /\ Free
    /\ ~stop
    /\ accepted < MaxPushes
    /\ accepted' = accepted + 1
    /\ queue' = Append(queue, [id |-> accepted + 1, session |-> session, val |-> c])
    /\ IF counter + 1 > Trigger
       THEN counter' = 0 /\ worker' = Notified
       ELSE counter' = counter + 1 /\ worker' = worker
    /\ UNCHANGED <<caller, closing, flags, rows, session, wanted, parked>>

\* With the policy goes its queue, and with the process the policy.
Gone == {"destroyed", "crashed"}
Left(place) == IF place \in Gone THEN <<>> ELSE queue

\* enable: only starts a worker if none says it is running.
Enable ==
    /\ Free
    /\ IF running
       THEN caller' = "idle" /\ wanted' = TRUE
       ELSE session < MaxSessions /\ caller' = "starting" /\ wanted' = wanted
    /\ UNCHANGED <<closing, worker, flags, data, session, parked>>

\* start: assigning the new thread over one that was not joined ends the
\* process (std::terminate).
Start ==
    /\ caller = "starting"
    /\ stop' = FALSE
    /\ IF joinable
       THEN /\ caller' = "crashed"
            /\ UNCHANGED <<worker, joinable, session, wanted>>
       ELSE /\ caller' = "idle"
            /\ worker' = "born"
            /\ joinable' = TRUE
            /\ session' = session + 1
            /\ wanted' = TRUE
    /\ queue' = Left(caller')
    /\ UNCHANGED <<closing, running, counter, rows, accepted, parked>>

\* disable, and stop as far as its test of m_running, which only a worker that
\* has been told to stop makes false.
Disable ==
    /\ Free
    /\ caller' = IF running THEN "stopping" ELSE "idle"
    /\ wanted' = IF running THEN wanted ELSE FALSE
    /\ UNCHANGED <<closing, worker, flags, data, session, parked>>

\* The members are destroyed: std::thread does not stand being destroyed
\* before it was joined.
Destroyed(unjoined) == IF unjoined THEN "crashed" ELSE "destroyed"

\* The destructor: stop, then the members, the queue among them.
Destroy ==
    /\ Free
    /\ closing' = TRUE
    /\ caller' = IF running THEN "stopping" ELSE Destroyed(joinable)
    /\ queue' = Left(caller')
    /\ UNCHANGED <<worker, flags, counter, rows, accepted, session, wanted, parked>>

\* stop: the flag is set under the mutex, the notification follows.
SetStop ==
    /\ caller = "stopping"
    /\ stop' = TRUE
    /\ caller' = "notifying"
    /\ UNCHANGED <<closing, worker, joinable, running, data, session, wanted, parked>>

\* Mutant: stop joins the worker without waking it.
NotifyNobody ==
    /\ caller = "notifying"
    /\ caller' = "joining"
    /\ UNCHANGED <<closing, worker, flags, data, session, wanted, parked>>

NotifyAll ==
    /\ caller = "notifying"
    /\ worker' = Notified
    /\ caller' = "joining"
    /\ UNCHANGED <<closing, flags, data, session, wanted, parked>>

\* Mutant: the thread is left as it is (the call is missing).
JoinMissing ==
    /\ caller = "joining"
    /\ caller' = IF closing THEN Destroyed(joinable) ELSE "idle"
    /\ wanted' = FALSE
    /\ queue' = Left(caller')
    /\ UNCHANGED <<closing, worker, joinable, running, stop, counter, rows, accepted,
                   session, parked>>

\* join: returns when the worker has ended and throws if there is none to
\* join; nobody catches that.
Join ==
    /\ caller = "joining"
    /\ IF joinable
       THEN /\ worker = "ended"
            /\ caller' = IF closing THEN Destroyed(FALSE) ELSE "idle"
            /\ joinable' = FALSE
            /\ wanted' = FALSE
       ELSE /\ caller' = "crashed"
            /\ UNCHANGED <<joinable, wanted>>
    /\ queue' = Left(caller')
    /\ UNCHANGED <<closing, worker, running, stop, counter, rows, accepted, session, parked>>

-----------------------------------------------------------------------------
(* The worker thread.                                                      *)

Alive == caller # "crashed"

Run ==
    /\ Alive
    /\ worker = "born"
    /\ running' = TRUE
    /\ worker' = "opening"
    /\ UNCHANGED <<caller, closing, joinable, stop, data, session, wanted, parked>>

\* The file is opened and its tables are made ...
Open ==
    /\ Alive
    /\ worker = "opening"
    /\ worker' = "looping"
    /\ UNCHANGED <<caller, closing, flags, data, session, wanted, parked>>

\* ... or it cannot be opened, and the worker returns as it is.
OpenFails ==
    /\ Alive
    /\ OpenMayFail
    /\ worker = "opening"
    /\ worker' = "ended"
    /\ UNCHANGED <<caller, closing, flags, data, session, wanted, parked>>

\* The test of the loop, made without the mutex.
Loop ==
    /\ Alive
    /\ worker = "looping"
    /\ ~stop
    /\ worker' = "entering"
    /\ UNCHANGED <<caller, closing, flags, data, session, wanted, parked>>

\* Mutant: m_running is left standing, as after a failed open.
FinishRunning ==
    /\ Alive
    /\ worker = "looping"
    /\ stop
    /\ worker' = "ended"
    /\ UNCHANGED <<caller, closing, flags, data, session, wanted, parked>>

Finish ==
    /\ Alive
    /\ worker = "looping"
    /\ stop
    /\ running' = FALSE
    /\ worker' = "ended"
    /\ UNCHANGED <<caller, closing, joinable, stop, data, session, wanted, parked>>

\* The mutex is taken and wait gives it back, without looking at the queue or
\* at m_stop.
Wait ==
    /\ Alive
    /\ worker = "entering"
    /\ worker' = "waiting"
    /\ parked' = accepted
    /\ UNCHANGED <<caller, closing, flags, data, session, wanted>>

WakeUp ==
    /\ Alive
    /\ Spurious
    /\ worker = "waiting"
    /\ worker' = "notified"
    /\ UNCHANGED <<caller, closing, flags, data, session, wanted, parked>>

\* The rows that the queue makes in the open file.
Written == [i \in DOMAIN queue |-> [id |-> queue[i].id, session |-> queue[i].session,
                                    val |-> queue[i].val, file |-> session]]

\* Mutant: one record for each time the worker wakes.
WriteOne ==
    /\ Alive
    /\ worker = "notified"
    /\ rows' = IF queue = <<>> THEN rows ELSE Append(rows, Written[1])
    /\ queue' = IF queue = <<>> THEN queue ELSE Tail(queue)
    /\ worker' = "looping"
    /\ UNCHANGED <<caller, closing, flags, counter, session, accepted, wanted, parked>>

\* Mutant: the queue is not emptied of what was written.
WriteCopy ==
    /\ Alive
    /\ worker = "notified"
    /\ rows' = rows \o Written
    /\ worker' = "looping"
    /\ UNCHANGED <<caller, closing, flags, counter, queue, session, accepted, wanted, parked>>

\* The whole queue is written in one transaction, under the mutex.
Write ==
    /\ Alive
    /\ worker = "notified"
    /\ rows' = rows \o Written
    /\ queue' = <<>>
    /\ worker' = "looping"
    /\ UNCHANGED <<caller, closing, flags, counter, session, accepted, wanted, parked>>

-----------------------------------------------------------------------------
CallerStep == Start \/ SetStop \/ NotifyAll \/ Join
WorkerStep == Run \/ Open \/ OpenFails \/ Loop \/ Finish \/ Wait \/ Write

Next == (\E c \in Contents : Push(c)) \/ Enable \/ Disable \/ Destroy \/ CallerStep \/ WorkerStep \/ WakeUp

Spec == Init /\ [][Next]_vars

\* Both threads are scheduled again and again, and a call that has begun goes
\* on by itself; nothing obliges the program to make another call, nor the
\* wait to end without a notification.
FairSpec == Spec /\ WF_vars(CallerStep) /\ WF_vars(WorkerStep)

-----------------------------------------------------------------------------
(* Properties.                                                             *)

\* Whatever the threads do, a record taken is either still queued or written
\* once, and the rows of all files together are in the order of the pushes.
\* What the destructor, or the end of the process, finds in the queue is lost:
\* the rows then end before the first of those records.
Conservation ==
    /\ IF caller \in Gone THEN Len(rows) + Len(queue) <= accepted
                        ELSE Len(rows) + Len(queue) = accepted
    /\ \A i \in DOMAIN rows : rows[i].id = i
    /\ \A i \in DOMAIN queue : queue[i].id = Len(rows) + i

\* A worker that sleeps has been told of every full batch that came in since
\* it went to sleep, so at most Trigger of those records are unwritten.
SleepsOnLittle == worker = "waiting" => accepted - parked <= Trigger

\* No call of enable, disable or the destructor ends the process.
NoCrash == caller # "crashed"

\* "Implements persistent saving of registry data into a SQLite database"
\* (DBPersistencyPolicy.hpp:28): every record that push has taken is in the
\* database when the capture has been turned off or the policy destroyed.
SavedWhenOff == stop /\ caller \in {"idle", "destroyed"} => Len(rows) = accepted

\* A record is written into the file of the capture it was pushed in.
RightFile == \A i \in DOMAIN rows : rows[i].file = rows[i].session

\* "Capturing can be activated by enable() and disable()"
\* (DBPersistencyPolicy.hpp:31-32): between calls, push takes records exactly
\* if the last of the two that was called is enable.
ControlObeyed == Free => (wanted <=> ~stop)

\* A call of disable or of the destructor comes back.
StopReturns == caller = "stopping" ~> caller \in {"idle", "destroyed", "crashed"}
=============================================================================
