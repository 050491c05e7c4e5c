------------------------------ MODULE Capture ------------------------------
(***************************************************************************)
(* A registry with a DBPersistencyPolicy: every message that an adapter     *)
(* handles ends with a push of its property (LiteCommAdapter.hpp:160),      *)
(* whatever kind of message it is; what the program sets itself is not      *)
(* pushed.  The rest is DBPersistency.                                      *)
(*                                                                         *)
(* The policy only works for a program that handles it with care; tame says *)
(* whether it has been handled so far in the way that works, so that one     *)
(* instance shows both what holds for every program and what for those.     *)
(***************************************************************************)
EXTENDS DBPersistency

CONSTANT Default

ASSUME DefaultAssumption == Default \in Contents

VARIABLES
    value,      \* the registry's entry of the property
    unrecorded, \* history: it was changed after the last push
    tame        \* history: enable, disable and the destructor were only called
                \* while the worker was waiting, or there was none; no file
                \* failed to open and no wait ended by itself

captureVars == <<vars, value, unrecorded, tame>>

CaptureInit ==
    /\ Init
    /\ value = Default
    /\ unrecorded = FALSE
    /\ tame = TRUE

\* The program sets the property.
SetLocally(v) ==
    /\ Free
    /\ v # value
    /\ value' = v
    /\ unrecorded' = TRUE
    /\ UNCHANGED <<vars, tame>>

\* Mutant: the record is made before the message callback is called.
ReceiveEarly(v) ==
    /\ \E arrived \in Contents : Push(arrived)
    /\ value' = v
    /\ unrecorded' = FALSE
    /\ UNCHANGED tame

\* A message is handled; v is what the entry has when the message callback has
\* returned, which may have set it as well.
Receive(v) ==
    /\ Push(v)
    /\ value' = v
    /\ unrecorded' = FALSE
    /\ UNCHANGED tame

\* The same while push has nothing to do.
ReceiveUnheard(v) ==
    /\ Free
    /\ stop
    /\ v # value
    /\ value' = v
    /\ unrecorded' = TRUE
    /\ UNCHANGED <<vars, tame>>

Control ==
    /\ Enable \/ Disable \/ Destroy
    /\ tame' = (tame /\ worker \in {"none", "waiting", "ended"})
    /\ UNCHANGED <<value, unrecorded>>

Mishap ==
    /\ OpenFails \/ WakeUp
    /\ tame' = FALSE
    /\ UNCHANGED <<value, unrecorded>>

Proceed ==
    /\ CallerStep \/ Run \/ Open \/ Loop \/ Finish \/ Wait \/ Write
    /\ UNCHANGED <<value, unrecorded, tame>>

CaptureNext ==
    \/ \E v \in Contents : SetLocally(v)
    \/ \E v \in Contents : Receive(v)
    \/ \E v \in Contents : ReceiveUnheard(v)
    \/ Control
    \/ Mishap
    \/ Proceed

CaptureSpec == CaptureInit /\ [][CaptureNext]_captureVars

\* As in DBPersistency.
CaptureFairSpec == CaptureSpec /\ WF_captureVars(CallerStep /\ Proceed)
                               /\ WF_captureVars(WorkerStep /\ (Proceed \/ Mishap))

-----------------------------------------------------------------------------
(* Properties.                                                             *)

\* As long as there is a policy, the records, written or queued, end with the
\* value the registry has, unless it was changed by the program itself or while
\* the capture was off.
CaptureCurrent ==
    LET records == [i \in DOMAIN rows |-> rows[i].val] \o [i \in DOMAIN queue |-> queue[i].val]
    IN  caller \notin Gone /\ accepted > 0 /\ ~unrecorded => records[Len(records)] = value

\* Handled with care, no call of enable, disable or the destructor ends the
\* process.
TameNoCrash == tame => NoCrash

\* Handled with care, every record that push has taken is in the database when the
\* capture has been turned off or the policy destroyed, whose queue goes with it.
TameSavedWhenOff == tame => SavedWhenOff

\* Handled with care, every record is in the file of the capture it was pushed
\* in.
TameRightFile == tame => RightFile

\* Handled with care, the capture is on between two calls exactly if the last
\* of enable and disable was enable.
TameControlObeyed == tame => ControlObeyed

\* Handled with care, disable and the destructor come back.
TameStopReturns ==
    (caller = "stopping" /\ tame) ~> (~tame \/ caller \in {"idle", "destroyed", "crashed"})
=============================================================================
