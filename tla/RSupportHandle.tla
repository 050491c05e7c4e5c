--------------------------- MODULE RSupportHandle ---------------------------
(***************************************************************************)
(* The RSupport handle: rsupport_handle_create decides, by an environment   *)
(* variable, which of the two adapters the registry of the handle gets, and *)
(* every later call goes to the one there is.  With the socket adapter this *)
(* is RSupportClient, with the console adapter Console; the movement value, *)
(* the burst flag, the options and the place in service are the same.       *)
(***************************************************************************)
EXTENDS RSupportClient

CONSTANTS
    Blocks,  \* see Console
    MaxLines

ASSUME ConsoleAssumption == Blocks \subseteq Nat /\ MaxLines \in Nat

VARIABLES
    consoleOnly,   \* RSUPPORT_CONSOLE_ONLY was set
    autoFrequency, \* these are of Console
    readTimeout,
    hadUpdate,
    output,
    input,
    ended,
    sent

\* The variables of one mode that the other one leaves alone.
consoleOnlyVars == <<autoFrequency, readTimeout, hadUpdate, output, input, ended, sent>>
socketOnlyVars  == <<adapter, open, toHost, clears, clean>>

handleVars == <<vars, consoleOnly, consoleOnlyVars>>

Con == INSTANCE Console

HandleInit ==
    /\ Init
    /\ Con!Init
    /\ consoleOnly \in BOOLEAN

\* A step of one adapter, which leaves the other's variables alone.
OnSocket(A)  == ~consoleOnly /\ A /\ UNCHANGED <<consoleOnly, consoleOnlyVars>>
OnConsole(A) == consoleOnly /\ A /\ UNCHANGED <<consoleOnly, socketOnlyVars>>

HandleNext == OnSocket(Next) \/ OnConsole(Con!Next)

HandleSpec == HandleInit /\ [][HandleNext]_handleVars

\* The program calls service in a loop, as RSupport/example does, and the host
\* or the peer reads what it sends; neither connecting nor input can be relied
\* on.
HandleFairSpec ==
    /\ HandleSpec
    /\ WF_handleVars(OnSocket(ServiceStep) \/ OnConsole(Con!ServiceStep))
    /\ WF_handleVars(OnSocket(HostStep) \/ OnConsole(Con!PeerHandle))

-----------------------------------------------------------------------------
(* Properties: besides these, those of RSupportClient, which hold of a       *)
(* console handle as well, as it has no connection.                         *)

\* The console's variables have their types.
ConsoleTypeOK == Con!TypeOK \/ ~consoleOnly

\* While the burst flag is set one line that leads to its being cleared is on
\* its way, and otherwise none.
OneBurst == consoleOnly => Con!OneBurst

\* When the line that clears the flag comes, the peer has forwarded the
\* movement of the frame that set it.
ForwardedIsSent == consoleOnly => Con!ForwardedIsSent

\* Somebody who forwards the movement is at the other end, and is listened to.
Attached == IF consoleOnly THEN autoFrequency /\ ~ended ELSE link = "linked" /\ clean

\* With a host or peer that sets the burst flag back, a movement value that is
\* kept is forwarded sooner or later, although a burst that is set while the
\* one before is not cleared yet is discarded, and although a console frame may
\* be ended by any update, or wait for one.
MovementForwarded ==
    \A v \in Values :
       (move = v /\ autoBurst /\ Attached)
          ~> (forwarded = v \/ move # v \/ ~autoBurst \/ ~Attached)
=============================================================================
