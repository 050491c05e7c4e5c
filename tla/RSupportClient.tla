--------------------------- MODULE RSupportClient ---------------------------
(***************************************************************************)
(* A program that uses the RSupport interface (RSupport/src/RSupport.cpp)   *)
(* with a SocketClientAdapter: it sets its movement values, calls service   *)
(* once per frame, connects and disconnects.  The adapter keeps the number  *)
(* of a descriptor; what the numbers refer to is the kernel's table, in     *)
(* which the program may have other files as well.                         *)
(*                                                                         *)
(* The host is not part of the repository and modelled as the client uses   *)
(* it: it forwards the movement when BRST_RBREAKOUT_MOVEMENT arrives as      *)
(* true and then may set it back to false.  The handle was created with     *)
(* subscribedToAll, so that the adapter sends every change.                 *)
(***************************************************************************)
EXTENDS Integers, Sequences

CONSTANTS
    Values,       \* movement values
    Default,      \* the one both registries begin with
    LastNumber,   \* bound: descriptors are numbered 0 to this
    Capacity,     \* messages the socket takes before a write fails
    MaxConnects,  \* bound: connections made
    HostClears,   \* whether the host sets the burst flag back
    HostCloses,   \* whether the host may close a connection
    OtherFiles,   \* whether the program opens other files
    Orderly       \* whether disconnect is only called while connected

ASSUME ParametersAssumption ==
    /\ Default \in Values
    /\ LastNumber \in Nat /\ Capacity \in Nat \ {0} /\ MaxConnects \in Nat
    /\ {HostClears, HostCloses, OtherFiles, Orderly} \subseteq BOOLEAN

VARIABLES
    process,   \* between calls, in service, in a read of standard input, killed
    move,      \* the client's movement value
    burst,     \* the client's BRST_RBREAKOUT_MOVEMENT
    autoBurst, \* RSupportOption_AutoMovementBurst
    fd,        \* m_fd
    files,     \* what each descriptor refers to
    link,      \* what connect and disconnect have told the program
    made,      \* connections made; each is known by its number
    open,      \* open[c]: the host has its end of c open
    toHost,    \* toHost[c]: messages on c, oldest first
    clears,    \* clears[c]: updates of the burst flag to false that are on c
    hostMove,  \* the host's copy of the movement value
    forwarded, \* the movement value the host forwarded last
    clean      \* history: no write failed on the connection, and when it was
               \* made the copies agreed and the burst flag was false

program == <<move, burst, autoBurst>>
adapter == <<fd, files, link, made>>
host    == <<open, hostMove, forwarded>>
vars    == <<process, program, adapter, host, toHost, clears, clean>>

Numbers == 0..LastNumber
Conns   == 1..MaxConnects

Input == [kind |-> "input"]
Free  == [kind |-> "free"]
Other == [kind |-> "other"]
Dead  == [kind |-> "dead"]      \* a socket that could not be connected
Socket(c) == [kind |-> "socket", conn |-> c]

MoveTo(v)  == [kind |-> "MOVE", val |-> v]
BurstOf(v) == [kind |-> "BURST", val |-> v]  \* v, a history: the client's move
Control    == [kind |-> "CONTROL"]

Messages == {MoveTo(v) : v \in Values} \cup {BurstOf(v) : v \in Values} \cup {Control}

TypeOK ==
    /\ process \in {"running", "waiting", "reading", "killed"}
    /\ move \in Values /\ hostMove \in Values /\ forwarded \in Values
    /\ burst \in BOOLEAN /\ autoBurst \in BOOLEAN /\ clean \in BOOLEAN
    /\ fd \in Numbers
    /\ files \in [Numbers -> {Input, Free, Other, Dead} \cup {Socket(c) : c \in Conns}]
    /\ link \in {"none", "linked", "gone"}
    /\ made \in 0..MaxConnects
    /\ open \in [Conns -> BOOLEAN]
    /\ toHost \in [Conns -> Seq(Messages)]
    /\ clears \in [Conns -> Nat]

Init ==
    /\ process = "running"
    /\ move = Default /\ hostMove = Default /\ forwarded = Default
    /\ burst = FALSE
    /\ autoBurst = TRUE
    /\ fd = 0
    /\ files = [n \in Numbers |-> IF n = 0 THEN Input ELSE Free]
    /\ link = "none"
    /\ made = 0
    /\ open = [c \in Conns |-> FALSE]
    /\ toHost = [c \in Conns |-> <<>>]
    /\ clears = [c \in Conns |-> 0]
    /\ clean = FALSE

-----------------------------------------------------------------------------
(* The adapter's transmit callback.                                        *)

Connection == IF files[fd].kind = "socket" THEN files[fd].conn ELSE 0

\* The bytes get onto an open connection.
Reaches == fd > 0 /\ Connection # 0 /\ open[Connection]
                  /\ Len(toHost[Connection]) < Capacity

\* A write to a connection that the host has closed raises SIGPIPE, which
\* nothing handles.
Breaks == fd > 0 /\ Connection # 0 /\ ~open[Connection]

\* Mutant: a full socket gives up its oldest message instead of the new one.
TransmitOverwriting(msg, place) ==
    /\ toHost' = IF Reaches THEN [toHost EXCEPT ![Connection] = Append(@, msg)]
                 ELSE IF fd > 0 /\ Connection # 0 /\ open[Connection]
                 THEN [toHost EXCEPT ![Connection] = Append(Tail(@), msg)]
                 ELSE toHost
    /\ process' = IF Breaks THEN "killed" ELSE place
    /\ UNCHANGED clean

\* Everything else - no descriptor, a number that refers to nothing, to another
\* file, to a full socket - is an error at most, which Registry::set ignores.
Transmit(msg, place) ==
    /\ toHost' = IF Reaches THEN [toHost EXCEPT ![Connection] = Append(@, msg)] ELSE toHost
    /\ process' = IF Breaks THEN "killed" ELSE place
    /\ clean' = (clean /\ Reaches)

-----------------------------------------------------------------------------
(* Calls of the program.                                                   *)

Running == process = "running"

\* Mutant: the adapters are served before the array is written and read it.
SetMoveLate(v) ==
    /\ Running
    /\ v # move
    /\ move' = v
    /\ Transmit(MoveTo(move), "running")
    /\ UNCHANGED <<burst, autoBurst, adapter, host, clears>>

SetMove(v) ==
    /\ Running
    /\ v # move
    /\ move' = v
    /\ Transmit(MoveTo(v), "running")
    /\ UNCHANGED <<burst, autoBurst, adapter, host, clears>>

\* rsupport_handle_subscribe, _unsubscribe and _request.
Ask ==
    /\ Running
    /\ Transmit(Control, "running")
    /\ UNCHANGED <<program, adapter, host, clears>>

SetOption(b) ==
    /\ Running
    /\ autoBurst # b
    /\ autoBurst' = b
    /\ UNCHANGED <<process, move, burst, adapter, host, toHost, clears, clean>>

\* The kernel gives out the lowest number that is free.
Lowest(n) == files[n] = Free /\ \A m \in Numbers : files[m] = Free => n <= m

\* Mutant: the error that socket returns is kept as the number.
ConnectNoSocketKeeping ==
    /\ Running
    /\ \A n \in Numbers : files[n] # Free
    /\ fd' = -1
    /\ link' = "none"
    /\ clean' = FALSE
    /\ UNCHANGED <<process, program, files, made, host, toHost, clears>>

ConnectNoSocket ==
    /\ Running
    /\ \A n \in Numbers : files[n] # Free
    /\ fd' = 0
    /\ link' = "none"
    /\ clean' = FALSE
    /\ UNCHANGED <<process, program, files, made, host, toHost, clears>>

\* Mutant: the socket is closed and its number kept.
ConnectRefusedClosing ==
    /\ Running
    /\ \E n \in Numbers : Lowest(n) /\ fd' = n
    /\ link' = "none"
    /\ clean' = FALSE
    /\ UNCHANGED <<process, program, files, made, host, toHost, clears>>

\* The socket is not closed.
ConnectRefused ==
    /\ Running
    /\ \E n \in Numbers : Lowest(n) /\ files' = [files EXCEPT ![n] = Dead]
    /\ fd' = 0
    /\ link' = "none"
    /\ clean' = FALSE
    /\ UNCHANGED <<process, program, made, host, toHost, clears>>

\* A socket the adapter had before stays open.  rsupport_handle_connect, not
\* rsupport_handle_connect_create, goes on to subscribe to the frequency.
Connect(subscribes) ==
    /\ Running
    /\ made < MaxConnects
    /\ \E n \in Numbers :
          /\ Lowest(n)
          /\ files' = [files EXCEPT ![n] = Socket(made + 1)]
          /\ fd' = n
          /\ toHost' = IF subscribes /\ n > 0
                       THEN [toHost EXCEPT ![made + 1] = <<Control>>] ELSE toHost
    /\ link' = "linked"
    /\ made' = made + 1
    /\ open' = [open EXCEPT ![made + 1] = TRUE]
    /\ clean' = (~burst /\ hostMove = move /\ \A c \in Conns : toHost[c] = <<>>)
    /\ UNCHANGED <<process, program, hostMove, forwarded, clears>>

\* Closes the number, whatever it refers to, and keeps it.  What came over the
\* connection and was not read is lost with it.
Disconnect ==
    /\ Running
    /\ Orderly => link = "linked"
    /\ files' = [files EXCEPT ![fd] = Free]
    /\ link' = "gone"
    /\ clean' = FALSE
    /\ clears' = [c \in Conns |-> IF files[fd] = Socket(c) THEN 0 ELSE clears[c]]
    /\ UNCHANGED <<process, program, fd, made, host, toHost>>

\* service up to its wait: the burst flag is set to true, which is discarded
\* while it is true already.
Service ==
    /\ Running
    /\ IF autoBurst /\ ~burst
       THEN burst' = TRUE /\ Transmit(BurstOf(move), "waiting")
       ELSE process' = "waiting" /\ UNCHANGED <<burst, toHost, clean>>
    /\ UNCHANGED <<move, autoBurst, adapter, host, clears>>

\* Mutant: the bytes are read and not given to the parser.
ServiceReadDeaf ==
    /\ process = "waiting"
    /\ process' = IF files[fd] = Input THEN "reading" ELSE "running"
    /\ IF Connection # 0 /\ clears[Connection] > 0
       THEN clears' = [clears EXCEPT ![Connection] = 0]
       ELSE UNCHANGED clears
    /\ UNCHANGED <<program, adapter, host, toHost, clean>>

\* ... and after it: one read of the descriptor, which takes some of the
\* messages that are there.  The connection does not block; standard input,
\* which is read before connect, does.
ServiceRead ==
    /\ process = "waiting"
    /\ process' = IF files[fd] = Input THEN "reading" ELSE "running"
    /\ IF Connection # 0 /\ clears[Connection] > 0
       THEN /\ \E k \in 1..clears[Connection] :
                  clears' = [clears EXCEPT ![Connection] = @ - k]
            /\ burst' = FALSE
       ELSE UNCHANGED <<clears, burst>>
    /\ UNCHANGED <<move, autoBurst, adapter, host, toHost, clean>>

-----------------------------------------------------------------------------
(* What surrounds the adapter.                                             *)

InputArrives ==
    /\ process = "reading"
    /\ process' = "running"
    /\ UNCHANGED <<program, adapter, host, toHost, clears, clean>>

OpenOther ==
    /\ OtherFiles
    /\ Running
    /\ \E n \in Numbers : Lowest(n) /\ files' = [files EXCEPT ![n] = Other]
    /\ UNCHANGED <<process, program, fd, link, made, host, toHost, clears, clean>>

\* The client's end of c is open.
HasSocket(c) == \E n \in Numbers : files[n] = Socket(c)

HostHandle(c) ==
    LET msg == Head(toHost[c]) IN
    /\ open[c]
    /\ toHost[c] # <<>>
    /\ toHost' = [toHost EXCEPT ![c] = Tail(@)]
    /\ hostMove' = IF msg.kind = "MOVE" THEN msg.val ELSE hostMove
    /\ forwarded' = IF msg.kind = "BURST" THEN hostMove ELSE forwarded
    /\ clears' = IF msg.kind = "BURST" /\ HostClears /\ HasSocket(c)
                 THEN [clears EXCEPT ![c] = @ + 1] ELSE clears
    /\ UNCHANGED <<process, program, adapter, open, clean>>

HostClose(c) ==
    /\ HostCloses
    /\ open[c]
    /\ open' = [open EXCEPT ![c] = FALSE]
    /\ toHost' = [toHost EXCEPT ![c] = <<>>]
    /\ clean' = FALSE
    /\ UNCHANGED <<process, program, adapter, hostMove, forwarded, clears>>

ServiceStep == Service \/ ServiceRead
HostStep == \E c \in Conns : HostHandle(c)

Next ==
    \/ \E v \in Values : SetMove(v)
    \/ Ask
    \/ \E b \in BOOLEAN : SetOption(b)
    \/ ConnectNoSocket
    \/ ConnectRefused
    \/ \E b \in BOOLEAN : Connect(b)
    \/ Disconnect
    \/ ServiceStep
    \/ InputArrives
    \/ OpenOther
    \/ HostStep
    \/ \E c \in Conns : HostClose(c)

Spec == Init /\ [][Next]_vars

-----------------------------------------------------------------------------
(* Properties.                                                             *)

\* The adapter's descriptor is a file of somebody else only once the program
\* has disconnected, when close leaves m_fd as it is; neither a connect that
\* fails nor another file that is opened or a second connect leads to that.
ForeignOnlyWhenGone == files[fd] = Other => link = "gone"

\* connect returns "RSupportStatus_Ok on success" (RSupport.hpp:126): from then
\* on a change of a value is sent to the host that has been connected to, as
\* long as the host is there and takes it.
LinkedSends ==
    [][\A v \in Values :
          SetMove(v) /\ link = "linked" /\ open[made] /\ Len(toHost[made]) < Capacity
          => toHost'[made] = Append(toHost[made], MoveTo(v))]_vars

\* The burst comes behind the values it is about: what the host forwards is the
\* movement the client had in the call of service that sent the burst.
BurstMeansItsFrame ==
    [][\A c \in Conns :
          HostHandle(c) /\ clean /\ Head(toHost[c]).kind = "BURST"
          => forwarded' = Head(toHost[c]).val]_vars
=============================================================================
