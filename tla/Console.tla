------------------------------ MODULE Console ------------------------------
(***************************************************************************)
(* A program whose RSupport handle was created with RSUPPORT_CONSOLE_ONLY:   *)
(* its adapter writes each message as a line of base64 to standard output,  *)
(* and service reads lines from standard input until one brings an update,  *)
(* so that whoever is at the other end paces the program.                   *)
(*                                                                         *)
(* That peer is not part of the repository.  It forwards the movement when  *)
(* the burst flag arrives as true and sets it back, as the host of          *)
(* RSupportClient does, and may write other lines; its messages are encoded *)
(* by a ConsoleAdapter too.  A pipe that is full is not modelled.           *)
(***************************************************************************)
EXTENDS Naturals, Sequences, FiniteSets

CONSTANTS
    Values,  \* movement values
    Default, \* the one both registries begin with
    Blocks,  \* how many blocks of 8 bytes a message may have behind its type
    MaxLines \* bound: lines on their way before another value is set or another
             \* line is written by the peer

VARIABLES
    process,       \* between calls, about to read, in getline
    move,          \* the movement value
    burst,         \* BRST_RBREAKOUT_MOVEMENT
    autoBurst,     \* RSupportOption_AutoMovementBurst
    autoFrequency, \* RSupportOption_AutoFrequency
    readTimeout,   \* m_readTimeout
    hadUpdate,     \* m_hadUpdate
    output,        \* lines written, oldest first, until the peer reads them
    input,         \* lines the peer wrote, oldest first
    ended,         \* the peer has closed standard input
    hostMove,      \* the peer's copy of the movement value
    forwarded,     \* the movement value it forwarded last
    sent           \* history: the movement value when the burst flag was set last

consoleVars == <<process, move, burst, autoBurst, autoFrequency, readTimeout, hadUpdate,
                 output, input, ended, hostMove, forwarded, sent>>

MoveTo(v) == [kind |-> "MOVE", val |-> v]
Burst     == [kind |-> "BURST"]
Clear     == [kind |-> "CLEAR"]    \* the burst flag as false
Sensor    == [kind |-> "SENSOR"]   \* an update of another property
Request   == [kind |-> "REQUEST"]  \* of the movement value
Control   == [kind |-> "CONTROL"]  \* subscribe, unsubscribe or a request
Noise     == [kind |-> "NOISE"]    \* no message

Updates == {"MOVE", "BURST", "CLEAR", "SENSOR"}
Lines   == {MoveTo(v) : v \in Values} \cup {Burst, Clear, Sensor, Request, Control, Noise}

TypeOK ==
    /\ process \in {"running", "waiting", "reading"}
    /\ move \in Values /\ hostMove \in Values /\ forwarded \in Values /\ sent \in Values
    /\ burst \in BOOLEAN /\ autoBurst \in BOOLEAN /\ autoFrequency \in BOOLEAN
    /\ hadUpdate \in BOOLEAN /\ ended \in BOOLEAN
    /\ readTimeout \in 0..10
    /\ output \in Seq(Lines) /\ input \in Seq(Lines)

Init ==
    /\ process = "running"
    /\ move = Default /\ hostMove = Default /\ forwarded = Default /\ sent = Default
    /\ burst = FALSE
    /\ autoBurst = TRUE
    /\ autoFrequency = TRUE
    /\ readTimeout = 0
    /\ hadUpdate = FALSE
    /\ output = <<>>
    /\ input = <<>>
    /\ ended = FALSE

-----------------------------------------------------------------------------
(* How long a message becomes as a line and as bytes again.                *)

Bytes(blocks) == 8 * blocks + 1

\* The transmit callback: base64, a character for each 6 bits begun, then one
\* character of padding more than base64 asks for and another one.  The count
\* is used up when the callbacks have their turn after standard output.
LineLength(bytes, padded) ==
    (8 * bytes + 5) \div 6 + (IF padded THEN ((3 - (bytes % 3)) % 3) + 2 ELSE 0)

\* parseBase64, in which padding becomes the digit 0: as many bytes as the
\* characters fill.
Decoded(chars) == (6 * chars) \div 8

CalculateCorrectDataLength(length) == (length \div 8) * 8 + 1

\* The parser is given as many bytes as the message has.  A peer in mode MIXED
\* does not pad.
Understood(blocks, mixed) ==
    CalculateCorrectDataLength(Decoded(LineLength(Bytes(blocks), ~mixed))) = Bytes(blocks)

-----------------------------------------------------------------------------
(* The program.                                                            *)

\* send: the line of a message is behind those written before.
Printed(msg) == Append(output, msg)

Running == process = "running"

\* Mutant: the adapters are served before the array is written and read it.
SetMoveLate(v) ==
    /\ Running
    /\ v # move
    /\ Len(output) < MaxLines
    /\ move' = v
    /\ output' = Printed(MoveTo(move))
    /\ UNCHANGED <<process, burst, autoBurst, autoFrequency, readTimeout, hadUpdate,
                   input, ended, hostMove, forwarded, sent>>

SetMove(v) ==
    /\ Running
    /\ v # move
    /\ Len(output) < MaxLines
    /\ move' = v
    /\ output' = Printed(MoveTo(v))
    /\ UNCHANGED <<process, burst, autoBurst, autoFrequency, readTimeout, hadUpdate,
                   input, ended, hostMove, forwarded, sent>>

\* subscribe, unsubscribe and request, which name the property by its type: a
\* number that is no type is not sent, and no step.
Ask ==
    /\ Running
    /\ Len(output) < MaxLines
    /\ output' = Printed(Control)
    /\ UNCHANGED <<process, move, burst, autoBurst, autoFrequency, readTimeout, hadUpdate,
                   input, ended, hostMove, forwarded, sent>>

SetOptions(automatic, paced) ==
    /\ Running
    /\ autoBurst' = automatic
    /\ autoFrequency' = paced
    /\ UNCHANGED <<process, move, burst, readTimeout, hadUpdate,
                   output, input, ended, hostMove, forwarded, sent>>

\* Mutant: the burst is sent although the one before is not cleared.
ServiceAlways ==
    /\ Running
    /\ burst' = (burst \/ autoBurst)
    /\ output' = IF autoBurst THEN Printed(Burst) ELSE output
    /\ sent' = IF autoBurst THEN move ELSE sent
    /\ process' = IF autoFrequency THEN "waiting" ELSE "running"
    /\ UNCHANGED <<move, autoBurst, autoFrequency, readTimeout, hadUpdate,
                   input, ended, hostMove, forwarded>>

\* service, up to its loop.  Without AutoFrequency the console is not read.
Service ==
    /\ Running
    /\ burst' = (burst \/ autoBurst)
    /\ output' = IF autoBurst /\ ~burst THEN Printed(Burst) ELSE output
    /\ sent' = IF autoBurst /\ ~burst THEN move ELSE sent
    /\ process' = IF autoFrequency THEN "waiting" ELSE "running"
    /\ UNCHANGED <<move, autoBurst, autoFrequency, readTimeout, hadUpdate,
                   input, ended, hostMove, forwarded>>

\* Mutant: the calls are counted on.
ReadCounting ==
    /\ process = "waiting"
    /\ hadUpdate' = FALSE
    /\ readTimeout' = readTimeout + 1
    /\ process' = IF readTimeout < 10 THEN "waiting" ELSE "reading"
    /\ UNCHANGED <<move, burst, autoBurst, autoFrequency, output, input, ended,
                   hostMove, forwarded, sent>>

\* A turn of the loop: the first ten calls of read only count.
Read ==
    /\ process = "waiting"
    /\ hadUpdate' = FALSE
    /\ IF readTimeout < 10
       THEN readTimeout' = readTimeout + 1 /\ process' = "waiting"
       ELSE readTimeout' = readTimeout /\ process' = "reading"
    /\ UNCHANGED <<move, burst, autoBurst, autoFrequency, output, input, ended,
                   hostMove, forwarded, sent>>

\* A line arrives.  What cannot be decoded or parsed is skipped; an update ends
\* the loop, whatever it is of; a request is answered.
Line(blocks, mixed) ==
    /\ process = "reading"
    /\ input # <<>>
    /\ LET kind == IF Understood(blocks, mixed) THEN Head(input).kind ELSE "NOISE" IN
          /\ hadUpdate' = (kind \in Updates)
          /\ process' = IF kind \in Updates THEN "running" ELSE "waiting"
          /\ burst' = IF kind = "CLEAR" THEN FALSE ELSE burst
          /\ output' = IF kind = "REQUEST" THEN Printed(MoveTo(move)) ELSE output
    /\ input' = Tail(input)
    /\ UNCHANGED <<move, autoBurst, autoFrequency, readTimeout, ended,
                   hostMove, forwarded, sent>>

\* At the end of the input getline fails and leaves an empty line.
EndOfInput ==
    /\ process = "reading"
    /\ input = <<>>
    /\ ended
    /\ process' = "waiting"
    /\ UNCHANGED <<move, burst, autoBurst, autoFrequency, readTimeout, hadUpdate,
                   output, input, ended, hostMove, forwarded, sent>>

-----------------------------------------------------------------------------
(* The peer.                                                               *)

PeerHandle ==
    /\ output # <<>>
    /\ output' = Tail(output)
    /\ hostMove' = IF Head(output).kind = "MOVE" THEN Head(output).val ELSE hostMove
    /\ IF Head(output) = Burst
       THEN forwarded' = hostMove /\ input' = IF ended THEN input ELSE Append(input, Clear)
       ELSE UNCHANGED <<forwarded, input>>
    /\ UNCHANGED <<process, move, burst, autoBurst, autoFrequency, readTimeout, hadUpdate,
                   ended, sent>>

PeerWrites(line) ==
    /\ ~ended
    /\ Len(input) < MaxLines /\ Len(output) < MaxLines
    /\ input' = Append(input, line)
    /\ UNCHANGED <<process, move, burst, autoBurst, autoFrequency, readTimeout, hadUpdate,
                   output, ended, hostMove, forwarded, sent>>

PeerCloses ==
    /\ ~ended
    /\ ended' = TRUE
    /\ UNCHANGED <<process, move, burst, autoBurst, autoFrequency, readTimeout, hadUpdate,
                   output, input, hostMove, forwarded, sent>>

-----------------------------------------------------------------------------
ServiceStep ==
    \/ Service
    \/ Read
    \/ \E blocks \in Blocks, mixed \in BOOLEAN : Line(blocks, mixed)
    \/ EndOfInput

Next ==
    \/ \E v \in Values : SetMove(v)
    \/ Ask
    \/ \E automatic, paced \in BOOLEAN : SetOptions(automatic, paced)
    \/ ServiceStep
    \/ PeerHandle
    \/ \E line \in {Sensor, Request, Noise} : PeerWrites(line)
    \/ PeerCloses

Spec == Init /\ [][Next]_consoleVars

-----------------------------------------------------------------------------
(* Properties.                                                             *)

\* How often a line is on its way.
Count(lines, line) == Cardinality({i \in DOMAIN lines : lines[i] = line})

\* While the burst flag is set exactly one line that leads to its being cleared
\* is on its way, to the peer or back, and otherwise none is, whatever the
\* options were meanwhile: service can always be ended by it, and no stale one
\* ends a later frame.
OneBurst ==
    ~ended => Count(output, Burst) + Count(input, Clear) = IF burst THEN 1 ELSE 0

\* When the line that clears the flag comes, the peer has forwarded the movement
\* of the frame that set it, though the values went ahead in lines of their own.
ForwardedIsSent == Count(input, Clear) > 0 => forwarded = sent
=============================================================================
