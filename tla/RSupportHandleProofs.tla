------------------------ MODULE RSupportHandleProofs ------------------------
(***************************************************************************)
(* Proofs about RSupportHandle: a handle is RSupportClient or Console for   *)
(* its whole life, and what the console adapter, its peer and the padding   *)
(* of the lines make of the burst flag.                                    *)
(***************************************************************************)
EXTENDS RSupportHandle, RSupportClientProofs, FiniteSetTheorems, FunctionTheorems

-----------------------------------------------------------------------------
(* Lengths.                                                                *)

\* Whatever the padding, a line becomes a message of the length it had, for any
\* number of blocks (the transmit callback, parseBase64 and the correction of the
\* length in ConsoleAdapter.cpp).
THEOREM AlwaysUnderstood ==
    \A blocks \in Blocks, mixed \in BOOLEAN : Con!Understood(blocks, mixed)
<1> SUFFICES ASSUME NEW blocks \in Blocks, NEW mixed \in BOOLEAN
             PROVE  Con!Understood(blocks, mixed)
  OBVIOUS
<1>1. blocks \in Nat
  BY ConsoleAssumption
<1> DEFINE n == Con!Bytes(blocks)
           characters == (8 * n + 5) \div 6
           padding == IF ~mixed THEN ((3 - (n % 3)) % 3) + 2 ELSE 0
           bytes == (6 * (characters + padding)) \div 8
<1>2. n = 8 * blocks + 1 /\ n \in Nat
  BY <1>1 DEF Con!Bytes
<1> HIDE DEF n
<1>3. characters \in Nat /\ 6 * characters >= 8 * n /\ 6 * characters <= 8 * n + 5
  BY <1>2
<1>4. padding \in 0..4
  <2>1. n % 3 \in 0..2
    BY <1>2
  <2>2. (3 - (n % 3)) % 3 \in 0..2
    BY <2>1
  <2> QED
    BY <2>2
<1> HIDE DEF characters, padding
<1>5. /\ bytes \in Nat
      /\ 8 * bytes <= 6 * (characters + padding)
      /\ 8 * bytes > 6 * (characters + padding) - 8
  BY <1>3, <1>4
<1> HIDE DEF bytes
<1>6. bytes >= n /\ bytes <= n + 3
  BY <1>2, <1>3, <1>4, <1>5
<1>7. (bytes \div 8) * 8 + 1 = n
  <2>1. PICK d \in 0..3 : bytes = 8 * blocks + 1 + d
    <3>1. bytes - n \in 0..3
      BY <1>2, <1>5, <1>6
    <3> QED
      BY <1>2, <1>5, <3>1
  <2>2. bytes \div 8 = blocks
    BY <1>1, <2>1
  <2> QED
    BY <1>1, <1>2, <2>2
<1> QED
  BY <1>7 DEF Con!Understood, Con!CalculateCorrectDataLength, Con!Decoded, Con!LineLength,
              bytes, characters, padding, n

-----------------------------------------------------------------------------
(* Counting.                                                               *)

\* The numbers of elements that Console knows are those of the library.
LEMMA SameCardinality == \A S : Con!Cardinality(S) = Cardinality(S)
BY Zenon DEF Con!Cardinality, Cardinality

LEMMA CountIs ==
    \A s, l : Con!Count(s, l) = Cardinality({i \in DOMAIN s : s[i] = l})
BY SameCardinality DEF Con!Count

\* Counts are numbers, and not 0 if and only if the line is there.
LEMMA CountType ==
    ASSUME NEW S, NEW s \in Seq(S), NEW l
    PROVE  /\ Con!Count(s, l) \in Nat
           /\ IsFiniteSet({i \in DOMAIN s : s[i] = l})
           /\ Con!Count(s, l) > 0 <=> \E i \in DOMAIN s : s[i] = l
<1> DEFINE places == {i \in DOMAIN s : s[i] = l}
<1>1. DOMAIN s = 1..Len(s) /\ Len(s) \in Nat
  OBVIOUS
<1>2. IsFiniteSet(1..Len(s))
  BY <1>1, FS_Interval
<1>3. IsFiniteSet(places)
  BY <1>1, <1>2, FS_Subset
<1>4. Cardinality(places) \in Nat /\ (Cardinality(places) = 0 <=> places = {})
  BY <1>3, FS_CardinalityType, FS_EmptySet
<1> QED
  BY <1>3, <1>4, CountIs

\* A line written behind the others.
LEMMA CountAppend ==
    ASSUME NEW S, NEW s \in Seq(S), NEW m \in S, NEW l
    PROVE  Con!Count(Append(s, m), l) = Con!Count(s, l) + (IF m = l THEN 1 ELSE 0)
<1> DEFINE t == Append(s, m)
           places == {i \in DOMAIN s : s[i] = l}
           after  == {i \in DOMAIN t : t[i] = l}
<1>1. /\ DOMAIN s = 1..Len(s) /\ Len(s) \in Nat /\ DOMAIN t = 1..(Len(s) + 1)
      /\ t[Len(s) + 1] = m /\ \A i \in 1..Len(s) : t[i] = s[i]
  OBVIOUS
<1> HIDE DEF t
<1>2. IsFiniteSet(places) /\ Cardinality(places) \in Nat
  BY CountIs, CountType
<1>3. CASE m = l
  <2>1. after = places \cup {Len(s) + 1}
    BY <1>1, <1>3
  <2>2. Cardinality(after) = Cardinality(places) + 1
    <3>1. Len(s) + 1 \notin places
      BY <1>1
    <3> QED
      BY <1>2, <2>1, <3>1, FS_AddElement
  <2> QED
    BY <1>3, <2>2, CountIs DEF t
<1>4. CASE m # l
  <2>1. after = places
    BY <1>1, <1>4
  <2>2. Cardinality(after) = Cardinality(places) + 0
    <3> HIDE DEF after, places
    <3> QED
      BY <1>2, <2>1
  <2> QED
    BY <1>4, <2>2, CountIs DEF t
<1> QED
  BY <1>3, <1>4

\* The oldest line is taken.
LEMMA CountTail ==
    ASSUME NEW S, NEW s \in Seq(S), s # <<>>, NEW l
    PROVE  Con!Count(s, l) = Con!Count(Tail(s), l) + (IF Head(s) = l THEN 1 ELSE 0)
<1> DEFINE t == Tail(s)
           places == {i \in DOMAIN s : s[i] = l}
           after  == {i \in DOMAIN t : t[i] = l}
           shift  == [i \in after |-> i + 1]
<1>1. /\ DOMAIN s = 1..Len(s) /\ Len(s) \in Nat \ {0} /\ DOMAIN t = 1..(Len(s) - 1)
      /\ Head(s) = s[1] /\ \A i \in 1..(Len(s) - 1) : t[i] = s[i + 1]
  OBVIOUS
<1>2. t \in Seq(S)
  OBVIOUS
<1> HIDE DEF t
<1>3. IsFiniteSet(after) /\ IsFiniteSet(places) /\ Cardinality(after) \in Nat
  BY <1>2, CountIs, CountType
<1>4. shift \in Bijection(after, places \ {1})
  <2>1. \A i \in after : i \in 1..(Len(s) - 1) /\ s[i + 1] = l
    BY <1>1
  <2>2. \A i \in after : shift[i] \in places \ {1}
    BY <1>1, <2>1
  <2>3. \A i, j \in after : shift[i] = shift[j] => i = j
    BY <2>1
  <2>4. ASSUME NEW k \in places \ {1} PROVE \E i \in after : shift[i] = k
    <3>1. k - 1 \in 1..(Len(s) - 1) /\ (k - 1) + 1 = k
      BY <1>1
    <3>2. k - 1 \in after
      BY <1>1, <3>1
    <3> QED
      BY <3>1, <3>2
  <2> QED
    BY <2>2, <2>3, <2>4, Fun_IsBij
<1>5. Cardinality(places \ {1}) = Cardinality(after)
  BY <1>3, <1>4, FS_Bijection DEF ExistsBijection
<1>6. CASE Head(s) = l
  <2>1. 1 \in places
    BY <1>1, <1>6
  <2>2. places = (places \ {1}) \cup {1} /\ 1 \notin places \ {1}
    BY <2>1
  <2>3. Cardinality(places) = Cardinality(places \ {1}) + 1
    <3>1. IsFiniteSet(places \ {1})
      BY <1>3, FS_RemoveElement
    <3> QED
      BY <2>2, <3>1, FS_AddElement
  <2> QED
    BY <1>5, <1>6, <2>3, CountIs DEF t
<1>7. CASE Head(s) # l
  <2>1. places \ {1} = places
    BY <1>1, <1>7
  <2>2. Cardinality(places) = Cardinality(after) + 0
    <3> HIDE DEF after, places
    <3>1. Cardinality(places) = Cardinality(after)
      BY <1>5, <2>1, Zenon
    <3> QED
      BY <1>3, <3>1
  <2> QED
    BY <1>7, <2>2, CountIs DEF t
<1> QED
  BY <1>6, <1>7

-----------------------------------------------------------------------------
(* The console.                                                            *)

\* The kinds of lines.
LEMMA LineKinds ==
    /\ Con!Burst \in Con!Lines /\ Con!Clear \in Con!Lines /\ Con!Control \in Con!Lines
    /\ Con!Sensor \in Con!Lines /\ Con!Request \in Con!Lines /\ Con!Noise \in Con!Lines
    /\ \A v \in Values :
          /\ Con!MoveTo(v) = MoveTo(v) /\ MoveTo(v) \in Con!Lines
          /\ MoveTo(v) # Con!Burst /\ MoveTo(v) # Con!Clear
    /\ \A line \in {Con!Control, Con!Sensor, Con!Request, Con!Noise} :
          line # Con!Burst /\ line # Con!Clear
    /\ Con!Burst # Con!Clear /\ Con!Burst.kind # "MOVE" /\ Con!Control.kind # "MOVE"
BY DEF Con!Lines, Con!Burst, Con!Clear, Con!Control, Con!Sensor, Con!Request, Con!Noise,
       Con!MoveTo, MoveTo

LEMMA KindsOfLines ==
    \A line \in Con!Lines :
       /\ line.kind = "CLEAR" <=> line = Con!Clear
       /\ line.kind = "MOVE" => line.val \in Values
BY DEF Con!Lines, Con!Burst, Con!Clear, Con!Control, Con!Sensor, Con!Request, Con!Noise,
       Con!MoveTo

\* What a step of the program or its peer does to the types.
LEMMA ConsoleTypeStep == Con!TypeOK /\ Con!Next => Con!TypeOK'
<1> SUFFICES ASSUME Con!TypeOK, Con!Next PROVE Con!TypeOK'
  OBVIOUS
<1> USE DEF Con!Printed
<1>1. ASSUME NEW v \in Values, Con!SetMove(v) PROVE Con!TypeOK'
  BY <1>1, LineKinds DEF Con!SetMove, Con!TypeOK
<1>2. CASE Con!Ask
  BY <1>2, LineKinds DEF Con!Ask, Con!TypeOK
<1>3. ASSUME NEW automatic \in BOOLEAN, NEW paced \in BOOLEAN,
             Con!SetOptions(automatic, paced)
      PROVE  Con!TypeOK'
  BY <1>3 DEF Con!SetOptions, Con!TypeOK
<1>4. CASE Con!Service
  BY <1>4, LineKinds DEF Con!Service, Con!TypeOK
<1>5. CASE Con!Read
  <2>1. readTimeout' \in 0..10 /\ process' \in {"running", "waiting", "reading"}
    BY <1>5 DEF Con!Read, Con!TypeOK
  <2> QED
    BY <1>5, <2>1 DEF Con!Read, Con!TypeOK
<1>6. ASSUME NEW blocks \in Blocks, NEW mixed \in BOOLEAN, Con!Line(blocks, mixed)
      PROVE  Con!TypeOK'
  <2>1. output' \in Seq(Con!Lines) /\ input' \in Seq(Con!Lines)
    BY <1>6, LineKinds DEF Con!Line, Con!TypeOK
  <2>2. process' \in {"running", "waiting", "reading"}
    BY <1>6 DEF Con!Line
  <2>3. hadUpdate' \in BOOLEAN
    BY <1>6 DEF Con!Line
  <2>4. burst' \in BOOLEAN
    BY <1>6 DEF Con!Line, Con!TypeOK
  <2> QED
    BY <1>6, <2>1, <2>2, <2>3, <2>4 DEF Con!Line, Con!TypeOK
<1>7. CASE Con!EndOfInput
  BY <1>7 DEF Con!EndOfInput, Con!TypeOK
<1>8. CASE Con!PeerHandle
  <2>1. Head(output) \in Con!Lines /\ output' \in Seq(Con!Lines)
    BY <1>8 DEF Con!PeerHandle, Con!TypeOK
  <2>2. hostMove' \in Values
    <3>1. Head(output).kind = "MOVE" => Head(output).val \in Values
      BY <2>1, KindsOfLines
    <3> QED
      BY <1>8, <3>1 DEF Con!PeerHandle, Con!TypeOK
  <2>3. forwarded' \in Values /\ input' \in Seq(Con!Lines)
    <3>1. CASE Head(output) = Con!Burst
      BY <1>8, <3>1, LineKinds DEF Con!PeerHandle, Con!TypeOK
    <3>2. CASE Head(output) # Con!Burst
      BY <1>8, <3>2 DEF Con!PeerHandle, Con!TypeOK
    <3> QED
      BY <3>1, <3>2
  <2> QED
    BY <1>8, <2>1, <2>2, <2>3 DEF Con!PeerHandle, Con!TypeOK
<1>9. ASSUME NEW line \in {Con!Sensor, Con!Request, Con!Noise}, Con!PeerWrites(line)
      PROVE  Con!TypeOK'
  BY <1>9, LineKinds DEF Con!PeerWrites, Con!TypeOK
<1>10. CASE Con!PeerCloses
  BY <1>10 DEF Con!PeerCloses, Con!TypeOK
<1> QED
  BY <1>1, <1>2, <1>3, <1>4, <1>5, <1>6, <1>7, <1>8, <1>9, <1>10
  DEF Con!Next, Con!ServiceStep

-----------------------------------------------------------------------------
(* The burst.                                                              *)

Pending == Con!Count(output, Con!Burst) + Con!Count(input, Con!Clear)

\* While the burst flag is set one line that leads to its being cleared is on its
\* way, and at the end of the input perhaps none.
OnceInv ==
    /\ Pending \in {0, 1}
    /\ Pending = 1 => burst
    /\ burst => Pending = 1 \/ ended

\* When it has read everything the peer has the movement value, and when it has
\* read what is ahead of a burst, that of the frame.
ShownInv ==
    /\ Shows(output, hostMove, Len(output), move)
    /\ \A i \in 1..Len(output) : output[i] = Con!Burst => Shows(output, hostMove, i - 1, sent)

\* What is written behind the others, as far as the properties tell it apart.
Unread(line) ==
    /\ output' = Append(output, line) /\ line \in Con!Lines
    /\ UNCHANGED <<input, ended, hostMove, forwarded>>

\* What a step does to the lines, to the burst flag and to the peer's copies.
Effect ==
    \/ UNCHANGED <<burst, output, input, ended, move, hostMove, forwarded, sent>>
    \/ /\ Unread(MoveTo(move')) /\ move' \in Values
       /\ UNCHANGED <<burst, sent>>
    \/ /\ Unread(Con!Control)
       /\ UNCHANGED <<burst, move, sent>>
    \/ /\ ~burst /\ burst' /\ Unread(Con!Burst) /\ sent' = move
       /\ UNCHANGED move
    \/ /\ input # <<>> /\ input' = Tail(input)
       /\ burst' = (burst /\ Head(input) # Con!Clear)
       /\ \/ output' = output
          \/ output' = Append(output, MoveTo(move)) /\ Head(input) # Con!Clear
       /\ UNCHANGED <<ended, move, hostMove, forwarded, sent>>
    \/ Con!PeerHandle
    \/ \E line \in {Con!Sensor, Con!Request, Con!Noise} :
          /\ input' = Append(input, line)
          /\ UNCHANGED <<burst, output, ended, move, hostMove, forwarded, sent>>
    \/ /\ ended'
       /\ UNCHANGED <<burst, output, input, move, hostMove, forwarded, sent>>

LEMMA ConsoleSteps == Con!TypeOK /\ Con!Next => Effect
<1> SUFFICES ASSUME Con!TypeOK, Con!Next PROVE Effect
  OBVIOUS
<1> USE DEF Con!Printed, Effect
<1>1. ASSUME NEW v \in Values, Con!SetMove(v) PROVE Effect
  BY <1>1, LineKinds DEF Con!SetMove, Unread
<1>2. CASE Con!Ask
  BY <1>2, LineKinds DEF Con!Ask, Unread
<1>3. ASSUME NEW automatic \in BOOLEAN, NEW paced \in BOOLEAN,
             Con!SetOptions(automatic, paced)
      PROVE  Effect
  BY <1>3 DEF Con!SetOptions
<1>4. CASE Con!Service
  <2>1. CASE autoBurst /\ ~burst
    BY <1>4, <2>1, LineKinds DEF Con!Service, Unread
  <2>2. CASE ~(autoBurst /\ ~burst)
    <3>1. burst' = burst
      BY <1>4, <2>2 DEF Con!Service, Con!TypeOK
    <3> QED
      BY <1>4, <2>2, <3>1 DEF Con!Service
  <2> QED
    BY <2>1, <2>2
<1>5. CASE Con!Read
  BY <1>5 DEF Con!Read
<1>6. ASSUME NEW blocks \in Blocks, NEW mixed \in BOOLEAN, Con!Line(blocks, mixed)
      PROVE  Effect
  <2>1. Con!Understood(blocks, mixed)
    BY AlwaysUnderstood
  <2>2. input # <<>> /\ input' = Tail(input) /\ Head(input) \in Con!Lines
    BY <1>6 DEF Con!Line, Con!TypeOK
  <2>3. UNCHANGED <<ended, move, hostMove, forwarded, sent>>
    BY <1>6 DEF Con!Line
  <2>4. Head(input).kind = "CLEAR" <=> Head(input) = Con!Clear
    BY <2>2, KindsOfLines
  <2>5. burst' = (burst /\ Head(input) # Con!Clear)
    BY <1>6, <2>1, <2>4 DEF Con!Line, Con!TypeOK
  <2>6. \/ output' = output
        \/ output' = Append(output, MoveTo(move)) /\ Head(input) # Con!Clear
    BY <1>6, <2>1, <2>4, LineKinds DEF Con!Line, Con!TypeOK
  <2> QED
    BY <2>2, <2>3, <2>5, <2>6
<1>7. CASE Con!EndOfInput
  BY <1>7 DEF Con!EndOfInput
<1>8. CASE Con!PeerHandle
  BY <1>8
<1>9. ASSUME NEW line \in {Con!Sensor, Con!Request, Con!Noise}, Con!PeerWrites(line)
      PROVE  Effect
  BY <1>9 DEF Con!PeerWrites
<1>10. CASE Con!PeerCloses
  BY <1>10 DEF Con!PeerCloses
<1> QED
  BY <1>1, <1>2, <1>3, <1>4, <1>5, <1>6, <1>7, <1>8, <1>9, <1>10
  DEF Con!Next, Con!ServiceStep

LEMMA OnceStep == Con!TypeOK /\ OnceInv /\ Con!Next => OnceInv'
<1> SUFFICES ASSUME Con!TypeOK, OnceInv, Con!Next PROVE OnceInv'
  OBVIOUS
<1> DEFINE bursts == Con!Count(output, Con!Burst)
           resets == Con!Count(input, Con!Clear)
<1>1. output \in Seq(Con!Lines) /\ input \in Seq(Con!Lines) /\ burst \in BOOLEAN
  BY DEF Con!TypeOK
<1>2. bursts \in Nat /\ resets \in Nat /\ Pending = bursts + resets
  BY <1>1, CountType DEF Pending
<1>3. Effect
  BY ConsoleSteps
<1>4. ASSUME Pending' = Pending, burst' = burst, ended' \/ ended' = ended PROVE OnceInv'
  BY <1>4 DEF OnceInv
<1>5. CASE UNCHANGED <<burst, output, input, ended, move, hostMove, forwarded, sent>>
  BY <1>4, <1>5 DEF Pending
<1>6. ASSUME NEW line \in Con!Lines, Unread(line), line # Con!Burst, UNCHANGED burst
      PROVE  OnceInv'
  <2>1. Con!Count(output', Con!Burst) = bursts + 0
    BY <1>1, <1>6, CountAppend DEF Unread
  <2> QED
    BY <1>2, <1>4, <1>6, <2>1 DEF Unread, Pending
<1>7. CASE ~burst /\ burst' /\ Unread(Con!Burst)
  <2>1. Con!Count(output', Con!Burst) = bursts + 1
    BY <1>1, <1>7, CountAppend, LineKinds DEF Unread
  <2>2. Pending = 0
    BY <1>7 DEF OnceInv
  <2>3. Pending' = 1
    BY <1>2, <1>7, <2>1, <2>2 DEF Unread, Pending
  <2> QED
    BY <1>7, <2>3 DEF OnceInv
<1>8. CASE /\ input # <<>> /\ input' = Tail(input)
           /\ burst' = (burst /\ Head(input) # Con!Clear)
           /\ \/ output' = output
              \/ output' = Append(output, MoveTo(move)) /\ Head(input) # Con!Clear
           /\ UNCHANGED ended
  <2>1. Con!Count(output', Con!Burst) = bursts + 0
    <3>1. MoveTo(move) \in Con!Lines /\ MoveTo(move) # Con!Burst
      BY LineKinds DEF Con!TypeOK
    <3>2. CASE output' = output
      BY <1>2, <3>2
    <3>3. CASE output' = Append(output, MoveTo(move))
      BY <1>1, <3>1, <3>3, CountAppend
    <3> QED
      BY <1>8, <3>2, <3>3
  <2>2. resets = Con!Count(input', Con!Clear) + (IF Head(input) = Con!Clear THEN 1 ELSE 0)
    BY <1>1, <1>8, CountTail
  <2>3. Con!Count(input', Con!Clear) \in Nat
    <3>1. input' \in Seq(Con!Lines)
      BY <1>1, <1>8
    <3> QED
      BY <3>1, CountType
  <2>4. Pending' = Pending - (IF Head(input) = Con!Clear THEN 1 ELSE 0) /\ Pending' \in Nat
    BY <1>2, <2>1, <2>2, <2>3 DEF Pending
  <2>5. CASE Head(input) = Con!Clear
    <3>1. Pending' = Pending - 1 /\ Pending' \in Nat
      BY <2>4, <2>5
    <3>2. Pending' = 0
      BY <3>1 DEF OnceInv
    <3>3. ~burst'
      BY <1>8, <2>5
    <3> QED
      BY <3>2, <3>3 DEF OnceInv
  <2>6. CASE Head(input) # Con!Clear
    <3>1. Pending' = Pending
      <4>1. Pending' = Pending - 0
        BY <2>4, <2>6
      <4> QED
        BY <4>1 DEF OnceInv
    <3>2. burst' = burst
      BY <1>1, <1>8, <2>6
    <3> QED
      BY <1>4, <1>8, <3>1, <3>2
  <2> QED
    BY <2>5, <2>6
<1>9. CASE Con!PeerHandle
  <2>1. /\ output # <<>> /\ output' = Tail(output) /\ UNCHANGED <<burst, ended>>
        /\ input' = IF Head(output) = Con!Burst /\ ~ended THEN Append(input, Con!Clear) ELSE input
    BY <1>9 DEF Con!PeerHandle
  <2>2. bursts = Con!Count(output', Con!Burst) + (IF Head(output) = Con!Burst THEN 1 ELSE 0)
    BY <1>1, <2>1, CountTail
  <2>3. Con!Count(output', Con!Burst) \in Nat
    <3>1. output' \in Seq(Con!Lines)
      BY <1>1, <2>1
    <3> QED
      BY <3>1, CountType
  <2>4. Con!Count(input', Con!Clear)
          = resets + (IF Head(output) = Con!Burst /\ ~ended THEN 1 ELSE 0)
    <3>1. CASE Head(output) = Con!Burst /\ ~ended
      BY <1>1, <2>1, <3>1, CountAppend, LineKinds
    <3>2. CASE ~(Head(output) = Con!Burst /\ ~ended)
      BY <1>2, <2>1, <3>2
    <3> QED
      BY <3>1, <3>2
  <2>5. CASE Head(output) # Con!Burst \/ ~ended
    <3>1. Pending' = Pending
      BY <1>2, <2>2, <2>3, <2>4, <2>5 DEF Pending
    <3> QED
      BY <1>4, <2>1, <3>1
  <2>6. CASE Head(output) = Con!Burst /\ ended
    <3>1. Pending' = Pending - 1 /\ Pending' \in Nat
      BY <1>2, <2>2, <2>3, <2>4, <2>6 DEF Pending
    <3>2. Pending' = 0
      BY <3>1 DEF OnceInv
    <3>3. ended'
      BY <2>1, <2>6
    <3> QED
      BY <3>2, <3>3 DEF OnceInv
  <2> QED
    BY <2>5, <2>6
<1>10. ASSUME NEW line \in {Con!Sensor, Con!Request, Con!Noise},
              input' = Append(input, line), UNCHANGED <<burst, output, ended>>
       PROVE  OnceInv'
  <2>1. line \in Con!Lines /\ line # Con!Clear
    BY LineKinds
  <2>2. Con!Count(input', Con!Clear) = resets + 0
    BY <1>1, <1>10, <2>1, CountAppend
  <2> QED
    BY <1>2, <1>4, <1>10, <2>2 DEF Pending
<1>11. CASE ended' /\ UNCHANGED <<burst, output, input>>
  BY <1>4, <1>11 DEF Pending
<1> QED
  BY <1>3, <1>5, <1>6, <1>7, <1>8, <1>9, <1>10, <1>11, LineKinds DEF Effect

-----------------------------------------------------------------------------
(* The movement.                                                           *)

LEMMA ShownAppend ==
    ASSUME Con!TypeOK, ShownInv, NEW line \in Con!Lines, line # Con!Burst,
           output' = Append(output, line), UNCHANGED <<hostMove, sent>>,
           Shows(Append(output, line), hostMove, Len(output) + 1, move')
    PROVE  ShownInv'
<1>1. output \in Seq(Con!Lines)
  BY DEF Con!TypeOK
<1>2. /\ Len(output') = Len(output) + 1 /\ output'[Len(output) + 1] = line
      /\ \A i \in 1..Len(output) : output'[i] = output[i]
  BY <1>1
<1>3. ASSUME NEW i \in 1..Len(output'), output'[i] = Con!Burst
      PROVE  Shows(output', hostMove, i - 1, sent)
  <2>1. i \in 1..Len(output)
    BY <1>1, <1>2, <1>3
  <2>2. Shows(output, hostMove, i - 1, sent) /\ i - 1 \in 0..Len(output)
    BY <1>2, <1>3, <2>1 DEF ShownInv
  <2> QED
    BY <1>1, <2>2, ShowsAppend
<1> QED
  BY <1>2, <1>3 DEF ShownInv

LEMMA ShownStep == Con!TypeOK /\ OnceInv /\ ShownInv /\ Con!Next => ShownInv'
<1> SUFFICES ASSUME Con!TypeOK, OnceInv, ShownInv, Con!Next PROVE ShownInv'
  OBVIOUS
<1>1. output \in Seq(Con!Lines) /\ input \in Seq(Con!Lines) /\ move \in Values
  BY DEF Con!TypeOK
<1>2. Effect
  BY ConsoleSteps
<1>3. CASE UNCHANGED <<output, move, hostMove, sent>>
  BY <1>3 DEF ShownInv
<1>4. ASSUME NEW v \in Values, move' = v, output' = Append(output, MoveTo(v)),
             UNCHANGED <<hostMove, sent>>
      PROVE  ShownInv'
  <2>1. MoveTo(v) \in Con!Lines /\ MoveTo(v) # Con!Burst
    BY LineKinds
  <2>2. Shows(Append(output, MoveTo(v)), hostMove, Len(output) + 1, v)
    BY <1>1, <2>1, ShowsMove
  <2> QED
    BY <1>4, <2>1, <2>2, ShownAppend
<1>5. CASE Unread(Con!Control) /\ UNCHANGED <<burst, move, sent>>
  <2>1. Con!Control \in Con!Lines /\ Con!Control # Con!Burst /\ Con!Control.kind # "MOVE"
    BY LineKinds
  <2>2. Shows(Append(output, Con!Control), hostMove, Len(output) + 1, move)
    BY <1>1, <2>1, ShowsOther DEF ShownInv
  <2> QED
    BY <1>5, <2>1, <2>2, ShownAppend DEF Unread
<1>6. CASE /\ ~burst /\ Unread(Con!Burst) /\ sent' = move
           /\ UNCHANGED move
  <2>1. Con!Burst \in Con!Lines /\ Con!Burst.kind # "MOVE"
    BY LineKinds
  <2>2. output' = Append(output, Con!Burst) /\ hostMove' = hostMove
    BY <1>6 DEF Unread
  <2>3. /\ Len(output') = Len(output) + 1
        /\ \A i \in 1..Len(output) : output'[i] = output[i]
    BY <1>1, <2>1, <2>2
  <2>4. Shows(output', hostMove, Len(output) + 1, move)
    BY <1>1, <2>1, <2>2, ShowsOther DEF ShownInv
  <2>5. Shows(output', hostMove, Len(output), move)
    <3>1. Len(output) \in 0..Len(output)
      BY <1>1
    <3> QED
      BY <1>1, <2>1, <2>2, <3>1, ShowsAppend DEF ShownInv
  <2>6. \A i \in 1..Len(output) : output[i] # Con!Burst
    <3>1. Pending = 0
      BY <1>6 DEF OnceInv
    <3>2. Con!Count(output, Con!Burst) \in Nat /\ Con!Count(input, Con!Clear) \in Nat
      BY <1>1, CountType
    <3>3. ~(Con!Count(output, Con!Burst) > 0)
      BY <3>1, <3>2 DEF Pending
    <3>4. DOMAIN output = 1..Len(output)
      BY <1>1
    <3> QED
      BY <1>1, <3>3, <3>4, CountType
  <2>7. ASSUME NEW i \in 1..Len(output'), output'[i] = Con!Burst
        PROVE  Shows(output', hostMove, i - 1, move)
    <3>1. i = Len(output) + 1
      BY <1>1, <2>3, <2>6, <2>7
    <3>2. i - 1 = Len(output)
      BY <1>1, <3>1
    <3> QED
      BY <2>5, <3>2
  <2> QED
    BY <1>6, <2>2, <2>3, <2>4, <2>7 DEF ShownInv
<1>7. CASE Con!PeerHandle
  <2> DEFINE t == Tail(output)
             g == IF Head(output).kind = "MOVE" THEN Head(output).val ELSE hostMove
  <2>1. output # <<>> /\ output' = t /\ hostMove' = g /\ UNCHANGED <<move, sent>>
    BY <1>7 DEF Con!PeerHandle
  <2>2. /\ Len(output) \in 1..Len(output) /\ Len(t) = Len(output) - 1
        /\ \A i \in 1..Len(t) : t[i] = output[i + 1] /\ i + 1 \in 1..Len(output)
                               /\ i \in 1..Len(output) /\ (i + 1) - 1 = i
    BY <1>1, <2>1
  <2>3. Shows(t, g, Len(t), move)
    BY <1>1, <2>1, <2>2, ShowsTail DEF ShownInv
  <2>4. ASSUME NEW i \in 1..Len(t), t[i] = Con!Burst
        PROVE  Shows(t, g, i - 1, sent)
    <3>1. output[i + 1] = Con!Burst /\ i + 1 \in 1..Len(output) /\ (i + 1) - 1 = i
      BY <2>2, <2>4
    <3>2. Shows(output, hostMove, i, sent)
      BY <3>1 DEF ShownInv
    <3>3. i \in 1..Len(output)
      BY <2>2
    <3> QED
      BY <1>1, <2>1, <3>2, <3>3, ShowsTail
  <2> HIDE DEF t, g
  <2> QED
    BY <2>1, <2>3, <2>4 DEF ShownInv
<1> QED
  BY <1>1, <1>2, <1>3, <1>4, <1>5, <1>6, <1>7 DEF Effect, Unread

LEMMA ForwardedStep ==
    Con!TypeOK /\ OnceInv /\ ShownInv /\ Con!ForwardedIsSent /\ Con!Next => Con!ForwardedIsSent'
<1> SUFFICES ASSUME Con!TypeOK, OnceInv, ShownInv, Con!ForwardedIsSent, Con!Next,
                    Con!Count(input', Con!Clear) > 0
             PROVE  forwarded' = sent'
  BY DEF Con!ForwardedIsSent
<1> DEFINE resets == Con!Count(input, Con!Clear)
<1>1. output \in Seq(Con!Lines) /\ input \in Seq(Con!Lines)
  BY DEF Con!TypeOK
<1>2. resets \in Nat
  BY <1>1, CountType
<1>3. Effect
  BY ConsoleSteps
<1>4. ASSUME resets > 0, UNCHANGED <<forwarded, sent>> PROVE forwarded' = sent'
  BY <1>4 DEF Con!ForwardedIsSent
<1>5. CASE UNCHANGED <<input, forwarded, sent>>
  BY <1>4, <1>5
<1>6. CASE ~burst /\ UNCHANGED input
  <2>1. Pending = 0
    BY <1>6 DEF OnceInv
  <2>2. Con!Count(output, Con!Burst) \in Nat
    BY <1>1, CountType
  <2>3. ~(resets > 0)
    BY <1>2, <2>1, <2>2 DEF Pending
  <2> QED
    BY <1>6, <2>3
<1>7. CASE input # <<>> /\ input' = Tail(input) /\ UNCHANGED <<forwarded, sent>>
  <2>1. resets = Con!Count(input', Con!Clear) + (IF Head(input) = Con!Clear THEN 1 ELSE 0)
    BY <1>1, <1>7, CountTail
  <2>2. Con!Count(input', Con!Clear) \in Nat
    <3>1. input' \in Seq(Con!Lines)
      BY <1>1, <1>7
    <3> QED
      BY <3>1, CountType
  <2>3. resets > 0
    BY <2>1, <2>2
  <2> QED
    BY <1>4, <1>7, <2>3
<1>8. CASE Con!PeerHandle
  <2>1. CASE Head(output) = Con!Burst
    <3>1. 1 \in 1..Len(output) /\ output[1] = Con!Burst
      BY <1>1, <1>8, <2>1 DEF Con!PeerHandle
    <3>2. Shows(output, hostMove, 1 - 1, sent)
      BY <3>1 DEF ShownInv
    <3>3. sent = hostMove
      BY <3>2 DEF Shows
    <3> QED
      BY <1>8, <2>1, <3>3 DEF Con!PeerHandle
  <2>2. CASE Head(output) # Con!Burst
    BY <1>5, <1>8, <2>2 DEF Con!PeerHandle
  <2> QED
    BY <2>1, <2>2
<1>9. ASSUME NEW line \in {Con!Sensor, Con!Request, Con!Noise},
             input' = Append(input, line), UNCHANGED <<forwarded, sent>>
      PROVE  forwarded' = sent'
  <2>1. line \in Con!Lines /\ line # Con!Clear
    BY LineKinds
  <2>2. Con!Count(input', Con!Clear) = resets + 0
    BY <1>1, <1>9, <2>1, CountAppend
  <2>3. resets > 0
    BY <1>2, <2>2
  <2> QED
    BY <1>4, <1>9, <2>3
<1> QED
  BY <1>3, <1>5, <1>6, <1>7, <1>8, <1>9 DEF Effect, Unread

-----------------------------------------------------------------------------
(* The handle.                                                             *)

ConsoleInv == Con!TypeOK /\ OnceInv /\ ShownInv /\ Con!ForwardedIsSent

LEMMA ConsoleCorrect == Con!Spec => []ConsoleInv
<1>1. Con!Init => ConsoleInv
  <2> SUFFICES ASSUME Con!Init PROVE ConsoleInv
    OBVIOUS
  <2>1. output = <<>> /\ input = <<>> /\ ~burst /\ hostMove = move /\ forwarded = sent
    BY DEF Con!Init
  <2>2. Con!TypeOK
    <3>1. output \in Seq(Con!Lines) /\ input \in Seq(Con!Lines)
      BY <2>1
    <3>2. 0 \in 0..10
      OBVIOUS
    <3>3. Default \in Values
      BY ParametersAssumption
    <3> QED
      BY <3>1, <3>2, <3>3 DEF Con!Init, Con!TypeOK
  <2>3. Pending = 0
    <3>1. \A l : {i \in DOMAIN <<>> : <<>>[i] = l} = {}
      OBVIOUS
    <3>2. \A l : Con!Count(<<>>, l) = 0
      BY <3>1, CountIs, FS_EmptySet
    <3> QED
      BY <2>1, <3>2 DEF Pending
  <2>4. OnceInv
    BY <2>1, <2>3 DEF OnceInv
  <2>5. ShownInv
    BY <2>1 DEF ShownInv, Shows
  <2>6. Con!ForwardedIsSent
    BY <2>1 DEF Con!ForwardedIsSent
  <2> QED
    BY <2>2, <2>4, <2>5, <2>6 DEF ConsoleInv
<1>2. ConsoleInv /\ [Con!Next]_(Con!consoleVars) => ConsoleInv'
  <2> SUFFICES ASSUME ConsoleInv, [Con!Next]_(Con!consoleVars) PROVE ConsoleInv'
    OBVIOUS
  <2>1. CASE Con!Next
    BY <2>1, ConsoleTypeStep, OnceStep, ShownStep, ForwardedStep DEF ConsoleInv
  <2>2. CASE UNCHANGED Con!consoleVars
    BY <2>2 DEF Con!consoleVars, ConsoleInv, Con!TypeOK, OnceInv, Pending, ShownInv,
                Con!ForwardedIsSent
  <2> QED
    BY <2>1, <2>2
<1> QED
  BY <1>1, <1>2, PTL DEF Con!Spec

\* The mode is decided when the handle is created, and no call changes it.
LEMMA ModeStep ==
    [HandleNext]_handleVars =>
       /\ consoleOnly => consoleOnly' /\ [Con!Next]_(Con!consoleVars) /\ UNCHANGED socketOnlyVars
       /\ ~consoleOnly => ~consoleOnly' /\ [Next]_vars
<1> SUFFICES ASSUME [HandleNext]_handleVars
             PROVE  /\ consoleOnly => /\ consoleOnly' /\ [Con!Next]_(Con!consoleVars)
                                      /\ UNCHANGED socketOnlyVars
                    /\ ~consoleOnly => ~consoleOnly' /\ [Next]_vars
  OBVIOUS
<1>1. CASE OnSocket(Next)
  BY <1>1 DEF OnSocket
<1>2. CASE OnConsole(Con!Next)
  BY <1>2 DEF OnConsole
<1>3. CASE UNCHANGED handleVars
  BY <1>3 DEF handleVars, vars, consoleOnlyVars, socketOnlyVars, Con!consoleVars, program, host
<1> QED
  BY <1>1, <1>2, <1>3 DEF HandleNext

\* A handle that was created with RSUPPORT_CONSOLE_ONLY does what Console says ...
THEOREM ConsoleHandle == HandleSpec /\ consoleOnly => Con!Spec
<1>1. HandleInit => Con!Init
  BY DEF HandleInit
<1> QED
  BY <1>1, ModeStep, PTL DEF HandleSpec, Con!Spec

\* ... and any other one what RSupportClient says.
THEOREM SocketHandle == HandleSpec /\ ~consoleOnly => Spec
<1>1. HandleInit => Init
  BY DEF HandleInit
<1> QED
  BY <1>1, ModeStep, PTL DEF HandleSpec, Spec

\* The console's variables have their types.
THEOREM ConsoleTypeCorrect == HandleSpec => []ConsoleTypeOK
<1>1. ConsoleInv \/ ~consoleOnly => ConsoleTypeOK
  BY DEF ConsoleInv, ConsoleTypeOK
<1> QED
  BY <1>1, ConsoleHandle, ConsoleCorrect, ModeStep, PTL DEF HandleSpec

\* While the burst flag is set exactly one line that leads to its being cleared
\* is on its way, and otherwise none, for every length of the lines.
THEOREM OneBurstCorrect == HandleSpec => []OneBurst
<1>1. ConsoleInv => OneBurst
  BY DEF ConsoleInv, OnceInv, Pending, OneBurst, Con!OneBurst
<1>2. ~consoleOnly => OneBurst
  BY DEF OneBurst
<1> QED
  BY <1>1, <1>2, ConsoleHandle, ConsoleCorrect, ModeStep, PTL DEF HandleSpec

\* When the line that clears the flag comes, the peer has forwarded the movement
\* of the frame that set it.
THEOREM ForwardedIsSentCorrect == HandleSpec => []ForwardedIsSent
<1>1. ConsoleInv \/ ~consoleOnly => ForwardedIsSent
  BY DEF ConsoleInv, ForwardedIsSent
<1> QED
  BY <1>1, ConsoleHandle, ConsoleCorrect, ModeStep, PTL DEF HandleSpec
-----------------------------------------------------------------------------
(* The properties of RSupportClient for the handle.                        *)

\* The connection of a handle that has none.
Unconnected ==
    /\ fd = 0 /\ link = "none" /\ made = 0 /\ clean = FALSE
    /\ files = [n \in Numbers |-> IF n = 0 THEN Input ELSE Free]
    /\ open = [c \in Conns |-> FALSE]
    /\ toHost = [c \in Conns |-> <<>>]
    /\ clears = [c \in Conns |-> 0]

LEMMA UnconnectedStep ==
    ASSUME consoleOnly, Unconnected, [HandleNext]_handleVars
    PROVE  Unconnected'
<1>1. UNCHANGED <<fd, files, link, made, open, toHost, clears, clean>>
  BY ModeStep DEF socketOnlyVars, adapter
<1> QED
  BY <1>1 DEF Unconnected, Numbers, Conns

LEMMA UnconnectedInvariant == HandleSpec /\ consoleOnly => [](consoleOnly /\ Unconnected)
<1>1. HandleInit => Unconnected
  BY DEF HandleInit, Init, Unconnected
<1>2. consoleOnly /\ Unconnected /\ [HandleNext]_handleVars
         => (consoleOnly /\ Unconnected)'
  BY UnconnectedStep, ModeStep
<1> QED
  BY <1>1, <1>2, PTL DEF HandleSpec

\* The variables of RSupportClient keep their types in either mode.
THEOREM HandleTypeCorrect == HandleSpec => []TypeOK
<1>1. ConsoleInv /\ Unconnected => TypeOK
  <2> SUFFICES ASSUME ConsoleInv, Unconnected PROVE TypeOK
    OBVIOUS
  <2>1. /\ fd \in Numbers /\ made \in 0..MaxConnects
        /\ files \in [Numbers -> {Input, Free, Other, Dead} \cup {Socket(c) : c \in Conns}]
    BY ParametersAssumption DEF Unconnected, Numbers
  <2>2. <<>> \in Seq(Messages)
    OBVIOUS
  <2>3. /\ open \in [Conns -> BOOLEAN] /\ clears \in [Conns -> Nat]
        /\ toHost \in [Conns -> Seq(Messages)]
    BY <2>2 DEF Unconnected
  <2> QED
    BY <2>1, <2>3 DEF ConsoleInv, Con!TypeOK, Unconnected, TypeOK
<1>2. HandleSpec /\ consoleOnly => []TypeOK
  BY <1>1, UnconnectedInvariant, ConsoleHandle, ConsoleCorrect, PTL
<1> QED
  BY <1>2, SocketHandle, TypeCorrect, PTL

\* The adapter of a handle never reads or writes another file of the program
\* before the program has disconnected it.
THEOREM HandleForeignOnlyWhenGone ==
    ASSUME Orderly = TRUE PROVE HandleSpec => []ForeignOnlyWhenGone
<1>1. Unconnected => ForeignOnlyWhenGone
  BY ParametersAssumption DEF Unconnected, ForeignOnlyWhenGone, Numbers, Input, Other
<1> QED
  BY <1>1, UnconnectedInvariant, SocketHandle, ForeignOnlyWhenGoneCorrect, PTL

\* A change that is made while the handle is connected goes to the connection
\* made last; a console handle never is.
THEOREM HandleLinkedSends ==
    ASSUME Orderly = TRUE PROVE HandleSpec => LinkedSends
<1>1. Unconnected =>
        [\A v \in Values :
          SetMove(v) /\ link = "linked" /\ open[made] /\ Len(toHost[made]) < Capacity
          => toHost'[made] = Append(toHost[made], MoveTo(v))]_vars
  BY DEF Unconnected
<1>2. HandleSpec /\ consoleOnly => LinkedSends
  BY <1>1, UnconnectedInvariant, PTL DEF LinkedSends
<1> QED
  BY <1>2, SocketHandle, LinkedSendsCorrect, PTL

\* On a connection that lost nothing, a burst makes the host forward the movement
\* of the frame that sent it, in a handle as in the adapter by itself.
THEOREM HandleBurstMeansItsFrame == HandleSpec => BurstMeansItsFrame
<1>1. Unconnected =>
        [\A c \in Conns :
          HostHandle(c) /\ clean /\ Head(toHost[c]).kind = "BURST"
          => forwarded' = Head(toHost[c]).val]_vars
  BY DEF Unconnected
<1>2. HandleSpec /\ consoleOnly => BurstMeansItsFrame
  BY <1>1, UnconnectedInvariant, PTL DEF BurstMeansItsFrame
<1> QED
  BY <1>2, SocketHandle, BurstMeansItsFrameCorrect, PTL
=============================================================================
