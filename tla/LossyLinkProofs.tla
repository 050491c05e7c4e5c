-------------------------- MODULE LossyLinkProofs --------------------------
(***************************************************************************)
(* Proofs about LossyLink, for every width of the sequence numbers, every  *)
(* jump, and every lag and loss of the transport.                          *)
(***************************************************************************)
EXTENDS LossyLink, TLAPS

LEMMA Numbers == SeqMod \in Nat \ {0} /\ Half \in Nat \ {0} /\ SeqMod = 2 * Half /\ Half < SeqMod
<1>1. SeqMod \in Nat /\ SeqMod = 2 * Half /\ Half > 0
  BY NumbersAssumption
<1>2. Half \in Int
  BY <1>1 DEF Half
<1> QED
  BY <1>1, <1>2

LEMMA WireRange == \A n \in Nat : Wire(n) \in 0..(SeqMod - 1)
<1> SUFFICES ASSUME NEW n \in Nat PROVE Wire(n) \in 0..(SeqMod - 1)
  OBVIOUS
<1>1. Start + n \in Nat
  BY NumbersAssumption
<1> HIDE DEF Half
<1> QED
  BY <1>1, Numbers DEF Wire

LEMMA RecordedType ==
    ASSUME TypeOK, NEW seq \in 0..(SeqMod - 1)
    PROVE  Recorded(seq) \in [seq : 0..(SeqMod - 1), id : 0..(SeqMod - 1)]
<1>1. AdapterId % SeqMod \in 0..(SeqMod - 1)
  BY Numbers, NumbersAssumption
<1>2. 0 \in 0..(SeqMod - 1)
  BY Numbers
<1> QED
  BY <1>1, <1>2 DEF Recorded, TypeOK, Advances, Jumps, OtherSender

\* The record stays a pair of uint16_t and the value applied is one that has
\* arrived.
THEOREM TypeCorrect == Spec => []TypeOK
<1>1. Init => TypeOK
  BY Numbers, NumbersAssumption DEF Init, Zero, TypeOK
<1>2. TypeOK /\ [Next]_vars => TypeOK'
  <2> SUFFICES ASSUME TypeOK, [Next]_vars PROVE TypeOK'
    OBVIOUS
  <2>1. ASSUME NEW n \in 1..MaxSends, Arrive(n)
        PROVE  TypeOK'
    <3>1. MaxSends \in Nat /\ n \in Nat /\ newest \in Nat /\ applied \in Nat
      BY NumbersAssumption DEF TypeOK
    <3>2. record' \in [seq : 0..(SeqMod - 1), id : 0..(SeqMod - 1)]
      BY <2>1, <3>1, WireRange, RecordedType DEF Arrive
    <3>3. newest' \in 0..MaxSends /\ applied' \in 0..newest'
      BY <2>1, <3>1 DEF Arrive, TypeOK
    <3> QED
      BY <3>2, <3>3 DEF TypeOK
  <2>2. CASE Reset
    BY <2>2, Numbers DEF Reset, Zero, TypeOK
  <2>3. CASE UNCHANGED vars
    BY <2>3 DEF vars, TypeOK
  <2> QED
    BY <2>1, <2>2, <2>3 DEF Next
<1> QED
  BY <1>1, <1>2, PTL DEF Spec

-----------------------------------------------------------------------------
(* Before the numbers reach the sign bit.                                  *)

\* The adapter has the default id, the transport is not slower than the policy
\* expects, and no update is numbered 2^15 or above.
Window ==
    /\ AdapterId = 0
    /\ MaxLag <= Jump
    /\ Start + MaxSends < Half

\* The record is cleared, or it is the number of the update held.
Tracks ==
    /\ record.id = 0
    /\ record.seq = 0 \/ record.seq = Start + applied

LEMMA WindowNumbers ==
    ASSUME Window, NEW n \in 0..MaxSends, NEW k \in 0..MaxSends
    PROVE  /\ Wire(n) = Start + n /\ Start + n \in Nat
           /\ Distance(Start + n, Start + k) = IF n < k THEN k - n ELSE n - k
<1>1. Start \in Nat /\ MaxSends \in Nat /\ Start + n < Half /\ Start + k < Half
  BY Numbers, NumbersAssumption DEF Window
<1>2. Wire(n) = Start + n
  <2> HIDE DEF Half
  <2> QED
    BY <1>1, Numbers DEF Wire
<1>3. Signed(Start + n) = Start + n /\ Signed(Start + k) = Start + k
  BY <1>1 DEF Signed
<1> QED
  BY <1>1, <1>2, <1>3 DEF Distance

LEMMA ArriveInWindow ==
    ASSUME Window, TypeOK, Tracks, NEW n \in 1..MaxSends, Arrive(n)
    PROVE  /\ Tracks'
           /\ applied' < applied => record.seq = 0
           /\ n > applied => applied' = n
<1>1. /\ n \in Nat /\ applied \in Nat /\ newest \in Nat /\ MaxLag \in Nat /\ Jump \in Nat
      /\ Start \in Nat /\ MaxSends \in Nat
      /\ n \in 0..MaxSends /\ applied \in 0..MaxSends /\ applied <= newest
  BY NumbersAssumption DEF TypeOK
<1>2. Wire(n) = Start + n /\ Start + n \in Nat
  BY <1>1, WindowNumbers
<1>3. ~OtherSender
  BY DEF OtherSender, Tracks, Window
<1>4. CASE Advances(Wire(n))
  <2>1. record' = [record EXCEPT !.seq = Start + n] /\ applied' = n
    BY <1>2, <1>4 DEF Arrive, Recorded, Drops
  <2>2. applied' < applied => record.seq = 0
    BY <1>1, <1>2, <1>4, <2>1 DEF Advances, Tracks
  <2> QED
    BY <2>1, <2>2 DEF Tracks, TypeOK
<1>5. CASE ~Advances(Wire(n))
  <2>1. record.seq = Start + applied /\ n < applied
    BY <1>1, <1>2, <1>5 DEF Advances, Tracks
  <2>2. Distance(Wire(n), record.seq) = applied - n
    BY <1>1, <1>2, <2>1, WindowNumbers
  <2>3. applied - n <= MaxLag
    BY <1>1 DEF Arrive
  <2>4. ~Jumps(Wire(n))
    BY <1>1, <2>1, <2>2, <2>3 DEF Jumps, Window
  <2>5. applied' = applied /\ record' = record
    BY <1>3, <1>5, <2>4 DEF Arrive, Drops, Recorded
  <2> QED
    BY <1>1, <2>1, <2>5 DEF Tracks
<1> QED
  BY <1>4, <1>5

LEMMA TracksInvariant == ASSUME Window PROVE Spec => [](TypeOK /\ Tracks)
<1>1. Init => Tracks
  BY DEF Init, Zero, Tracks
<1>2. TypeOK /\ Tracks /\ [Next]_vars => Tracks'
  BY ArriveInWindow DEF Next, Reset, Zero, vars, Tracks
<1> QED
  BY <1>1, <1>2, TypeCorrect, PTL DEF Spec

\* In the window a late or repeated packet never puts back an older value.
THEOREM NeverBackwardsCorrect == ASSUME Window PROVE Spec => NeverBackwards
<1>1. TypeOK /\ Tracks /\ [Next]_vars => [applied' < applied => record.seq = 0]_vars
  <2> SUFFICES ASSUME TypeOK, Tracks, Next, applied' < applied
               PROVE  record.seq = 0
    BY DEF vars
  <2>1. CASE Reset
    BY <2>1 DEF Reset, TypeOK
  <2> QED
    BY <2>1, ArriveInWindow DEF Next
<1> QED
  BY <1>1, TracksInvariant, PTL DEF Spec, NeverBackwards

\* In the window an update newer than the value held is never thrown away.
THEOREM FreshAcceptedCorrect == ASSUME Window PROVE Spec => FreshAccepted
<1>1. TypeOK /\ Tracks /\ [Next]_vars =>
         [\A n \in 1..MaxSends : Arrive(n) /\ n > applied => applied' = n]_vars
  BY ArriveInWindow
<1> QED
  BY <1>1, TracksInvariant, PTL DEF Spec, FreshAccepted

-----------------------------------------------------------------------------
(* Around the whole cycle of the numbers.                                  *)

\* No packet is so far from the value held that its number has come round.
Slack ==
    /\ MaxLoss + 1 + Jump < SeqMod - Jump
    /\ MaxLoss + 1 + MaxLag < SeqMod - Jump

\* The record is cleared, or it is the number of the update held.
Follows == record.seq = 0 \/ record.seq = Wire(applied)

\* Signed differences of wire numbers are true up to whole cycles.
LEMMA Cycles ==
    ASSUME NEW n \in Nat, NEW k \in Nat
    PROVE  \E c \in Int : Signed(Wire(n)) - Signed(Wire(k)) = (n - k) + c * SeqMod
<1> DEFINE a == (Start + n) \div SeqMod
           b == (Start + k) \div SeqMod
<1>1. Start \in Nat /\ SeqMod \in Nat \ {0}
  BY Numbers, NumbersAssumption
<1>2. /\ a \in Int /\ b \in Int
      /\ Wire(n) \in Int /\ Wire(k) \in Int
      /\ Start + n = a * SeqMod + Wire(n)
      /\ Start + k = b * SeqMod + Wire(k)
  BY <1>1 DEF Wire
<1>3. PICK s \in {0, 1} : Signed(Wire(n)) = Wire(n) - s * SeqMod
  BY <1>1, <1>2 DEF Signed
<1>4. PICK t \in {0, 1} : Signed(Wire(k)) = Wire(k) - t * SeqMod
  BY <1>1, <1>2 DEF Signed
<1>5. Signed(Wire(n)) - Signed(Wire(k)) = (n - k) + (b - a + t - s) * SeqMod
  <2> HIDE DEF a, b
  <2> QED
    BY <1>1, <1>2, <1>3, <1>4
<1>6. b - a + t - s \in Int
  BY <1>2
<1> QED
  BY <1>5, <1>6

\* A packet dropped as late is at most Jump updates newer than the value held.
LEMMA DroppedIsNear ==
    ASSUME NEW n \in Nat, NEW k \in Nat, n > k, n - k < SeqMod - Jump,
           Distance(Wire(n), Wire(k)) <= Jump
    PROVE  n - k <= Jump
<1>1. PICK c \in Int : Signed(Wire(n)) - Signed(Wire(k)) = (n - k) + c * SeqMod
  BY Cycles
<1> DEFINE d == (n - k) + c * SeqMod
<1>2. SeqMod \in Nat \ {0} /\ Jump \in Nat
  BY Numbers, NumbersAssumption
<1>3. c * SeqMod \in Int /\ d \in Int
  BY <1>2
<1>4. d <= Jump /\ -d <= Jump
  BY <1>1, <1>2, <1>3 DEF Distance
<1>5. CASE c = 0
  BY <1>2, <1>4, <1>5
<1>6. CASE c >= 1
  <2>1. c * SeqMod >= SeqMod
    BY <1>2, <1>6
  <2> QED
    BY <1>2, <1>3, <1>4, <2>1
<1>7. CASE c <= -1
  <2>1. c * SeqMod <= -SeqMod
    BY <1>2, <1>7
  <2> QED
    BY <1>2, <1>3, <1>4, <2>1
<1> QED
  BY <1>5, <1>6, <1>7

\* Wherever in the cycle the numbers are, whatever is reset and whichever id
\* the adapter has, the value held stays recent.
THEOREM StaysRecentCorrect == ASSUME Slack PROVE Spec => []StaysRecent
<1>1. Init => Follows /\ StaysRecent
  BY NumbersAssumption DEF Init, Zero, Follows, StaysRecent
<1>2. TypeOK /\ Follows /\ StaysRecent /\ [Next]_vars => (Follows /\ StaysRecent)'
  <2> SUFFICES ASSUME TypeOK, Follows, StaysRecent, [Next]_vars
               PROVE  (Follows /\ StaysRecent)'
    OBVIOUS
  <2>1. /\ applied \in Nat /\ newest \in Nat /\ applied <= newest
        /\ MaxLag \in Nat /\ Jump \in Nat /\ MaxLoss \in Nat /\ MaxSends \in Nat
        /\ SeqMod \in Nat \ {0} /\ record.seq \in 0..(SeqMod - 1)
    BY Numbers, NumbersAssumption DEF TypeOK
  <2>2. ASSUME NEW n \in 1..MaxSends, Arrive(n)
        PROVE  (Follows /\ StaysRecent)'
    <3>1. n \in Nat /\ Wire(n) \in 0..(SeqMod - 1)
      BY <2>1, WireRange
    <3>2. CASE ~Drops(Wire(n))
      <4>1. applied' = n /\ (record'.seq = 0 \/ record'.seq = Wire(n))
        BY <2>2, <3>2 DEF Arrive, Recorded, Drops, TypeOK
      <4>2. newest' - applied' <= MaxLag
        BY <2>1, <2>2, <3>1, <4>1 DEF Arrive
      <4> QED
        BY <4>1, <4>2 DEF Follows, StaysRecent, Wire
    <3>3. CASE Drops(Wire(n))
      <4>1. applied' = applied /\ record' = record
        BY <2>2, <3>3 DEF Arrive, Recorded, Drops
      <4>2. record.seq = Wire(applied) /\ Distance(Wire(n), Wire(applied)) <= Jump
        <5>1. record.seq # 0
          BY <2>1, <3>1, <3>3 DEF Drops, Advances
        <5>2. record.seq = Wire(applied)
          BY <5>1 DEF Follows
        <5>3. Distance(Wire(n), Wire(applied)) \in Int
          <6>1. Wire(n) \in Int /\ Wire(applied) \in Int
            BY <2>1, <3>1, WireRange
          <6> QED
            BY <2>1, <6>1 DEF Distance, Signed
        <5> QED
          BY <2>1, <3>3, <5>2, <5>3 DEF Drops, Jumps
      <4>3. CASE n <= newest
        BY <2>2, <4>1, <4>3, <2>1, <3>1 DEF Arrive, Follows, StaysRecent, Wire
      <4>4. CASE n > newest
        <5>1. n > applied /\ n - applied < SeqMod - Jump
          BY <2>1, <2>2, <3>1, <4>4 DEF Arrive, StaysRecent, Slack
        <5>2. n - applied <= Jump
          BY <2>1, <3>1, <4>2, <5>1, DroppedIsNear
        <5> QED
          BY <2>2, <4>1, <4>4, <5>2 DEF Arrive, Follows, StaysRecent, Wire
      <4> QED
        BY <2>1, <3>1, <4>3, <4>4
    <3> QED
      BY <3>2, <3>3
  <2>3. CASE Reset
    BY <2>3 DEF Reset, Zero, Follows, StaysRecent
  <2>4. CASE UNCHANGED vars
    BY <2>4 DEF vars, Follows, StaysRecent, Wire
  <2> QED
    BY <2>2, <2>3, <2>4 DEF Next
<1> QED
  BY <1>1, <1>2, TypeCorrect, PTL DEF Spec
=============================================================================
