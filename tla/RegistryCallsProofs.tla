------------------------- MODULE RegistryCallsProofs -------------------------
(***************************************************************************)
(* What RegistryCalls says of the calls inside one another, for every set   *)
(* of adapters and receivers and every depth.                              *)
(***************************************************************************)
EXTENDS RegistryCalls, SublistsProofs, SequenceTheorems

-----------------------------------------------------------------------------
(* The sequences.                                                          *)

\* What std::remove leaves in the place of a sequence.
LEMMA RemovedIfKeeps ==
    ASSUME NEW M, NEW s \in Seq(M), NEW left \in Seq(M), DOMAIN left = DOMAIN s, NEW x
    PROVE  /\ RemovedIf(s, x, left) \in Seq(M)
           /\ Len(RemovedIf(s, x, left)) = Len(s)
           /\ \A i \in DOMAIN s : s[i] # x =>
                 \E k \in DOMAIN s : RemovedIf(s, x, left)[k] = s[i]
<1> DEFINE P == {i \in DOMAIN s : s[i] # x}
           n == Cardinality(P)
           t == RemovedIf(s, x, left)
<1>1. DOMAIN s = 1..Len(s) /\ Len(s) \in Nat
  OBVIOUS
<1>2. P \in SUBSET Nat /\ IsFiniteSet(P) /\ n \in Nat /\ n <= Len(s)
  <2>1. IsFiniteSet(1..Len(s)) /\ Cardinality(1..Len(s)) = Len(s)
    <3>1. 1 \in Int /\ Len(s) \in Int /\ (1 > Len(s) => Len(s) = 0) /\ Len(s) - 1 + 1 = Len(s)
      BY <1>1
    <3>2. /\ IsFiniteSet(1..Len(s))
          /\ Cardinality(1..Len(s)) = IF 1 > Len(s) THEN 0 ELSE Len(s) - 1 + 1
      BY <3>1, FS_Interval
    <3> QED
      BY <3>1, <3>2
  <2>2. P \in SUBSET (1..Len(s))
    BY <1>1
  <2>3. IsFiniteSet(P) /\ Cardinality(P) <= Cardinality(1..Len(s))
    BY <2>1, <2>2, FS_Subset
  <2> QED
    BY <2>1, <2>2, <2>3, FS_CardinalityType
<1>3. DOMAIN Sublist(s, P) = 1..n /\ Len(Sublist(s, P)) = n
  BY <1>2 DEF Sublist
<1>4. \A k \in 1..n : Sublist(s, P)[k] = s[Nth(P, k)] /\ Nth(P, k) \in P
  <2>1. \A k \in 1..n : Nth(P, k) \in P
    BY <1>2, Ranks
  <2> QED
    BY <2>1 DEF Sublist
<1>5. t = [i \in DOMAIN s |-> IF i <= n THEN Sublist(s, P)[i] ELSE left[i]]
  BY <1>3 DEF RemovedIf
<1>6. \A i \in DOMAIN s : t[i] \in M
  <2> TAKE i \in DOMAIN s
  <2>1. CASE i <= n
    <3>1. i \in 1..n
      BY <1>1, <1>2, <2>1
    <3>2. Sublist(s, P)[i] \in M
      BY <1>4, <3>1
    <3> QED
      BY <1>5, <2>1, <3>2
  <2>2. CASE ~(i <= n)
    <3>1. left[i] \in M
      OBVIOUS
    <3> QED
      BY <1>5, <2>2, <3>1
  <2> QED
    BY <2>1, <2>2
<1>7. t \in [1..Len(s) -> M]
  BY <1>1, <1>5, <1>6
<1>8. \A i \in P : \E k \in DOMAIN s : t[k] = s[i]
  <2> TAKE i \in P
  <2> DEFINE k == Cardinality(UpTo(P, i))
  <2>1. k \in 1..n /\ Nth(P, k) = i
    BY <1>2, Ranks
  <2> HIDE DEF k, P
  <2>2. k \in DOMAIN s /\ k <= n
    BY <1>1, <1>2, <2>1
  <2> QED
    BY <1>4, <1>5, <2>1, <2>2
<1> HIDE DEF t
<1>9. t \in Seq(M) /\ Len(t) = Len(s)
  BY <1>1, <1>7
<1> QED
  BY <1>8, <1>9 DEF t

\* What an erase leaves: one element fewer, and those behind it one place lower.
LEMMA ErasedIs ==
    ASSUME NEW M, NEW s \in Seq(M), NEW i \in DOMAIN s
    PROVE  /\ Erased(s, i) \in Seq(M)
           /\ Len(Erased(s, i)) = Len(s) - 1
           /\ \A k \in 1..(Len(s) - 1) :
                 Erased(s, i)[k] = IF k < i THEN s[k] ELSE s[k + 1]
<1> DEFINE n == Len(s)
           front == SubSeq(s, 1, i - 1)
           back == SubSeq(s, i + 1, n)
<1>1. n \in Nat /\ i \in 1..n /\ \A k \in 1..n : s[k] \in M
  OBVIOUS
<1> HIDE DEF n
<1>2. /\ front \in Seq(M) /\ Len(front) = i - 1
      /\ \A k \in 1..(i - 1) : front[k] = s[k]
  <2>1. 1 \in Int /\ i - 1 \in Int /\ \A k \in 1..(i - 1) : s[k] \in M
    BY <1>1
  <2>2. /\ front \in Seq(M)
        /\ Len(front) = IF 1 <= i - 1 THEN (i - 1) - 1 + 1 ELSE 0
        /\ \A k \in 1..((i - 1) - 1 + 1) : front[k] = s[1 + k - 1]
    BY <2>1, SubSeqProperties
  <2> HIDE DEF front
  <2> QED
    BY <1>1, <2>2
<1>3. /\ back \in Seq(M) /\ Len(back) = n - i
      /\ \A k \in 1..(n - i) : back[k] = s[k + i]
  <2>1. i + 1 \in Int /\ n \in Int /\ \A k \in (i + 1)..n : s[k] \in M
    BY <1>1
  <2>2. /\ back \in Seq(M)
        /\ Len(back) = IF i + 1 <= n THEN n - (i + 1) + 1 ELSE 0
        /\ \A k \in 1..(n - (i + 1) + 1) : back[k] = s[(i + 1) + k - 1]
    BY <2>1, SubSeqProperties
  <2> HIDE DEF back
  <2> QED
    BY <1>1, <2>2
<1> HIDE DEF front, back
<1>4. /\ front \o back \in Seq(M)
      /\ Len(front \o back) = Len(front) + Len(back)
      /\ \A k \in 1..(Len(front) + Len(back)) :
            (front \o back)[k] = IF k <= Len(front) THEN front[k] ELSE back[k - Len(front)]
  BY <1>2, <1>3, ConcatProperties
<1>5. Erased(s, i) = front \o back
  BY DEF Erased, front, back, n
<1>6. ASSUME NEW k \in 1..(n - 1)
      PROVE  (front \o back)[k] = IF k < i THEN s[k] ELSE s[k + 1]
  <2>0. Len(front) = i - 1 /\ Len(front) + Len(back) = n - 1
    BY <1>1, <1>2, <1>3
  <2>1. (front \o back)[k] = IF k <= i - 1 THEN front[k] ELSE back[k - (i - 1)]
    <3>1. k \in 1..(Len(front) + Len(back))
      BY <1>6, <2>0
    <3>2. (front \o back)[k] = IF k <= Len(front) THEN front[k] ELSE back[k - Len(front)]
      BY <1>4, <3>1
    <3> QED
      BY <2>0, <3>2
  <2>2. CASE k < i
    BY <1>1, <1>2, <2>1, <2>2
  <2>3. CASE ~(k < i)
    <3>1. k - (i - 1) \in 1..(n - i) /\ k - (i - 1) + i = k + 1 /\ ~(k <= i - 1)
      BY <1>1, <2>3
    <3> QED
      BY <1>3, <2>1, <2>3, <3>1
  <2> QED
    BY <2>2, <2>3
<1>7. Len(front \o back) = n - 1
  BY <1>1, <1>2, <1>3, <1>4
<1>8. Erased(s, i) \in Seq(M) /\ Len(Erased(s, i)) = n - 1
  BY <1>4, <1>5, <1>7
<1>9. \A k \in 1..(n - 1) : Erased(s, i)[k] = IF k < i THEN s[k] ELSE s[k + 1]
  BY <1>5, <1>6
<1> QED
  BY <1>8, <1>9 DEF n

-----------------------------------------------------------------------------
(* The stack.                                                              *)

\* A call that tells receivers is not past the end that it took, which is the
\* vector's; one that is in a receiver or in an adapter is at an element, and
\* holds the adapter.
Fits(c, recs, living) ==
    /\ c.place \in Telling => c.end = Len(recs) /\ c.at <= c.end + 1
    /\ c.place = "updating" => c.at <= c.end
    /\ c.place = "sending" => c.lock \in living

Calls == SetCalls \cup HandlerCalls
Fitting(recs, living) == {c \in Calls : Fits(c, recs, living)}

TypeInv ==
    /\ TypeOK
    /\ stack \in Seq(Fitting(receivers, alive))

\* A call's place tells which of the two kinds it is of.
LEMMA Kinds ==
    ASSUME NEW c \in Calls
    PROVE  /\ c.place \in Walking \cup Telling =>
                 /\ c \in SetCalls /\ c.val \in Values /\ c.at \in Nat /\ c.at >= 1
                 /\ c.lock \in Adapters \cup {Expired} /\ c.end \in 0..MaxReceivers
           /\ c.place \notin Walking \cup Telling =>
                 /\ c \in HandlerCalls /\ c.place \in {"spreading", "answering", "callback"}
                 /\ c.adapter \in Adapters
BY DEF Calls, SetCalls, HandlerCalls, Walking, Telling

\* The calls that have begun.
LEMMA Begun ==
    ASSUME TypeInv
    PROVE  /\ \A i \in DOMAIN stack : stack[i] \in Calls /\ Fits(stack[i], receivers, alive)
           /\ DOMAIN stack = 1..Len(stack) /\ Len(stack) \in Nat
BY DEF TypeInv, Fitting

LEMMA Innermost ==
    ASSUME TypeInv, stack # <<>>
    PROVE  /\ Len(stack) \in DOMAIN stack /\ stack[Len(stack)] = Top
           /\ Top \in Fitting(receivers, alive)
           /\ Top \in Calls /\ Fits(Top, receivers, alive)
BY DEF TypeInv, Fitting, Top

\* The innermost call goes on.
LEMMA MovedIs ==
    ASSUME NEW M, stack \in Seq(M), stack # <<>>, NEW f \in M
    PROVE  /\ Moved(f) \in Seq(M)
           /\ DOMAIN Moved(f) = DOMAIN stack
           /\ Moved(f)[Len(stack)] = f
           /\ \A i \in DOMAIN stack \ {Len(stack)} : Moved(f)[i] = stack[i]
BY DEF Moved

\* A call begins.
LEMMA BegunIs ==
    ASSUME NEW M, NEW s \in Seq(M), NEW f \in M
    PROVE  /\ Append(s, f) \in Seq(M)
           /\ DOMAIN Append(s, f) = DOMAIN s \cup {Len(s) + 1} /\ Len(s) + 1 \notin DOMAIN s
           /\ Append(s, f)[Len(s) + 1] = f
           /\ \A i \in DOMAIN s : Append(s, f)[i] = s[i]
OBVIOUS

\* The innermost call returns.
LEMMA ReturnedIs ==
    ASSUME NEW M, stack \in Seq(M), stack # <<>>
    PROVE  LET s == SubSeq(stack, 1, Len(stack) - 1) IN
           /\ s \in Seq(M)
           /\ DOMAIN s = DOMAIN stack \ {Len(stack)}
           /\ \A i \in DOMAIN s : s[i] = stack[i]
           /\ ~(Len(stack) > 1) => s = <<>>
<1> DEFINE n == Len(stack)
           s == SubSeq(stack, 1, n - 1)
<1>1. n \in Nat \ {0} /\ DOMAIN stack = 1..n
  OBVIOUS
<1>2. s \in Seq(M) /\ Len(s) = n - 1 /\ \A i \in 1..(n - 1) : s[i] = stack[i]
  <2>1. 1 \in Int /\ n - 1 \in Int /\ \A k \in 1..(n - 1) : stack[k] \in M
    BY <1>1
  <2>2. /\ s \in Seq(M)
        /\ Len(s) = IF 1 <= n - 1 THEN (n - 1) - 1 + 1 ELSE 0
        /\ \A k \in 1..((n - 1) - 1 + 1) : s[k] = stack[1 + k - 1]
    BY <2>1, SubSeqProperties
  <2> HIDE DEF s, n
  <2> QED
    BY <1>1, <2>2
<1> HIDE DEF s, n
<1>3. DOMAIN s = 1..(n - 1)
  BY <1>2
<1>4. 1..(n - 1) = 1..n \ {n}
  BY <1>1
<1> QED
  BY <1>1, <1>2, <1>3, <1>4 DEF s, n

-----------------------------------------------------------------------------
(* What each step does to the stack.                                       *)

\* The innermost call goes on, the others stay where they are.
Moves ==
    /\ Len(stack) \in DOMAIN stack /\ stack[Len(stack)] = Top /\ Top \in SetCalls
    /\ stack' \in Seq(Fitting(receivers, alive))
    /\ DOMAIN stack' = DOMAIN stack
    /\ \A i \in DOMAIN stack \ {Len(stack)} : stack'[i] = stack[i]

LEMMA SetMoves ==
    ASSUME TypeInv, stack # <<>>, Top.place \in Walking \cup Telling,
           NEW f \in Fitting(receivers, alive), stack' = Moved(f)
    PROVE  Moves /\ stack'[Len(stack)] = f
<1>1. stack \in Seq(Fitting(receivers, alive))
  BY DEF TypeInv
<1>2. Top \in SetCalls
  BY Innermost, Kinds
<1> QED
  BY <1>1, <1>2, Innermost, MovedIs DEF Moves

\* The records that take the place of the innermost call.
LEMMA Advanced ==
    ASSUME NEW c \in SetCalls, NEW at \in Nat \ {0}, NEW lock \in Adapters \cup {Expired}
    PROVE  LET f == [c EXCEPT !.place = "adapters", !.lock = lock, !.at = at] IN
           f \in SetCalls /\ f.place = "adapters" /\ f.at = at /\ f.val = c.val
BY DEF SetCalls

LEMMA Told ==
    ASSUME NEW c \in SetCalls, NEW at \in Nat \ {0}
    PROVE  LET f == [c EXCEPT !.place = "receivers", !.at = at] IN
           f \in SetCalls /\ f.place = "receivers" /\ f.at = at /\ f.end = c.end
BY DEF SetCalls

LEMMA OfferMoves ==
    ASSUME TypeInv, Offer
    PROVE  /\ Moves
           /\ Top.place = "adapters" /\ Top.at \in DOMAIN adapters
           /\ adapters[Top.at] \in alive
           /\ stack'[Len(stack)].val = Top.val
           /\ IF Sends(adapters[Top.at])
              THEN /\ stack'[Len(stack)].place = "sending"
                   /\ stack'[Len(stack)].lock = adapters[Top.at]
                   /\ stack'[Len(stack)].at = Top.at
              ELSE /\ stack'[Len(stack)].place = "adapters"
                   /\ stack'[Len(stack)].at = Top.at + 1
<1> DEFINE a == adapters[Top.at]
           f == [Top EXCEPT !.place = "sending", !.lock = a]
           g == [Top EXCEPT !.at = @ + 1]
<1>1. stack # <<>> /\ Top.place = "adapters" /\ a \in alive
  BY DEF Offer, AtAdapter, At, Current
<1>2. Top \in SetCalls /\ Top.at \in Nat /\ Top.at >= 1 /\ Top.place \in Walking \cup Telling
  BY <1>1, Innermost, Kinds DEF Walking
<1>3. Top.at \in DOMAIN adapters
  BY <1>2 DEF TypeInv, TypeOK, Offer, AtAdapter
<1>4. a \in Adapters
  BY <1>1 DEF TypeInv, TypeOK
<1>5. CASE Sends(a)
  <2>1. f \in SetCalls /\ f.place = "sending" /\ f.lock = a /\ f.at = Top.at /\ f.val = Top.val
    BY <1>2, <1>4 DEF SetCalls
  <2>2. stack' = Moved(f)
    BY <1>5 DEF Offer, Current
  <2> HIDE DEF f, a
  <2>3. f \in Fitting(receivers, alive)
    BY <1>1, <2>1 DEF Fitting, Fits, Calls, Telling
  <2>4. Moves /\ stack'[Len(stack)] = f
    BY <1>1, <1>2, <2>2, <2>3, SetMoves
  <2> QED
    BY <1>1, <1>3, <1>5, <2>1, <2>4 DEF a
<1>6. CASE ~Sends(a)
  <2>1. g \in SetCalls /\ g.place = "adapters" /\ g.at = Top.at + 1 /\ g.val = Top.val
    BY <1>1, <1>2 DEF SetCalls
  <2>2. stack' = Moved(g)
    BY <1>6 DEF Offer, Current
  <2> HIDE DEF g, a
  <2>3. g \in Fitting(receivers, alive)
    BY <2>1 DEF Fitting, Fits, Calls, Telling
  <2>4. Moves /\ stack'[Len(stack)] = g
    BY <1>1, <1>2, <2>2, <2>3, SetMoves
  <2> QED
    BY <1>1, <1>3, <1>6, <2>1, <2>4 DEF a
<1> QED
  BY <1>5, <1>6

LEMMA SendReturnsMoves ==
    ASSUME TypeInv, SendReturns
    PROVE  /\ Moves
           /\ Top.place = "sending"
           /\ stack'[Len(stack)].val = Top.val
           /\ stack'[Len(stack)].place = "adapters"
           /\ stack'[Len(stack)].at = Top.at + 1
<1> DEFINE f == [Top EXCEPT !.place = "adapters", !.lock = Expired, !.at = @ + 1]
<1>1. stack # <<>> /\ Top.place = "sending" /\ stack' = Moved(f)
  BY DEF SendReturns, At
<1>2. Top \in SetCalls /\ Top.at \in Nat /\ Top.at >= 1 /\ Top.place \in Walking \cup Telling
  BY <1>1, Innermost, Kinds DEF Walking
<1>3. f \in SetCalls /\ f.place = "adapters" /\ f.at = Top.at + 1 /\ f.val = Top.val
  <2>1. Top.at + 1 \in Nat \ {0} /\ Expired \in Adapters \cup {Expired}
    BY <1>2
  <2> QED
    BY <1>2, <2>1, Advanced
<1> HIDE DEF f
<1>4. f \in Fitting(receivers, alive)
  BY <1>3 DEF Fitting, Fits, Calls, Telling
<1> QED
  BY <1>1, <1>2, <1>3, <1>4, SetMoves

LEMMA BeginReceiversMoves ==
    ASSUME TypeInv, BeginReceivers
    PROVE  /\ Moves
           /\ Top.place = "adapters" /\ Top.at = Len(adapters) + 1
           /\ stack'[Len(stack)].place = "receivers"
           /\ stack'[Len(stack)].at = 1
<1> DEFINE f == [Top EXCEPT !.place = "receivers", !.at = 1, !.end = Len(receivers)]
<1>1. stack # <<>> /\ Top.place = "adapters" /\ Top.at = Len(adapters) + 1 /\ stack' = Moved(f)
  BY DEF BeginReceivers, At
<1>2. Top \in SetCalls /\ Top.place \in Walking \cup Telling
  BY <1>1, Innermost, Kinds DEF Walking
<1>3. Len(receivers) \in 0..MaxReceivers
  BY CallsAssumption DEF TypeInv, TypeOK
<1>4. f \in SetCalls /\ f.place = "receivers" /\ f.at = 1 /\ f.end = Len(receivers)
  <2>1. PICK one \in Nat \ {0} : one = 1
    OBVIOUS
  <2> DEFINE g == [Top EXCEPT !.place = "receivers", !.at = one, !.end = Len(receivers)]
  <2>2. g \in SetCalls /\ g.place = "receivers" /\ g.at = one /\ g.end = Len(receivers)
    BY <1>2, <1>3, <2>1 DEF SetCalls
  <2>3. f = g
    BY <2>1, Zenon
  <2> HIDE DEF f, g
  <2> QED
    BY <2>1, <2>2, <2>3
<1> HIDE DEF f
<1>5. f \in Fitting(receivers, alive)
  BY <1>3, <1>4 DEF Fitting, Fits, Calls, Telling
<1> QED
  BY <1>1, <1>2, <1>4, <1>5, SetMoves

LEMMA OnUpdateMoves ==
    ASSUME TypeInv, OnUpdate
    PROVE  /\ Moves
           /\ Top.place = "receivers" /\ Top.at \in DOMAIN receivers
           /\ stack'[Len(stack)].place = "updating"
           /\ stack'[Len(stack)].at = Top.at
<1> DEFINE f == [Top EXCEPT !.place = "updating"]
<1>1. stack # <<>> /\ Top.place = "receivers" /\ Top.at <= Top.end /\ stack' = Moved(f)
  BY DEF OnUpdate, At
<1>2. /\ Top \in SetCalls /\ Top.place \in Walking \cup Telling
      /\ Top.at \in Nat /\ Top.at >= 1 /\ Top.end \in Nat
  BY <1>1, Innermost, Kinds, CallsAssumption DEF Telling
<1>3. Top.end = Len(receivers)
  BY <1>1, Innermost DEF Fits, Telling
<1>4. Top.at \in DOMAIN receivers
  BY <1>1, <1>2, <1>3 DEF TypeInv, TypeOK
<1>5. f \in SetCalls /\ f.place = "updating" /\ f.at = Top.at /\ f.end = Top.end
  BY <1>2 DEF SetCalls
<1> HIDE DEF f
<1>6. f \in Fitting(receivers, alive)
  BY <1>1, <1>2, <1>3, <1>5 DEF Fitting, Fits, Calls, Telling
<1> QED
  BY <1>1, <1>2, <1>4, <1>5, <1>6, SetMoves

LEMMA OnUpdateReturnsMoves ==
    ASSUME TypeInv, OnUpdateReturns
    PROVE  /\ Moves
           /\ Top.place = "updating"
           /\ stack'[Len(stack)].place = "receivers"
           /\ stack'[Len(stack)].at = Top.at + 1
<1> DEFINE f == [Top EXCEPT !.place = "receivers", !.at = @ + 1]
<1>1. stack # <<>> /\ Top.place = "updating" /\ stack' = Moved(f)
  BY DEF OnUpdateReturns, At
<1>2. /\ Top \in SetCalls /\ Top.place \in Walking \cup Telling
      /\ Top.at \in Nat /\ Top.at >= 1 /\ Top.end \in Nat
  BY <1>1, Innermost, Kinds, CallsAssumption DEF Telling
<1>3. Top.end = Len(receivers) /\ Top.at <= Top.end
  BY <1>1, Innermost DEF Fits, Telling
<1>4. f \in SetCalls /\ f.place = "receivers" /\ f.at = Top.at + 1 /\ f.end = Top.end
  <2>1. Top.at + 1 \in Nat \ {0}
    BY <1>2
  <2> QED
    BY <1>2, <2>1, Told
<1> HIDE DEF f
<1>5. f \in Fitting(receivers, alive)
  BY <1>2, <1>3, <1>4 DEF Fitting, Fits, Calls, Telling
<1> QED
  BY <1>1, <1>2, <1>4, <1>5, SetMoves

\* A set begins inside the calls in s.
LEMMA SetFits ==
    ASSUME NEW v \in Values, NEW recs, NEW living, NEW s \in Seq(Fitting(recs, living))
    PROVE  /\ Append(s, SetCall(v)) \in Seq(Fitting(recs, living))
           /\ DOMAIN Append(s, SetCall(v)) = DOMAIN s \cup {Len(s) + 1}
           /\ Len(s) + 1 \notin DOMAIN s
           /\ Append(s, SetCall(v))[Len(s) + 1] = SetCall(v)
           /\ \A i \in DOMAIN s : Append(s, SetCall(v))[i] = s[i]
<1>1. SetCall(v) \in SetCalls
  <2>1. 1 \in Nat \ {0} /\ 0 \in 0..MaxReceivers /\ Expired \in Adapters \cup {Expired}
    BY CallsAssumption
  <2> QED
    BY <2>1 DEF SetCall, SetCalls
<1>2. SetCall(v) \in Fitting(recs, living)
  BY <1>1 DEF Fitting, Fits, Calls, SetCall, Telling
<1> QED
  BY <1>2, BegunIs

\* The first call is a handler's.
LEMMA HandlerFits ==
    ASSUME NEW place \in {"spreading", "answering", "callback"}, NEW a \in Adapters,
           NEW recs, NEW living
    PROVE  /\ <<HandlerCall(place, a)>> \in Seq(Fitting(recs, living))
           /\ DOMAIN <<HandlerCall(place, a)>> = {1} /\ Len(<<HandlerCall(place, a)>>) = 1
           /\ <<HandlerCall(place, a)>>[1] = HandlerCall(place, a)
<1>1. HandlerCall(place, a) \in Fitting(recs, living)
  BY DEF Fitting, Fits, Calls, HandlerCall, HandlerCalls, Telling
<1> QED
  BY <1>1

\* The handlers of the messages that are not updates set nothing.
LEMMA OtherMoves ==
    ASSUME NEW a \in Adapters,
           HandleRequest(a) \/ \E b \in BOOLEAN : HandleSubscription(a, b)
    PROVE  /\ stack = <<>> /\ DOMAIN stack = {}
           /\ stack' \in Seq(Fitting(receivers, alive))
           /\ \A i \in DOMAIN stack' : stack'[i].place \in {"answering", "callback"}
<1>1. PICK place \in {"answering", "callback"} :
         stack = <<>> /\ stack' = <<HandlerCall(place, a)>>
  BY DEF HandleRequest, HandleSubscription
<1>2. HandlerCall(place, a).place = place
  BY DEF HandlerCall
<1>3. stack' \in Seq(Fitting(receivers, alive)) /\ \A i \in DOMAIN stack' : stack'[i].place = place
  BY <1>1, <1>2, HandlerFits
<1>4. DOMAIN stack = {}
  BY <1>1
<1> QED
  BY <1>1, <1>3, <1>4

LEMMA HandleMoves ==
    ASSUME NEW a \in Adapters, NEW v \in Values, Handle(a, v)
    PROVE  /\ stack = <<>>
           /\ stack' \in Seq(Fitting(receivers, alive)) /\ stack'[1] = HandlerCall("spreading", a)
           /\ v = value => DOMAIN stack' = {1} /\ UNCHANGED <<value, missed, change>>
           /\ v # value => /\ DOMAIN stack' = {1, 2} /\ stack'[2] = SetCall(v)
                           /\ value' = v /\ missed' = {}
                           /\ change' = [refusing |-> {a}, overtaking |-> ~Unused(Walking)]
<1> DEFINE s == <<HandlerCall("spreading", a)>>
<1>1. /\ s \in Seq(Fitting(receivers, alive)) /\ s[1] = HandlerCall("spreading", a)
      /\ DOMAIN s = {1} /\ Len(s) = 1
  BY HandlerFits
<1> HIDE DEF s
<1>2. CASE v = value
  <2>1. stack = <<>> /\ stack' = s /\ UNCHANGED <<value, missed, change>>
    BY <1>2 DEF Handle, s
  <2> QED
    BY <1>1, <1>2, <2>1
<1>3. CASE v # value
  <2>1. stack = <<>> /\ BeginSet(v, s, {a})
    BY <1>3 DEF Handle, s
  <2>2. /\ Append(s, SetCall(v)) \in Seq(Fitting(receivers, alive))
        /\ DOMAIN Append(s, SetCall(v)) = DOMAIN s \cup {Len(s) + 1}
        /\ Append(s, SetCall(v))[Len(s) + 1] = SetCall(v)
        /\ \A i \in DOMAIN s : Append(s, SetCall(v))[i] = s[i]
    BY <1>1, SetFits
  <2>3. {1} \cup {1 + 1} = {1, 2} /\ 1 + 1 = 2 /\ 1 \in {1}
    OBVIOUS
  <2>4. stack' = Append(s, SetCall(v))
    BY <2>1 DEF BeginSet
  <2>5. stack' \in Seq(Fitting(receivers, alive)) /\ stack'[1] = HandlerCall("spreading", a)
    BY <1>1, <2>2, <2>3, <2>4
  <2>6. DOMAIN stack' = {1, 2} /\ stack'[2] = SetCall(v)
    BY <1>1, <2>2, <2>3, <2>4
  <2> QED
    BY <1>3, <2>1, <2>5, <2>6 DEF BeginSet
<1> QED
  BY <1>2, <1>3

LEMMA ReturnMoves ==
    ASSUME TypeInv, stack # <<>>, Return
    PROVE  /\ Len(stack) \in DOMAIN stack /\ stack[Len(stack)] = Top
           /\ stack' \in Seq(Fitting(receivers, alive))
           /\ DOMAIN stack' = DOMAIN stack \ {Len(stack)}
           /\ \A i \in DOMAIN stack' : stack'[i] = stack[i]
           /\ orphaned \/ ~orphaned'
           /\ ~orphaned' => ~orphaned \/ stack' = <<>>
<1>1. stack \in Seq(Fitting(receivers, alive)) /\ orphaned \in BOOLEAN
  BY DEF TypeInv, TypeOK
<1> QED
  BY <1>1, ReturnedIs, Innermost DEF Return

\* A handler goes on to the message callback.
LEMMA HandlerMoves ==
    ASSUME TypeInv, stack # <<>>, Top.place \in {"spreading", "answering"},
           stack' = Moved([Top EXCEPT !.place = "callback"])
    PROVE  /\ Len(stack) \in DOMAIN stack /\ stack[Len(stack)] = Top
           /\ Top.adapter \in Adapters
           /\ stack' \in Seq(Fitting(receivers, alive))
           /\ DOMAIN stack' = DOMAIN stack
           /\ stack'[Len(stack)].place = "callback"
           /\ \A i \in DOMAIN stack \ {Len(stack)} : stack'[i] = stack[i]
<1> DEFINE f == [Top EXCEPT !.place = "callback"]
<1>2. Top \in HandlerCalls /\ Top.adapter \in Adapters
  BY Innermost, Kinds DEF Walking, Telling
<1>3. f \in HandlerCalls /\ f.place = "callback"
  BY <1>2 DEF HandlerCalls
<1>1. stack' = Moved(f)
  OBVIOUS
<1> HIDE DEF f
<1>4. f \in Fitting(receivers, alive)
  BY <1>3 DEF Fitting, Fits, Calls, Telling
<1>5. stack \in Seq(Fitting(receivers, alive))
  BY DEF TypeInv
<1>6. /\ Moved(f) \in Seq(Fitting(receivers, alive))
      /\ DOMAIN Moved(f) = DOMAIN stack
      /\ Moved(f)[Len(stack)] = f
      /\ \A i \in DOMAIN stack \ {Len(stack)} : Moved(f)[i] = stack[i]
  BY <1>4, <1>5, MovedIs
<1> QED
  BY <1>1, <1>2, <1>3, <1>6, Innermost

LEMMA BeginCallbackMoves ==
    ASSUME TypeInv, BeginCallback
    PROVE  /\ Len(stack) \in DOMAIN stack /\ stack[Len(stack)] = Top
           /\ Top.place = "spreading" /\ Top.adapter \in Adapters
           /\ stack' \in Seq(Fitting(receivers, alive))
           /\ DOMAIN stack' = DOMAIN stack
           /\ stack'[Len(stack)].place = "callback"
           /\ \A i \in DOMAIN stack \ {Len(stack)} : stack'[i] = stack[i]
BY HandlerMoves DEF BeginCallback, At

LEMMA AnswerReturnsMoves ==
    ASSUME TypeInv, AnswerReturns
    PROVE  /\ Len(stack) \in DOMAIN stack /\ stack[Len(stack)] = Top
           /\ Top.place = "answering"
           /\ stack' \in Seq(Fitting(receivers, alive))
           /\ DOMAIN stack' = DOMAIN stack
           /\ stack'[Len(stack)].place = "callback"
           /\ \A i \in DOMAIN stack \ {Len(stack)} : stack'[i] = stack[i]
BY HandlerMoves DEF AnswerReturns, At

\* What the handlers that are spreading are.
LEMMA SpreadingIs ==
    ASSUME TypeInv
    PROVE  /\ Spreading \subseteq Adapters
           /\ \A a : a \in Spreading <=> \E i \in DOMAIN stack :
                        stack[i].place = "spreading" /\ stack[i].adapter = a
<1>1. \A i \in DOMAIN stack : stack[i].place = "spreading" => stack[i].adapter \in Adapters
  BY Begun, Kinds DEF Walking, Telling
<1> QED
  BY <1>1 DEF Spreading

-----------------------------------------------------------------------------
(* Types.                                                                  *)

\* The calls keep fitting when the vectors change while nothing walks them.
LEMMA StillFitting ==
    ASSUME TypeInv, NEW recs, NEW living,
           \A i \in DOMAIN stack : Fits(stack[i], recs, living)
    PROVE  stack \in Seq(Fitting(recs, living))
<1>1. \A i \in DOMAIN stack : stack[i] \in Fitting(recs, living)
  BY Begun DEF Fitting
<1>2. stack \in Seq(Fitting(receivers, alive))
  BY DEF TypeInv
<1> QED
  BY <1>1, <1>2

LEMMA TypedIs ==
    ASSUME NEW recs, NEW living, NEW s \in Seq(Fitting(recs, living))
    PROVE  /\ s \in Seq(SetCalls \cup HandlerCalls)
           /\ \A i \in DOMAIN s : s[i].place \in Telling =>
                 s[i].end = Len(recs) /\ s[i].at <= s[i].end + 1
BY DEF Fitting, Fits, Calls

LEMMA FittingStep ==
    ASSUME TypeInv, [Next]_vars
    PROVE  stack' \in Seq(Fitting(receivers', alive'))
<1>0. stack \in Seq(Fitting(receivers, alive))
  BY DEF TypeInv
<1>1. ASSUME NEW v \in Values, Set(v)
      PROVE  stack' \in Seq(Fitting(receivers', alive'))
  BY <1>0, <1>1, SetFits DEF Set, BeginSet, vectors
<1>2. ASSUME NEW a \in Adapters, NEW v \in Values, Handle(a, v)
      PROVE  stack' \in Seq(Fitting(receivers', alive'))
  BY <1>2, HandleMoves DEF Handle, vectors
<1>3. ASSUME NEW a \in Adapters, RegisterAdapter(a) \/ RemoveAdapter(a)
      PROVE  stack' \in Seq(Fitting(receivers', alive'))
  BY <1>0, <1>3 DEF RegisterAdapter, RemoveAdapter
<1>4. ASSUME NEW a \in Adapters, Destroy(a)
      PROVE  stack' \in Seq(Fitting(receivers', alive'))
  <2>1. \A i \in DOMAIN stack : Fits(stack[i], receivers, alive \ {a})
    BY <1>4, Begun DEF Destroy, Fits
  <2> QED
    BY <1>4, <2>1, StillFitting DEF Destroy
<1>5. ASSUME NEW r \in Receivers, AddReceiver(r) \/ RemoveReceiver(r)
      PROVE  stack' \in Seq(Fitting(receivers', alive'))
  <2>1. Unused(Telling) /\ UNCHANGED <<stack, alive>>
    BY <1>5 DEF AddReceiver, RemoveReceiver
  <2>2. \A i \in DOMAIN stack : Fits(stack[i], receivers', alive)
    BY <2>1, Begun DEF Fits, Unused, Telling
  <2> QED
    BY <2>1, <2>2, StillFitting
<1>6. CASE Offer
  BY <1>6, OfferMoves DEF Moves, Offer, vectors
<1>7. CASE SendReturns
  BY <1>7, SendReturnsMoves DEF Moves, SendReturns, vectors
<1>8. CASE Erase
  BY <1>0, <1>8 DEF Erase
<1>9. CASE BeginReceivers
  BY <1>9, BeginReceiversMoves DEF Moves, BeginReceivers, vectors
<1>10. CASE OnUpdate
  BY <1>10, OnUpdateMoves DEF Moves, OnUpdate, vectors
<1>11. CASE OnUpdateReturns
  BY <1>11, OnUpdateReturnsMoves DEF Moves, OnUpdateReturns, vectors
<1>12. CASE SetReturns \/ HandleReturns
  <2>1. stack # <<>> /\ Return /\ UNCHANGED vectors
    BY <1>12 DEF SetReturns, HandleReturns, At, Return
  <2> QED
    BY <2>1, ReturnMoves DEF vectors
<1>13. CASE BeginCallback
  BY <1>13, BeginCallbackMoves DEF BeginCallback, vectors
<1>15. CASE AnswerReturns
  BY <1>15, AnswerReturnsMoves DEF AnswerReturns, vectors
<1>16. ASSUME NEW a \in Adapters,
              HandleRequest(a) \/ \E b \in BOOLEAN : HandleSubscription(a, b)
       PROVE  stack' \in Seq(Fitting(receivers', alive'))
  BY <1>16, OtherMoves DEF HandleRequest, HandleSubscription, Subscribed, vectors
<1>17. ASSUME NEW a \in Adapters, NEW b \in BOOLEAN, SetSubscribed(a, b)
       PROVE  stack' \in Seq(Fitting(receivers', alive'))
  BY <1>0, <1>17 DEF SetSubscribed, Subscribed, vectors
<1>14. CASE UNCHANGED vars
  BY <1>0, <1>14 DEF vars, vectors
<1> QED
  BY <1>1, <1>2, <1>3, <1>4, <1>5, <1>6, <1>7, <1>8, <1>9, <1>10, <1>11, <1>12, <1>13,
     <1>14, <1>15, <1>16, <1>17 DEF Next

LEMMA TypeStep ==
    ASSUME TypeInv, [Next]_vars
    PROVE  TypeInv'
<1>0. stack' \in Seq(Fitting(receivers', alive'))
  BY FittingStep
<1>1. /\ stack' \in Seq(SetCalls \cup HandlerCalls)
      /\ \A i \in DOMAIN stack' : stack'[i].place \in Telling =>
            stack'[i].end = Len(receivers') /\ stack'[i].at <= stack'[i].end + 1
  BY <1>0, TypedIs
<1> DEFINE Changing == /\ value' \in Values
                       /\ missed' \subseteq registered'
                       /\ change' \in [refusing : SUBSET Adapters, overtaking : BOOLEAN]
           Vectors == /\ adapters' \in Seq(Adapters \cup {Expired})
                      /\ Len(adapters') <= MaxAdapters
                      /\ receivers' \in Seq(Receivers) /\ Len(receivers') <= MaxReceivers
                      /\ alive' \subseteq Adapters
           Flags == /\ accept' \in [Adapters -> BOOLEAN]
                    /\ subscribed' \in [Adapters -> BOOLEAN]
           Rest == /\ registered' \subseteq Adapters \cup Receivers
                   /\ known' \in [Adapters -> Values]
                   /\ seen' \in [Receivers -> Values]
                   /\ orphaned' \in BOOLEAN
<1>2. Changing
  <2>0. /\ value \in Values /\ missed \subseteq registered
        /\ change \in [refusing : SUBSET Adapters, overtaking : BOOLEAN]
    BY DEF TypeInv, TypeOK
  <2>1. ASSUME NEW R \in SUBSET Adapters
        PROVE  [refusing |-> R, overtaking |-> ~Unused(Walking)]
                  \in [refusing : SUBSET Adapters, overtaking : BOOLEAN]
    OBVIOUS
  <2>2. ASSUME NEW v \in Values, Set(v)
        PROVE  Changing
    BY <2>1, <2>2, SpreadingIs DEF Set, BeginSet
  <2>3. ASSUME NEW a \in Adapters, NEW v \in Values, Handle(a, v)
        PROVE  Changing
    <3>1. CASE v = value
      <4>1. UNCHANGED <<value, registered, missed, change>>
        BY <2>3, <3>1, HandleMoves DEF Handle
      <4> QED
        BY <2>0, <4>1
    <3>2. CASE v # value
      <4>1. {a} \in SUBSET Adapters
        OBVIOUS
      <4>2. /\ value' = v /\ missed' = {}
            /\ change' = [refusing |-> {a}, overtaking |-> ~Unused(Walking)]
        BY <2>3, <3>2, HandleMoves
      <4> QED
        BY <2>1, <4>1, <4>2
    <3> QED
      BY <3>1, <3>2
  <2>4. ASSUME NEW a \in Adapters, RegisterAdapter(a) \/ RemoveAdapter(a) \/ Destroy(a)
        PROVE  Changing
    BY <2>0, <2>4 DEF RegisterAdapter, RemoveAdapter, Destroy
  <2>5. ASSUME NEW r \in Receivers, AddReceiver(r) \/ RemoveReceiver(r)
        PROVE  Changing
    BY <2>0, <2>5 DEF AddReceiver, RemoveReceiver
  <2>6. ASSUME UNCHANGED <<value, registered, missed, change>>
        PROVE  Changing
    BY <2>0, <2>6
  <2>9. ASSUME NEW a \in Adapters, NEW b \in BOOLEAN, Subscribed(a, b)
        PROVE  Changing
    BY <2>0, <2>9 DEF Subscribed
  <2>10. CASE Offer
    BY <2>0, <2>10 DEF Offer
  <2>7. ASSUME Next, ~UNCHANGED <<value, registered, missed, change>>
        PROVE  \/ Offer
               \/ \E a \in Adapters, b \in BOOLEAN : Subscribed(a, b)
               \/ \E v \in Values : Set(v)
               \/ \E a \in Adapters, v \in Values : Handle(a, v)
               \/ \E a \in Adapters : RegisterAdapter(a) \/ RemoveAdapter(a) \/ Destroy(a)
               \/ \E r \in Receivers : AddReceiver(r) \/ RemoveReceiver(r)
    BY <2>7 DEF Next, SendReturns, Erase,
       BeginReceivers, OnUpdate, OnUpdateReturns, SetReturns, BeginCallback, HandleReturns,
       Return, histories, HandleRequest, HandleSubscription, SetSubscribed, AnswerReturns
  <2>8. UNCHANGED vars => UNCHANGED <<value, registered, missed, change>>
    BY DEF vars, histories
  <2> QED
    BY <2>0, <2>2, <2>3, <2>4, <2>5, <2>6, <2>7, <2>8, <2>9, <2>10
<1>3. Vectors
  <2>0. /\ adapters \in Seq(Adapters \cup {Expired}) /\ Len(adapters) <= MaxAdapters
        /\ receivers \in Seq(Receivers) /\ Len(receivers) <= MaxReceivers
        /\ alive \subseteq Adapters /\ MaxAdapters \in Nat /\ MaxReceivers \in Nat
    BY CallsAssumption DEF TypeInv, TypeOK
  <2>1. ASSUME NEW a \in Adapters, RegisterAdapter(a)
        PROVE  Vectors
    BY <2>0, <2>1 DEF RegisterAdapter
  <2>2. ASSUME NEW a \in Adapters, RemoveAdapter(a)
        PROVE  Vectors
    <3> DEFINE left == [i \in DOMAIN adapters |-> IF adapters[i] = a THEN a ELSE Expired]
    <3>1. left \in Seq(Adapters \cup {Expired}) /\ DOMAIN left = DOMAIN adapters
      BY <2>0
    <3>2. adapters' = RemovedIf(adapters, a, left) /\ UNCHANGED <<receivers, alive>>
      BY <2>2 DEF RemoveAdapter
    <3> HIDE DEF left
    <3>3. /\ RemovedIf(adapters, a, left) \in Seq(Adapters \cup {Expired})
          /\ Len(RemovedIf(adapters, a, left)) = Len(adapters)
      BY <2>0, <3>1, RemovedIfKeeps
    <3> QED
      BY <2>0, <3>2, <3>3
  <2>3. ASSUME NEW r \in Receivers, AddReceiver(r)
        PROVE  Vectors
    BY <2>0, <2>3 DEF AddReceiver
  <2>4. ASSUME NEW r \in Receivers, RemoveReceiver(r)
        PROVE  Vectors
    <3>1. receivers' = RemovedIf(receivers, r, receivers) /\ UNCHANGED <<adapters, alive>>
      BY <2>4 DEF RemoveReceiver
    <3>2. /\ RemovedIf(receivers, r, receivers) \in Seq(Receivers)
          /\ Len(RemovedIf(receivers, r, receivers)) = Len(receivers)
      BY <2>0, RemovedIfKeeps
    <3> QED
      BY <2>0, <3>1, <3>2
  <2>5. ASSUME Erase
        PROVE  Vectors
    <3>1. /\ adapters' = Erased(adapters, Top.at) /\ UNCHANGED <<receivers, alive>>
          /\ stack # <<>> /\ Top.place = "adapters" /\ Top.at <= Len(adapters)
      BY <2>5 DEF Erase, AtAdapter, At
    <3>2. Top.at \in Nat /\ Top.at >= 1
      BY <3>1, Innermost, Kinds DEF Walking
    <3>3. Top.at \in DOMAIN adapters /\ Len(adapters) \in Nat
      BY <2>0, <3>1, <3>2
    <3>4. adapters' \in Seq(Adapters \cup {Expired}) /\ Len(adapters') = Len(adapters) - 1
      BY <2>0, <3>1, <3>3, ErasedIs
    <3> QED
      BY <2>0, <3>1, <3>3, <3>4
  <2>6. ASSUME NEW a \in Adapters, Destroy(a)
        PROVE  Vectors
    BY <2>0, <2>6 DEF Destroy
  <2>7. ASSUME UNCHANGED vectors
        PROVE  Vectors
    BY <2>0, <2>7 DEF vectors
  <2>8. ASSUME Next, ~UNCHANGED vectors
        PROVE  \/ \E a \in Adapters : RegisterAdapter(a) \/ RemoveAdapter(a) \/ Destroy(a)
               \/ \E r \in Receivers : AddReceiver(r) \/ RemoveReceiver(r)
               \/ Erase
    BY <2>8 DEF Next, Set, Handle, Offer, SendReturns,
       BeginReceivers, OnUpdate, OnUpdateReturns, SetReturns, BeginCallback, HandleReturns,
       Return, HandleRequest, HandleSubscription, SetSubscribed, Subscribed, AnswerReturns
  <2>9. UNCHANGED vars => UNCHANGED vectors
    BY DEF vars
  <2> QED
    BY <2>1, <2>2, <2>3, <2>4, <2>5, <2>6, <2>7, <2>8, <2>9
<1>4. Flags
  <2>0. accept \in [Adapters -> BOOLEAN] /\ subscribed \in [Adapters -> BOOLEAN]
    BY DEF TypeInv, TypeOK
  <2>1. ASSUME NEW a \in Adapters, NEW v \in Values, Handle(a, v)
        PROVE  Flags
    BY <2>0, <2>1 DEF Handle
  <2>2. ASSUME BeginCallback
        PROVE  Flags
    BY <2>0, <2>2 DEF BeginCallback
  <2>3. ASSUME NEW a \in Adapters, NEW b \in BOOLEAN, Subscribed(a, b)
        PROVE  Flags
    BY <2>0, <2>3 DEF Subscribed
  <2>4. ASSUME Next, ~UNCHANGED flags
        PROVE  \/ BeginCallback
               \/ \E a \in Adapters, v \in Values : Handle(a, v)
               \/ \E a \in Adapters, b \in BOOLEAN : Subscribed(a, b)
    BY <2>4 DEF Next, Set, RegisterAdapter, RemoveAdapter, Destroy, AddReceiver,
       RemoveReceiver, Offer, SendReturns, Erase, BeginReceivers, OnUpdate, OnUpdateReturns,
       SetReturns, HandleReturns, Return, HandleRequest, HandleSubscription, SetSubscribed,
       AnswerReturns
  <2>5. UNCHANGED vars => UNCHANGED flags
    BY DEF vars
  <2>6. UNCHANGED flags => Flags
    BY <2>0 DEF flags
  <2> QED
    BY <2>1, <2>2, <2>3, <2>4, <2>5, <2>6
<1>5. Rest
  <2>0. /\ registered \subseteq Adapters \cup Receivers /\ known \in [Adapters -> Values]
        /\ seen \in [Receivers -> Values] /\ orphaned \in BOOLEAN
    BY DEF TypeInv, TypeOK
  <2>1. ASSUME NEW v \in Values, Set(v)
        PROVE  Rest
    BY <2>0, <2>1 DEF Set
  <2>2. ASSUME NEW a \in Adapters, NEW v \in Values, Handle(a, v)
        PROVE  Rest
    BY <2>0, <2>2 DEF Handle
  <2>3. ASSUME NEW a \in Adapters, RegisterAdapter(a) \/ RemoveAdapter(a)
        PROVE  Rest
    BY <2>0, <2>3 DEF RegisterAdapter, RemoveAdapter
  <2>4. ASSUME NEW a \in Adapters, Destroy(a)
        PROVE  Rest
    <3>1. orphaned' \in BOOLEAN
      BY <2>4 DEF Destroy
    <3> QED
      BY <2>0, <2>4, <3>1 DEF Destroy
  <2>5. ASSUME NEW r \in Receivers, AddReceiver(r) \/ RemoveReceiver(r)
        PROVE  Rest
    BY <2>0, <2>5 DEF AddReceiver, RemoveReceiver
  <2>6. CASE Offer
    <3>1. Top.val \in Values
      BY <2>6, Innermost, Kinds DEF Offer, AtAdapter, At, Walking
    <3> QED
      BY <2>0, <2>6, <3>1 DEF Offer
  <2>7. CASE \/ SendReturns \/ Erase \/ BeginReceivers \/ OnUpdateReturns \/ BeginCallback
             \/ AnswerReturns
    BY <2>0, <2>7 DEF SendReturns, Erase, BeginReceivers, OnUpdateReturns, BeginCallback,
       AnswerReturns, histories
  <2>11. ASSUME NEW a \in Adapters, HandleRequest(a)
         PROVE  Rest
    <3>1. value \in Values /\ known' \in {known, [known EXCEPT ![a] = value]}
      BY <2>11 DEF HandleRequest, TypeInv, TypeOK
    <3> QED
      BY <2>0, <2>11, <3>1 DEF HandleRequest
  <2>12. ASSUME NEW a \in Adapters, NEW b \in BOOLEAN,
                HandleSubscription(a, b) \/ SetSubscribed(a, b)
         PROVE  Rest
    BY <2>0, <2>12 DEF HandleSubscription, SetSubscribed, Subscribed
  <2>8. CASE OnUpdate
    BY <2>0, <2>8 DEF OnUpdate, TypeInv, TypeOK
  <2>9. CASE SetReturns \/ HandleReturns
    <3>1. Return
      BY <2>9 DEF SetReturns, HandleReturns
    <3>2. orphaned' \in BOOLEAN
      BY <3>1 DEF Return
    <3> QED
      BY <2>0, <3>1, <3>2 DEF Return
  <2>10. CASE UNCHANGED vars
    BY <2>0, <2>10 DEF vars, histories
  <2> QED
    BY <2>1, <2>2, <2>3, <2>4, <2>5, <2>6, <2>7, <2>8, <2>9, <2>10, <2>11,
       <2>12 DEF Next
<1>6. TypeOK'
  BY <1>1, <1>2, <1>3, <1>4, <1>5 DEF TypeOK
<1> QED
  BY <1>0, <1>6 DEF TypeInv

LEMMA InitTypes ==
    ASSUME Init
    PROVE  TypeInv
<1>1. registered = {} /\ missed = {}
  BY DEF Init
<1>2. [refusing |-> {}, overtaking |-> FALSE] \in [refusing : SUBSET Adapters, overtaking : BOOLEAN]
  OBVIOUS
<1>3. <<>> \in Seq(SetCalls \cup HandlerCalls) /\ DOMAIN <<>> = {} /\ <<>> \in Seq(Receivers)
      /\ <<>> \in Seq(Adapters \cup {Expired}) /\ <<>> \in Seq(Fitting(receivers, alive))
      /\ Len(<<>>) = 0
  OBVIOUS
<1>4. Len(<<>>) <= MaxAdapters /\ Len(<<>>) <= MaxReceivers
  BY <1>3, CallsAssumption
<1>5. TypeOK
  BY <1>1, <1>2, <1>3, <1>4, CallsAssumption DEF Init, TypeOK
<1> QED
  BY <1>3, <1>5 DEF Init, TypeInv

\* TypeOK holds in every state: in particular a set that tells the receivers
\* has kept the end that it took and is at most one past it, so that it never
\* reads the vector beyond its elements (Registry::set, Registry.hpp).
THEOREM TypeCorrect == Spec => []TypeOK
<1>1. Init => TypeInv
  BY InitTypes
<1>2. TypeInv /\ [Next]_vars => TypeInv'
  BY TypeStep
<1>3. TypeInv => TypeOK
  BY DEF TypeInv
<1> QED
  BY <1>1, <1>2, <1>3, PTL DEF Spec

-----------------------------------------------------------------------------
(* What is registered is in the vectors.                                   *)

RegisteredInv ==
    /\ \A a \in Adapters \cap registered :
          a \in alive /\ \E k \in DOMAIN adapters : adapters[k] = a
    /\ \A r \in Receivers \cap registered : \E k \in DOMAIN receivers : receivers[k] = r

\* An expired adapter is erased, and those behind it move up.
LEMMA EraseIs ==
    ASSUME TypeInv, Erase
    PROVE  /\ Len(stack) \in DOMAIN stack /\ stack[Len(stack)] = Top
           /\ Top.place = "adapters" /\ Top.at \in DOMAIN adapters
           /\ adapters[Top.at] \notin alive
           /\ DOMAIN adapters = 1..Len(adapters) /\ Len(adapters) \in Nat
           /\ DOMAIN adapters' = 1..(Len(adapters) - 1) /\ Len(adapters') = Len(adapters) - 1
           /\ \A k \in DOMAIN adapters' :
                 adapters'[k] = IF k < Top.at THEN adapters[k] ELSE adapters[k + 1]
<1>1. /\ adapters' = Erased(adapters, Top.at)
      /\ stack # <<>> /\ Top.place = "adapters" /\ Top.at <= Len(adapters)
      /\ adapters[Top.at] \notin alive
  BY DEF Erase, AtAdapter, At, Current
<1>2. Top.at \in Nat /\ Top.at >= 1
  BY <1>1, Innermost, Kinds DEF Walking
<1>3. adapters \in Seq(Adapters \cup {Expired})
  BY DEF TypeInv, TypeOK
<1>4. DOMAIN adapters = 1..Len(adapters) /\ Len(adapters) \in Nat
  BY <1>3
<1>5. Top.at \in DOMAIN adapters
  BY <1>1, <1>2, <1>4
<1>6. /\ adapters' \in Seq(Adapters \cup {Expired})
      /\ Len(adapters') = Len(adapters) - 1
      /\ \A k \in 1..(Len(adapters) - 1) :
            adapters'[k] = IF k < Top.at THEN adapters[k] ELSE adapters[k + 1]
  BY <1>1, <1>3, <1>5, ErasedIs
<1>7. DOMAIN adapters' = 1..(Len(adapters) - 1)
  BY <1>6
<1> QED
  BY <1>1, <1>4, <1>5, <1>6, <1>7, Innermost

\* The adapters that are not erased stay, each ahead of or behind the place as
\* it was.
LEMMA EraseKeeps ==
    ASSUME TypeInv, Erase, NEW k \in DOMAIN adapters, k # Top.at
    PROVE  \E m \in DOMAIN adapters' :
              adapters'[m] = adapters[k] /\ (k > Top.at => Top.at <= m)
<1>1. k \in Nat /\ Top.at \in Nat /\ k >= 1 /\ k <= Len(adapters) /\ Top.at >= 1
      /\ Top.at <= Len(adapters)
  BY EraseIs
<1>2. CASE k < Top.at
  <2>1. k \in DOMAIN adapters' /\ ~(k > Top.at)
    BY <1>1, <1>2, EraseIs
  <2> QED
    BY <1>2, <2>1, EraseIs
<1>3. CASE k > Top.at
  <2>1. k - 1 \in DOMAIN adapters' /\ ~(k - 1 < Top.at) /\ (k - 1) + 1 = k /\ Top.at <= k - 1
    BY <1>1, <1>3, EraseIs
  <2>2. adapters'[k - 1] = adapters[k]
    BY <2>1, EraseIs
  <2> QED
    BY <2>1, <2>2
<1> QED
  BY <1>1, <1>2, <1>3

LEMMA RegisteredStep ==
    ASSUME TypeInv, RegisteredInv, [Next]_vars
    PROVE  RegisteredInv'
<1>0. /\ adapters \in Seq(Adapters \cup {Expired}) /\ receivers \in Seq(Receivers)
      /\ Adapters \cap Receivers = {}
  BY CallsAssumption DEF TypeInv, TypeOK
<1>1. ASSUME NEW a \in Adapters, RegisterAdapter(a)
      PROVE  RegisteredInv'
  <2>1. /\ Append(adapters, a)[Len(adapters) + 1] = a
        /\ DOMAIN Append(adapters, a) = DOMAIN adapters \cup {Len(adapters) + 1}
        /\ \A k \in DOMAIN adapters : Append(adapters, a)[k] = adapters[k]
    BY <1>0
  <2> QED
    BY <1>0, <1>1, <2>1 DEF RegisterAdapter, RegisteredInv
<1>2. ASSUME NEW a \in Adapters, RemoveAdapter(a)
      PROVE  RegisteredInv'
  <2> DEFINE left == [i \in DOMAIN adapters |-> IF adapters[i] = a THEN a ELSE Expired]
  <2>1. left \in Seq(Adapters \cup {Expired}) /\ DOMAIN left = DOMAIN adapters
    BY <1>0
  <2>2. /\ adapters' = RemovedIf(adapters, a, left) /\ UNCHANGED <<receivers, alive>>
        /\ registered' = registered \ {a}
    BY <1>2 DEF RemoveAdapter
  <2> HIDE DEF left
  <2>3. /\ RemovedIf(adapters, a, left) \in Seq(Adapters \cup {Expired})
        /\ Len(RemovedIf(adapters, a, left)) = Len(adapters)
        /\ \A i \in DOMAIN adapters : adapters[i] # a =>
              \E k \in DOMAIN adapters : RemovedIf(adapters, a, left)[k] = adapters[i]
    BY <1>0, <2>1, RemovedIfKeeps
  <2>4. DOMAIN adapters' = DOMAIN adapters
    BY <1>0, <2>2, <2>3
  <2>5. ASSUME NEW b \in Adapters \cap registered, b # a
        PROVE  b \in alive /\ \E k \in DOMAIN adapters' : adapters'[k] = b
    BY <2>2, <2>3, <2>4, <2>5 DEF RegisteredInv
  <2> QED
    BY <2>2, <2>5 DEF RegisteredInv
<1>3. ASSUME NEW a \in Adapters, Destroy(a)
      PROVE  RegisteredInv'
  BY <1>3 DEF Destroy, RegisteredInv
<1>4. ASSUME NEW r \in Receivers, AddReceiver(r)
      PROVE  RegisteredInv'
  <2>1. /\ Append(receivers, r)[Len(receivers) + 1] = r
        /\ DOMAIN Append(receivers, r) = DOMAIN receivers \cup {Len(receivers) + 1}
        /\ \A k \in DOMAIN receivers : Append(receivers, r)[k] = receivers[k]
    BY <1>0
  <2> QED
    BY <1>0, <1>4, <2>1 DEF AddReceiver, RegisteredInv
<1>5. ASSUME NEW r \in Receivers, RemoveReceiver(r)
      PROVE  RegisteredInv'
  <2>1. /\ receivers' = RemovedIf(receivers, r, receivers) /\ UNCHANGED <<adapters, alive>>
        /\ registered' = registered \ {r}
    BY <1>5 DEF RemoveReceiver
  <2>2. /\ RemovedIf(receivers, r, receivers) \in Seq(Receivers)
        /\ Len(RemovedIf(receivers, r, receivers)) = Len(receivers)
        /\ \A i \in DOMAIN receivers : receivers[i] # r =>
              \E k \in DOMAIN receivers : RemovedIf(receivers, r, receivers)[k] = receivers[i]
    BY <1>0, RemovedIfKeeps
  <2>3. DOMAIN receivers' = DOMAIN receivers
    BY <1>0, <2>1, <2>2
  <2>4. ASSUME NEW q \in Receivers \cap registered, q # r
        PROVE  \E k \in DOMAIN receivers' : receivers'[k] = q
    BY <2>1, <2>2, <2>3, <2>4 DEF RegisteredInv
  <2> QED
    BY <2>1, <2>4 DEF RegisteredInv
<1>6. CASE Erase
  <2>1. ASSUME NEW a \in Adapters \cap registered
        PROVE  a \in alive /\ \E k \in DOMAIN adapters' : adapters'[k] = a
    <3>1. a \in alive
      BY DEF RegisteredInv
    <3>2. PICK k \in DOMAIN adapters : adapters[k] = a
      BY DEF RegisteredInv
    <3>3. k # Top.at
      BY <1>6, <3>1, <3>2, EraseIs
    <3> QED
      BY <1>6, <3>1, <3>2, <3>3, EraseKeeps
  <2>2. UNCHANGED <<receivers, alive, registered>>
    BY <1>6 DEF Erase, histories
  <2> QED
    BY <2>1, <2>2 DEF RegisteredInv
<1>7. ASSUME UNCHANGED <<vectors, registered>>
      PROVE  RegisteredInv'
  BY <1>7 DEF RegisteredInv, vectors
<1>8. ASSUME Next, ~UNCHANGED <<vectors, registered>>
      PROVE  \/ \E a \in Adapters : RegisterAdapter(a) \/ RemoveAdapter(a) \/ Destroy(a)
             \/ \E r \in Receivers : AddReceiver(r) \/ RemoveReceiver(r)
             \/ Erase
  BY <1>8 DEF Next, Set, Handle, Offer, SendReturns,
     BeginReceivers, OnUpdate, OnUpdateReturns, SetReturns, BeginCallback, HandleReturns,
     Return, histories, HandleRequest, HandleSubscription, SetSubscribed, Subscribed,
     AnswerReturns
<1>9. UNCHANGED vars => UNCHANGED <<vectors, registered>>
  BY DEF vars, histories
<1> QED
  BY <1>1, <1>2, <1>3, <1>4, <1>5, <1>6, <1>7, <1>8, <1>9

-----------------------------------------------------------------------------
(* The walk over the adapters.                                             *)

\* As long as no adapter was destroyed behind it, a walk is at an element or one
\* past the last, has only living adapters behind it, and is at the adapter
\* that it is sending by.  An erase under it can then only be one ahead of it.
WalkInv ==
    ~orphaned =>
       \A i \in DOMAIN stack : stack[i].place \in Walking =>
          /\ stack[i].at <= Len(adapters) + 1
          /\ \A k \in DOMAIN adapters : k < stack[i].at => adapters[k] \in alive
          /\ stack[i].place = "sending" =>
                stack[i].at \in DOMAIN adapters /\ adapters[stack[i].at] = stack[i].lock

LEMMA WalkStep ==
    ASSUME TypeInv, WalkInv, [Next]_vars
    PROVE  WalkInv'
<1> DEFINE n == Len(stack)
           Well(c) == /\ c.at <= Len(adapters) + 1
                      /\ \A k \in DOMAIN adapters : k < c.at => adapters[k] \in alive
                      /\ c.place = "sending" =>
                            c.at \in DOMAIN adapters /\ adapters[c.at] = c.lock
<1>0. /\ adapters \in Seq(Adapters \cup {Expired}) /\ Len(adapters) \in Nat
      /\ DOMAIN adapters = 1..Len(adapters)
      /\ \A i \in DOMAIN stack : stack[i].place \in Walking =>
            stack[i].at \in Nat /\ stack[i].at >= 1
  <2>1. adapters \in Seq(Adapters \cup {Expired})
    BY DEF TypeInv, TypeOK
  <2> QED
    BY <2>1, Begun, Kinds
<1>1. ASSUME NEW v \in Values, Set(v)
      PROVE  WalkInv'
  <2>1. stack' = Append(stack, SetCall(v)) /\ UNCHANGED <<adapters, alive, orphaned>>
    BY <1>1 DEF Set, BeginSet, vectors
  <2>2. /\ DOMAIN stack' = DOMAIN stack \cup {n + 1}
        /\ stack'[n + 1] = SetCall(v)
        /\ \A i \in DOMAIN stack : stack'[i] = stack[i]
    BY <2>1, SetFits DEF TypeInv
  <2>3. SetCall(v).place = "adapters" /\ SetCall(v).at = 1
    BY DEF SetCall
  <2>4. SetCall(v).at <= Len(adapters) + 1 /\ \A k \in DOMAIN adapters : ~(k < SetCall(v).at)
    BY <1>0, <2>3
  <2> QED
    BY <2>1, <2>2, <2>3, <2>4 DEF WalkInv
<1>2. ASSUME NEW a \in Adapters, NEW v \in Values, Handle(a, v)
      PROVE  WalkInv'
  <2>1. HandlerCall("spreading", a).place = "spreading" /\ SetCall(v).place = "adapters" /\ SetCall(v).at = 1
    BY DEF SetCall, HandlerCall
  <2>2. SetCall(v).at <= Len(adapters) + 1 /\ \A k \in DOMAIN adapters : ~(k < SetCall(v).at)
    BY <1>0, <2>1
  <2>3. \A i \in DOMAIN stack' : stack'[i] = HandlerCall("spreading", a) \/ stack'[i] = SetCall(v)
    BY <1>2, HandleMoves
  <2>4. UNCHANGED <<adapters, alive>>
    BY <1>2 DEF Handle, vectors
  <2> QED
    BY <2>1, <2>2, <2>3, <2>4 DEF WalkInv, Walking
<1>3. ASSUME NEW a \in Adapters, RegisterAdapter(a) \/ RemoveAdapter(a)
      PROVE  WalkInv'
  BY <1>3 DEF RegisterAdapter, RemoveAdapter, Unused, WalkInv
<1>4. ASSUME NEW a \in Adapters, Destroy(a)
      PROVE  WalkInv'
  <2>1. /\ UNCHANGED <<adapters, stack>> /\ alive' = alive \ {a}
        /\ ~orphaned' => ~orphaned /\ ~Passed(a)
    BY <1>4 DEF Destroy
  <2>2. ASSUME ~Passed(a), NEW i \in DOMAIN stack, stack[i].place \in Walking,
               NEW k \in DOMAIN adapters, k < stack[i].at
        PROVE  adapters[k] # a
    BY <2>2 DEF Passed
  <2> QED
    BY <2>1, <2>2 DEF WalkInv
<1>5. ASSUME UNCHANGED <<adapters, alive, stack, orphaned>>
      PROVE  WalkInv'
  BY <1>5 DEF WalkInv
<1>6. CASE Offer
  <2>1. UNCHANGED <<adapters, alive, orphaned>>
    BY <1>6 DEF Offer, vectors
  <2>2. Top.at \in Nat /\ Top.at <= Len(adapters)
    BY <1>0, <1>6, OfferMoves
  <2>3. ASSUME ~orphaned
        PROVE  Well(stack'[n])
    <3>1. \A k \in DOMAIN adapters : k < Top.at => adapters[k] \in alive
      BY <1>6, <2>3, OfferMoves DEF WalkInv, Moves, Walking
    <3>2. \A k \in DOMAIN adapters : k < Top.at + 1 => adapters[k] \in alive
      <4>1. \A k \in DOMAIN adapters : k < Top.at + 1 => k < Top.at \/ k = Top.at
        BY <1>0, <2>2
      <4> QED
        BY <1>6, <3>1, <4>1, OfferMoves
    <3>3. Top.at <= Len(adapters) + 1 /\ Top.at + 1 <= Len(adapters) + 1
      BY <1>0, <2>2
    <3> QED
      BY <1>6, <3>1, <3>2, <3>3, OfferMoves
  <2> QED
    BY <1>6, <2>1, <2>3, OfferMoves DEF WalkInv, Moves
<1>7. CASE SendReturns
  <2>1. UNCHANGED <<adapters, alive, orphaned>>
    BY <1>7 DEF SendReturns, vectors, histories
  <2>2. ASSUME ~orphaned
        PROVE  Well(stack'[n])
    <3>1. /\ \A k \in DOMAIN adapters : k < Top.at => adapters[k] \in alive
          /\ Top.at \in DOMAIN adapters /\ adapters[Top.at] = Top.lock
      BY <1>7, <2>2, SendReturnsMoves DEF WalkInv, Moves, Walking
    <3>2. Top.lock \in alive
      BY <1>7, Begun, SendReturnsMoves DEF Moves, Fits
    <3>3. \A k \in DOMAIN adapters : k < Top.at + 1 => k < Top.at \/ k = Top.at
      BY <1>0, <3>1
    <3>4. Top.at + 1 <= Len(adapters) + 1
      BY <1>0, <3>1
    <3> QED
      BY <1>7, <3>1, <3>2, <3>3, <3>4, SendReturnsMoves
  <2> QED
    BY <1>7, <2>1, <2>2, SendReturnsMoves DEF WalkInv, Moves
<1>8. CASE Erase
  <2>1. UNCHANGED <<stack, alive, orphaned>>
    BY <1>8 DEF Erase, histories
  <2>2. ASSUME ~orphaned, NEW i \in DOMAIN stack, stack[i].place \in Walking
        PROVE  /\ stack[i].at <= Len(adapters')  + 1
               /\ \A k \in DOMAIN adapters' : k < stack[i].at => adapters'[k] \in alive
               /\ stack[i].place = "sending" =>
                     stack[i].at \in DOMAIN adapters' /\ adapters'[stack[i].at] = stack[i].lock
    <3> DEFINE at == stack[i].at
    <3>1. at \in Nat /\ Top.at \in Nat /\ at >= 1
      BY <1>0, <1>8, <2>2, EraseIs
    <3>2. \A k \in DOMAIN adapters : k < at => adapters[k] \in alive
      BY <2>2 DEF WalkInv
    <3>3. ~(Top.at < at)
      BY <1>8, <3>2, EraseIs
    <3> HIDE DEF at
    <3>4. Top.at <= Len(adapters) /\ Len(adapters') = Len(adapters) - 1
      <4>1. Top.at \in DOMAIN adapters /\ Len(adapters') = Len(adapters) - 1
        BY <1>8, EraseIs
      <4> QED
        BY <1>0, <4>1
    <3>5. at <= Len(adapters') + 1
      BY <1>0, <3>1, <3>3, <3>4
    <3>6. ASSUME NEW k \in DOMAIN adapters', k < at
          PROVE  adapters'[k] \in alive
      <4>1. k \in DOMAIN adapters /\ k < Top.at
        BY <1>0, <1>8, <3>1, <3>3, <3>6, EraseIs
      <4> QED
        BY <1>8, <3>2, <3>6, <4>1, EraseIs
    <3>7. ASSUME stack[i].place = "sending"
          PROVE  at \in DOMAIN adapters' /\ adapters'[at] = stack[i].lock
      <4>1. at \in DOMAIN adapters /\ adapters[at] = stack[i].lock
        BY <2>2, <3>7 DEF WalkInv, at
      <4>2. stack[i].lock \in alive
        BY <3>7, Begun DEF Fits
      <4>3. at # Top.at
        BY <1>8, <4>1, <4>2, EraseIs
      <4>4. at < Top.at
        BY <3>1, <3>3, <4>3
      <4>5. at \in DOMAIN adapters'
        BY <1>8, <3>1, <3>4, <4>4, EraseIs
      <4> QED
        BY <1>8, <4>1, <4>4, <4>5, EraseIs
    <3> QED
      BY <3>5, <3>6, <3>7 DEF at
  <2> QED
    BY <2>1, <2>2 DEF WalkInv
<1>9. ASSUME Moves, stack'[n].place \notin Walking, UNCHANGED <<adapters, alive, orphaned>>
      PROVE  WalkInv'
  BY <1>9 DEF WalkInv, Moves
<1>10. CASE BeginReceivers
  BY <1>9, <1>10, BeginReceiversMoves DEF BeginReceivers, vectors, histories, Walking
<1>11. CASE OnUpdate
  BY <1>9, <1>11, OnUpdateMoves DEF OnUpdate, vectors, Walking
<1>12. CASE OnUpdateReturns
  BY <1>9, <1>12, OnUpdateReturnsMoves DEF OnUpdateReturns, vectors, histories, Walking
<1>13. CASE SetReturns \/ HandleReturns
  <2>1. stack # <<>> /\ Return /\ UNCHANGED <<adapters, alive>>
    BY <1>13 DEF SetReturns, HandleReturns, At, Return, vectors
  <2>2. CASE ~orphaned
    BY <2>1, <2>2, ReturnMoves DEF WalkInv
  <2>3. CASE ~orphaned' /\ stack' = <<>>
    <3>1. DOMAIN stack' = {}
      BY <2>3
    <3> QED
      BY <3>1 DEF WalkInv
  <2>4. CASE orphaned'
    BY <2>4 DEF WalkInv
  <2> QED
    BY <2>1, <2>2, <2>3, <2>4, ReturnMoves
<1>14. CASE BeginCallback
  BY <1>14, BeginCallbackMoves DEF BeginCallback, vectors, histories, Walking, WalkInv
<1>15. CASE AnswerReturns
  BY <1>15, AnswerReturnsMoves DEF AnswerReturns, vectors, histories, Walking, WalkInv
<1>16. ASSUME NEW a \in Adapters,
              HandleRequest(a) \/ \E b \in BOOLEAN : HandleSubscription(a, b)
       PROVE  WalkInv'
  BY <1>16, OtherMoves DEF WalkInv, Walking
<1> QED
  BY <1>1, <1>2, <1>3, <1>4, <1>5, <1>6, <1>7, <1>8, <1>10, <1>11, <1>12, <1>13, <1>14,
     <1>15, <1>16
  DEF Next, vars, vectors, histories, AddReceiver, RemoveReceiver, SetSubscribed, Subscribed

\* The walk over the adapters leaves the vector only if an adapter it had passed
\* was destroyed before it was done (Registry::set, Registry.hpp).
THEOREM NoOverrunCorrect == Spec => []NoOverrun
<1>1. Init => TypeInv /\ WalkInv
  <2>1. DOMAIN <<>> = {}
    OBVIOUS
  <2>2. Init => WalkInv
    BY <2>1 DEF Init, WalkInv
  <2> QED
    BY <2>2, InitTypes
<1>2. TypeInv /\ WalkInv /\ [Next]_vars => TypeInv' /\ WalkInv'
  BY TypeStep, WalkStep
<1>3. TypeInv /\ WalkInv => NoOverrun
  <2> SUFFICES ASSUME TypeInv, WalkInv, At("adapters"), ~orphaned
               PROVE  ~(Top.at > Len(adapters) + 1)
    BY DEF NoOverrun
  <2>1. Top \in Calls /\ Len(stack) \in DOMAIN stack /\ stack[Len(stack)] = Top
        /\ Top.place = "adapters"
    BY Innermost DEF At
  <2>2. Top.at <= Len(adapters) + 1
    BY <2>1 DEF WalkInv, Walking
  <2>3. Top.at \in Nat /\ Len(adapters) \in Nat
    BY <2>1, Kinds DEF Walking, TypeInv, TypeOK
  <2> QED
    BY <2>2, <2>3
<1> QED
  BY <1>1, <1>2, <1>3, PTL DEF Spec

-----------------------------------------------------------------------------
(* The receivers.                                                          *)

\* The call c still has to tell r: it has not taken the end of the receivers
\* yet, or r is ahead of it.
WillTell(c, r, recs) ==
    \/ c.place \in Walking
    \/ \E k \in DOMAIN recs :
          /\ recs[k] = r
          /\ \/ c.place = "receivers" /\ c.at <= k
             \/ c.place = "updating" /\ c.at < k

\* A registered receiver has seen the value or some call still tells it.
ToldInv ==
    \A r \in (Receivers \cap registered) \ missed :
       seen[r] = value \/ \E i \in DOMAIN stack : WillTell(stack[i], r, receivers)

\* When the innermost call goes on: whoever it does not tell any more has seen
\* the value.
LEMMA ToldMoves ==
    ASSUME ToldInv, Moves, UNCHANGED <<value, receivers, registered>>,
           Receivers \cap missed' = Receivers \cap missed,
           \A r \in (Receivers \cap registered) \ missed :
              /\ seen[r] = value => seen'[r] = value
              /\ WillTell(Top, r, receivers) =>
                    seen'[r] = value \/ WillTell(stack'[Len(stack)], r, receivers)
    PROVE  ToldInv'
<1> SUFFICES ASSUME NEW r \in (Receivers \cap registered) \ missed
             PROVE  \/ seen'[r] = value
                    \/ \E i \in DOMAIN stack' : WillTell(stack'[i], r, receivers)
  BY DEF ToldInv
<1>1. CASE seen[r] = value
  BY <1>1
<1>2. ASSUME NEW i \in DOMAIN stack, WillTell(stack[i], r, receivers)
      PROVE  \/ seen'[r] = value
             \/ \E j \in DOMAIN stack' : WillTell(stack'[j], r, receivers)
  <2>1. CASE i = Len(stack)
    BY <1>2, <2>1 DEF Moves
  <2>2. CASE i # Len(stack)
    BY <1>2, <2>2 DEF Moves
  <2> QED
    BY <2>1, <2>2
<1> QED
  BY <1>1, <1>2 DEF ToldInv

LEMMA ToldStep ==
    ASSUME TypeInv, RegisteredInv, ToldInv, [Next]_vars
    PROVE  ToldInv'
<1> DEFINE n == Len(stack)
<1>0. /\ receivers \in Seq(Receivers) /\ DOMAIN receivers \subseteq Nat
      /\ DOMAIN receivers = 1..Len(receivers)
      /\ Adapters \cap Receivers = {} /\ seen \in [Receivers -> Values]
  BY CallsAssumption DEF TypeInv, TypeOK
<1>1. ASSUME NEW v \in Values, Set(v)
      PROVE  ToldInv'
  <2>1. stack' = Append(stack, SetCall(v))
    BY <1>1 DEF Set, BeginSet
  <2>2. n + 1 \in DOMAIN stack' /\ stack'[n + 1] = SetCall(v)
    BY <2>1, SetFits DEF TypeInv
  <2>3. SetCall(v).place \in Walking
    BY DEF SetCall, Walking
  <2> QED
    BY <2>2, <2>3 DEF ToldInv, WillTell
<1>2. ASSUME NEW a \in Adapters, NEW v \in Values, Handle(a, v)
      PROVE  ToldInv'
  <2>1. CASE v = value
    <3>1. UNCHANGED <<value, missed, registered, seen>> /\ stack = <<>>
      BY <1>2, <2>1, HandleMoves DEF Handle
    <3>2. DOMAIN stack = {}
      BY <3>1
    <3> QED
      BY <3>1, <3>2 DEF ToldInv
  <2>2. CASE v # value
    <3>1. 2 \in DOMAIN stack' /\ stack'[2] = SetCall(v)
      BY <1>2, <2>2, HandleMoves
    <3>2. SetCall(v).place \in Walking
      BY DEF SetCall, Walking
    <3> QED
      BY <3>1, <3>2 DEF ToldInv, WillTell
  <2> QED
    BY <2>1, <2>2
<1>3. ASSUME NEW a \in Adapters, RegisterAdapter(a) \/ RemoveAdapter(a) \/ Destroy(a)
      PROVE  ToldInv'
  <2>1. /\ UNCHANGED <<value, receivers, stack, seen>>
        /\ \A r \in Receivers : r # a
    BY <1>0, <1>3 DEF RegisterAdapter, RemoveAdapter, Destroy
  <2>2. \A r \in Receivers : (r \in registered' <=> r \in registered) /\ (r \in missed' <=> r \in missed)
    BY <1>3, <2>1 DEF RegisterAdapter, RemoveAdapter, Destroy
  <2> QED
    BY <2>1, <2>2 DEF ToldInv
<1>4. ASSUME NEW r \in Receivers, AddReceiver(r) \/ RemoveReceiver(r)
      PROVE  ToldInv'
  <2>1. Unused(Telling) /\ UNCHANGED <<value, stack, seen>>
    BY <1>4 DEF AddReceiver, RemoveReceiver
  <2>2. ASSUME NEW q, NEW i \in DOMAIN stack, WillTell(stack[i], q, receivers)
        PROVE  WillTell(stack[i], q, receivers')
    BY <2>1, <2>2 DEF Unused, Telling, WillTell
  <2>3. \A q \in (Receivers \cap registered') \ missed' : q \in (Receivers \cap registered) \ missed
    BY <1>4 DEF AddReceiver, RemoveReceiver
  <2> QED
    BY <2>1, <2>2, <2>3 DEF ToldInv
<1>5. CASE Offer
  <2>1. stack'[n].place \in Walking
    BY <1>5, OfferMoves DEF Walking
  <2>2. UNCHANGED <<value, receivers, registered, seen>>
    BY <1>5 DEF Offer, vectors
  <2>3. Current \in Adapters
    BY <1>5 DEF Offer, TypeInv, TypeOK
  <2>4. Receivers \cap missed' = Receivers \cap missed
    BY <1>0, <1>5, <2>3 DEF Offer
  <2> QED
    BY <1>5, <2>1, <2>2, <2>4, OfferMoves, ToldMoves DEF WillTell
<1>6. CASE SendReturns
  <2>1. stack'[n].place \in Walking
    BY <1>6, SendReturnsMoves DEF Walking
  <2> QED
    BY <1>6, <2>1, SendReturnsMoves, ToldMoves DEF SendReturns, vectors, histories, WillTell
<1>7. CASE Erase
  BY <1>7 DEF Erase, histories, ToldInv
<1>8. CASE BeginReceivers
  <2>1. ASSUME NEW r \in (Receivers \cap registered) \ missed
        PROVE  WillTell(stack'[n], r, receivers)
    <3>1. PICK k \in DOMAIN receivers : receivers[k] = r
      BY DEF RegisteredInv
    <3>2. 1 <= k
      BY <1>0
    <3> QED
      BY <1>8, <3>1, <3>2, BeginReceiversMoves DEF WillTell
  <2> QED
    BY <1>8, <2>1, BeginReceiversMoves, ToldMoves DEF BeginReceivers, vectors, histories
<1>9. CASE OnUpdate
  <2>1. seen' = [seen EXCEPT ![receivers[Top.at]] = value]
    BY <1>9 DEF OnUpdate
  <2>2. ASSUME NEW r \in Receivers, WillTell(Top, r, receivers)
        PROVE  seen'[r] = value \/ WillTell(stack'[n], r, receivers)
    <3>1. PICK k \in DOMAIN receivers : receivers[k] = r /\ Top.at <= k
      BY <1>9, <2>2, OnUpdateMoves DEF WillTell, Walking
    <3>2. CASE k = Top.at
      BY <1>0, <2>1, <3>1, <3>2
    <3>3. CASE k # Top.at
      <4>1. Top.at < k
        BY <1>0, <1>9, <3>1, <3>3, OnUpdateMoves
      <4> QED
        BY <1>9, <3>1, <4>1, OnUpdateMoves DEF WillTell
    <3> QED
      BY <3>2, <3>3
  <2>3. \A r \in Receivers : seen[r] = value => seen'[r] = value
    BY <1>0, <2>1
  <2> QED
    BY <1>9, <2>2, <2>3, OnUpdateMoves, ToldMoves DEF OnUpdate, vectors
<1>10. CASE OnUpdateReturns
  <2>1. ASSUME NEW r, WillTell(Top, r, receivers)
        PROVE  WillTell(stack'[n], r, receivers)
    <3>1. PICK k \in DOMAIN receivers : receivers[k] = r /\ Top.at < k
      BY <1>10, <2>1, OnUpdateReturnsMoves DEF WillTell, Walking
    <3>2. Top.at \in Nat
      BY <1>10, Begun, Kinds, OnUpdateReturnsMoves DEF Moves, Telling
    <3>3. Top.at + 1 <= k
      BY <1>0, <3>1, <3>2
    <3> QED
      BY <1>10, <3>1, <3>3, OnUpdateReturnsMoves DEF WillTell
  <2> QED
    BY <1>10, <2>1, OnUpdateReturnsMoves, ToldMoves DEF OnUpdateReturns, vectors, histories
<1>11. CASE SetReturns \/ HandleReturns
  <2>1. /\ stack # <<>> /\ Return
        /\ \/ Top.place = "callback"
           \/ Top.place = "receivers" /\ Top.at > Top.end
    BY <1>11 DEF SetReturns, HandleReturns, At
  <2>2. ASSUME NEW r PROVE ~WillTell(Top, r, receivers)
    <3>1. CASE Top.place = "callback"
      BY <3>1 DEF WillTell, Walking
    <3>2. CASE Top.place = "receivers" /\ Top.at > Top.end
      <4>1. Top.end = Len(receivers) /\ Top.at \in Nat
        BY <2>1, <3>2, Innermost, Kinds DEF Fits, Telling
      <4>2. \A k \in DOMAIN receivers : ~(Top.at <= k)
        BY <1>0, <3>2, <4>1
      <4> QED
        BY <3>2, <4>2 DEF WillTell, Walking
    <3> QED
      BY <2>1, <3>1, <3>2
  <2>3. UNCHANGED <<value, receivers, registered, missed, seen>>
    BY <2>1 DEF Return, vectors
  <2>4. \A r, i : i \in DOMAIN stack /\ WillTell(stack[i], r, receivers) =>
                     i \in DOMAIN stack' /\ stack'[i] = stack[i]
    BY <2>1, <2>2, ReturnMoves
  <2> QED
    BY <2>3, <2>4 DEF ToldInv
<1>12. CASE BeginCallback
  <2>1. UNCHANGED <<value, receivers, registered, missed, seen>>
    BY <1>12 DEF BeginCallback, vectors, histories
  <2>2. \A r, i : i \in DOMAIN stack /\ WillTell(stack[i], r, receivers) =>
                     i \in DOMAIN stack' /\ stack'[i] = stack[i]
    BY <1>12, BeginCallbackMoves DEF WillTell, Walking
  <2> QED
    BY <2>1, <2>2 DEF ToldInv
<1>14. CASE AnswerReturns
  <2>1. UNCHANGED <<value, receivers, registered, missed, seen>>
    BY <1>14 DEF AnswerReturns, vectors, histories
  <2>2. \A r, i : i \in DOMAIN stack /\ WillTell(stack[i], r, receivers) =>
                     i \in DOMAIN stack' /\ stack'[i] = stack[i]
    BY <1>14, AnswerReturnsMoves DEF WillTell, Walking
  <2> QED
    BY <2>1, <2>2 DEF ToldInv
<1>15. ASSUME NEW a \in Adapters,
              HandleRequest(a) \/ \E b \in BOOLEAN : HandleSubscription(a, b)
       PROVE  ToldInv'
  <2>1. UNCHANGED <<value, registered, seen>> /\ Receivers \cap missed' = Receivers \cap missed
    BY <1>0, <1>15 DEF HandleRequest, HandleSubscription, Subscribed
  <2> QED
    BY <1>15, <2>1, OtherMoves DEF ToldInv
<1>16. ASSUME NEW a \in Adapters, NEW b \in BOOLEAN, SetSubscribed(a, b)
       PROVE  ToldInv'
  <2>1. /\ UNCHANGED <<value, receivers, stack, registered, seen>>
        /\ Receivers \cap missed' = Receivers \cap missed
    BY <1>0, <1>16 DEF SetSubscribed, Subscribed, vectors
  <2> QED
    BY <2>1 DEF ToldInv
<1>13. CASE UNCHANGED vars
  BY <1>13 DEF vars, vectors, histories, ToldInv
<1> QED
  BY <1>1, <1>2, <1>3, <1>4, <1>5, <1>6, <1>7, <1>8, <1>9, <1>10, <1>11, <1>12, <1>13,
     <1>14, <1>15, <1>16 DEF Next

\* When all calls have returned every registered receiver has seen the
\* registry's value, however the sets were inside one another (Registry::set,
\* Registry.hpp): each begun set still tells every receiver that is ahead of it,
\* and reads the value only then.
THEOREM ReceiversCurrentCorrect == Spec => []ReceiversCurrent
<1> DEFINE Inv == TypeInv /\ RegisteredInv /\ ToldInv
<1>1. Init => Inv
  BY InitTypes DEF Init, RegisteredInv, ToldInv
<1>2. Inv /\ [Next]_vars => Inv'
  BY TypeStep, RegisteredStep, ToldStep
<1>3. Inv => ReceiversCurrent
  <2>1. AtRest => DOMAIN stack = {}
    BY DEF AtRest
  <2> QED
    BY <2>1 DEF ReceiversCurrent, ToldInv
<1> QED
  BY <1>1, <1>2, <1>3, PTL DEF Spec

-----------------------------------------------------------------------------
(* The peers.                                                              *)

\* An adapter refuses only while its handler is spreading what it received, and
\* during a walk the change was made while those handlers were spreading.
RefusingInv ==
    /\ \A a \in Adapters : ~accept[a] => a \in Spreading
    /\ ~Unused(Walking) => Spreading \subseteq change.refusing

LEMMA SpreadingPrimed ==
    \A a : a \in Spreading' <=> \E i \in DOMAIN stack' :
              stack'[i].place = "spreading" /\ stack'[i].adapter = a
BY DEF Spreading

LEMMA RefusingStep ==
    ASSUME TypeInv, RefusingInv, [Next]_vars
    PROVE  RefusingInv'
<1> DEFINE n == Len(stack)
<1>0. accept \in [Adapters -> BOOLEAN]
  BY DEF TypeInv, TypeOK
<1>1. ASSUME NEW v \in Values, Set(v)
      PROVE  RefusingInv'
  <2>1. stack' = Append(stack, SetCall(v)) /\ accept' = accept /\ change'.refusing = Spreading
    BY <1>1 DEF Set, BeginSet, flags
  <2>2. /\ DOMAIN stack' = DOMAIN stack \cup {n + 1}
        /\ stack'[n + 1] = SetCall(v)
        /\ \A i \in DOMAIN stack : stack'[i] = stack[i]
    BY <2>1, SetFits DEF TypeInv
  <2>3. SetCall(v).place # "spreading"
    BY DEF SetCall
  <2>4. \A a : a \in Spreading' <=> a \in Spreading
    BY <2>2, <2>3, SpreadingIs, SpreadingPrimed
  <2> QED
    BY <2>1, <2>4 DEF RefusingInv
<1>2. ASSUME NEW a \in Adapters, NEW v \in Values, Handle(a, v)
      PROVE  RefusingInv'
  <2>1. /\ HandlerCall("spreading", a).place = "spreading" /\ HandlerCall("spreading", a).adapter = a
        /\ SetCall(v).place = "adapters"
    BY DEF SetCall, HandlerCall
  <2>2. accept' = [accept EXCEPT ![a] = FALSE] /\ stack = <<>>
    BY <1>2 DEF Handle
  <2>3. \A b \in Adapters : accept[b]
    <3>1. DOMAIN stack = {}
      BY <2>2
    <3> QED
      BY <3>1, SpreadingIs DEF RefusingInv
  <2>4. /\ 1 \in DOMAIN stack' /\ stack'[1] = HandlerCall("spreading", a)
        /\ \A i \in DOMAIN stack' : i = 1 \/ stack'[i] = SetCall(v)
    BY <1>2, HandleMoves
  <2>5. \A b : b \in Spreading' <=> b = a
    BY <2>1, <2>4, SpreadingPrimed
  <2>6. \A b \in Adapters : ~accept'[b] => b = a
    BY <1>0, <2>2, <2>3
  <2>7. ~Unused(Walking)' => change'.refusing = {a}
    <3>1. CASE v = value
      <4>1. \A i \in DOMAIN stack' : stack'[i].place = "spreading"
        BY <1>2, <2>1, <3>1, HandleMoves
      <4> QED
        BY <4>1 DEF Unused, Walking
    <3>2. CASE v # value
      BY <1>2, <3>2, HandleMoves
    <3> QED
      BY <3>1, <3>2
  <2> QED
    BY <2>5, <2>6, <2>7 DEF RefusingInv
<1>3. ASSUME UNCHANGED <<accept, stack, change>>
      PROVE  RefusingInv'
  BY <1>3 DEF RefusingInv, Spreading, Unused
<1>4. ASSUME Moves, stack'[n].place # "spreading", Top.place # "spreading",
             stack'[n].place \in Walking => Top.place \in Walking,
             UNCHANGED <<accept, change>>
      PROVE  RefusingInv'
  <2>1. \A a : a \in Spreading' <=> a \in Spreading
    BY <1>4, SpreadingIs, SpreadingPrimed DEF Moves
  <2>2. ~Unused(Walking)' => ~Unused(Walking)
    BY <1>4 DEF Moves, Unused
  <2> QED
    BY <1>4, <2>1, <2>2 DEF RefusingInv
<1>5. CASE Offer
  <2>1. Top.place = "adapters" /\ stack'[n].place \in Walking
    BY <1>5, OfferMoves DEF Walking
  <2> QED
    BY <1>4, <1>5, <2>1, OfferMoves DEF Offer, flags, Walking
<1>6. CASE SendReturns
  BY <1>4, <1>6, SendReturnsMoves DEF SendReturns, flags, histories, Walking
<1>7. CASE BeginReceivers
  BY <1>4, <1>7, BeginReceiversMoves DEF BeginReceivers, flags, histories, Walking
<1>8. CASE OnUpdate
  BY <1>4, <1>8, OnUpdateMoves DEF OnUpdate, flags, Walking
<1>9. CASE OnUpdateReturns
  BY <1>4, <1>9, OnUpdateReturnsMoves DEF OnUpdateReturns, flags, histories, Walking
<1>10. CASE SetReturns \/ HandleReturns
  <2>1. stack # <<>> /\ Return /\ Top.place # "spreading" /\ UNCHANGED <<accept, change>>
    BY <1>10 DEF SetReturns, HandleReturns, At, Return, flags
  <2>2. \A a : a \in Spreading' <=> a \in Spreading
    BY <2>1, ReturnMoves, SpreadingIs, SpreadingPrimed
  <2>3. ~Unused(Walking)' => ~Unused(Walking)
    BY <2>1, ReturnMoves DEF Unused
  <2> QED
    BY <2>1, <2>2, <2>3 DEF RefusingInv
<1>11. CASE BeginCallback
  <2>1. accept' = [accept EXCEPT ![Top.adapter] = TRUE] /\ change' = change
    BY <1>11 DEF BeginCallback, histories
  <2>2. \A a \in Spreading' : a \in Spreading
    BY <1>11, BeginCallbackMoves, SpreadingIs, SpreadingPrimed
  <2>3. \A a \in Spreading : a # Top.adapter => a \in Spreading'
    BY <1>11, BeginCallbackMoves, SpreadingIs, SpreadingPrimed
  <2>4. \A a \in Adapters : ~accept'[a] => ~accept[a] /\ a # Top.adapter
    BY <1>0, <2>1
  <2>5. ~Unused(Walking)' => ~Unused(Walking)
    BY <1>11, BeginCallbackMoves DEF Unused, Walking
  <2> QED
    BY <2>1, <2>2, <2>3, <2>4, <2>5 DEF RefusingInv
<1>12. CASE AnswerReturns
  <2>1. UNCHANGED <<accept, change>>
    BY <1>12 DEF AnswerReturns, flags, histories
  <2>2. \A a : a \in Spreading' <=> a \in Spreading
    BY <1>12, AnswerReturnsMoves, SpreadingIs, SpreadingPrimed
  <2>3. ~Unused(Walking)' => ~Unused(Walking)
    BY <1>12, AnswerReturnsMoves DEF Unused, Walking
  <2> QED
    BY <2>1, <2>2, <2>3 DEF RefusingInv
<1>13. ASSUME NEW a \in Adapters,
              HandleRequest(a) \/ \E b \in BOOLEAN : HandleSubscription(a, b)
       PROVE  RefusingInv'
  <2>1. UNCHANGED <<accept, change>>
    BY <1>13 DEF HandleRequest, HandleSubscription, Subscribed, flags
  <2>2. \A b : b \notin Spreading
    BY <1>13, OtherMoves, SpreadingIs
  <2>3. Unused(Walking)'
    BY <1>13, OtherMoves DEF Unused, Walking
  <2> QED
    BY <2>1, <2>2, <2>3 DEF RefusingInv
<1> QED
  BY <1>1, <1>2, <1>3, <1>5, <1>6, <1>7, <1>8, <1>9, <1>10, <1>11, <1>12, <1>13
  DEF Next, vars, flags, histories, RegisterAdapter, RemoveAdapter, Destroy, AddReceiver,
      RemoveReceiver, Erase, SetSubscribed, Subscribed

\* The call c still comes to a: a is ahead of it.
WillOffer(c, a, adps) ==
    \E k \in DOMAIN adps :
       /\ adps[k] = a
       /\ \/ c.place = "adapters" /\ c.at <= k
          \/ c.place = "sending" /\ c.at < k

\* Unless the change was made inside the walk of an earlier one, it is the only
\* one that is on its way.
OneWalk ==
    ~change.overtaking =>
       /\ \A i, j \in DOMAIN stack :
             stack[i].place \in Walking /\ stack[j].place \in Walking => i = j
       /\ \A i \in DOMAIN stack : stack[i].place \in Walking => stack[i].val = value

\* The adapters that the change is for.
Concerned == {a \in ((Adapters \cap registered) \ missed) \ change.refusing : subscribed[a]}

\* The peer of an adapter that did not refuse the change has the value or the
\* change still comes to it.
OfferedInv ==
    ~change.overtaking =>
       \A a \in Concerned :
          known[a] = value \/ \E i \in DOMAIN stack : WillOffer(stack[i], a, adapters)

LEMMA OneWalkStep ==
    ASSUME TypeInv, OneWalk, [Next]_vars
    PROVE  OneWalk'
<1> DEFINE n == Len(stack)
<1>1. ASSUME NEW v \in Values, Set(v)
      PROVE  OneWalk'
  <2>1. stack' = Append(stack, SetCall(v)) /\ value' = v /\ change'.overtaking = ~Unused(Walking)
    BY <1>1 DEF Set, BeginSet
  <2>2. /\ DOMAIN stack' = DOMAIN stack \cup {n + 1}
        /\ stack'[n + 1] = SetCall(v)
        /\ \A i \in DOMAIN stack : stack'[i] = stack[i]
    BY <2>1, SetFits DEF TypeInv
  <2>3. SetCall(v).val = v
    BY DEF SetCall
  <2>4. ASSUME Unused(Walking)
        PROVE  \A i \in DOMAIN stack' : stack'[i].place \in Walking => i = n + 1
    BY <2>2, <2>4 DEF Unused
  <2> QED
    BY <2>1, <2>2, <2>3, <2>4 DEF OneWalk
<1>2. ASSUME NEW a \in Adapters, NEW v \in Values, Handle(a, v)
      PROVE  OneWalk'
  <2>1. HandlerCall("spreading", a).place \notin Walking /\ SetCall(v).val = v
    BY DEF HandlerCall, SetCall, Walking
  <2>2. \A i \in DOMAIN stack' : i # 1 => i = 2 /\ stack'[i] = SetCall(v) /\ value' = v
    BY <1>2, HandleMoves
  <2>3. stack'[1] = HandlerCall("spreading", a)
    BY <1>2, HandleMoves
  <2> QED
    BY <2>1, <2>2, <2>3 DEF OneWalk
<1>3. ASSUME UNCHANGED <<value, stack, change>>
      PROVE  OneWalk'
  BY <1>3 DEF OneWalk
<1>4. ASSUME Moves, UNCHANGED <<value, change>>,
             stack'[n].place \in Walking =>
                Top.place \in Walking /\ stack'[n].val = Top.val
      PROVE  OneWalk'
  BY <1>4 DEF Moves, OneWalk
<1>5. CASE Offer
  BY <1>4, <1>5, OfferMoves DEF Offer, Walking
<1>6. CASE SendReturns
  BY <1>4, <1>6, SendReturnsMoves DEF SendReturns, histories, Walking
<1>7. CASE BeginReceivers
  BY <1>4, <1>7, BeginReceiversMoves DEF BeginReceivers, histories, Walking
<1>8. CASE OnUpdate
  BY <1>4, <1>8, OnUpdateMoves DEF OnUpdate, Walking
<1>9. CASE OnUpdateReturns
  BY <1>4, <1>9, OnUpdateReturnsMoves DEF OnUpdateReturns, histories, Walking
<1>10. CASE SetReturns \/ HandleReturns
  <2>1. stack # <<>> /\ Return /\ UNCHANGED <<value, change>>
    BY <1>10 DEF SetReturns, HandleReturns, At, Return
  <2> QED
    BY <2>1, ReturnMoves DEF OneWalk
<1>11. CASE BeginCallback
  BY <1>11, BeginCallbackMoves DEF BeginCallback, histories, Walking, OneWalk
<1>12. CASE AnswerReturns
  BY <1>12, AnswerReturnsMoves DEF AnswerReturns, histories, Walking, OneWalk
<1>13. ASSUME NEW a \in Adapters,
              HandleRequest(a) \/ \E b \in BOOLEAN : HandleSubscription(a, b)
       PROVE  OneWalk'
  BY <1>13, OtherMoves DEF OneWalk, Walking
<1> QED
  BY <1>1, <1>2, <1>3, <1>5, <1>6, <1>7, <1>8, <1>9, <1>10, <1>11, <1>12, <1>13
  DEF Next, vars, histories, RegisterAdapter, RemoveAdapter, Destroy, AddReceiver,
      RemoveReceiver, Erase, SetSubscribed, Subscribed

\* When the innermost call goes on: whoever it does not come to any more has
\* the value.
LEMMA OfferedMoves ==
    ASSUME OfferedInv, Moves, UNCHANGED <<value, adapters, subscribed, registered, change>>,
           missed \subseteq missed',
           \A a \in Concerned \ missed' :
              ~change.overtaking =>
                 /\ known[a] = value => known'[a] = value
                 /\ WillOffer(Top, a, adapters) =>
                       known'[a] = value \/ WillOffer(stack'[Len(stack)], a, adapters)
    PROVE  OfferedInv'
<1> SUFFICES ASSUME ~change.overtaking, NEW a \in Concerned \ missed'
             PROVE  \/ known'[a] = value
                    \/ \E i \in DOMAIN stack' : WillOffer(stack'[i], a, adapters)
  BY DEF OfferedInv, Concerned
<1>1. CASE known[a] = value
  BY <1>1
<1>2. ASSUME NEW i \in DOMAIN stack, WillOffer(stack[i], a, adapters)
      PROVE  \/ known'[a] = value
             \/ \E j \in DOMAIN stack' : WillOffer(stack'[j], a, adapters)
  <2>1. CASE i = Len(stack)
    BY <1>2, <2>1 DEF Moves
  <2>2. CASE i # Len(stack)
    BY <1>2, <2>2 DEF Moves
  <2> QED
    BY <2>1, <2>2
<1> QED
  BY <1>1, <1>2 DEF OfferedInv

\* A new subscription is not concerned by the last change.
LEMMA SubscribedNarrows ==
    ASSUME TypeInv, NEW a \in Adapters, NEW b \in BOOLEAN, Subscribed(a, b)
    PROVE  Concerned' \subseteq Concerned
<1>1. /\ UNCHANGED <<registered, change>> /\ missed \subseteq missed'
      /\ subscribed' = [subscribed EXCEPT ![a] = b]
      /\ b /\ ~subscribed[a] => a \in missed' \/ a \notin registered
  BY DEF Subscribed
<1>2. ASSUME NEW c \in Adapters \cap registered, subscribed'[c], c \notin missed'
      PROVE  subscribed[c]
  <2>1. subscribed \in [Adapters -> BOOLEAN]
    BY DEF TypeInv, TypeOK
  <2>2. CASE c = a
    BY <1>1, <1>2, <2>1, <2>2
  <2>3. CASE c # a
    BY <1>1, <1>2, <2>1, <2>3
  <2> QED
    BY <2>2, <2>3
<1> QED
  BY <1>1, <1>2 DEF Concerned

LEMMA OfferedStep ==
    ASSUME TypeInv, RegisteredInv, RefusingInv, OneWalk, OfferedInv, [Next]_vars
    PROVE  OfferedInv'
<1> DEFINE n == Len(stack)
<1>0. /\ DOMAIN adapters = 1..Len(adapters) /\ Len(adapters) \in Nat
      /\ Adapters \cap Receivers = {} /\ known \in [Adapters -> Values]
  BY CallsAssumption DEF TypeInv, TypeOK
<1>1. ASSUME NEW v \in Values, NEW a \in Adapters \cap registered
      PROVE  WillOffer(SetCall(v), a, adapters)
  <2>1. PICK k \in DOMAIN adapters : adapters[k] = a
    BY DEF RegisteredInv
  <2>2. SetCall(v).place = "adapters" /\ SetCall(v).at = 1 /\ 1 <= k
    BY <1>0 DEF SetCall
  <2> QED
    BY <2>1, <2>2 DEF WillOffer
<1>2. ASSUME NEW v \in Values, Set(v)
      PROVE  OfferedInv'
  <2>1. stack' = Append(stack, SetCall(v)) /\ UNCHANGED <<adapters, subscribed, registered>>
    BY <1>2 DEF Set, flags, BeginSet, vectors
  <2>2. n + 1 \in DOMAIN stack' /\ stack'[n + 1] = SetCall(v)
    BY <2>1, SetFits DEF TypeInv
  <2> QED
    BY <1>1, <2>1, <2>2 DEF OfferedInv, Concerned
<1>3. ASSUME NEW a \in Adapters, NEW v \in Values, Handle(a, v)
      PROVE  OfferedInv'
  <2>1. /\ UNCHANGED <<adapters, subscribed, registered>> /\ stack = <<>>
        /\ known' = [known EXCEPT ![a] = v]
    BY <1>3 DEF Handle, vectors
  <2>2. CASE v = value
    <3>1. DOMAIN stack = {} /\ UNCHANGED <<value, missed, change>>
      BY <1>3, <2>1, <2>2, HandleMoves
    <3>2. \A b \in Adapters : known[b] = value => known'[b] = value
      BY <1>0, <2>1, <2>2
    <3> QED
      BY <2>1, <3>1, <3>2 DEF OfferedInv, Concerned
  <2>3. CASE v # value
    <3>1. 2 \in DOMAIN stack' /\ stack'[2] = SetCall(v)
      BY <1>3, <2>3, HandleMoves
    <3> QED
      BY <1>1, <2>1, <3>1 DEF OfferedInv, Concerned
  <2> QED
    BY <2>2, <2>3
<1>4. ASSUME NEW a \in Adapters, RegisterAdapter(a) \/ RemoveAdapter(a)
      PROVE  OfferedInv'
  <2>1. Unused(Walking) /\ UNCHANGED <<value, subscribed, stack, known, change>>
    BY <1>4 DEF RegisterAdapter, flags, RemoveAdapter
  <2>2. \A b : \A i \in DOMAIN stack : ~WillOffer(stack[i], b, adapters)
    BY <2>1 DEF Unused, Walking, WillOffer
  <2>3. (Adapters \cap registered') \ missed' \subseteq (Adapters \cap registered) \ missed
    BY <1>4 DEF RegisterAdapter, flags, RemoveAdapter
  <2> QED
    BY <2>1, <2>2, <2>3 DEF OfferedInv, Concerned
<1>5. ASSUME NEW a \in Adapters, Destroy(a)
      PROVE  OfferedInv'
  BY <1>5 DEF Destroy, flags, OfferedInv, Concerned
<1>6. ASSUME NEW r \in Receivers, AddReceiver(r) \/ RemoveReceiver(r)
      PROVE  OfferedInv'
  <2>1. UNCHANGED <<value, adapters, subscribed, stack, known, change>> /\ r \notin Adapters
    BY <1>0, <1>6 DEF AddReceiver, flags, RemoveReceiver
  <2>2. (Adapters \cap registered') \ missed' = (Adapters \cap registered) \ missed
    BY <1>6, <2>1 DEF AddReceiver, flags, RemoveReceiver
  <2> QED
    BY <2>1, <2>2 DEF OfferedInv, Concerned
<1>7. CASE Offer
  <2> DEFINE a == adapters[Top.at]
  <2>1. UNCHANGED <<value, adapters, subscribed, registered, change>> /\ missed \subseteq missed'
    BY <1>7 DEF Offer, flags, vectors
  <2>2. \A b \in Adapters, k \in DOMAIN adapters :
           adapters[k] = b /\ b # a /\ Top.at <= k => Top.at < k /\ Top.at + 1 <= k
    BY <1>0, <1>7, OfferMoves
  <2>3. ASSUME NEW b \in Adapters, b # a, WillOffer(Top, b, adapters)
        PROVE  WillOffer(stack'[n], b, adapters)
    <3>1. PICK k \in DOMAIN adapters : adapters[k] = b /\ Top.at <= k
      BY <1>7, <2>3, OfferMoves DEF WillOffer
    <3>2. Top.at < k /\ Top.at + 1 <= k
      BY <2>2, <2>3, <3>1
    <3> QED
      BY <1>7, <3>1, <3>2, OfferMoves DEF WillOffer
  <2>4. ASSUME ~Sends(a)
        PROVE  a \notin Concerned
    <3>1. a \in Spreading \/ a \notin Adapters \/ ~subscribed[a]
      BY <2>4 DEF RefusingInv, Sends
    <3>2. ~Unused(Walking)
      BY <1>7, OfferMoves DEF Moves, Unused, Walking
    <3> QED
      BY <3>1, <3>2 DEF RefusingInv, Concerned
  <2>5. ASSUME Sends(a), ~change.overtaking
        PROVE  known' = [known EXCEPT ![a] = value] \/ (known' = known /\ a \notin registered \ missed')
    <3>1. Top.val = value
      BY <1>7, <2>5, OfferMoves DEF Moves, OneWalk, Walking
    <3> QED
      BY <1>7, <2>5, <3>1 DEF Offer, Current
  <2>6. ~Sends(a) => known' = known
    BY <1>7 DEF Offer, Current
  <2> HIDE DEF a
  <2>7. ASSUME ~change.overtaking, NEW b \in Concerned \ missed'
        PROVE  /\ known[b] = value => known'[b] = value
               /\ WillOffer(Top, b, adapters) =>
                     known'[b] = value \/ WillOffer(stack'[n], b, adapters)
    <3>1. b \in Adapters /\ b \in registered \ missed'
      BY <2>7 DEF Concerned
    <3>2. CASE Sends(a)
      BY <1>0, <2>3, <2>5, <2>7, <3>1, <3>2
    <3>3. CASE ~Sends(a)
      BY <2>3, <2>4, <2>6, <3>1, <3>3
    <3> QED
      BY <3>2, <3>3
  <2> QED
    BY <1>7, <2>1, <2>7, OfferMoves, OfferedMoves
<1>8. CASE SendReturns
  <2>1. ASSUME NEW a, WillOffer(Top, a, adapters)
        PROVE  WillOffer(stack'[n], a, adapters)
    <3>1. PICK k \in DOMAIN adapters : adapters[k] = a /\ Top.at < k
      BY <1>8, <2>1, SendReturnsMoves DEF WillOffer
    <3>2. Top.at \in Nat
      BY <1>8, Begun, Kinds, SendReturnsMoves DEF Moves, Walking
    <3>3. Top.at + 1 <= k
      BY <1>0, <3>1, <3>2
    <3> QED
      BY <1>8, <3>1, <3>3, SendReturnsMoves DEF WillOffer
  <2>2. UNCHANGED <<value, adapters, subscribed, registered, missed, change, known>>
    BY <1>8 DEF SendReturns, flags, vectors, histories
  <2> QED
    BY <1>8, <2>1, <2>2, SendReturnsMoves, OfferedMoves
<1>9. CASE Erase
  <2>1. UNCHANGED <<value, subscribed, stack, registered, missed, change, known>>
    BY <1>9 DEF Erase, flags, histories
  <2>2. ASSUME ~change.overtaking, NEW a \in Concerned,
               NEW i \in DOMAIN stack, WillOffer(stack[i], a, adapters)
        PROVE  WillOffer(stack[i], a, adapters')
    <3>1. stack[i] = Top /\ Top.place = "adapters"
      BY <1>9, <2>2, EraseIs DEF OneWalk, WillOffer, Walking
    <3>2. PICK k \in DOMAIN adapters : adapters[k] = a /\ Top.at <= k
      BY <2>2, <3>1 DEF WillOffer
    <3>3. a \in alive
      BY DEF Concerned, RegisteredInv
    <3>4. k # Top.at /\ Top.at \in DOMAIN adapters
      BY <1>9, <3>2, <3>3, EraseIs
    <3>5. k > Top.at
      BY <1>0, <3>2, <3>4
    <3>6. PICK m \in DOMAIN adapters' : adapters'[m] = a /\ Top.at <= m
      BY <1>9, <3>2, <3>4, <3>5, EraseKeeps
    <3> QED
      BY <3>1, <3>6 DEF WillOffer
  <2> QED
    BY <2>1, <2>2 DEF OfferedInv, Concerned
<1>10. ASSUME UNCHANGED <<value, adapters, subscribed, registered, missed, change, known>>,
              \A a, i : i \in DOMAIN stack /\ WillOffer(stack[i], a, adapters) =>
                           i \in DOMAIN stack' /\ stack'[i] = stack[i]
       PROVE  OfferedInv'
  BY <1>10 DEF OfferedInv, Concerned
<1>11. CASE BeginReceivers
  <2>1. \A k \in DOMAIN adapters : ~(Top.at <= k)
    BY <1>0, <1>11, BeginReceiversMoves
  <2>2. \A a : ~WillOffer(Top, a, adapters)
    BY <1>11, <2>1, BeginReceiversMoves DEF WillOffer
  <2>3. UNCHANGED <<value, adapters, subscribed, registered, missed, change, known>>
    BY <1>11 DEF BeginReceivers, flags, vectors, histories
  <2> QED
    BY <1>11, <2>2, <2>3, BeginReceiversMoves, OfferedMoves
<1>12. CASE OnUpdate
  <2>1. \A a : ~WillOffer(Top, a, adapters)
    BY <1>12, OnUpdateMoves DEF WillOffer
  <2>2. UNCHANGED <<value, adapters, subscribed, registered, missed, change, known>>
    BY <1>12 DEF OnUpdate, flags, vectors
  <2> QED
    BY <1>12, <2>1, <2>2, OnUpdateMoves, OfferedMoves
<1>13. CASE OnUpdateReturns
  <2>1. \A a : ~WillOffer(Top, a, adapters)
    BY <1>13, OnUpdateReturnsMoves DEF WillOffer
  <2>2. UNCHANGED <<value, adapters, subscribed, registered, missed, change, known>>
    BY <1>13 DEF OnUpdateReturns, flags, vectors, histories
  <2> QED
    BY <1>13, <2>1, <2>2, OnUpdateReturnsMoves, OfferedMoves
<1>14. CASE SetReturns \/ HandleReturns
  <2>1. stack # <<>> /\ Return /\ Top.place \in {"receivers", "callback"}
    BY <1>14 DEF SetReturns, HandleReturns, At
  <2>2. \A a : ~WillOffer(Top, a, adapters)
    BY <2>1 DEF WillOffer
  <2>3. UNCHANGED <<value, adapters, subscribed, registered, missed, change, known>>
    BY <2>1 DEF Return, flags, vectors
  <2> QED
    BY <1>10, <2>1, <2>2, <2>3, ReturnMoves
<1>15. CASE BeginCallback
  <2>1. \A a : ~WillOffer(Top, a, adapters)
    BY <1>15, BeginCallbackMoves DEF WillOffer
  <2>2. UNCHANGED <<value, adapters, subscribed, registered, missed, change, known>>
    BY <1>15 DEF BeginCallback, flags, vectors, histories
  <2> QED
    BY <1>10, <1>15, <2>1, <2>2, BeginCallbackMoves
<1>16. CASE AnswerReturns
  <2>1. \A a : ~WillOffer(Top, a, adapters)
    BY <1>16, AnswerReturnsMoves DEF WillOffer
  <2>2. UNCHANGED <<value, adapters, subscribed, registered, missed, change, known>>
    BY <1>16 DEF AnswerReturns, flags, vectors, histories
  <2> QED
    BY <1>10, <1>16, <2>1, <2>2, AnswerReturnsMoves
<1>17. ASSUME NEW a \in Adapters, HandleRequest(a)
       PROVE  OfferedInv'
  <2>1. UNCHANGED <<value, adapters, subscribed, registered, missed, change>>
    BY <1>17 DEF HandleRequest, flags, vectors
  <2>2. \A b \in Adapters : known[b] = value => known'[b] = value
    BY <1>0, <1>17 DEF HandleRequest
  <2>3. DOMAIN stack = {}
    BY <1>17, OtherMoves
  <2> QED
    BY <2>1, <2>2, <2>3 DEF OfferedInv, Concerned
<1>18. ASSUME NEW a \in Adapters, NEW b \in BOOLEAN, HandleSubscription(a, b)
       PROVE  OfferedInv'
  <2>1. UNCHANGED <<value, adapters, change, known>> /\ Concerned' \subseteq Concerned
    BY <1>18, SubscribedNarrows DEF HandleSubscription, Subscribed, vectors
  <2>2. DOMAIN stack = {}
    BY <1>18, OtherMoves
  <2> QED
    BY <2>1, <2>2 DEF OfferedInv
<1>19. ASSUME NEW a \in Adapters, NEW b \in BOOLEAN, SetSubscribed(a, b)
       PROVE  OfferedInv'
  <2>1. UNCHANGED <<value, adapters, stack, change, known>> /\ Concerned' \subseteq Concerned
    BY <1>19, SubscribedNarrows DEF SetSubscribed, Subscribed, vectors
  <2> QED
    BY <2>1 DEF OfferedInv
<1>20. CASE UNCHANGED vars
  BY <1>20 DEF vars, flags, vectors, histories, OfferedInv, Concerned
<1> QED
  BY <1>2, <1>3, <1>4, <1>5, <1>6, <1>7, <1>8, <1>9, <1>11, <1>12, <1>13, <1>14, <1>15, <1>16,
     <1>17, <1>18, <1>19, <1>20
  DEF Next

\* When all calls have returned, the peer of every adapter that was registered
\* and subscribed at the last change, and still is, has the registry's value,
\* unless the send failed, the adapter refused the change because it was
\* spreading what it had received, or the change was made inside the walk of
\* another (Registry::set, Registry.hpp; the tests of LiteCommAdapter::set,
\* LiteCommAdapter.hpp): neither calls inside calls nor adapters that expire,
\* are removed or unsubscribe next to it make an adapter miss a change.
THEOREM PeersCurrentCorrect == Spec => []PeersCurrent
<1> DEFINE Inv == TypeInv /\ RegisteredInv /\ RefusingInv /\ OneWalk /\ OfferedInv
<1>1. Init => Inv
  <2>1. Init => DOMAIN stack = {} /\ Adapters \cap registered = {}
    BY DEF Init
  <2>2. Init => \A a \in Adapters : accept[a]
    BY DEF Init
  <2>3. Init => RegisteredInv /\ OneWalk /\ OfferedInv /\ RefusingInv
    BY <2>1, <2>2 DEF Init, RegisteredInv, OneWalk, OfferedInv, Concerned, RefusingInv, Unused
  <2> QED
    BY <2>3, InitTypes
<1>2. Inv /\ [Next]_vars => Inv'
  BY TypeStep, RegisteredStep, RefusingStep, OneWalkStep, OfferedStep
<1>3. Inv => PeersCurrent
  <2>1. AtRest => DOMAIN stack = {}
    BY DEF AtRest
  <2> QED
    BY <2>1 DEF PeersCurrent, OfferedInv, Concerned
<1> QED
  BY <1>1, <1>2, <1>3, PTL DEF Spec
=============================================================================
