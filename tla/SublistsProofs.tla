--------------------------- MODULE SublistsProofs ---------------------------
(***************************************************************************)
(* Facts about Sublists: the k-th element of a set of numbers is well      *)
(* defined, and what happens to a sublist when an element is appended to    *)
(* or taken from the sequence.                                             *)
(***************************************************************************)
EXTENDS Sublists, TLAPS, FiniteSetTheorems, FunctionTheorems

\* The elements of a finite set of numbers have the ranks from 1 on, each its
\* own.
LEMMA Ranks ==
    ASSUME NEW P \in SUBSET Nat, IsFiniteSet(P)
    PROVE  /\ Cardinality(P) \in Nat
           /\ \A i \in P : Cardinality(UpTo(P, i)) \in 1..Cardinality(P)
           /\ \A i \in P : Nth(P, Cardinality(UpTo(P, i))) = i
           /\ \A k \in 1..Cardinality(P) : Nth(P, k) \in P /\ Cardinality(UpTo(P, Nth(P, k))) = k
<1> DEFINE n == Cardinality(P)
           rank == [i \in P |-> Cardinality(UpTo(P, i))]
<1>1. n \in Nat
  BY FS_CardinalityType
<1>2. ASSUME NEW i \in P
      PROVE  IsFiniteSet(UpTo(P, i)) /\ Cardinality(UpTo(P, i)) \in 1..n
  <2>1. UpTo(P, i) \in SUBSET P /\ i \in UpTo(P, i)
    BY DEF UpTo
  <2>2. IsFiniteSet(UpTo(P, i)) /\ Cardinality(UpTo(P, i)) <= n
    BY <2>1, FS_Subset
  <2>3. Cardinality(UpTo(P, i)) \in Nat /\ Cardinality(UpTo(P, i)) # 0
    BY <2>1, <2>2, FS_CardinalityType, FS_EmptySet
  <2> HIDE DEF n
  <2> QED
    BY <1>1, <2>2, <2>3
<1>3. ASSUME NEW i \in P, NEW j \in P, i < j
      PROVE  Cardinality(UpTo(P, i)) # Cardinality(UpTo(P, j))
  <2>0. i \in Nat /\ j \in Nat /\ \A x \in P : x \in Nat
    OBVIOUS
  <2>1. UpTo(P, i) \in SUBSET UpTo(P, j) /\ j \in UpTo(P, j) /\ j \notin UpTo(P, i)
    <3>1. \A x \in P : x <= i => x <= j
      BY <1>3, <2>0
    <3>2. j <= j /\ ~(j <= i)
      BY <1>3, <2>0
    <3> QED
      BY <3>1, <3>2 DEF UpTo
  <2>2. UpTo(P, i) # UpTo(P, j)
    BY <2>1
  <2>3. IsFiniteSet(UpTo(P, j))
    BY <1>2
  <2> HIDE DEF n
  <2> QED
    BY <2>1, <2>2, <2>3, FS_Subset
<1>4. rank \in Injection(P, 1..n)
  <2>1. rank \in [P -> 1..n]
    BY <1>2
  <2>2. \A i, j \in P : rank[i] = rank[j] => i = j
    <3>1. \A i, j \in P : i < j \/ j < i \/ i = j
      OBVIOUS
    <3> QED
      BY <1>3, <3>1
  <2> HIDE DEF n, rank
  <2> QED
    BY <2>1, <2>2, Fun_IsInj
<1>5. rank \in Surjection(P, 1..n)
  <2>1. IsFiniteSet(1..n) /\ Cardinality(1..n) = n
    BY <1>1, FS_Interval
  <2> HIDE DEF rank
  <2> QED
    BY <1>4, <2>1, FS_Injection
<1>6. \A i \in P : Nth(P, Cardinality(UpTo(P, i))) = i
  <2> TAKE i \in P
  <2>1. \A j \in P : Cardinality(UpTo(P, j)) = Cardinality(UpTo(P, i)) => j = i
    <3>1. \A j \in P : i < j \/ j < i \/ i = j
      OBVIOUS
    <3> QED
      BY <1>3, <3>1
  <2> QED
    BY <2>1 DEF Nth
<1>7. \A k \in 1..n : Nth(P, k) \in P /\ Cardinality(UpTo(P, Nth(P, k))) = k
  <2> TAKE k \in 1..n
  <2>1. PICK i \in P : rank[i] = k
    <3> HIDE DEF rank, n
    <3>1. \A j \in 1..n : \E i \in P : rank[i] = j
      BY <1>5, Fun_SurjectionProperties
    <3> QED
      BY <3>1
  <2> QED
    BY <1>6, <2>1
<1> QED
  BY <1>1, <1>2, <1>6, <1>7

\* A number beyond the others comes last.
LEMMA RanksAbove ==
    ASSUME NEW P \in SUBSET Nat, IsFiniteSet(P), NEW m \in Nat, \A i \in P : i < m
    PROVE  /\ Cardinality(P \cup {m}) = Cardinality(P) + 1
           /\ \A k \in 1..Cardinality(P) : Nth(P \cup {m}, k) = Nth(P, k)
           /\ Nth(P \cup {m}, Cardinality(P) + 1) = m
<1> DEFINE Q == P \cup {m}
<1>1. m \notin P
  OBVIOUS
<1>2. Cardinality(Q) = Cardinality(P) + 1 /\ IsFiniteSet(Q) /\ Q \in SUBSET Nat
  BY <1>1, FS_AddElement
<1>3. UpTo(Q, m) = Q /\ \A i \in P : UpTo(Q, i) = UpTo(P, i)
  <2>1. \A i \in P : i <= m /\ ~(m <= i)
    <3>1. \A i \in P : i \in Nat
      OBVIOUS
    <3> QED
      BY <3>1
  <2>2. m <= m
    OBVIOUS
  <2> QED
    BY <2>1, <2>2 DEF UpTo
<1>4. m \in Q /\ P \subseteq Q
  OBVIOUS
<1> HIDE DEF Q
<1>5. Nth(Q, Cardinality(P) + 1) = m
  BY <1>2, <1>3, <1>4, Ranks
<1>6. ASSUME NEW k \in 1..Cardinality(P)
      PROVE  Nth(Q, k) = Nth(P, k)
  <2>1. Nth(P, k) \in P /\ Cardinality(UpTo(P, Nth(P, k))) = k
    BY Ranks
  <2>2. Cardinality(UpTo(Q, Nth(P, k))) = k
    BY <1>3, <2>1
  <2> QED
    BY <1>2, <1>4, <2>1, <2>2, Ranks
<1> QED
  BY <1>2, <1>5, <1>6 DEF Q

\* All numbers but 0 and 1, lower by 1.
Lowered(P) == {i - 1 : i \in P \ {0, 1}}

LEMMA LoweredCardinality ==
    ASSUME NEW P \in SUBSET Nat, IsFiniteSet(P), 0 \notin P
    PROVE  /\ IsFiniteSet(Lowered(P))
           /\ Cardinality(Lowered(P)) = Cardinality(P \ {1})
<1> DEFINE R == P \ {1}
           shift == [i \in R |-> i - 1]
<1>1. shift \in Bijection(R, Lowered(P))
  <2>1. shift \in [R -> Lowered(P)]
    BY DEF Lowered
  <2>2. \A a, b \in R : shift[a] = shift[b] => a = b
    OBVIOUS
  <2>3. \A t \in Lowered(P) : \E a \in R : shift[a] = t
    BY DEF Lowered
  <2> HIDE DEF shift
  <2>4. shift \in Injection(R, Lowered(P)) /\ shift \in Surjection(R, Lowered(P))
    BY <2>1, <2>2, <2>3, Fun_IsInj, Fun_IsSurj
  <2> QED
    BY <2>4 DEF Bijection
<1>2. IsFiniteSet(R)
  BY FS_RemoveElement
<1>3. ExistsBijection(R, Lowered(P))
  BY <1>1 DEF ExistsBijection
<1> HIDE DEF R, shift
<1>4. IsFiniteSet(Lowered(P)) /\ Cardinality(Lowered(P)) = Cardinality(R)
  BY <1>2, <1>3, FS_Bijection
<1> QED
  BY <1>4 DEF R

\* The lowered numbers keep their order; 1, if it was there, is the first.
LEMMA RanksLowered ==
    ASSUME NEW P \in SUBSET Nat, IsFiniteSet(P), 0 \notin P, NEW d \in {0, 1}, d = 1 <=> 1 \in P
    PROVE  /\ IsFiniteSet(Lowered(P)) /\ Lowered(P) \subseteq Nat
           /\ Cardinality(Lowered(P)) = Cardinality(P) - d
           /\ \A k \in 1..(Cardinality(P) - d) : Nth(Lowered(P), k) = Nth(P, k + d) - 1
           /\ 1 \in P => Nth(P, 1) = 1
<1> DEFINE Q == Lowered(P)
<1>0. Cardinality(P) \in Nat
  BY FS_CardinalityType
<1>1. IsFiniteSet(Q) /\ Q \in SUBSET Nat /\ Cardinality(Q) = Cardinality(P) - d
  <2>1. Cardinality(P \ {1}) = Cardinality(P) - d
    BY <1>0, FS_RemoveElement
  <2>2. Q \in SUBSET Nat
    BY DEF Lowered
  <2> QED
    BY <2>1, <2>2, LoweredCardinality
<1>2. ASSUME NEW i \in P, i # 1
      PROVE  i - 1 \in Q /\ Cardinality(UpTo(Q, i - 1)) = Cardinality(UpTo(P, i)) - d
  <2> DEFINE U == UpTo(P, i)
  <2>1. UpTo(Q, i - 1) = Lowered(U)
    BY DEF UpTo, Lowered
  <2>2. U \in SUBSET P /\ (1 \in P <=> 1 \in U)
    BY <1>2 DEF UpTo
  <2>3. U \in SUBSET Nat /\ IsFiniteSet(U) /\ 0 \notin U
    BY <2>2, FS_Subset
  <2> HIDE DEF U
  <2>4. Cardinality(U) \in Nat
    BY <2>3, FS_CardinalityType
  <2>5. Cardinality(U \ {1}) = Cardinality(U) - d
    <3>1. Cardinality(U \ {1}) = IF 1 \in U THEN Cardinality(U) - 1 ELSE Cardinality(U)
      BY <2>3, FS_RemoveElement
    <3> QED
      BY <2>2, <2>4, <3>1
  <2>6. i - 1 \in Q
    BY <1>2 DEF Lowered
  <2> QED
    BY <2>1, <2>3, <2>5, <2>6, LoweredCardinality DEF U
<1>3. ASSUME 1 \in P
      PROVE  Cardinality(UpTo(P, 1)) = 1 /\ Nth(P, 1) = 1
  <2>1. UpTo(P, 1) = {1}
    <3>1. \A i \in P : i \in Nat /\ i # 0
      OBVIOUS
    <3>2. \A i \in P : i <= 1 <=> i = 1
      BY <3>1
    <3> QED
      BY <1>3, <3>2 DEF UpTo
  <2>2. Cardinality(UpTo(P, 1)) = 1
    BY <2>1, FS_Singleton
  <2> QED
    BY <1>3, <2>2, Ranks
<1> HIDE DEF Q
<1>4. ASSUME NEW k \in 1..(Cardinality(P) - d)
      PROVE  Nth(Q, k) = Nth(P, k + d) - 1
  <2> DEFINE i == Nth(P, k + d)
  <2>1. k + d \in 1..Cardinality(P) /\ k \in Nat /\ k # 0
    BY <1>0
  <2>2. i \in P /\ Cardinality(UpTo(P, i)) = k + d
    BY <2>1, Ranks
  <2> HIDE DEF i
  <2>3. i # 1
    BY <1>3, <2>1, <2>2
  <2>4. i - 1 \in Q /\ Cardinality(UpTo(Q, i - 1)) = k
    BY <1>2, <2>1, <2>2, <2>3
  <2>5. Nth(Q, k) = i - 1
    BY <1>1, <2>4, Ranks
  <2> QED
    BY <2>5 DEF i
<1> QED
  BY <1>1, <1>3, <1>4 DEF Q

-----------------------------------------------------------------------------
(* The elements of a sequence that are in a set C, each with what val makes  *)
(* of it.                                                                  *)

Places(s, C) == {i \in DOMAIN s : s[i] \in C}

Counting(s, C, val) ==
    [k \in 1..Cardinality(Places(s, C)) |-> val[Sublist(s, Places(s, C))[k]]]

LEMMA CountingIs ==
    \A s, C, val : Counting(s, C, val) =
       [k \in 1..Cardinality(Places(s, C)) |-> val[s[Nth(Places(s, C), k)]]]
BY DEF Counting, Sublist

\* The places are finitely many numbers.
LEMMA FinitePlaces ==
    ASSUME NEW M, NEW s \in Seq(M), NEW C
    PROVE  IsFiniteSet(Places(s, C)) /\ Places(s, C) \subseteq Nat
<1>1. DOMAIN s = 1..Len(s) /\ Len(s) \in Nat
  OBVIOUS
<1>2. IsFiniteSet(1..Len(s)) /\ Places(s, C) \subseteq 1..Len(s)
  BY <1>1, FS_Interval DEF Places
<1> QED
  BY <1>2, FS_Subset

\* An element is appended.
LEMMA CountingAppend ==
    ASSUME NEW M, NEW s \in Seq(M), NEW m \in M, NEW C, NEW val
    PROVE  /\ m \in C => Counting(Append(s, m), C, val) = Append(Counting(s, C, val), val[m])
           /\ m \notin C => Counting(Append(s, m), C, val) = Counting(s, C, val)
<1> DEFINE t == Append(s, m)
           P == Places(s, C)
           n == Cardinality(P)
           last == Len(s) + 1
<1>1. /\ DOMAIN s = 1..Len(s) /\ Len(s) \in Nat /\ DOMAIN t = 1..last
      /\ t[last] = m /\ \A i \in 1..Len(s) : t[i] = s[i]
  OBVIOUS
<1>2. P \in SUBSET Nat /\ IsFiniteSet(P) /\ n \in Nat /\ P \subseteq 1..Len(s)
  BY <1>1, FinitePlaces, FS_CardinalityType DEF Places
<1> HIDE DEF t
<1>3. ASSUME m \in C
      PROVE  Counting(t, C, val) = Append(Counting(s, C, val), val[m])
  <2>1. Places(t, C) = P \cup {last}
    BY <1>1, <1>3 DEF Places
  <2>2. last \in Nat /\ \A i \in P : i < last
    BY <1>1, <1>2
  <2> HIDE DEF P, last
  <2>3. /\ Cardinality(Places(t, C)) = n + 1
        /\ \A k \in 1..n : Nth(Places(t, C), k) = Nth(P, k)
        /\ Nth(Places(t, C), n + 1) = last
    <3>1. P \in SUBSET Nat /\ IsFiniteSet(P)
      BY <1>2
    <3>2. /\ Cardinality(P \cup {last}) = n + 1
          /\ \A k \in 1..n : Nth(P \cup {last}, k) = Nth(P, k)
          /\ Nth(P \cup {last}, n + 1) = last
      BY <2>2, <3>1, RanksAbove
    <3> QED
      BY <2>1, <3>2
  <2>4. \A k \in 1..n : t[Nth(P, k)] = s[Nth(P, k)]
    BY <1>1, <1>2, Ranks
  <2>5. Counting(t, C, val) = [k \in 1..(n + 1) |-> IF k = n + 1 THEN val[m] ELSE val[s[Nth(P, k)]]]
    <3>1. \A k \in 1..(n + 1) : k = n + 1 \/ k \in 1..n
      BY <1>2
    <3>2. t[last] = m
      BY <1>1 DEF last
    <3> HIDE DEF n
    <3> QED
      BY <2>3, <2>4, <3>1, <3>2, CountingIs
  <2>6. Counting(s, C, val) = [k \in 1..n |-> val[s[Nth(P, k)]]]
    BY CountingIs DEF P
  <2> HIDE DEF n
  <2> QED
    BY <1>2, <2>5, <2>6
<1>4. ASSUME m \notin C
      PROVE  Counting(t, C, val) = Counting(s, C, val)
  <2>1. Places(t, C) = P
    <3>1. \A i \in DOMAIN t : i = last \/ i \in DOMAIN s
      BY <1>1
    <3> QED
      BY <1>1, <1>4, <3>1 DEF Places
  <2>2. \A k \in 1..n : t[Nth(P, k)] = s[Nth(P, k)]
    <3> HIDE DEF P
    <3> QED
      BY <1>1, <1>2, Ranks
  <2> QED
    BY <2>1, <2>2, CountingIs
<1> QED
  BY <1>3, <1>4 DEF t

\* The first element is taken off.
LEMMA CountingTail ==
    ASSUME NEW M, NEW s \in Seq(M), s # <<>>, NEW C, NEW val
    PROVE  /\ Head(s) \in C => /\ Counting(s, C, val) # <<>>
                               /\ Head(Counting(s, C, val)) = val[Head(s)]
                               /\ Counting(Tail(s), C, val) = Tail(Counting(s, C, val))
           /\ Head(s) \notin C => Counting(Tail(s), C, val) = Counting(s, C, val)
<1> DEFINE t == Tail(s)
           P == Places(s, C)
           n == Cardinality(P)
           d == IF Head(s) \in C THEN 1 ELSE 0
<1>1. /\ DOMAIN s = 1..Len(s) /\ Len(s) \in Nat \ {0} /\ DOMAIN t = 1..(Len(s) - 1)
      /\ Head(s) = s[1] /\ \A i \in 1..(Len(s) - 1) : t[i] = s[i + 1]
  OBVIOUS
<1>2. P \in SUBSET Nat /\ IsFiniteSet(P) /\ n \in Nat /\ P \subseteq 1..Len(s) /\ 0 \notin P
  BY <1>1, FinitePlaces, FS_CardinalityType DEF Places
<1> HIDE DEF t
<1>3. Places(t, C) = Lowered(P)
  <2>1. ASSUME NEW i \in Places(t, C)
        PROVE  i \in Lowered(P)
    <3>1. i \in 1..(Len(s) - 1) /\ s[i + 1] \in C
      BY <1>1 DEF Places
    <3>2. i + 1 \in P \ {0, 1} /\ i = (i + 1) - 1
      BY <1>1, <3>1 DEF Places
    <3> HIDE DEF P
    <3> QED
      BY <3>2 DEF Lowered
  <2>2. ASSUME NEW i \in Lowered(P)
        PROVE  i \in Places(t, C)
    <3>1. PICK j \in P \ {0, 1} : i = j - 1
      BY DEF Lowered
    <3>2. j \in 1..Len(s) /\ s[j] \in C
      BY <1>1 DEF Places
    <3>3. j - 1 \in 1..(Len(s) - 1) /\ (j - 1) + 1 = j
      BY <1>1, <3>1, <3>2
    <3> QED
      BY <1>1, <3>1, <3>2, <3>3 DEF Places
  <2> QED
    BY <2>1, <2>2
<1>4. d \in {0, 1} /\ (d = 1 <=> 1 \in P)
  BY <1>1 DEF Places
<1> HIDE DEF d, P
<1>5. /\ Cardinality(Places(t, C)) = n - d
      /\ \A k \in 1..(n - d) : Nth(Places(t, C), k) = Nth(P, k + d) - 1
      /\ d = 1 => Nth(P, 1) = 1
      /\ IsFiniteSet(Places(t, C)) /\ Places(t, C) \subseteq Nat
  BY <1>2, <1>3, <1>4, RanksLowered
<1>6. \A k \in 1..(n - d) : t[Nth(Places(t, C), k)] = s[Nth(P, k + d)]
  <2> TAKE k \in 1..(n - d)
  <2>1. Nth(Places(t, C), k) \in DOMAIN t
    BY <1>5, Ranks DEF Places
  <2>2. k + d \in 1..n
    BY <1>2, <1>4
  <2>3. Nth(P, k + d) \in Nat
    BY <1>2, <2>2, Ranks
  <2> QED
    BY <1>1, <1>5, <2>1, <2>3
<1>7. Counting(t, C, val) = [k \in 1..(n - d) |-> val[s[Nth(P, k + d)]]]
  BY <1>5, <1>6, CountingIs
<1>8. Counting(s, C, val) = [k \in 1..n |-> val[s[Nth(P, k)]]]
  BY CountingIs DEF P
<1> HIDE DEF n
<1>9. CASE Head(s) \in C
  <2>1. d = 1 /\ n - d = n - 1 /\ n # 0
    <3>1. d = 1 /\ P # {}
      BY <1>4, <1>9 DEF d
    <3> QED
      BY <1>2, <3>1, FS_EmptySet DEF n
  <2> DEFINE c == Counting(s, C, val)
  <2>2. c \in Seq({val[s[Nth(P, k)]] : k \in 1..n}) /\ Len(c) = n
    BY <1>2, <1>8
  <2>3. c # <<>> /\ Head(c) = val[s[Nth(P, 1)]]
    <3>1. c[1] = val[s[Nth(P, 1)]]
      BY <1>2, <1>8, <2>1
    <3> HIDE DEF c
    <3>2. c # <<>> /\ Head(c) = c[1]
      BY <1>2, <2>1, <2>2
    <3> QED
      BY <3>1, <3>2
  <2>4. Tail(c) = [k \in 1..(n - 1) |-> val[s[Nth(P, k + 1)]]]
    BY <1>2, <1>8, <2>1, <2>2
  <2>5. Counting(t, C, val) = [k \in 1..(n - 1) |-> val[s[Nth(P, k + 1)]]]
    BY <1>7, <2>1
  <2> QED
    BY <1>1, <1>5, <1>9, <2>1, <2>3, <2>4, <2>5 DEF t
<1>10. CASE Head(s) \notin C
  <2>1. d = 0 /\ n - d = n /\ \A k \in 1..n : k + d = k
    BY <1>2, <1>10 DEF d
  <2> QED
    BY <1>7, <1>8, <1>10, <2>1 DEF t
<1> QED
  BY <1>9, <1>10
=============================================================================
