--------------------------- MODULE NumberingProofs ---------------------------
(***************************************************************************)
(* Proofs about Numbering, for every table of entry counts.                 *)
(***************************************************************************)
EXTENDS Numbering, TLAPS

\* x is a number of type t.
Within(tab, t, x) == tab.first[t] <= x /\ x < tab.first[t + 1]

\* A number lies within one type only.
LEMMA OneType ==
    ASSUME NEW tab \in Tables, NEW x \in Int,
           NEW s \in 0..(tab.kinds - 1), NEW t \in 0..(tab.kinds - 1),
           Within(tab, s, x), Within(tab, t, x)
    PROVE  s = t
<1>1. /\ tab.kinds \in Nat /\ tab.first \in [0..tab.kinds -> Nat]
      /\ \A a, b \in 0..tab.kinds : a <= b => tab.first[a] <= tab.first[b]
  BY TablesAssumption
<1>2. /\ s \in 0..tab.kinds /\ s + 1 \in 0..tab.kinds
      /\ t \in 0..tab.kinds /\ t + 1 \in 0..tab.kinds
  BY <1>1
<1>3. /\ tab.first[s] \in Nat /\ tab.first[s + 1] \in Nat
      /\ tab.first[t] \in Nat /\ tab.first[t + 1] \in Nat
  BY <1>1, <1>2
<1>4. ~(s + 1 <= t)
  BY <1>1, <1>2, <1>3 DEF Within
<1>5. ~(t + 1 <= s)
  BY <1>1, <1>2, <1>3 DEF Within
<1> QED
  BY <1>1, <1>4, <1>5

\* What is known of a table.
LEMMA TableFacts ==
    ASSUME NEW tab \in Tables
    PROVE  /\ tab.kinds \in Nat
           /\ tab.count \in [0..(tab.kinds - 1) -> Nat]
           /\ tab.first \in [0..tab.kinds -> Nat]
           /\ tab.first[0] = 0
           /\ Total(tab) \in Nat
           /\ \A t \in 0..(tab.kinds - 1) : tab.first[t + 1] = tab.first[t] + tab.count[t]
           /\ \A t \in 0..tab.kinds : tab.first[t] \in Nat /\ tab.first[t] <= Total(tab)
BY TablesAssumption DEF Total

\* The number of a property lies within its type, and below the total.
LEMMA NumberFacts ==
    ASSUME NEW tab \in Tables, NEW p \in Properties(tab)
    PROVE  /\ NumberOf(tab, p) \in 0..(Total(tab) - 1)
           /\ p.type \in 0..(tab.kinds - 1)
           /\ p.property \in Nat
           /\ Within(tab, p.type, NumberOf(tab, p))
<1>1. p.type \in 0..(tab.kinds - 1) /\ p.property \in 0..Total(tab) /\ p.property < tab.count[p.type]
  BY DEF Properties
<1>2. p.type + 1 \in 0..tab.kinds /\ p.type \in 0..tab.kinds
  BY <1>1, TableFacts
<1>3. /\ tab.first[p.type] \in Nat /\ tab.count[p.type] \in Nat
      /\ tab.first[p.type + 1] = tab.first[p.type] + tab.count[p.type]
      /\ tab.first[p.type + 1] <= Total(tab)
      /\ Total(tab) \in Nat
  BY <1>1, <1>2, TableFacts
<1> QED
  BY <1>1, <1>3 DEF NumberOf, Within

-----------------------------------------------------------------------------
(* The inductive invariant, in named parts.                                *)

\* The search has not passed the number it looks for; the other calls keep
\* the one they were given.
NotPassed ==
    /\ call = "number" => number <= NumberOf(table, goal)
    /\ call # "number" => number = NumberOf(table, goal)

\* Which function can be running.
Staged ==
    /\ call = "type" => stage = "type"
    /\ call = "normalize" => stage = "normalize"
    /\ pc = "subtracting" => stage = "normalize"
    /\ pc = "comparing" => call = "number"
    /\ pc = "done" /\ call = "number" => stage = "type"

\* The loop over the types: rest is what remains of the number, until it is
\* used up within the type the loop is at.
Typed ==
    IF pc = "typing" /\ rest >= 0
    THEN rest = number - table.first[at]
    ELSE at < table.kinds /\ Within(table, at, number)

\* The loop of NormalizeContinousNumber.
Normalized ==
    /\ pc = "subtracting" => rest = number - table.first[n]
    /\ pc \in {"comparing", "done"} /\ stage = "normalize" => rest = number - table.first[at]

\* The property has been compared before the type is.
Compared ==
    call = "number" /\ stage = "type" =>
       \A t \in 0..(table.kinds - 1) :
          Within(table, t, number) => number - table.first[t] = goal.property

\* Right at the end.
Settled == pc = "done" /\ call = "number" => at = goal.type

NInv == TypeOK /\ NotPassed /\ Staged /\ Typed /\ Normalized /\ Compared /\ Settled

LEMMA InvInit == Init => NInv
<1> SUFFICES ASSUME Init PROVE NInv
  OBVIOUS
<1>1. table \in Tables /\ goal \in Properties(table)
  BY DEF Init
<1>2. /\ NumberOf(table, goal) \in Nat
      /\ number \in Nat
      /\ call = "number" => number <= NumberOf(table, goal)
      /\ call # "number" => number = NumberOf(table, goal)
  BY <1>1, NumberFacts DEF Init
<1>3. table.first[0] = 0 /\ table.kinds \in Nat
  BY <1>1, TableFacts
<1>4. call = "number" => stage = "normalize"
  BY DEF Init
<1> QED
  BY <1>1, <1>2, <1>3, <1>4
  DEF Init, NInv, TypeOK, Calls, NotPassed, Staged, Typed, Normalized, Compared, Settled

\* The loop over the types never stands behind the last one with something
\* left, and the number exists.
LEMMA InvInside == NInv => Inside
<1> SUFFICES ASSUME NInv PROVE Inside
  OBVIOUS
<1>1. /\ table \in Tables /\ goal \in Properties(table) /\ number \in Nat /\ rest \in Int
      /\ at \in 0..table.kinds
  BY DEF NInv, TypeOK
<1>2. number < Total(table)
  BY <1>1, NumberFacts, TableFacts DEF NInv, NotPassed
<1>3. ASSUME pc = "typing", rest >= 0 PROVE at # table.kinds
  <2>1. rest = number - table.first[at]
    BY <1>3 DEF NInv, Typed
  <2>2. table.kinds \in Nat /\ Total(table) \in Nat /\ Total(table) = table.first[table.kinds]
    BY <1>1, TableFacts DEF Total
  <2> QED
    BY <1>1, <1>2, <1>3, <2>1, <2>2
<1>4. table.kinds \in Nat
  BY <1>1, TableFacts
<1> QED
  BY <1>1, <1>2, <1>3, <1>4 DEF Inside

LEMMA InvStep == NInv /\ [Next]_vars => NInv'
<1> SUFFICES ASSUME NInv, [Next]_vars PROVE NInv'
  OBVIOUS
<1>1. /\ table \in Tables /\ goal \in Properties(table) /\ call \in Calls
      /\ number \in Nat /\ rest \in Int /\ at \in 0..table.kinds /\ n \in 0..at
      /\ stage \in {"type", "normalize"}
      /\ pc \in {"typing", "subtracting", "comparing", "done"}
  BY DEF NInv, TypeOK
<1>2. /\ table.kinds \in Nat /\ Total(table) \in Nat /\ table.first[0] = 0
      /\ at \in Nat /\ n \in Nat
      /\ \A t \in 0..table.kinds : table.first[t] \in Nat
      /\ \A t \in 0..(table.kinds - 1) :
            /\ table.count[t] \in Nat
            /\ table.first[t + 1] = table.first[t] + table.count[t]
  <2>1. /\ table.kinds \in Nat /\ Total(table) \in Nat /\ table.first[0] = 0
        /\ table.count \in [0..(table.kinds - 1) -> Nat]
        /\ table.first \in [0..table.kinds -> Nat]
        /\ \A t \in 0..(table.kinds - 1) : table.first[t + 1] = table.first[t] + table.count[t]
    BY <1>1, TableFacts, Zenon
  <2> QED
    BY <1>1, <2>1
<1>3. NumberOf(table, goal) \in Nat
  BY <1>1, NumberFacts
<1>4. CASE CountType
  <2>1. /\ pc = "typing" /\ rest >= 0 /\ rest' = rest - table.count[at]
        /\ at' = IF rest' >= 0 THEN at + 1 ELSE at
        /\ UNCHANGED <<table, call, goal, number, stage, pc, n>>
    BY <1>4 DEF CountType, GetEntryCount
  <2>2. at < table.kinds /\ rest = number - table.first[at]
    BY <2>1, InvInside DEF Inside, NInv, Typed
  <2>3. at \in 0..(table.kinds - 1) /\ at + 1 \in 0..table.kinds /\ at \in 0..table.kinds
    BY <1>1, <1>2, <2>2
  <2>4. /\ table.first[at] \in Nat /\ table.count[at] \in Nat
        /\ table.first[at + 1] = table.first[at] + table.count[at]
    BY <1>2, <2>3
  <2>5. rest' \in Int /\ rest' = number - table.first[at + 1]
    BY <1>1, <2>1, <2>2, <2>4
  <2>6. TypeOK'
    BY <1>1, <1>2, <2>1, <2>3, <2>5 DEF TypeOK
  <2>7. Typed'
    <3>1. CASE rest' >= 0
      BY <2>1, <2>5, <3>1 DEF Typed
    <3>2. CASE ~(rest' >= 0)
      BY <1>1, <2>1, <2>2, <2>4, <2>5, <3>2 DEF Typed, Within
    <3> QED
      BY <3>1, <3>2
  <2>8. NotPassed' /\ Staged' /\ Normalized' /\ Compared' /\ Settled'
    BY <2>1 DEF NInv, NotPassed, Staged, Normalized, Compared, Settled, NumberOf, Within
  <2> QED
    BY <2>6, <2>7, <2>8 DEF NInv
<1>5. CASE TypeFound
  <2>1. /\ pc = "typing" /\ ~(rest >= 0)
        /\ UNCHANGED <<table, call, goal, number, stage, at>>
    BY <1>1, <1>5 DEF TypeFound
  <2>2. at < table.kinds /\ Within(table, at, number)
    BY <2>1 DEF NInv, Typed
  <2>3. CASE stage = "normalize"
    <3>1. pc' = "subtracting" /\ rest' = number /\ n' = 0
      BY <1>5, <2>3 DEF TypeFound
    <3> QED
      BY <1>1, <1>2, <2>1, <2>2, <2>3, <3>1
      DEF NInv, TypeOK, NotPassed, Staged, Typed, Normalized, Compared, Settled, NumberOf, Within
  <2>4. CASE stage = "type"
    <3>1. pc' = (IF call = "number" THEN "comparing" ELSE "done") /\ UNCHANGED <<rest, n>>
      BY <1>5, <2>4 DEF TypeFound
    <3> QED
      BY <1>1, <1>2, <2>1, <2>2, <2>4, <3>1
      DEF NInv, TypeOK, NotPassed, Staged, Typed, Normalized, Compared, Settled, NumberOf, Within,
          Calls
  <2> QED
    BY <1>1, <2>3, <2>4
<1>6. CASE SubtractType
  <2>1. /\ pc = "subtracting" /\ n < at /\ rest' = rest - table.count[n] /\ n' = n + 1
        /\ UNCHANGED <<table, call, goal, number, stage, pc, at>>
    BY <1>6 DEF SubtractType, GetEntryCount
  <2>2. at < table.kinds /\ rest = number - table.first[n]
    BY <2>1 DEF NInv, Typed, Normalized
  <2>3. n \in 0..(table.kinds - 1) /\ n \in 0..table.kinds /\ n + 1 \in 0..at
    BY <1>1, <1>2, <2>1, <2>2
  <2>4. /\ table.first[n] \in Nat /\ table.count[n] \in Nat
        /\ table.first[n + 1] = table.first[n] + table.count[n]
    BY <1>2, <2>3
  <2>5. rest' \in Int /\ rest' = number - table.first[n + 1]
    BY <1>1, <2>1, <2>2, <2>4
  <2> QED
    BY <1>1, <2>1, <2>3, <2>5
    DEF NInv, TypeOK, NotPassed, Staged, Typed, Normalized, Compared, Settled, NumberOf, Within
<1>7. CASE PropertyFound
  <2>1. /\ pc = "subtracting" /\ n = at /\ pc' = IF call = "number" THEN "comparing" ELSE "done"
        /\ UNCHANGED <<table, call, goal, number, stage, rest, at, n>>
    BY <1>7 DEF PropertyFound
  <2> QED
    BY <1>1, <2>1
    DEF NInv, TypeOK, NotPassed, Staged, Typed, Normalized, Compared, Settled, NumberOf, Within
<1>8. CASE Differs
  <2>1. /\ pc = "comparing" /\ ~Matches /\ number' = number + 1 /\ stage' = "normalize"
        /\ pc' = "typing" /\ rest' = number + 1 /\ at' = 0 /\ n' = 0
        /\ UNCHANGED <<table, call, goal>>
    BY <1>8 DEF Differs, Begin
  <2>2. call = "number" /\ at < table.kinds /\ Within(table, at, number)
    BY <2>1 DEF NInv, Staged, Typed
  <2>3. number # NumberOf(table, goal)
    <3> SUFFICES ASSUME number = NumberOf(table, goal) PROVE Matches
      BY <2>1
    <3>1. /\ goal.type \in 0..(table.kinds - 1) /\ at \in 0..(table.kinds - 1)
          /\ Within(table, goal.type, number)
      BY <1>1, <1>2, <2>2, NumberFacts
    <3>2. at = goal.type
      BY <1>1, <2>2, <3>1, OneType
    <3>3. stage = "normalize" => rest = number - table.first[at]
      BY <2>1 DEF NInv, Normalized
    <3>4. table.first[goal.type] \in Nat /\ goal.property \in Nat
      BY <1>1, <1>2, <3>1, NumberFacts
    <3> QED
      BY <3>2, <3>3, <3>4 DEF Matches, NumberOf
  <2>4. number + 1 <= NumberOf(table, goal)
    BY <1>1, <1>3, <2>2, <2>3 DEF NInv, NotPassed
  <2> QED
    BY <1>1, <1>2, <2>1, <2>2, <2>4
    DEF NInv, TypeOK, NotPassed, Staged, Typed, Normalized, Compared, Settled, NumberOf
<1>9. CASE PropertyMatches
  <2>1. /\ pc = "comparing" /\ stage = "normalize" /\ rest = goal.property
        /\ number' = number /\ stage' = "type"
        /\ pc' = "typing" /\ rest' = number /\ at' = 0 /\ n' = 0
        /\ UNCHANGED <<table, call, goal>>
    BY <1>9 DEF PropertyMatches, Matches, Begin
  <2>2. /\ call = "number" /\ at < table.kinds /\ Within(table, at, number)
        /\ rest = number - table.first[at]
    BY <2>1 DEF NInv, Staged, Typed, Normalized
  <2>3. Compared'
    <3> SUFFICES ASSUME NEW t \in 0..(table.kinds - 1), Within(table, t, number)
                 PROVE  number - table.first[t] = goal.property
      BY <2>1 DEF Compared, Within
    <3>1. at \in 0..(table.kinds - 1)
      BY <1>1, <1>2, <2>2
    <3>2. t = at
      BY <1>1, <2>2, <3>1, OneType
    <3> QED
      BY <2>1, <2>2, <3>2
  <2> QED
    BY <1>1, <1>2, <2>1, <2>2, <2>3
    DEF NInv, TypeOK, NotPassed, Staged, Typed, Normalized, Settled, NumberOf
<1>10. CASE TypeMatches
  <2>1. /\ pc = "comparing" /\ stage = "type" /\ at = goal.type /\ pc' = "done"
        /\ UNCHANGED <<table, call, goal, number, stage, rest, at, n>>
    BY <1>10 DEF TypeMatches, Matches
  <2> QED
    BY <1>1, <2>1
    DEF NInv, TypeOK, NotPassed, Staged, Typed, Normalized, Compared, Settled, NumberOf, Within
<1>11. CASE UNCHANGED vars
  BY <1>11
  DEF vars, NInv, TypeOK, NotPassed, Staged, Typed, Normalized, Compared, Settled, NumberOf, Within
<1> QED
  BY <1>4, <1>5, <1>6, <1>7, <1>8, <1>9, <1>10, <1>11 DEF Next

\* The answers follow from where the loops have ended.
LEMMA InvAnswer == NInv => RightAnswer
<1> SUFFICES ASSUME NInv, pc = "done" PROVE RightAnswer
  BY DEF RightAnswer
<1>1. /\ table \in Tables /\ goal \in Properties(table) /\ call \in Calls
      /\ number \in Nat /\ at \in 0..table.kinds
      /\ at < table.kinds /\ Within(table, at, number)
  BY DEF NInv, TypeOK, Typed
<1>2. /\ table.kinds \in Nat /\ at \in 0..(table.kinds - 1)
      /\ goal.type \in 0..(table.kinds - 1) /\ goal.property \in Nat
      /\ table.first[goal.type] \in Nat
      /\ Within(table, goal.type, NumberOf(table, goal))
  BY <1>1, TableFacts, NumberFacts
<1>3. CASE call # "number"
  <2>1. number = NumberOf(table, goal)
    BY <1>3 DEF NInv, NotPassed
  <2>2. at = goal.type
    BY <1>1, <1>2, <2>1, OneType
  <2>3. call = "normalize" => rest = number - table.first[at]
    BY DEF NInv, Staged, Normalized
  <2>4. number - table.first[goal.type] = goal.property
    BY <1>2, <2>1 DEF NumberOf
  <2> QED
    BY <1>1, <1>3, <2>2, <2>3, <2>4 DEF RightAnswer, Calls
<1>4. CASE call = "number"
  <2>1. at = goal.type /\ stage = "type"
    BY <1>4 DEF NInv, Staged, Settled
  <2>2. number - table.first[at] = goal.property
    BY <1>1, <1>2, <1>4, <2>1 DEF NInv, Compared
  <2>3. number = NumberOf(table, goal)
    BY <1>1, <1>2, <2>1, <2>2 DEF NumberOf
  <2> QED
    BY <1>4, <2>3 DEF RightAnswer
<1> QED
  BY <1>3, <1>4

-----------------------------------------------------------------------------
(* The theorems.                                                           *)

LEMMA Invariance == Spec => []NInv
BY InvInit, InvStep, PTL DEF Spec

\* The variables have their types; the second loop never passes the type that
\* the first has found.
THEOREM TypeCorrect == Spec => []TypeOK
<1>1. NInv => TypeOK
  BY DEF NInv
<1> QED
  BY <1>1, Invariance, PTL

\* Whatever the counts are, the loops end before the end of the table, though
\* nothing in them tests for it.
THEOREM InsideCorrect == Spec => []Inside
BY InvInside, Invariance, PTL

\* Whatever the counts are, the functions return the type, the property and
\* the number that belong together.
THEOREM RightAnswerCorrect == Spec => []RightAnswer
BY InvAnswer, Invariance, PTL

-----------------------------------------------------------------------------
(* Nothing runs for ever: how many turns a call can still take for the      *)
(* number that it tries.                                                   *)

\* The turns of the loop over the types.
Turns == (table.kinds - at) + (IF rest >= 0 THEN 1 ELSE 0)

Left ==
    IF stage = "normalize"
    THEN CASE pc = "typing"      -> 3 * table.kinds + 8 + Turns
           [] pc = "subtracting" -> 2 * table.kinds + 6 + (at - n)
           [] pc = "comparing"   -> 2 * table.kinds + 5
           [] pc = "done"        -> 0
    ELSE CASE pc = "typing"      -> table.kinds + 3 + Turns
           [] pc = "comparing"   -> 1
           [] OTHER              -> 0

Descent ==
    /\ Left \in Nat /\ Left' \in Nat
    /\ \/ number' = number + 1 /\ number' < Total(table)
       \/ number' = number /\ Left' < Left

\* Every step of the three functions either goes to the next number, which
\* exists, or has fewer turns left for the same one: whatever the table is,
\* the loops of Detail.hpp take finitely many steps.
THEOREM Descends == Spec => [][Descent]_vars
<1>1. NInv => Left \in Nat
  <2> SUFFICES ASSUME NInv PROVE Left \in Nat
    OBVIOUS
  <2>1. /\ table.kinds \in Nat /\ at \in 0..table.kinds /\ n \in 0..at /\ rest \in Int
        /\ stage \in {"type", "normalize"}
        /\ pc \in {"typing", "subtracting", "comparing", "done"}
    BY TableFacts DEF NInv, TypeOK
  <2> QED
    BY <2>1 DEF Left, Turns
<1>2. ASSUME NInv, Inside', Next
      PROVE  \/ number' = number + 1 /\ number' < Total(table)
             \/ number' = number /\ Left' < Left
  <2>1. /\ table.kinds \in Nat /\ at \in 0..table.kinds /\ n \in 0..at /\ rest \in Int
        /\ at \in Nat /\ n \in Nat /\ stage \in {"type", "normalize"}
    BY <1>2, TableFacts DEF NInv, TypeOK
  <2>2. CASE CountType
    <3>1. /\ pc = "typing" /\ rest >= 0
          /\ at' = IF rest' >= 0 THEN at + 1 ELSE at
          /\ UNCHANGED <<table, call, goal, number, stage, pc, n>>
      BY <2>2 DEF CountType
    <3>2. Turns' < Turns
      BY <2>1, <3>1 DEF Turns
    <3>3. Turns \in Int /\ Turns' \in Int
      BY <2>1, <3>1 DEF Turns
    <3> QED
      BY <2>1, <3>1, <3>2, <3>3 DEF Left
  <2>3. CASE TypeFound
    <3>1. /\ pc = "typing" /\ UNCHANGED <<table, call, goal, number, stage, at>>
          /\ IF stage = "normalize"
             THEN pc' = "subtracting" /\ n' = 0
             ELSE pc' = "comparing" \/ pc' = "done"
      BY <2>3 DEF TypeFound
    <3> QED
      BY <2>1, <3>1 DEF Left, Turns
  <2>4. CASE SubtractType
    <3>1. /\ pc = "subtracting" /\ n < at /\ n' = n + 1
          /\ UNCHANGED <<table, call, goal, number, stage, pc, at>>
      BY <2>4 DEF SubtractType
    <3>2. stage = "normalize"
      BY <1>2, <3>1 DEF NInv, Staged
    <3> QED
      BY <2>1, <3>1, <3>2 DEF Left
  <2>5. CASE PropertyFound
    <3>1. /\ pc = "subtracting" /\ n = at /\ pc' \in {"comparing", "done"}
          /\ UNCHANGED <<table, call, goal, number, stage, rest, at, n>>
      BY <2>5 DEF PropertyFound
    <3>2. stage = "normalize"
      BY <1>2, <3>1 DEF NInv, Staged
    <3> QED
      BY <2>1, <3>1, <3>2 DEF Left
  <2>6. CASE Differs
    <3>1. number' = number + 1 /\ UNCHANGED table
      BY <2>6 DEF Differs, Begin
    <3>2. number' < Total(table')
      BY <1>2 DEF Inside, Total
    <3> QED
      BY <3>1, <3>2
  <2>7. CASE PropertyMatches
    <3>1. /\ pc = "comparing" /\ stage = "normalize" /\ number' = number
          /\ stage' = "type" /\ pc' = "typing" /\ at' = 0 /\ rest' = number /\ UNCHANGED table
      BY <2>7 DEF PropertyMatches, Begin
    <3> QED
      BY <2>1, <3>1 DEF Left, Turns
  <2>8. CASE TypeMatches
    <3>1. /\ pc = "comparing" /\ stage = "type" /\ pc' = "done"
          /\ UNCHANGED <<table, call, goal, number, stage, rest, at, n>>
      BY <2>8 DEF TypeMatches
    <3> QED
      BY <2>1, <3>1 DEF Left
  <2> QED
    BY <1>2, <2>2, <2>3, <2>4, <2>5, <2>6, <2>7, <2>8 DEF Next
<1>3. NInv /\ (Left \in Nat)' /\ Inside' /\ [Next]_vars => [Descent]_vars
  BY <1>1, <1>2 DEF Descent
<1> QED
  BY <1>1, <1>3, Invariance, InsideCorrect, PTL DEF Spec
=============================================================================
