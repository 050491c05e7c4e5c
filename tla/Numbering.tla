------------------------------ MODULE Numbering ------------------------------
(***************************************************************************)
(* The continuous numbers of RRegistry/Detail.hpp: all properties, type by  *)
(* type, are numbered from 0, and three functions go from the number to the *)
(* type, to the property and back.  Each is a loop over the table of entry  *)
(* counts, and none tests whether it is still inside that table; this is    *)
(* the loops, step by step, for numbers and properties that exist.          *)
(***************************************************************************)
EXTENDS Integers

CONSTANT
    Tables  \* tables of entry counts; first says at which number each type
            \* begins, and at the end how many properties there are

ASSUME TablesAssumption ==
    \A table \in Tables :
       /\ table.kinds \in Nat
       /\ table.count \in [0..(table.kinds - 1) -> Nat]
       /\ table.first \in [0..table.kinds -> Nat]
       /\ table.first[0] = 0
       /\ \A t \in 0..(table.kinds - 1) : table.first[t + 1] = table.first[t] + table.count[t]
       /\ \A s, t \in 0..table.kinds : s <= t => table.first[s] <= table.first[t]

\* How many properties each type has in RRegistry/Entries.hpp: Int8 to Int64,
\* Uint8 to Uint64, Float, Double, Bool and String.
EntryCounts == <<0, 10, 8, 0, 16, 8, 0, 0, 1, 0, 8, 1>>

VARIABLES
    table,  \* GetEntryCountTypes
    call,   \* the function that was called
    goal,   \* the property asked for, if a number is
    number, \* the number asked for, or the one that is being tried
    stage,  \* which of the first two functions runs, or ran last
    pc,     \* where in it
    rest,   \* its i
    at,     \* its type
    n       \* the n of NormalizeContinousNumber

vars == <<table, call, goal, number, stage, pc, rest, at, n>>

Calls == {"type", "normalize", "number"}

GetEntryCount(type) == table.count[type]

\* GetFullEntryCount.
Total(tab) == tab.first[tab.kinds]

Properties(tab) ==
    {p \in [type : 0..(tab.kinds - 1), property : 0..Total(tab)] : p.property < tab.count[p.type]}

NumberOf(tab, p) == tab.first[p.type] + p.property

TypeOK ==
    /\ table \in Tables
    /\ call \in Calls
    /\ goal \in Properties(table)
    /\ number \in Nat
    /\ stage \in {"type", "normalize"}
    /\ pc \in {"typing", "subtracting", "comparing", "done"}
    /\ rest \in Int
    /\ at \in 0..table.kinds
    /\ n \in 0..at

\* The call: the type of a number, its property, or the number of a property,
\* for which the numbers are tried from 0.
Init ==
    /\ table \in Tables
    /\ call \in Calls
    /\ goal \in Properties(table)
    /\ number \in IF call = "number" THEN {0} ELSE {NumberOf(table, goal)}
    /\ stage = IF call = "type" THEN "type" ELSE "normalize"
    /\ pc = "typing"
    /\ rest = number
    /\ at = 0
    /\ n = 0

-----------------------------------------------------------------------------
(* GetTypeFromContinousNumber.                                             *)

\* Mutant: the type is counted on without the second test.
CountPastType ==
    /\ pc = "typing"
    /\ rest >= 0
    /\ rest' = rest - GetEntryCount(at)
    /\ at' = at + 1
    /\ UNCHANGED <<table, call, goal, number, stage, pc, n>>

\* Mutant: a number at the end of a type is taken for one of that type.
CountTypeLate ==
    /\ pc = "typing"
    /\ rest >= 0
    /\ rest' = rest - GetEntryCount(at)
    /\ at' = IF rest' > 0 THEN at + 1 ELSE at
    /\ UNCHANGED <<table, call, goal, number, stage, pc, n>>

\* One turn of the loop.
CountType ==
    /\ pc = "typing"
    /\ rest >= 0
    /\ rest' = rest - GetEntryCount(at)
    /\ at' = IF rest' >= 0 THEN at + 1 ELSE at
    /\ UNCHANGED <<table, call, goal, number, stage, pc, n>>

\* It returns, to NormalizeContinousNumber or to who asked for the type.
TypeFound ==
    /\ pc = "typing"
    /\ rest < 0
    /\ IF stage = "normalize"
       THEN pc' = "subtracting" /\ rest' = number /\ n' = 0
       ELSE pc' = (IF call = "number" THEN "comparing" ELSE "done") /\ UNCHANGED <<rest, n>>
    /\ UNCHANGED <<table, call, goal, number, stage, at>>

-----------------------------------------------------------------------------
(* NormalizeContinousNumber.                                               *)

SubtractType ==
    /\ pc = "subtracting"
    /\ n < at
    /\ rest' = rest - GetEntryCount(n)
    /\ n' = n + 1
    /\ UNCHANGED <<table, call, goal, number, stage, pc, at>>

PropertyFound ==
    /\ pc = "subtracting"
    /\ n = at
    /\ pc' = IF call = "number" THEN "comparing" ELSE "done"
    /\ UNCHANGED <<table, call, goal, number, stage, rest, at, n>>

-----------------------------------------------------------------------------
(* GetContinuousNumberFromPropertyType.                                    *)

\* Mutant: the loop of the second function goes on where it ended before.
BeginKeeping(function, i) ==
    /\ number' = i
    /\ stage' = function
    /\ pc' = "typing"
    /\ rest' = i
    /\ at' = 0
    /\ UNCHANGED <<table, call, goal, n>>

\* A function is called for the number i.
Begin(function, i) ==
    /\ number' = i
    /\ stage' = function
    /\ pc' = "typing"
    /\ rest' = i
    /\ at' = 0
    /\ n' = 0
    /\ UNCHANGED <<table, call, goal>>

Matches == IF stage = "normalize" THEN rest = goal.property ELSE at = goal.type

\* Mutant: the same number is tried again.
DiffersStaying ==
    /\ pc = "comparing"
    /\ ~Matches
    /\ Begin("normalize", number)

Differs ==
    /\ pc = "comparing"
    /\ ~Matches
    /\ Begin("normalize", number + 1)

PropertyMatches ==
    /\ pc = "comparing"
    /\ stage = "normalize" /\ Matches
    /\ Begin("type", number)

TypeMatches ==
    /\ pc = "comparing"
    /\ stage = "type" /\ Matches
    /\ pc' = "done"
    /\ UNCHANGED <<table, call, goal, number, stage, rest, at, n>>

Next ==
    \/ CountType
    \/ TypeFound
    \/ SubtractType
    \/ PropertyFound
    \/ Differs
    \/ PropertyMatches
    \/ TypeMatches

Spec == Init /\ [][Next]_vars

\* A call runs until it returns.
FairSpec == Spec /\ WF_vars(Next)

-----------------------------------------------------------------------------
(* Properties.                                                             *)

\* No loop reads behind the end of the table of entry counts, and no call of
\* the third function tries a number that does not exist, although none of
\* them has a test for it: for what exists, the loops end before.
Inside ==
    /\ pc = "typing" /\ rest >= 0 => at < table.kinds
    /\ number < Total(table)

\* The three functions fit: the type and the property of a number are those
\* of the property that has the number, also across types without properties.
RightAnswer ==
    pc = "done" =>
       CASE call = "type"      -> at = goal.type
         [] call = "normalize" -> rest = goal.property
         [] call = "number"    -> number = NumberOf(table, goal)

\* Every call returns.
Returns == <>(pc = "done")
=============================================================================
