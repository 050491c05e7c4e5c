---------------------------- MODULE MCNumbering ----------------------------
(***************************************************************************)
(* The tables for TLC: every small one, and that of RRegistry/Entries.hpp. *)
(***************************************************************************)
EXTENDS Numbering, Sequences

CONSTANTS
    MaxKinds, \* bound: types in a small table
    MaxCount  \* bound: properties of a type in a small table

\* The table with these counts: where a type begins is the sum of what is
\* before it.
TableOf(counts) ==
    LET kinds == Len(counts)
        first[t \in 0..kinds] == IF t = 0 THEN 0 ELSE first[t - 1] + counts[t]
    IN  [kinds |-> kinds, count |-> [t \in 0..(kinds - 1) |-> counts[t + 1]], first |-> first]

SmallTables == UNION {{TableOf(counts) : counts \in [1..k -> 0..MaxCount]} : k \in 1..MaxKinds}

MCTables == SmallTables \cup {TableOf(EntryCounts)}
=============================================================================
