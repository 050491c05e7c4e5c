------------------------------ MODULE Sublists ------------------------------
(* The elements of a sequence at some of its positions, in their order.     *)
EXTENDS Naturals, Sequences, FiniteSets

\* The elements up to i of a set P of numbers, and its k-th one.
UpTo(P, i) == {j \in P : j <= i}
Nth(P, k)  == CHOOSE i \in P : Cardinality(UpTo(P, i)) = k

Sublist(s, P) == [k \in 1..Cardinality(P) |-> s[Nth(P, k)]]
=============================================================================
