------------------------------- MODULE Mirror -------------------------------
(***************************************************************************)
(* What a connection between two registries promises for one property: the *)
(* far copy takes, in their order and without a gap, the values the near   *)
(* copy has had, and now and then one that is repeated on request.         *)
(***************************************************************************)
EXTENDS Sequences

CONSTANTS Values, First

VARIABLES
    src,      \* the near copy
    underway, \* values on their way, oldest first
    dst       \* the far copy

vars == <<src, underway, dst>>

Init ==
    /\ src = First
    /\ underway = <<>>
    /\ dst = First

Change(v) ==
    /\ v # src
    /\ src' = v
    /\ underway' = Append(underway, v)
    /\ UNCHANGED dst

Repeat ==
    /\ underway' = Append(underway, src)
    /\ UNCHANGED <<src, dst>>

Take ==
    /\ underway # <<>>
    /\ dst' = Head(underway)
    /\ underway' = Tail(underway)
    /\ UNCHANGED src

Next ==
    \/ \E v \in Values : Change(v)
    \/ Repeat
    \/ Take

Spec == Init /\ [][Next]_vars
=============================================================================
