----------------------------- MODULE LossyLink -----------------------------
(***************************************************************************)
(* Updates of one property over a transport that loses, repeats and        *)
(* reorders them, received by an adapter with the                           *)
(* LiteCommDropperLossyPolicy of RComm/LiteCommDropper.hpp.                 *)
(*                                                                         *)
(* The sender numbers its updates of the property consecutively, as the     *)
(* adapter of RRegistry/test/lossy.cpp does; update n stands for the n-th   *)
(* value, its wire number is a uint16_t.  The transport is implicit: an      *)
(* update arrives any number of times or never, at most MaxLoss of them are *)
(* lost in a row, and none arrives after one sent more than MaxLag later.   *)
(***************************************************************************)
EXTENDS Integers

CONSTANTS
    SeqMod,     \* 2^16: wire numbers are taken modulo this
    Jump,       \* 50: a larger step back is taken for a restarted sender
    Start,      \* wire number of update 0, the last before the first
    AdapterId,  \* m_adapterId of the receiving adapter
    MaxSends,   \* bound: updates sent
    MaxLag,     \* how late a packet may be
    MaxLoss,    \* how many updates may be lost in a row
    Resets      \* whether CTRL_RESET_SEQ_NUMBERS is sent

Half == SeqMod \div 2

ASSUME NumbersAssumption ==
    /\ SeqMod \in Nat /\ SeqMod = 2 * Half /\ Half > 0
    /\ Jump \in Nat
    /\ Start \in 0..(SeqMod - 1)
    /\ AdapterId \in Int
    /\ MaxSends \in Nat
    /\ MaxLag \in Nat
    /\ MaxLoss \in Nat
    /\ Resets \in BOOLEAN

VARIABLES
    newest,  \* highest update that has arrived
    applied, \* the update whose value the receiver's registry holds
    record   \* the policy's EntryRecord for the property

vars == <<newest, applied, record>>

TypeOK ==
    /\ newest \in 0..MaxSends
    /\ applied \in 0..newest
    /\ record \in [seq : 0..(SeqMod - 1), id : 0..(SeqMod - 1)]

Zero == [seq |-> 0, id |-> 0]

Init ==
    /\ newest = 0
    /\ applied = 0
    /\ record = Zero

\* Mutant: the number is kept wider than uint16_t.
WireWide(n) == Start + n

Wire(n) == (Start + n) % SeqMod

\* The value of a uint16_t cast to int16_t.
Signed(x) == IF x < Half THEN x ELSE x - SeqMod

Distance(a, b) ==
    LET d == Signed(a) - Signed(b) IN IF d < 0 THEN -d ELSE d

\* Mutants: only the next number advances a record; the bound is off by one; no
\* step back is ever taken for a restart.
AdvancesByOne(seq) == record.seq = 0 \/ seq = record.seq + 1
JumpsAt(seq)       == Distance(seq, record.seq) >= Jump
JumpsNever(seq)    == FALSE

\* The branches of shouldBeDropped, in their order.
Advances(seq) == seq >= record.seq
Jumps(seq)    == Distance(seq, record.seq) > Jump
OtherSender   == record.id # AdapterId
Drops(seq)    == ~Advances(seq) /\ ~Jumps(seq) /\ ~OtherSender

\* What shouldBeDropped leaves in the record.
Recorded(seq) ==
    CASE Advances(seq) -> [record EXCEPT !.seq = seq]
      [] ~Advances(seq) /\ Jumps(seq) -> [record EXCEPT !.seq = 0]
      [] ~Advances(seq) /\ ~Jumps(seq) /\ OtherSender ->
            [seq |-> seq, id |-> AdapterId % SeqMod]
      [] OTHER -> record

\* The update branch of the receive handler: ask the policy, and unless it
\* says drop give the value to the registry.
Arrive(n) ==
    /\ n + MaxLag >= newest
    /\ n <= newest + 1 + MaxLoss
    /\ newest' = IF n > newest THEN n ELSE newest
    /\ record' = Recorded(Wire(n))
    /\ applied' = IF Drops(Wire(n)) THEN applied ELSE n

\* An update of Bool::CTRL_RESET_SEQ_NUMBERS arrives: every record is cleared
\* and the update itself is dropped.
Reset ==
    /\ Resets
    /\ record # Zero
    /\ record' = Zero
    /\ UNCHANGED <<newest, applied>>

Next ==
    \/ \E n \in 1..MaxSends : Arrive(n)
    \/ Reset

Spec == Init /\ [][Next]_vars

-----------------------------------------------------------------------------
(* Properties.                                                             *)

\* The policy's reason to exist: a late or repeated packet never puts back an
\* older value, except over a record that was cleared on request.
NeverBackwards == [][applied' < applied => record.seq = 0]_vars

\* An update newer than the value held is never thrown away.
FreshAccepted ==
    [][\A n \in 1..MaxSends : Arrive(n) /\ n > applied => applied' = n]_vars

\* The price of the policy is bounded.  Where wire numbers start again from 0,
\* where int16_t changes sign, after a reset and with any adapter id it may
\* drop new updates or take old ones, but the value held is never more than
\* Jump (or MaxLag, if packets can be later than that) updates behind.
StaysRecent == newest - applied <= Jump \/ newest - applied <= MaxLag

\* The test "Delayed packets get ignored." with its comment "unordered packets
\* should be dropped and the order should be correct again"
\* (RRegistry/test/lossy.cpp:125 and 147-148): a packet older than the value
\* held changes nothing.
DelayedIgnored == [][applied' >= applied]_vars
=============================================================================
