--------------------------- MODULE RegistryCalls ---------------------------
(***************************************************************************)
(* One property of one Registry (RRegistry/Registry.hpp) and the calls that *)
(* are inside one another on its thread: a received message is a set, set   *)
(* walks the adapters and then the receivers, and what they call may set    *)
(* again.  stack holds the calls that have begun, the innermost last, each  *)
(* with the place it has got to.  RegistrySync has many registries, whose   *)
(* calls are single steps there.                                           *)
(*                                                                         *)
(* Code of the application runs in three places: in send of an adapter     *)
(* (ConsoleAdapter calls its write callbacks there), in onUpdate of a       *)
(* receiver and in the message callback of an adapter.  The application    *)
(* does not register or remove at a vector that some call is walking, which *)
(* would be undefined behaviour, but it may let go of an adapter at any     *)
(* time; and set itself erases expired adapters.  It does not call          *)
(* setAcceptProperty; RegistrySync has that.                               *)
(***************************************************************************)
EXTENDS Naturals, Sequences, Sublists

CONSTANTS
    Adapters, Receivers,
    Expired,    \* a weak pointer that refers to nothing
    Values, Default,
    MaxAdapters, MaxReceivers, \* bounds: length of each vector
    MaxDepth    \* bound: calls inside one another

ASSUME CallsAssumption ==
    /\ Expired \notin Adapters /\ Adapters \cap Receivers = {}
    /\ Default \in Values
    /\ {MaxAdapters, MaxReceivers, MaxDepth} \subseteq Nat

VARIABLES
    value,      \* the entry in the registry's array
    adapters,   \* m_adapters
    receivers,  \* m_receivers
    alive,      \* adapters that some shared pointer still owns
    accept,     \* accept[a]: m_acceptProperty
    subscribed, \* subscribed[a]: m_subscriptions of the property
    stack,      \* the calls that have begun
    registered, \* history: what the program has registered and not removed
    missed,     \* history: of these, what it registered or what was subscribed
                \* after the last change, and the adapters whose send of it failed
    known,      \* history: known[a]: the value last sent to or received from a's peer
    seen,       \* history: seen[r]: the value r read in its last onUpdate
    change,     \* history: the circumstances of the last change
    orphaned    \* history: an adapter was destroyed behind a set that is still
                \* walking on

vectors   == <<adapters, receivers, alive>>
flags     == <<accept, subscribed>>
histories == <<registered, missed, known, seen, change, orphaned>>
vars      == <<value, vectors, flags, stack, histories>>

SetCall(v)            == [place |-> "adapters", val |-> v, at |-> 1, lock |-> Expired, end |-> 0]
HandlerCall(place, a) == [place |-> place, adapter |-> a]

SetCalls     == [place : {"adapters", "sending", "receivers", "updating"},
                 val : Values, at : Nat \ {0}, lock : Adapters \cup {Expired},
                 end : 0..MaxReceivers]
HandlerCalls == [place : {"spreading", "answering", "callback"}, adapter : Adapters]

Walking == {"adapters", "sending"}
Telling == {"receivers", "updating"}

TypeOK ==
    /\ value \in Values
    /\ adapters \in Seq(Adapters \cup {Expired}) /\ Len(adapters) <= MaxAdapters
    /\ receivers \in Seq(Receivers) /\ Len(receivers) <= MaxReceivers
    /\ alive \subseteq Adapters
    /\ accept \in [Adapters -> BOOLEAN]
    /\ subscribed \in [Adapters -> BOOLEAN]
    /\ stack \in Seq(SetCalls \cup HandlerCalls)
    /\ \A i \in DOMAIN stack : stack[i].place \in Telling =>
          stack[i].end = Len(receivers) /\ stack[i].at <= stack[i].end + 1
    /\ registered \subseteq Adapters \cup Receivers
    /\ missed \subseteq registered
    /\ known \in [Adapters -> Values]
    /\ seen \in [Receivers -> Values]
    /\ change \in [refusing : SUBSET Adapters, overtaking : BOOLEAN]
    /\ orphaned \in BOOLEAN

Init ==
    /\ value = Default
    /\ adapters = <<>> /\ receivers = <<>>
    /\ alive = Adapters
    /\ accept = [a \in Adapters |-> TRUE]
    /\ subscribed \in [Adapters -> BOOLEAN]
    /\ stack = <<>>
    /\ registered = {} /\ missed = {}
    /\ known = [a \in Adapters |-> Default]
    /\ seen = [r \in Receivers |-> Default]
    /\ change = [refusing |-> {}, overtaking |-> FALSE]
    /\ orphaned = FALSE

-----------------------------------------------------------------------------
(* The stack.                                                              *)

Top == stack[Len(stack)]

\* The innermost call goes on to another place.
Moved(f) == [stack EXCEPT ![Len(stack)] = f]

\* The innermost call returns.
Return ==
    /\ stack' = SubSeq(stack, 1, Len(stack) - 1)
    /\ orphaned' = (orphaned /\ Len(stack) > 1)
    /\ UNCHANGED <<value, vectors, flags, registered, missed, known, seen, change>>

At(place) == stack # <<>> /\ Top.place = place

\* The application's code has control.
InProgram == stack # <<>> => Top.place \in {"sending", "updating", "answering", "callback"}

Unused(places) == \A i \in DOMAIN stack : stack[i].place \notin places

\* The adapters whose handlers are spreading what they received.
Spreading == {stack[i].adapter : i \in {j \in DOMAIN stack : stack[j].place = "spreading"}}

-----------------------------------------------------------------------------
(* Calls of the application.                                               *)

\* The call of set with the calls it is made from, once the new value has been
\* found to differ.
BeginSet(v, calls, spreading) ==
    /\ value' = v
    /\ stack' = Append(calls, SetCall(v))
    /\ missed' = {}
    /\ change' = [refusing |-> spreading, overtaking |-> ~Unused(Walking)]

\* Registry::set.  The value that is there already is an early return and no
\* step.
Set(v) ==
    /\ InProgram
    /\ Len(stack) < MaxDepth
    /\ v # value
    /\ BeginSet(v, stack, Spreading)
    /\ UNCHANGED <<vectors, flags, registered, known, seen, orphaned>>

\* An update arrives: the adapter refuses it while it is set.
Handle(a, v) ==
    /\ stack = <<>>
    /\ a \in alive
    /\ known' = [known EXCEPT ![a] = v]
    /\ accept' = [accept EXCEPT ![a] = FALSE]
    /\ IF v = value
       THEN /\ stack' = <<HandlerCall("spreading", a)>>
            /\ UNCHANGED <<value, missed, change>>
       ELSE BeginSet(v, <<HandlerCall("spreading", a)>>, {a})
    /\ UNCHANGED <<vectors, subscribed, registered, seen, orphaned>>

\* LiteCommAdapter::set sends unless the value is just arriving at the adapter
\* or the adapter is not subscribed.
Sends(a) == accept[a] /\ subscribed[a]

\* A request arrives and is answered by set.  The send may fail, which the
\* handler does not see.
HandleRequest(a) ==
    /\ stack = <<>>
    /\ a \in alive
    /\ IF Sends(a)
       THEN /\ stack' = <<HandlerCall("answering", a)>>
            /\ known' \in {known, [known EXCEPT ![a] = value]}
       ELSE /\ stack' = <<HandlerCall("callback", a)>>
            /\ UNCHANGED known
    /\ UNCHANGED <<value, vectors, flags, registered, missed, seen, change, orphaned>>

Subscribed(a, b) ==
    /\ subscribed' = [subscribed EXCEPT ![a] = b]
    /\ missed' = IF b /\ ~subscribed[a] THEN missed \cup ({a} \cap registered) ELSE missed
    /\ UNCHANGED <<value, vectors, accept, registered, known, seen, change, orphaned>>

\* The peer subscribes or unsubscribes.
HandleSubscription(a, b) ==
    /\ stack = <<>>
    /\ a \in alive
    /\ stack' = <<HandlerCall("callback", a)>>
    /\ Subscribed(a, b)

SetSubscribed(a, b) ==
    /\ InProgram
    /\ a \in alive
    /\ Subscribed(a, b)
    /\ UNCHANGED stack

RegisterAdapter(a) ==
    /\ InProgram /\ Unused(Walking)
    /\ a \in alive \ registered
    /\ Len(adapters) < MaxAdapters
    /\ adapters' = Append(adapters, a)
    /\ registered' = registered \cup {a}
    /\ missed' = missed \cup {a}
    /\ UNCHANGED <<value, receivers, alive, flags, stack, known, seen, change, orphaned>>

\* std::remove and std::remove_if of x without the erase that belongs to it:
\* the other elements move to the front and the length stays.  Behind them is
\* what is left there of the elements that were: left, for each place.
RemovedIf(s, x, left) ==
    LET kept == Sublist(s, {i \in DOMAIN s : s[i] # x})
    IN  [i \in DOMAIN s |-> IF i <= Len(kept) THEN kept[i] ELSE left[i]]

\* A weak pointer that is moved from is empty.
RemoveAdapter(a) ==
    LET left == [i \in DOMAIN adapters |-> IF adapters[i] = a THEN a ELSE Expired] IN
    /\ InProgram /\ Unused(Walking)
    /\ a \in alive \cap registered
    /\ adapters' = RemovedIf(adapters, a, left)
    /\ registered' = registered \ {a}
    /\ missed' = missed \ {a}
    /\ UNCHANGED <<value, receivers, alive, flags, stack, known, seen, change, orphaned>>

\* Some set is past the place of a.
Passed(a) == \E i \in DOMAIN stack, k \in DOMAIN adapters :
                stack[i].place \in Walking /\ adapters[k] = a /\ k < stack[i].at

\* The last shared pointer to an adapter goes; a call on the stack that is in
\* its send or in its handler still has one.  The destructor calls
\* removeAdapter, which cannot lock the weak pointer any more.
Destroy(a) ==
    /\ InProgram
    /\ a \in alive
    /\ \A i \in DOMAIN stack :
          /\ stack[i].place = "sending" => stack[i].lock # a
          /\ stack[i].place \in {"spreading", "answering", "callback"} => stack[i].adapter # a
    /\ alive' = alive \ {a}
    /\ registered' = registered \ {a}
    /\ missed' = missed \ {a}
    /\ orphaned' = (orphaned \/ Passed(a))
    /\ UNCHANGED <<value, adapters, receivers, flags, stack, known, seen, change>>

AddReceiver(r) ==
    /\ InProgram /\ Unused(Telling)
    /\ r \notin registered
    /\ Len(receivers) < MaxReceivers
    /\ receivers' = Append(receivers, r)
    /\ registered' = registered \cup {r}
    /\ missed' = missed \cup {r}
    /\ UNCHANGED <<value, adapters, alive, flags, stack, known, seen, change, orphaned>>

\* A raw pointer that is moved from is still there.
RemoveReceiver(r) ==
    /\ InProgram /\ Unused(Telling)
    /\ r \in registered
    /\ receivers' = RemovedIf(receivers, r, receivers)
    /\ registered' = registered \ {r}
    /\ missed' = missed \ {r}
    /\ UNCHANGED <<value, adapters, alive, flags, stack, known, seen, change, orphaned>>

-----------------------------------------------------------------------------
(* Registry::set walks the adapters ...                                    *)

Current == adapters[Top.at]

AtAdapter == At("adapters") /\ Top.at <= Len(adapters)

\* The next adapter is asked to set.  Registry::set does not look at whether its
\* send failed.
Offer ==
    /\ AtAdapter
    /\ Current \in alive
    /\ IF Sends(Current)
       THEN /\ stack' = Moved([Top EXCEPT !.place = "sending", !.lock = Current])
            /\ \/ known' = [known EXCEPT ![Current] = Top.val] /\ UNCHANGED missed
               \/ missed' = missed \cup ({Current} \cap registered) /\ UNCHANGED known
       ELSE /\ stack' = Moved([Top EXCEPT !.at = @ + 1])
            /\ UNCHANGED <<known, missed>>
    /\ UNCHANGED <<value, vectors, flags, registered, seen, change, orphaned>>

SendReturns ==
    /\ At("sending")
    /\ stack' = Moved([Top EXCEPT !.place = "adapters", !.lock = Expired, !.at = @ + 1])
    /\ UNCHANGED <<value, vectors, flags, histories>>

Erased(s, i) == SubSeq(s, 1, i - 1) \o SubSeq(s, i + 1, Len(s))

\* Mutant: the iterator is advanced past the element behind the erased one.
EraseSkipping ==
    /\ AtAdapter
    /\ Current \notin alive
    /\ adapters' = Erased(adapters, Top.at)
    /\ stack' = Moved([Top EXCEPT !.at = @ + 1])
    /\ UNCHANGED <<value, receivers, alive, flags, histories>>

\* A set further out that is past the erased one keeps its iterator, which then
\* points to one adapter further on.
Erase ==
    /\ AtAdapter
    /\ Current \notin alive
    /\ adapters' = Erased(adapters, Top.at)
    /\ UNCHANGED <<value, receivers, alive, flags, stack, histories>>

\* Mutant: the end is one too far.
BeginReceiversBeyond ==
    /\ At("adapters") /\ Top.at = Len(adapters) + 1
    /\ stack' = Moved([Top EXCEPT !.place = "receivers", !.at = 1, !.end = Len(receivers) + 1])
    /\ UNCHANGED <<value, vectors, flags, histories>>

\* ... and then the receivers, to an end that is taken before the first.  An
\* iterator that is past the end of the adapters does not get here.
BeginReceivers ==
    /\ At("adapters") /\ Top.at = Len(adapters) + 1
    /\ stack' = Moved([Top EXCEPT !.place = "receivers", !.at = 1, !.end = Len(receivers)])
    /\ UNCHANGED <<value, vectors, flags, histories>>

\* Mutant: only the outermost set tells the receivers.
OnUpdateOutermost ==
    /\ At("receivers") /\ Top.at <= Top.end
    /\ stack' = Moved([Top EXCEPT !.place = "updating"])
    /\ seen' = IF Len(stack) > 1 THEN seen ELSE [seen EXCEPT ![receivers[Top.at]] = value]
    /\ UNCHANGED <<value, vectors, flags, registered, missed, known, change, orphaned>>

\* A receiver is told the property and gets the value from the registry.
OnUpdate ==
    /\ At("receivers") /\ Top.at <= Top.end
    /\ stack' = Moved([Top EXCEPT !.place = "updating"])
    /\ seen' = [seen EXCEPT ![receivers[Top.at]] = value]
    /\ UNCHANGED <<value, vectors, flags, registered, missed, known, change, orphaned>>

OnUpdateReturns ==
    /\ At("updating")
    /\ stack' = Moved([Top EXCEPT !.place = "receivers", !.at = @ + 1])
    /\ UNCHANGED <<value, vectors, flags, histories>>

SetReturns ==
    /\ At("receivers") /\ Top.at > Top.end
    /\ Return

\* Mutant: the adapter accepts again after the callback.
BeginCallbackRefusing ==
    /\ At("spreading")
    /\ stack' = Moved([Top EXCEPT !.place = "callback"])
    /\ UNCHANGED <<value, vectors, flags, histories>>

\* The handler accepts again before it calls the message callback.
BeginCallback ==
    /\ At("spreading")
    /\ accept' = [accept EXCEPT ![Top.adapter] = TRUE]
    /\ stack' = Moved([Top EXCEPT !.place = "callback"])
    /\ UNCHANGED <<value, vectors, subscribed, histories>>

AnswerReturns ==
    /\ At("answering")
    /\ stack' = Moved([Top EXCEPT !.place = "callback"])
    /\ UNCHANGED <<value, vectors, flags, histories>>

HandleReturns ==
    /\ At("callback")
    /\ Return

Next ==
    \/ \E v \in Values : Set(v)
    \/ \E a \in Adapters, v \in Values : Handle(a, v)
    \/ \E a \in Adapters : HandleRequest(a)
    \/ \E a \in Adapters, b \in BOOLEAN : HandleSubscription(a, b)
    \/ \E a \in Adapters, b \in BOOLEAN : SetSubscribed(a, b)
    \/ \E a \in Adapters : RegisterAdapter(a)
    \/ \E a \in Adapters : RemoveAdapter(a)
    \/ \E a \in Adapters : Destroy(a)
    \/ \E r \in Receivers : AddReceiver(r)
    \/ \E r \in Receivers : RemoveReceiver(r)
    \/ Offer
    \/ SendReturns
    \/ Erase
    \/ BeginReceivers
    \/ OnUpdate
    \/ OnUpdateReturns
    \/ SetReturns
    \/ BeginCallback
    \/ AnswerReturns
    \/ HandleReturns

Spec == Init /\ [][Next]_vars

-----------------------------------------------------------------------------
(* Properties.                                                             *)

AtRest == stack = <<>>

\* When all calls have returned, the peer of every adapter that was registered
\* and subscribed at the last change, and still is, has the registry's value,
\* with three exceptions: the send of the change failed; the change was made
\* while the adapter was spreading what it received, so that it refused it; or
\* the change was made inside the send of another, which then went on to the
\* other adapters.  Neither calls inside calls, nor adapters that expire, are
\* removed or unsubscribe next to it, make an adapter miss a change.
PeersCurrent ==
    AtRest /\ ~change.overtaking =>
       \A a \in ((Adapters \cap registered) \ missed) \ change.refusing :
          subscribed[a] => known[a] = value

\* When all calls have returned every registered receiver has seen the
\* registry's value, however the sets were inside one another.
ReceiversCurrent ==
    AtRest => \A r \in (Receivers \cap registered) \ missed : seen[r] = value

\* The walk over the adapters leaves the vector only if an adapter it had passed
\* was destroyed before it was done (whatever was erased under it then shifted
\* the rest): expired adapters that it meets, and sets inside it that meet them
\* first, do it no harm.
NoOverrun == At("adapters") /\ Top.at > Len(adapters) + 1 => orphaned
=============================================================================
