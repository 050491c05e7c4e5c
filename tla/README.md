# RBase in TLA+

RBase is the C++ library with which the parts of a robot share a *registry* of
typed properties: each program holds a copy, and adapters carry changes, requests and
subscriptions between the copies. These modules model that code, TLC checks them on
small instances, and TLAPS proves the most important results for all instances.
Paths below are relative to the repository.

## The system

| Component | State | Operations | Talks to |
|---|---|---|---|
| `Registry` (RRegistry/Registry.hpp) | one array per type, vectors of adapters (weak pointers) and receivers, the persistency policy | `set`, `get`, register/remove adapters and receivers, enable/disable persistency | calls `set` of every adapter, `onUpdate` of every receiver |
| `LiteCommAdapter` (RComm) | what the peer subscribed, what we subscribed at the peer, `m_acceptProperty`, dropper policy, transmit buffer | `set`, `request`, `subscribe`, `unsubscribe`, their by-type forms, `setSubscribed`, `setAcceptProperty`; the handler of received messages | registry (a received value is an ordinary `set`), transport (`send` of the subclass), persistency policy |
| `LiteCommDropper` (RComm) | last sequence number and sender of each property | `shouldBeDropped` | asked by the handler before an update is applied |
| `DBPersistencyPolicy` (RRegistry) | record queue, `m_running`, `m_stop`, trigger counter, worker thread | `enable`, `disable`, `push`, destructor; the worker's `run` | SQLite; called by registry and adapter |
| `RSupport` (C interface) | handle: registry, one adapter, options, frame times | create/free, connect/disconnect, `service`, options, get/set | socket or console adapter |
| `SocketClientAdapter` | a descriptor, a 100 byte read buffer | connect, disconnect, send, service | Unix stream socket, RCore |
| `ConsoleAdapter` | mode, callbacks, read counter | send, read, parse lines of base64 | standard input and output, RCore |
| Property tables (Entries, TypeConverter, Detail) | constants | names, types, numbering | everything |
| RCore (framing, transmit buffer) | - | - | a submodule that is not part of this tree |
| Logging, SWIG bindings, build files | - | - | not behaviour of the registry |

**What is hard here.** Everything in a registry happens inside somebody else's
call: a received update is a `set`, which sends on all other adapters, which may
run application code. Three mechanisms keep this from looping or losing values -
the equality test of `Registry::set`, the subscription tables and the flag
`m_acceptProperty` - and each of them silently *discards* something. Messages of
three kinds cross each other on every connection. Over lossy transports
sequence numbers decide what is stale, in 16 bits. The persistency policy runs a
worker thread against the program's thread with two plain flags, one mutex and a
condition variable that is waited on without a predicate. The list of hazards
with their lines is in `PROJECT.json`.

What makes the components correct:

* registries and adapters: a copy is never further from its source than what is
  under way; a value never travels back to its owner; both ends agree on what is
  subscribed; a change that is kept reaches everyone;
* dropper: no old value is put back, no new one thrown away;
* persistency: every record is written once, in order, into the right file, and
  turning it off works and ends;
* client: what is written reaches the peer and nobody else, movement values are
  there before the burst that refers to them, and are forwarded.

## Modules

### Registries and adapters

`RegistrySync.tla` models `Registry` together with `LiteCommAdapter`. Nodes are
registries, `<<n, m>>` is the adapter of node `n` that faces node `m`.

| TLA+ | Code |
|---|---|
| `value[n][p]` | entry of `p` in the arrays of registry `n` |
| `subscribed[e][p]`, `subscribedTo[e][p]` | `m_subscriptions`, `m_subscriptionsRemote` of adapter `e` |
| `accept[e]` | `m_acceptProperty` |
| `channel[e]` | messages sent by `e`, not yet handled by the peer |
| `Set` | `Registry::set` of the program |
| `RegistrySet`, `Broadcast`, `Open` | `Registry::set`, its loop over the adapters, the two early returns of `LiteCommAdapter::set` |
| `Subscribe`, `Unsubscribe`, `Request`, `SetSubscribed`, `SetAcceptProperty` | the calls of those names |
| `HandleUpdate` ... `HandleUnknown` | the cases of the receive handler, the last one its bounds check |

A handler runs to its end in the thread that calls it and is one action,
everything it sends included. The transport delivers in order: it is a pure
virtual function in the library, and stream sockets are what the repository
comes with. Receivers and message callbacks are assumed to do nothing
to the registry here; what they may do is the subject of `RegistryCalls`. Strings are left out:
sending one is an assertion that fails (Registry.hpp:267).
`remoteUnsubscribeFromAll` has no action because its loops assign to copies.
A programmer's `set` with the value already there is a step that changes nothing
and is left out for that reason.

`RegistryTree.tla` adds what the properties need: a tree of nodes and for every
property the direction of its source. `Mirror.tla` is the abstract specification
of one connection for one property: a queue that replays the near copy's values.
`Sublists.tla` has the one operation on sequences that the project needs beyond the
standard ones: the elements at some positions. `MCRegistryTree.tla` is the instance: robot - host - display, with `Pose` set by
the robot and `Target` set by the display.

`RegistryCalls.tla` looks inside one registry: one property, the calls that have
begun on its thread, and what the application may do in each place where its code
runs - in `send` (which calls the write callbacks of a `ConsoleAdapter`), in
`onUpdate` of a receiver, in a message callback.

| TLA+ | Code |
|---|---|
| `stack` | the calls that have begun: `set` with its iterator, the receive handler |
| `adapters`, `receivers` | the two vectors, with weak pointers that have expired and with what `remove` and `remove_if` leave behind |
| `alive`, `Destroy` | an adapter that is still owned; its destructor |
| `accept`, `subscribed` | `m_acceptProperty`, `m_subscriptions`, which the constructor sets to either value |
| `Sends` | the two early returns of `LiteCommAdapter::set` |
| `Set`, `Handle` | `Registry::set` of the application; an update that arrives |
| `HandleRequest`, `AnswerReturns` | a request that arrives, answered by `set` on its adapter |
| `HandleSubscription`, `SetSubscribed` | a subscription message that arrives; the call |
| `Offer`, `SendReturns`, `Erase` | a turn of the loop over the adapters: sending, or erasing one that has expired |
| `BeginReceivers`, `OnUpdate`, `OnUpdateReturns` | the loop over the receivers |
| `BeginCallback`, `HandleReturns` | the rest of the handler with its message callback |

The application does not register or remove at a vector that is being walked,
which C++ leaves undefined. Expired adapters are erased by `set` itself, though, so that
an inner `set` may shift the vector under an outer one. It does not call
`setAcceptProperty` here; `RegistrySync` has that. `change`, `missed` and `orphaned` are
histories that name the circumstances which the properties except: a value that
is refused by an adapter which is just spreading another, one that is set inside the `send` of
an older one and so overtaken by it at the later adapters; an adapter whose `send` failed
(`Registry::set` does not look at the result), or that was registered or subscribed only
after the change; and an adapter that is destroyed behind an iterator.

### The lossy policy

`LossyLink.tla` models one property received under `LiteCommDropperLossyPolicy`:
`record` is its `EntryRecord`, `Recorded` and `Drops` are the branches of
`shouldBeDropped`, with `uint16_t` and `int16_t` arithmetic; `Arrive` is the
update case of the handler. The sender numbers the updates consecutively (as the
adapter of test/lossy.cpp does; with real senders this is RCore's job), and the
transport is implicit in what may arrive: anything not older than `MaxLag`
updates and not further ahead than `MaxLoss` losses allow, any number of times.

### The persistency policy

`DBPersistency.tla` has the program's thread (`caller`) and the worker's (`worker`) as two
program counters whose places are the points between accesses to shared state: `stop` is
three steps (set the flag, notify, join), the worker's loop is three (test, begin to wait,
write the queue in one transaction). Starting a thread over one that was not joined,
joining none and destroying an unjoined one end the process: place `crashed`. `m_running`
and `m_stop` are plain booleans used by both threads; reads and writes of them are single
steps, which is what compilers make of a `bool` around calls they cannot see through.
The queue is a member: `Left` empties it when the
destructor is done or the process has ended. `accepted`, `wanted` and `parked` are history variables. What SQLite does is external:
opening may fail (`OpenMayFail`), statements are assumed to work.

`Capture.tla` puts the registry in front of it: a received message is pushed with the
value the entry has after the message callback (LiteCommAdapter.hpp:160), what
the program sets itself is not. Its history `tame` says whether the policy has been
handled so far in the way that works - `enable`, `disable` and the destructor only
while the worker waits or there is none, no file that failed to open, no wait that ended
by itself. So one instance shows what holds for every program, and what for
careful ones.

### The handle and its adapters

`RSupportClient.tla` models a program that uses the C interface over a socket:
the calls of `RSupport.cpp` that change state, and below them the
`SocketClientAdapter`. `service` is two steps, since it waits between sending
the burst and reading. `Console.tla` is the same with `RSUPPORT_CONSOLE_ONLY`, and
`RSupportHandle.tla` the handle that has one or the other.

| TLA+ | Code |
|---|---|
| `move`, `burst` | a movement value and `BRST_RBREAKOUT_MOVEMENT` in the client's registry |
| `autoBurst` | `RSupportOption_AutoMovementBurst` |
| `fd`, `files` | `m_fd`, and the kernel's table of descriptors: standard input, other files, sockets |
| `toHost[c]`, `clears[c]` | the stream of connection `c` in both directions |
| `hostMove`, `forwarded` | external: the host's copy, and the movement it forwarded last |
| `link`, `clean` | histories: what the calls told the program; that nothing was lost on the connection |

The kernel gives out the lowest free number. A message on the stream is whole;
the socket takes `Capacity` of them. A write to a closed peer ends the program,
a read of standard input blocks. The client's two values stand for the
registry, whose own behaviour is in `RegistrySync`; the equality test of `set`
is the guard of `SetMove` and the condition in `Service`. The waiting time of
`service` is not modelled.

| `Console` | Code |
|---|---|
| `output`, `input` | lines of base64 on standard output and input |
| `readTimeout` | `m_readTimeout`: the first ten calls of `read` only count |
| `hadUpdate` | `m_hadUpdate`, which ends the loop of `service` |
| `LineLength`, `Decoded`, `CalculateCorrectDataLength` | padding, decoding and the correction of the length |
| `Service`, `Read`, `Line`, `EndOfInput` | `service` up to its loop; a turn of the loop that only counts, reads a line, or finds the input at its end |
| `PeerHandle`, `PeerWrites`, `PeerCloses` | external: who is at the other end |

The console paces the program: `service` reads lines until one has brought an update.
Whether a line does is a matter of its length. A message is one byte and blocks of eight;
base64 makes it a number of characters, the transmit callback pads with one or two
characters more than base64 asks for (and, once the count was used up on standard output,
with none for the callbacks in mode MIXED), `parseBase64` turns padding into zeros, and
the correction rounds down to `8k + 1`. `Understood` follows these steps.
RSupport.cpp:54-56 says that "each frame reads a single line"; a frame reads until an
update, and reads nothing without AutoFrequency.

### Numbers of properties

`Numbering.tla` models the loops of Detail.hpp:606-647 that number all
properties of all types, step by step, over any table of entry counts: none of them
tests for the end of the table, so that the question is whether the counts alone
keep them inside. `MCNumbering.tla` has the tables: every small one and that of
Entries.hpp, `EntryCounts`.

## Runs

Passing runs:

| Run | Question | Instance |
|---|---|---|
| `tree_programs` | Do both ends agree while subscriptions, requests and hand-made changes interleave with updates? | 3 nodes in a row, 1 property with 3 values, host and display both subscribe, unsubscribe and request, the host uses `setSubscribed` and `setAcceptProperty`; about 400 000 states |
| `tree_forward` | Does forwarding lose, reorder, echo or hold back anything? | same row, 2 properties in opposite directions with 3 values, all adapters subscribed, robot compiled without `Target`; fair |
| `lossy_window` | Is the policy exact away from the boundaries of its numbers? | real widths (2^16, threshold 50), 60 updates up to number 32767, packets up to 50 late, 30 lost in a row, resets |
| `lossy_cycle` | What do the boundaries cost? | 64 numbers, threshold 5, 150 updates, packets up to 6 late, 20 lost in a row, adapter id 7, resets |
| `capture` | Are records safe from any program, are they those of the registry, and is there a way to use the policy that works? | trigger 1, 4 pushes of 2 values, 3 sessions, failing opens, spurious wake-ups; fair |
| `calls` | Who is told what when calls are inside one another and adapters go away meanwhile? | 2 adapters and a receiver that may register again, vectors of at most 2, 3 calls inside one another, 2 values, any subscriptions at the start, sends that fail; about 5 million states |
| `numbering` | Do the numbering loops stay inside the table, end, and fit together? | every table of up to 4 types with up to 3 properties each, and the one of Entries.hpp; every property of each |
| `handle` | Do values and bursts reach the one they are meant for, over a socket and over the console? | 2 movement values; 2 connections, 3 descriptor numbers, 2 messages per socket, the host clears the flag and may close, the program opens other files; messages of 1 to 3 blocks, 2 lines, a peer that writes other lines and may close; fair; about a million states |

Runs that show a disagreement with the documentation or a test:

| Run | What it shows |
|---|---|
| `tree_request` | a request over an adapter that does not send the property gets no answer |
| `lossy_half` | update 4, number 32768, is replaced by update 3, number 32767, which comes one late |
| `client_zero` | `disconnect` without a connection closes standard input; the next connection gets number 0, which stands for none, and is never written to |
| `db_stuck` | `disable` never returns if its notification comes before the worker's wait |

Further disagreements are known from the same models and have no run of their own: an
adapter id other than 0 lets the first late packet of every property through, because a
record's id starts as 0 (`AdapterId = 1` in `lossy_window` violates `NeverBackwards`);
`disable` right after `enable` does nothing, because `m_running` is set by the worker
(DBPersistencyPolicy.cpp:216); after a file that could not be opened `m_running` stays
true, so that `enable` does nothing (228); and a record taken by `push` before the worker
waits is not in the database after `disable`, but goes into the file of the next capture, or
is lost with the destructor, as is what a failed open left in the queue.
`DBPersistency` by itself violates `ControlObeyed`, `SavedWhenOff` and `RightFile` in
these ways; the *tame* forms hold. RRegistry/README.md:8-9 says that "Data transfers
should be completely transparent to the programmer", which does not hold for what a
receiver sets while a received value spreads: the adapter that is spreading refuses it,
and its peer never learns of it. The exceptions in `PeersCurrent` are real - an adapter that is
not subscribed or was not when the change was made, a failed send, one that was spreading,
a change made inside another's send: without any of them, and without `orphaned` in
`NoOverrun`, the run fails. A removed adapter or
receiver may still be called, since `remove` and `remove_if` are not followed by `erase`
(Registry.hpp:135, 160).

**Bounds.** `MaxInFlight` keeps programs from calling while any connection
holds that many messages; handlers are not bounded, so forwarding is complete.
Two messages of one sender, with those it crosses in the other direction, are enough
for every pair of messages whose order matters: update against unsubscribe,
request against update, subscribe against unsubscribe. Three values tell an
older value from a newer and from the default. Three nodes in a row have both
kinds of node: an end and one that forwards. With `MaxLag` equal to the
threshold, `lossy_window` includes the latest packet that the policy can still
recognise. Three sessions let a record of the first be written in the second
and the third. Two messages per socket let a burst find the socket full behind a
value; two connections have the first left open or closed under the second;
three numbers are used up by input, one refused connection and one other file.
`handle` lets `disconnect` be called only while connected
(`Orderly`), which `client_zero` lifts. Three calls inside one another
are a handler, the set in it and a set in that one, or three sets: enough for
an outer walk, an inner one that erases under it, and what is told in between;
two adapters are the one that spreads or has gone and one behind it, and with vectors of
two places one that was removed can be registered again behind what `remove_if` left of it. Tables of four
types let empty types stand at the start, between and at the end. With `Trigger = 1` and
four pushes a batch is full twice.

**Fairness.** `RegistrySync!FairSpec`: each node keeps handling what it has received - an
application that uses the library calls `service` or its read loop as long as it runs;
nothing is assumed about programs setting or asking. `RSupportHandle!HandleFairSpec`: the
program calls `service` in a loop, as the examples do, and the host or the peer of the
console reads what it is sent; neither connecting nor input on the console is assumed.
`DBPersistency!FairSpec` and `Capture!CaptureFairSpec`: the scheduler runs both threads; a
call that has begun continues. No fairness for calls of the program, spurious wake-ups or
notifications. `Numbering!FairSpec`: a call runs on.

`CHECK_DEADLOCK FALSE` stands where the system may stop: a persistency process may have
ended (`capture`, `db_stuck`), a client may have been killed by a signal or read standard
input for ever (`handle`, `client_zero`), a numbering call is over when it has returned,
and in `calls` all adapters may have been destroyed, after which nothing can arrive.

## Proofs

| Module | About |
|---|---|
| `RegistryTreeProofs` | `RegistrySync`, `RegistryTree`, the refinement of `Mirror` |
| `RegistryCallsProofs` | `RegistryCalls` |
| `LossyLinkProofs` | `LossyLink` |
| `DBPersistencyProofs` | `DBPersistency`, `Capture` |
| `RSupportClientProofs`, `RSupportHandleProofs` | `RSupportClient`; `Console`, `RSupportHandle` |
| `NumberingProofs` | `Numbering` |
| `SublistsProofs` | `Sublists`: lemmas for the others |

They hold for all values of the constants that satisfy the named assumptions: any tree,
any sets of properties and values, any programs and any `MaxInFlight`; any adapters and
receivers, vectors of any length and calls at any depth; any modulus, threshold, lateness
and loss; any trigger and number of sessions; any number of descriptors and connections,
lines and lengths of lines; any table of entry counts. The assumptions mostly say of
what kind the constants are (`CallsAssumption`: adapters and receivers are different
objects; `ConsoleAssumption`: lengths are numbers). `TreeAssumption` is the one about the
system: each connection leads towards the source of a property in one direction, and
only the source writes it. Every invariant of a passing run is proved.

*Registries and adapters*

* *Nothing runs upstream* (`NoUpstreamCorrect`, `OwnerUndisturbedCorrect`).
  `NoUpstream` is inductive once types are known, because of two facts: the adapter
  an update arrives on refuses it while it spreads, and every other adapter of
  that node leads away from the source (`TreeAssumption`). An owner faces no
  source, so nothing that arrives can change its property.
* *Copies in step* (`SyncPreservedCorrect`, `RequestRefreshesCorrect`,
  `AgreementCorrect`). `InSync(e, p)` says that the last update under way has the
  sender's value, and that without one the copies are equal. The lemmas show action
  by action that it is preserved where adapter `e` sends `p`: a change appends
  itself, taking the oldest update leaves the last one, and a received value
  cannot change the sender since it would have run upstream. For connections
  that always send (`Pinned`) the strengthening is that their adapter is open
  (`PinnedOpen`): the flag is true between handlers as nobody clears it by hand.
* *Both ends agree* (`SubscriptionsAgreeCorrect`). Copies and subscriptions are the
  same thing: what one end has, the other end has last said or will hear last. `Synced`
  states it once, for a class of messages and what they carry, with the three steps
  that keep it (say, hear, neither); values and subscriptions are two instances.
* *Each value once and in order* (`MirrorsCorrect`). A connection that always sends
  implements `Mirror`. Every step has one of four forms (`Carries`): it leaves the
  connection `Aside`, `Changes` the near copy and appends that value, `Repeats` it
  to answer a request, or the far end `Takes` the oldest update. The first is a
  stutter, the others are the actions of `Mirror`; that no step has another form
  needs `NoUpstream` and `PinnedOpen`, as above.

*Calls inside one another.* `RegistryCallsProofs` is an induction over steps of a machine with
a stack of any height, so that its invariants quantify over all calls that have begun.

* `TypeCorrect`: `TypeInv` adds to the types that every call `Fits` the vectors - one that
  tells the receivers has the vector's end, as nothing registers during such a
  walk. This is what makes the end taken before the loop safe to use.
* `NoOverrunCorrect`: by `WalkInv` a walk has only living adapters behind it as long as
  none was destroyed there. An erase inside it can then only be ahead of it or
  at its place, so that the iterator stays within the vector.
* `ReceiversCurrentCorrect`: by `ToldInv` a registered receiver that has not seen the
  value still lies ahead of some call. The value is read when the receiver is
  told, so an outer set that goes on tells the inner one's value.
* `PeersCurrentCorrect`: for adapters this is not so, since `send` gets the value of
  its own set. `OneWalk` says that a change not made inside the walk of
  another is the only one on its way; `RefusingInv`, that an adapter refuses only
  while its handler spreads; `OfferedInv`, that a peer the change is for (`Concerned`:
  subscribed, and not one that missed it) has the value or the walk still comes to its
  adapter. An `Erase` keeps whoever is ahead of every walk ahead of it.

*The lossy policy* (`NeverBackwardsCorrect`, `FreshAcceptedCorrect`, `StaysRecentCorrect`).
Within a window of the numbers in which no boundary lies and in which `MaxLag` does not
pass the threshold, the invariant is that the record is either cleared or the
number of the newest value. `StaysRecent` has no window: its invariant bounds how
far a record can be ahead of what is being sent.

*The persistency policy*

* *Any program* (`ConservationCorrect`, `SleepsOnLittleCorrect`). Ids are
  consecutive over rows and queue, and together these are all that was accepted until the
  policy has gone; then its queue is lost, and the rows are the older records. The trigger
  counter counts the pushes since the last notification.
* *A captured registry is one of them* (`CaptureImplements`): every step of `Capture` is one
  of `DBPersistency` or none, so what is proved of the policy holds here as well.
  `CaptureCurrentCorrect` needs that the last record taken, queued or written
  (`LastRecorded`), has the entry's value.
* *Careful programs* (`TameNoCrashCorrect`, `TameSavedWhenOffCorrect`,
  `TameRightFileCorrect`, `TameControlObeyedCorrect`). One invariant, `Care`, carries
  all four: `Places` lists where the two threads can be together, with the flags and the
  queue there - at rest the policy is `On` or `Off` as was last asked, and `notifying`
  finds the worker in its wait; all that is queued is of the session that goes on;
  each row is in the file of its session; and a policy that was destroyed has written
  everything (`AllWritten`). It says nothing once `tame` is false,
  and `tame` never becomes true again, so each step is looked at only where the program
  is still careful.

*The client*

* *Over a socket* (`ForeignOnlyWhenGoneCorrect`, `LinkedSendsCorrect`,
  `BurstMeansItsFrameCorrect`). `DescriptorInv`: while linked the number refers
  to the connection made last, and in an orderly program to none below 1, since
  standard input keeps 0; the first two theorems assume `Orderly`, which is that
  `disconnect` is called only while connected (`client_zero` shows what happens otherwise).
  `StreamInv`: on a connection that lost nothing, a host that takes the whole
  stream has the client's movement, and one that takes what is before a burst has
  the movement of that burst.
* *Over the console* (`OneBurstCorrect`, `ForwardedIsSentCorrect`). `OnceInv` and `ShownInv`
  count lines: a burst on the output and the line that clears it on the input are one
  token that the flag stands for, and the values on the output before a burst are those of
  its frame. `Effect` lists what a step may do to the lines. Both rest on `AlwaysUnderstood`:
  whatever the padding, with or without the callbacks of mode MIXED, and for any number of
  blocks the reader finds a message of the length that was written.
* *The handle* (`ConsoleHandle`, `SocketHandle`). A handle implements one of the two,
  depending on how it was compiled, and what is proved of them is carried over
  (`HandleForeignOnlyWhenGone`, `HandleLinkedSends`, `HandleBurstMeansItsFrame`).

*Numbers* (`InsideCorrect`, `RightAnswerCorrect`, `Descends`). The invariant says what `rest`
is: the number less the first number of the type the loop has got to, as long as
that is not negative. A number that exists lies before the end of some type, so that
the loop ends there; types without properties are passed since their first
number is that of the next. The search stays below the number of its goal as any
number before it belongs to another property. `Descends` is the half of `Returns` that
can be proved: each step goes on to the next number, which exists, or lowers a
natural number (`Left`) for the same one, so there are finitely many.

*Sequences.* What `remove` leaves of a vector and the updates in a channel are
both the elements at some positions (`Sublist`). It is defined by the rank of a position, not by
recursion, because nothing could be proved about all lengths otherwise;
`SublistsProofs` shows from injections between finite sets that ranks are 1 to the number
of positions, and what an append, a step of the queue and a new position do to them.

Model-checked only: `Propagation`, `TameStopReturns`, `MovementForwarded` and `Returns` - and
`StopReturns`, which fails - since liveness under fairness is out of the prover's reach.

## Not modelled

* Names, descriptions and type switches of the property tables, log output, SWIG,
  build files: no state. RCore is not in the tree. `LiteCommReliability` is
  handed through and never decides anything under src/.
* Numbers and properties that do not exist: the numbering loops then read behind
  their table or do not end.
* An application that registers or removes at a vector while it is being walked: undefined
  in C++. Exchanging the persistency policy, and the cycle of shared pointers between policy and registry.
* Properties of type String: their `set` on an adapter is an assertion that fails
  (Registry.hpp:267), and `push` assigns a string to a union member that was never
  constructed (DBPersistencyPolicy.cpp:181).
* What SQLite does with its statements, and statements that fail.
* Time: the waiting time of `service`, time stamps of records.
* Frames that a write cuts, and an output of the console that is full.
* `rsupport_handle_free`, which ends a handle, and getters, which change nothing.

## Plan

1. *Compositions*: tree over the lossy policy (the reset message is not passed
   on), two owners, rings.
2. *Client*: frames that a partial write cuts.
3. *Proofs*: what the safety half of the remaining liveness properties is - for `Propagation`
   that no copy which waits for a value has a connection with nothing under way, for
   `MovementForwarded` and `TameStopReturns` that no two sides wait for each other.
