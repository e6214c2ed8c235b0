# Event sequence transformation in TLA+

This directory specifies the event transformation daemon of this repository in
TLA+, model-checks it on small instances with TLC, and proves properties of its
core for all parameters with TLAPS. All definitions are translated from the C
sources under `src/`; line numbers below refer to them.

## 1. The system

The program reads a configuration, builds a graph of nodes connected by
channels, and then runs one endless, single-threaded loop. Source nodes turn
input (bytes on stdin, kernel input events) into *events*; an event stands in
one global list and has a *position*, the node or channel it is at. The loop
looks for an event whose position has a handler, calls the handler, which moves,
copies or destroys events, and begins again.

| Part | Source | State it keeps | Operations |
|---|---|---|---|
| event list | `events.c`, `events.h` | doubly linked list around the sentinel `END_EVENTS`; per event position, time, ttl, priority, payload | `event_create`, `event_replicate`, `event_destroy`, `event_destroy_all` |
| event graph | `graph.c` | connector lists of nodes; start, end and connector numbers of channels; `waiting_new_event` | `graph_channel_init`, `channel_handle_event`, `graph_node_broadcast_forward_event`, `graph_node_delete` |
| main loop | `processing.c` | `has_future_events`, `reached_time`, `wait_delay`, list of I/O subscriptions | `process_iteration`, `process_io`, `process_events_until`, `process_single_scheduled`, `schedule_delay` |
| input sources | `nodes/getchar.c`, `nodes/evdev.c` | subscription (enabled or not), device | `handle_io` |
| window node | `nodes/window.c` | `buffer` (ring queue of event pointers), `buffered_set` (hash table), `skip_next` | `handle_event`, `trigger_new_window` |
| forwarding nodes, router, sinks | `nodes/tee.c`, `router.c`, `print.c`, `uinput.c` | none that decides where events go; a router reads the registry of predicates | `handle_event` |
| arithmetic nodes | `nodes/assign.c`, `differentiate.c`, `integrate.c`, `scale.c` | last value, sum or remainder per node | `handle_event` |
| predicates | `event_predicate.c`, `nodes/modify_predicate.c` | registry of predicates with enabled and inverted flags | register, apply, set enabled, set inverted |
| ring queue | `queue.c`, `queue.h` | array, head, tail, capacity | put (with growth), pop, peek, deinit |
| hash table | `hash_table.c`, `hash_table.h` | entries, probe limits, length, hash function | insert (with growth and change of the hash function), find, delete |
| modifier sets | `modifiers.h`, `nodes/modifiers.c` | a byte array of varying length per event and per modifiers node | copy, extend, set, unset, toggle, destruct |
| time arithmetic | `time.h` | none | normalise, add, subtract, compare |
| configuration, start | `config.c`, `main.c`, `module_registry.c` | tables of nodes, channels, constants, predicates | load in order, resolve names, build the graph |
| event code names | `event_code_names.*` | a generated table | none |

The parts meet in five ways. Handlers call the event list and change it under
the loop that iterates over it, and the loop's answer is to begin again from the first
event. A channel's handler writes `waiting_new_event` of a node, which the loop
reads. A window keeps raw pointers into the event list. `process_io` creates
events between any two handler calls, so the list grows in the middle of the
processing of older events. And `modify_predicate` changes what routers do with events
that are under way elsewhere in the graph.

### What is hard here

There are no threads. The hard behaviour is in orders and boundaries:

* input arrives between any two steps, time goes on, and the time an iteration
  works with is read before it waits;
* the loop sleeps without a timeout unless a flag set by the last pass
  forbids it: an event it has missed would wait for unrelated input;
* pointer code around a sentinel, in three functions that must agree;
* graphs with cycles, where only the time to live ends an iteration;
* a window that leaves events in the list while it waits, and is woken by a
  side effect of another handler;
* nodes that remember something from event to event (sums, remainders, predicates,
  windows) see events in the order in which the loop happens to handle them;
* `pselect` and `read` fail, `malloc` fails in the middle of a replication or in a window;
* 64 bit arithmetic at its ends, and times in two fields of which one must be normal;
* names in a configuration that stand for something else further down;
* containers that grow while they are wrapped around or half deleted.

`PROJECT.json` lists each of these hazards with its line and the properties
that would catch it. What makes each part correct:

* event list: `next` and `prev` stay inverse; nothing in the list becomes
  unreachable; simultaneous events keep their order; it does what a sequence does;
* main loop: never sleeps on work; every input arrives; every iteration ends;
* graph: copies are neither lost nor made twice; connectors and channels agree;
* sources: inputs of a source stay in order, by the time stamps they are given;
* the graph as a whole: it does what it would do if it were given one input at a time;
* window: the buffer dangles in no case but one that a failed allocation prepares; it ends no
  empty window, passes every event on, sends once when jumping;
* arithmetic nodes: what is divided is not lost, and differences undo sums;
* time: the two fields stand for one number, and comparing them compares numbers;
* start: the graph that runs is the one the configuration describes;
* containers: the ring is a queue, the hash table is a map;
* modifier sets: no two events share memory, and a node does what sets do.

## 2. Modules

| Module | Role |
|---|---|
| `EventSeq` | the event list as a sequence: where an event is inserted, replaced, removed |
| `AbstractEventList` | what `events.h` promises: a specification over a sequence of identities |
| `EventList` | `events.c` pointer by pointer; refines `AbstractEventList` |
| `EventListProofs` | TLAPS proofs, the whole refinement included |
| `Arithmetic` | what `differentiate`, `integrate` and `scale` compute, on 64 bits |
| `EventGraph` | channels, broadcasting, routers, nodes that change events: what a handler makes of an event |
| `Window` | the window node's buffer computation |
| `Handlers` | `handle_event` of every position, as a function on all that handlers change |
| `EventLoop` | clock, input, `process_iteration`, `process_io`, `process_events_until`; calls `Handlers` |
| `EventLoopProps` | properties of the loop |
| `HandlerProofs` | TLAPS proofs about `Handlers` and what they are made of, and about `TimeSpec` |
| `EventLoopProofs` | TLAPS proofs about the loop, its nodes and its order |
| `SerialLoop` | the loop beside a graph that gets one input at a time |
| `MCEventLoop`, `MCGesture`, `MCWindow`, `MCWindows` | graphs for TLC |
| `TimeSpec` | `time.h`, and what `window.c` and `evdev.c` compute with it |
| `Fifo` | what `queue.h` promises |
| `RingQueue` | `queue.c` on indices; refines `Fifo` |
| `RingQueueProofs` | TLAPS proofs, the whole refinement included |
| `AbstractMap` | what `hash_table.h` promises |
| `HashTable` | `hash_table.c` on slots and probe limits; refines `AbstractMap` |
| `HashTableProofs` | TLAPS proofs, the whole refinement included |
| `MCHashTable` | keys and hash functions for TLC |
| `Predicates` | loading of the predicates section, evaluation, `modify_predicate` |
| `PredicateProofs` | TLAPS proofs about handles and `modify_predicate` |
| `MCPredicates` | definitions and nodes for TLC |
| `ModifierSets` | modifier sets in memory, their holders, the modifiers node |
| `ModifierSetProofs` | TLAPS proofs about them |
| `MCModifierSets` | nodes, modifiers and arrays for TLC |
| `GraphBuild` | `graph_channel_init` |
| `Start` | from the configuration to the running graph; its channels are `GraphBuild` steps |
| `GraphBuildProofs` | TLAPS proofs about both |
| `MCStart` | names and settings for TLC |

How they are put together: `EventSeq` and `Arithmetic` are below `EventGraph`, `Window`
extends it, `Handlers` extends `Window`, and `EventLoop` composes them with the world
outside. `Start` extends `GraphBuild`. `RingQueue` and `HashTable` are what a
window and the registries are made of; the rest of the project uses a sequence, a
set and a function in their place, which the two refinements justify, as `HandlerProofs`
justifies taking a number for a time.

### Event list

`EventList` has one step per pointer update that a property could see: the scan
of `event_create` (lines 47-53) moves one event per step and holds `owner`, the
node whose `next` is the address in `list_pos`. `LinkAfter` is the four
assignments that link a cell. `event_replicate` and `event_destroy_all` are loops of
one step per round. `malloc` may fail in any round (`ReplicaRound`,
`EndReplicate`); events that were freed are `Null` again, so a dangling link
shows. The list of `AbstractEventList` changes at the link and unlink steps;
the scan is a stutter.

The rest of the project does not repeat the pointers: `EventLoop` uses the
operators of `EventSeq`, and the run `event_list` shows that the pointer code
does exactly that to the sequence.

### Main loop

`pc` in `EventLoop` is the place in `process_iteration`: `top`, `poll` (the `pselect` that
may wait), `handle` (a `handle_io` is to be called), `scan` (a pass over the list), `io`
(the `pselect` that does not wait). `ready` holds the sources whose `handle_io` the
current `process_io` has still to call: each call is a step, and input may arrive, or a
device go, between `pselect` and the call and between two calls.

A pass of `process_events_until` over the list up to the call that
returns true is one step: nothing else can happen within it, the loop is
single-threaded and handlers that return false change nothing. `Stopping` is the set of
events at which the pass may end, with the branches of lines 206-266 in the order of the
code, and `HandleEvent` handles the first of them, unless it is a future event
(`EndPass`). All sources create events with priority 10 and no node changes it, so
there is one pass per iteration.

`Handlers` says what each call does. A *machine* is a record of everything handlers
read and write: the list, `waiting_new_event`, what the arithmetic nodes remember, the state
of the predicates, the windows, and what has come to sinks. `At...(m, i)` is the machine
after the handler has been called for the i-th event. The loop applies these functions
to its variables.

`SerialLoop` adds to the loop a history variable, `unserved`: for each input that has been
read and whose turn has not come, the events created for it. The turn of an input comes when
a handler is called for one of its events, or for one behind them. `served` is the machine
without the events of unserved inputs. `Serves` is one step of a graph that is given one
input at a time: the handler of the first event that has one is called, and the next input is
given only when there is none left.

`Tick`, `Arrive` and `Close` are the outside world and may happen at any time,
also between the read of the clock (`BeginIteration`) and `pselect`. `HandleDevice` converts
the time stamps of the kernel with an error of up to `MaxSkew`, as the difference of
two clocks that are read one after the other. `FailedIo` and `HandleFails` are `pselect` and
`read` returning an error; in `BufferAtWindow`, `queue_put` or `event_set_add` may find no
memory, and their results are ignored, as in the code.

In an event, `src` and `n` say from which source and which input it comes, and `id` stands for
its address. The program does not keep the first two; they only tell events apart for the
properties. Addresses are compared at windows only, so an event gets a new `id` when it enters one
(`Entering`) and keeps it while it is there.
`ttl` is decremented by channels as at `graph.c:40`. The codes of an event (namespace, major,
minor) are one member of `Code`; what `assign` does to them is a function on codes. Payloads
are 64 bit integers, with `Half` in the place of 2^63.

### Window

`Window` holds the computation on the buffer, and `Handlers` the two ways a call
can end (`AtWindowSkip`, `AtWindow`). Events a window has dropped from its
buffer stay in the list at the window's position, as in the code; a finding
below comes from there. With a `max_length` of 0 the loop of lines 166-168 does
not end: `pc` is then `hung`.

`buffer` and `buffered_set` hold addresses, and events are told apart by their `id`: two copies of one
input that come on ways of equal length, or from a window that sends its buffer again, are
two events. When time ends a window, the event itself goes as the base and a replica, at an
address of its own, stays at the window (lines 137-142): `Departs` says when, and `Resident` is
the replica, with a new `id`.

The event that goes may be in the buffer, if `event_set_add` has failed for it: the
handler then does not recognise it and takes it for a new one. If the first window to end does
not drop it, the buffer keeps the address of an event that has gone to a channel or is the
terminator by now, and will be freed. This is `Astray`; what the handler does next depends on
memory that is no longer its own, so the model of the process ends there, with `pc` at
`astray` (`GoAstrayAtWindow`). `BufferListed` says that nothing dangles up to there and that
only a failed `event_set_add` leads there. In the same way `queue_put` may fail and
`event_set_add` not; then the event is never handled again.

### Arithmetic and time

`Arithmetic` is what the handlers compute, with C's division and numbers that wrap
around, which is what the build's instructions do where the standard defines nothing.
`TimeSpec` is `time.h` field by field, with nanoseconds normalised by the two loops the
code has; the recursion is avoided by saying what state a loop ends in, and
`LoopsArrive` proves that loops of this kind end there. No run is needed: the
theorems cover every value.

### Containers

`RingQueue` keeps the array, so that the `memmove` of `queue_grow` (lines
33-40) is what it is on slots. `HashTable` keeps keys, values and
`max_collision_offset` by slot; a client is either a registry (inserts and
finds) or a set (inserts what it has not found, and deletes), the two uses in
the program. `family_random_member` may return any member of `Family`. An insertion is
a sequence of steps, and `doing` is its place: `Insert` is the call up to the growth,
`Place` the rest of it, `entry` what is to be written in between. `Copy` is one round of the
loop of `hash_table_grow` or `hash_table_change_hash`, which moves an entry of `left` to `new`, and
`EndRebuild` puts `new` in the place of `table`. When
`hash_table_change_hash` reinserts entries, insertion into the new table may
change the hash again; the model allows any order of insertion, which includes
what any nesting of rebuilds comes to. In `hash_table_grow` this cannot happen, which is
proved (`GrowthIsPlain`), so `Copy` has no such branch.

### Configuration and start

`Start` reads a configuration item by item, each with any content: constants, enums and their
members, nodes, channels. Names are looked up in the tables as they are at that moment. The
name of a constant is the sequence of its parts, so that `E.m` is the same name whether an
enum or the constants section gives it. A channel item has two ends, in the order in which they
are written; `FromTo` is the exchange that `load_single_channel_config` makes. Then the nodes
that read input subscribe, with the growth of the subscription list. Every way to end the
program on the way is an action (`NoNode`, `NoChannel`, `NotRegistered`). `MakeChannel` is a
`Connect` of `GraphBuild` with the numbers the names stand for.

### Predicates

`Predicates` loads a configuration and then lets events arrive at
`modify_predicate` nodes. A definition is an element of `Definition`; `inner`
holds the handles of definitions that stand inside another one and have been
registered before it, as `load_single_predicate` does by recursion. Names are
looked up in the registry as it is at that moment. Ranges and modifiers are tests by
the set of events they accept. `Results` is `event_predicate_apply` for every handle:
its loop stops early, and quantifying over the arguments gives the same
answer. Handles count from 0 and -1 is the failed one, as in the code. Inner
definitions in the options of a node are not kept apart from named ones.

In `EventLoop` predicates are ranges only, and their two flags are state that
`modify_predicate` nodes switch while other events are under way: here it is order
that matters, there it is evaluation.

### Modifier sets

`ModifierSets` has a heap of arrays and a set, length and pointer, for each event
and each modifiers node. `Copied`, `Extended`, `WithModifier` and `Operated` are
the functions of `modifiers.h`; each yields a set of outcomes, because an
allocator chooses addresses and may fail at any call. The callers are the actions:
`Create`, `Replicate`, `Destroy` (`events.c`), `Handle` and `Broadcast` (nodes),
`WindowSends` (`window.c`). While a handler makes copies, `due` holds how many are
left, and nothing else happens (`Idle`). A node that sends its event
nowhere destroys it, which is `Destroy`. A bit is a member of `has`, and `ByteOf`
says which byte it is in.

## 3. Runs

| Run | Shows |
|---|---|
| `event_list` | links stay inverse, no abort, simultaneous events do not overtake, refinement of the sequence, `event_destroy_all` empties the list |
| `event_order` | **violation**: events are not ordered by creation time when created out of order |
| `event_loop` | two sources of both kinds and a graph with fan-out, missing connector, orphaned channel and cycle: no sleep on work, conservation, order, arrival |
| `gesture` | a tap recogniser with window, predicates and arithmetic: the graph acts as if given one input at a time, halves do not drift, the guard follows the window, iterations end |
| `window_once` | **violation**: a jumping window sends an event twice |
| `windows` | two windows, one behind the other, and events that are equal but for their addresses: what the buffers hold is there, also when an allocation fails |
| `ring_queue` | queue refinement, assertion of `queue_put` |
| `hash_table` | map refinement, every entry found where it is, length never too small |
| `start` | the graph that runs is the one that is written down; enums count; connectors and channels agree |
| `predicates` | handles refer back and keep their meaning; `modify_predicate` follows its options |
| `predicates_order` | **violation**: a conjunction skips an argument that is defined later |
| `modifier_sets` | sets stay in their arrays, are never shared, operate as sets, and only windows lose memory |

### Properties

* `NeverSleepsOnWork`: at `pselect` without `has_future_events`, no event in the
  list has a handler that would be called. It is what makes the infinite
  timeout right.
* `Conservation`: for every input, deliveries made plus deliveries its copies
  will still cause equal the number of paths of the graph within the time to
  live that are open to its code. `Yield` computes these from the graph alone, so the
  property is about graphs without windows and `modify_predicate` nodes whose predicates look
  at codes.
* `DeliveredInOrder`: all copies of an input reach their sinks before any copy
  of a later input of the same source, unless the conversion of time stamps has given
  the later one an earlier time. The rewind to the first event and the place of
  copies in the list are what makes it true.
* `ActsSerially`: every call of a handler does to `served` what it does in a graph that is
  given one input at a time, each when nothing is left to do for those before it; so what
  sinks get and what nodes remember is what such a graph makes of the same inputs. It is the
  reason a configuration can be read without thinking of what else is in the list. It is
  claimed for graphs fed by standard input: the time stamps of a device may go back.
* `NeverDrifts`: the halves sent at any moment are half of what was put in, to within less
  than one, although the sum in between has wrapped around.
* `GuardFollowsWindow`: whether a value passes a router whose predicate is
  switched by the output of a window depends on what the window last sent, and
  on nothing that comes later.
* `EveryInputArrives`, `IterationsEnd`, `FirstWindowPasses`: liveness, see the
  fairness below.
* `BufferListed`: what a window's buffer and set point to is in the list at the window, by
  its address; until the handler goes astray, which it does only when an `event_set_add` has
  failed. Unless one has failed, the buffer holds no event twice.
* `NoEmptyWindow`: of what a window sends to a sink of its own, no terminator comes first or
  right behind another one, whether time, length or step ended the windows.
* `NeverOvertakes`: among linked events, one never comes to stand before
  another that was there first with the same time.
* `AsConfigured`: a channel has the ends its item names, by the last node of a name and
  the numbers that names of constants have, unless an item behind it claims the same connector;
  sources are subscribed in their order.
* `EnumsCount`: the members of an enum count on from the last one that was given a number,
  and a name stands for what its last member got.
* `ModifiesAsDocumented`: a flag is set, reset or kept as the options say, judged by
  the state before the event, also when the target takes part in its own
  conditions.
* `OneOwner`, `InBounds`: the memory of modifier sets, while events are copied,
  changed and destroyed and allocations fail.
* `HandlerOperates`, `CopiesAgree`: what handlers and copies do to the members,
  also when memory runs out in the middle.
* `OnlyWindowsLose`: an array without a holder comes from a window and from nothing else.
* `EveryEntryFound`, `LengthCounts`, `Connected`, `OthersStay`: see the comments
  in the modules.

### Bounds, and why they are enough

* `EventList`: four cells, three times, two replicas per call. Every linking
  case (empty list, front, middle, behind an equal or earlier event) occurs with
  three, and the fourth is in use by another call.
* `MCEventLoop`: one byte and end of file from one source, two inputs from the
  other, which suffices for order between inputs of one source, in one read and in two,
  and for sources that overtake each other; time 0 to 1 and an error of the time stamps
  of 1 suffice for an event from after the clock was read and for two that change
  places; ttl 5 lets the cycle be passed and run out; one failure at any point. The
  code's initial ttl is 100: the parameter `InitialTTL`.
* `MCGesture`: three bytes of either payload and end of file; a window with a length
  limit of 3, a time limit of 0, a step of 2 and a terminator, so windows end by length,
  by time, and with more to skip than is there; numbers of three bits, so that the sum
  overflows; one failing allocation. The kinds of node that `MCEventLoop` lacks are all here.
* `MCWindows`: three bytes and end of file, each of which comes to the first window twice, on two ways
  of one channel each; this window ends by its length, sends what it keeps again, with terminators,
  and so gives the second one events that are equal but for their addresses. The second ends
  by length and by time, and the clock ticks once. With one allocation that fails an event comes
  to be twice in a buffer, or in the set only, and a handler goes astray.
* `RingQueue`: growth 0, 2, 5, 9, each with the head at every place.
* `MCHashTable`: five keys, two with equal pre-hash, growth from 5 to 8 slots,
  one hash function that collides everything at both sizes. `Slack` (6 in the
  code) is 0, otherwise tables of this size never change their hash.
* `MCStart`: configurations of four items, enough for two nodes of one name and two channels
  that claim one connector, or an enum whose members are named twice and refer to
  each other; the subscription list grows from 1, and from the 0 of a failed allocation.
* `MCPredicates`: three names, four predicates, two events; eight definitions with
  every type, both flags, inner definitions and names before and after; two
  nodes that switch predicates which are also their conditions.
* `MCModifierSets`: bytes of two bits, modifiers 0 to 2, two events, a node
  for each operation and one with an unknown one; five arrays, so that a lost array and
  a failed allocation both leave too few. One copy per broadcast, as there are two events.
* `MCWindow`: the smallest jumping window, for the violation.

All bounds are guards of actions, so liveness is checked on complete behaviours.

### Fairness

`EventLoop!FairSpec` assumes two things: that the clock goes on, and weak fairness of the
process itself. The operating system schedules a runnable process; nothing is assumed of
input or of failures. A `pselect` that waits for input may keep the process where it is, and
so does the endless loop of a window without length (`hung`); nothing is assumed of a process
that has gone `astray`. `Runs` says this through
`pc`, which every step of the loop and no step of the world changes. The clock is needed
because an event with a time stamp of the future is only handled when its time has come.
`EventList` assumes that a call in progress goes on.

## 4. Proofs

All parameters are arbitrary, under the assumptions named in the modules, which TLC
evaluates in the runs. Most are types (`QueueAssumption`, `BuildAssumption`,
`GraphAssumption`, ...). Those that say more:

* `OptionsAssumption`: numbers in the options of nodes are 64 bit, and a `modify_predicate`
  has a target (its `create` fails without one);
* `WindowAssumption`: what `window.c` reads from its options, a number that is not negative or
  none, and the code of the terminator is a code;
* `LoopAssumption`: no source is registered twice (`main.c` asks each node once), and codes include
  those of a byte and of end of file;
* `StartAssumption`: of the two ends of a channel item either both have a direction or
  neither (`src/README.md:56` knows these forms only), and a code has an integer.

* `EventListProofs`: `TypeCorrect`, `WellLinked`, `NeverAborts`, `ListIsSequence` (the
  refinement of `AbstractEventList`), `CreateNeverOvertakes`. `LinksMutual`
  is not inductive, because a call in progress holds addresses in its locals
  that the next step dereferences. `InCallOK` adds that these still point
  into the list. `LinkAfterMutual` and its counterpart for unlinking carry the
  argument about four assignments. For the refinement, `ListInv` says that there is a
  sequence of cells whose neighbours the links are (`Ring`) and that the scan in progress
  has passed only over later events of it (`ScansAt`). What the links say is one sequence only,
  so `Walk` is that sequence, and the steps that link and unlink insert into it and
  remove from it.
* `HandlerProofs`, about the functions the loop is made of. A handler is a function
  on machines, so most lemmas are about what it makes of one: `Moves` says what every handler but
  that of a window does (it takes the event out, puts copies of it in its place, and leaves the
  windows alone), `WindowSound` that buffers hold events which are at the window, so no
  other handler is called for them, and that events at windows have different ids, below `issued`
  (`Told`). A window's loops are folds; `RoundsByTime` and
  `RoundsByLength` are their invariants, and `WindowLoopsEnd` says the folds do as many rounds as
  the loops. `InFront` says that a machine is another one without some events at the
  end of its list: a handler does the same to both (`BufferInFront` and its likes).
  About arithmetic: `DifferencesAndSumsCancel` (an `integrate` behind a `differentiate` gives
  back what was put in, and the other way around, overflow or not) and `ScaleKeepsTheRest` (as
  long as nothing overflows, what is sent and what is kept are together what was put in,
  and less than a denominator is kept).
  About time: `LoopsArrive`, `ArithmeticIsExact`, `CmpComparesValues`,
  `PeriodKeepsValue`, `WindowTestIsOnValues`, `ConversionShifts`. A timespec has a value in
  nanoseconds; normalising keeps it, and on normal ones comparing fields compares values. The
  last two are what `Window` and `EventLoop` take from it.
* `EventLoopProofs`, for every graph, with every kind of node:
  `NoSleepOnWork`, inductive by itself; the step that decides is `EndPass`, where the
  absence of future events means the pass came to every event.
  `TypeCorrect` and `NothingDangles` follow from one invariant, `LoopInv`. `Called` and
  `Counted` are the strengthening for the sources: a
  `handle_io` is only called for an enabled subscription that was ready, so end of file
  makes one event and no second.
  `InputsKeepTheirOrder` is about graphs without windows, which make events wait. `DeliveredInOrder` is
  strengthened to the list and what is in it (`InOrder`): of two inputs of a source the
  later may come first only with an earlier time stamp. That the first event with a
  handler is the one that is handled (`FirstIsHandled`), that copies take its place, and that
  `event_create` passes over later events only (`AheadIs`) keep it so.
  `EachInputCounts` needs that nothing is kept back and that no payload decides a way (`Plain`);
  then what an event will cause depends on where it is, its code and its time to live (`YieldOf`).
  `Balance` is what has been delivered of an input and what is still to be delivered of it. Every
  handler leaves it alone (`Conserves`): a sink moves one from one part to the other, and any
  other handler replaces an event by copies that cause together what it would have caused
  (`CopiesConserve`). A `handle_io` adds what the input owes (`ReadingOwes`), and until then the
  balance is 0 because nothing in the list has a number that was not read (`NothingYet`, from
  `InOrder`). A sum over a sequence is a fold, and `SumSpliced` says what replacing elements makes of it.
  `NothingDangles` is `BufferListed` for every graph: many ways to a window, windows behind windows
  and failing allocations included, up to the step that goes astray. A time window that ends
  gives away the event it was called for; that is not in the buffer, or it is dropped in that moment,
  unless this is that step (`BeforeSkipIs`).
  `ServesOneByOne` is `ActsSerially` for every graph whose sources are all `getchar`, windows
  and failing allocations included, as long as handlers are called. Its invariant, `Splits`, says that the list is that of the served graph
  followed by the events of the unserved inputs, input by input: no event is stamped with
  a time to come, so what is created goes to the end (`CreatingLast`), and a handler does to the
  list what it does to its front (`HandlesInFront`). The event that is handled is the
  first that has a handler (`FirstAbleIsHandled`); if it stands in the front no input's turn comes, and if
  not, nothing in front of it has a handler, which is what `Serves` asks for before
  the next input is given (`CallServes`).
  `NoWindowIsEmpty` is `NoEmptyWindow` for every graph without cycles that is fed by standard
  input and has one window, one of whose connectors leads to a sink of its own (`LoneWindow`).
  The window's options are any but a `max_length` of 0, with which its loop has no end. Two more
  things are assumed: no node in front of the window makes an "end" of its own, and events live long
  enough to reach the sink; without either, two terminators may follow each other. `MCGesture`
  assumes of its graph that it is one of these, so TLC evaluates `LoneWindow` there. The
  invariant (`RowInv`) follows three places. In the list, what has come to the window or out of it stands in
  front of all that is still on its way there, and up to the window events are in the order of
  their times (`Orderly`). In the window, the buffer is
  below its limit, and empty while events are to be skipped (`Settled`). And what the sink has
  got, followed by what is on its way there, has no two terminators in a row, and something has
  come behind the last one while the window holds events (`Flow`). All other handlers keep this
  because they replace an event by copies that are no nearer to the sink (`PassesKeepRow`).
  Ending one window sends a terminator only when something has come since the last, and
  then sends again what stays in the buffer (`TriggerWorks`); `AfterTimeWorks` and
  `AfterLengthWorks` carry that through the two loops. The hard case is a step that goes over the
  end of the buffer: the window sends its terminator and skips the event that came, without waiting. The next
  event it gets is the one it has just dropped, which still stands in front of that
  terminator and is sent again from there (`Loose`, `SkipKeepsRow`).
* `RingQueueProofs`: `TypeCorrect`, `AssertHolds`, and `IsAQueue`, the
  refinement of `Fifo`. The invariant says that indices are inside the array
  and every slot between head and tail holds a value. The lemmas
  follow the contents through `After`, `Grown` and `Stored`, with a case for
  contents that wrap around.
* `GraphBuildProofs`: `TypeCorrect`, `AlwaysConnected`, `OnlyReplaced`, and
  `StartBuilds`. The strengthening is that a channel not yet made is connected
  nowhere; otherwise connecting it could leave an older connector pointing to it. Both ends
  are treated by the same lemmas. `StartBuilds` says that every start is, for the
  graph, a behaviour of `GraphBuild`, so that the three others hold of it; its invariant is
  that names stand for nodes that were made. `EnumsAlwaysCount` needs that the
  counter is the number of the last member read, and that the table has each name with the
  number of its last member (`EnumInv`);
  `StartsAsConfigured` that each end of the graph is where the last channel item that
  means it has put it (`Laid`, `ChannelsInv`), that all nodes are named before there is a channel, and that the
  list of subscriptions has what the nodes asked so far gave (`RegisteredInv`).
* `PredicateProofs`: `TypeCorrect`, `AlwaysRefersBack`, `HandlesKeepMeaning`,
  `ModifyFollowsOptions`. The invariant says that the list is numbered 0..n-1 and
  every handle anywhere is below n, so what is registered next refers back.
  For `modify_predicate` the targets must exist, which `CreateNodes` checks.
* `ModifierSetProofs`: `TypeCorrect`, `StaysInBounds`, `NothingShared`,
  `NodesOperate`, `CopiesHaveSame`, `MemoryIsKept`. `Leaves` says what one operation may do: it
  keeps its pointer or takes one that was not in use, and leaves other arrays
  alone. It is shown for every function of `modifiers.h`, and `OneHolder` concludes from
  it that all sets stay apart; a window is two such operations in turn. For `MemoryIsKept`, `Frees`
  says that an operation gives back the array it drops; copying overwrites nothing, because
  events that do not exist have no set (`NoneLeft`), but for the second copy of a window.
* `HashTableProofs`: `TypeCorrect`, `EntriesFound`, `LengthIsRight`, `IsAMap`, the refinement of
  `AbstractMap`, and `GrowthIsPlain`. What one insertion does to an array comes first:
  probing is a bijection on the slots (`ProbeOnto`), the first free slot or the key itself is
  where an entry goes, the probe limits cover every entry (`Reached`), and no key is there
  twice (`Unique`). The last needs either a key that is new or a table from which nothing was
  deleted (`NoGaps`): exactly what distinguishes the two kinds of clients. The
  invariant adds that the length before the last insertion was below two thirds of
  the capacity (`Balanced`), so that a slot is free and growth is enough when it
  happens, and that the table that is being built holds what has left the old one
  (`SameEntries`). `GrowthIsPlain` counts the entries that a far probe would have to pass. That the
  capacity begins with 3 or more is assumed; it is 5.

Only model-checked: every liveness property, because fairness and
ENABLED are beyond the prover. Of the safety properties, `NeverDrifts` and `GuardFollowsWindow`, which
name the nodes of the graph of the `gesture` run and speak of how those work together.

## 5. Findings

1. `events.c:52` against `src/README.md:5` ("strictly ordered (initially by
   their creation time)"): an earlier event goes behind the event before which it
   belongs. In the program, `evdev` events carry kernel times and can be created
   with a time before that of events already in the list.
2. `nodes/window.c:93` against its own help text at line 289 ("send events at
   most once"): dropped events stay in the list and are buffered again.
   There is a second consequence: each call sets `waiting_new_event` (line 174), so the new event
   behind an old one is not handled until another event comes, where line 288 says "Passes
   events through". `FirstWindowPasses` is therefore about the first window only.
3. `config.c:330` against `src/README.md:50` ("all the predicates in the `args`
   predicate field accept the event"): a name defined further down resolves to -1
   and is skipped without a message.

Smaller disagreements that no run states: a buffered event that `event_set_add` had no memory for may
later be given away (`nodes/window.c:137`) while the buffer keeps its address (`astray`, section 2); the README calls the field of a modifier
predicate `single_modifier` (line 52), `config.c:339` reads `modifier`; a
conjunction without arguments counts as disabled (`event_predicate.c:142`); a
modifiers node with an unknown operation is created and does nothing, because
`op < 0` (`nodes/modifiers.c:39`) compares an unsigned enumeration; a window
drops the array of modifiers of each event it overwrites (`nodes/window.c:70`, 106).

## 6. Not modelled

* Priorities: there is one value in the program (10), so `process_events_until` makes one
  pass. The branch order at `processing.c:230` would matter with two.
* `wait_delay`: nothing calls `schedule_delay`.
* Teardown behind the endless loop (`main.c:165`), including
  `graph_node_delete`: unreachable.
* The command line, help texts and the registry of node types; a node type is "reads input" or
  "other" in `Start`.
* libevdev, libconfig, uinput: external; `Arrive` and `Close` are the view the
  sources have of the first. The device that `uinput` sets up, and `SYN_DROPPED`, after which
  libevdev replays the state of a device, are not looked at.
* The table of event codes (`event_code_names.cc`): data. `Start` has what is done with it.
* Two `getchar` nodes on one stdin: the second `read` blocks the process.
* Allocations that fail in `event_create`, and in `event_replicate` within the loop (it is
  modelled in `EventList`), and a section of the configuration that reads as empty because of
  one; those of the handles of a conjunction or of a router (`config.c:328`, `nodes/router.c:53`), of
  the registry of predicates, and of the tables of names. In `graph.c` a failing allocation ends
  the program.
* What a window does once it has gone `astray`.
* The division of the least number by -1 in a `scale`, which traps, and negative connector
  indices in a channel item.

## 7. Plan

Done: event list, loop with all nodes, windows, arithmetic, time, containers, start, predicates,
modifier sets. What could follow:

1. `EventScan`: `process_events_until` with several priorities, against the
   pass it should make, once a node sets priorities.
2. `DelayQueue`, once something calls `schedule_delay`.
3. `GuardFollowsWindow` as a theorem, for every graph in which a router's predicate is
   switched by one window, as in the `gesture` run.
4. Failing allocations in the hash table, which a rebuild answers by keeping the old one.
