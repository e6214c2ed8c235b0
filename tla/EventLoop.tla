----------------------------- MODULE EventLoop -----------------------------
(***************************************************************************)
(* The main loop (processing.c) running a graph (graph.c) of nodes, while  *)
(* input arrives and the clock goes on.  One round of process_iteration is *)
(*                                                                         *)
(*   top    -> poll    read the clock into externTime                      *)
(*   poll   -> handle  pselect, for ever unless there are future events    *)
(*   handle -> scan    the handle_io of every source that was ready        *)
(*   scan   -> io      process_events_until calls a handler and rewinds    *)
(*   io     -> handle  pselect with a zero timeout                         *)
(*   scan   -> top     process_events_until found nothing to do            *)
(*   scan   -> hung    a window's handler never returns                    *)
(*   scan   -> astray  a window gives away an event that it keeps          *)
(*                                                                         *)
(* All sources create events with priority 10 and no node changes it, so   *)
(* process_events_until makes one pass.  wait_delay stays empty: nothing   *)
(* in the program calls schedule_delay.                                    *)
(***************************************************************************)
EXTENDS Handlers

CONSTANTS
  Registered,   \* the sources in the order of io_subscription_list_add
  Payload,      \* the payloads that inputs come with
  InitialTTL,   \* ttl of a new event, 100 in the code
  MaxInputs,    \* bounds on what arrives at each source
  MaxTime,      \* bound on the clock
  MaxSkew,      \* bound on the error of a time stamp that evdev converts
  MaxFailures,  \* bound on the failures of pselect and read
  MaxLost       \* once so many allocations in windows have failed, none does

ASSUME LoopAssumption ==
  /\ Registered \in Seq(Source) /\ IsInjective(Registered)
  /\ Payload \subseteq Int64
  /\ InitialTTL \in Nat \ {0} /\ MaxInputs \in [Source -> Nat]
  /\ MaxTime \in Nat /\ MaxSkew \in Nat
  /\ MaxFailures \in Nat /\ MaxLost \in Nat
  /\ {"data", "eof"} \subseteq Code

VARIABLES
  now,          \* the monotonic clock
  input,        \* what waits to be read at each source: [time, payload]
  closed,       \* end of file on stdin, the device is gone
  pc,
  externTime,   \* local of process_iteration
  hasFuture,    \* state->has_future_events
  ready,        \* the sources whose handle_io is still to be called
  enabled,      \* subscription.enabled of each source
  read,         \* how many inputs each source has turned into events
  failures,     \* how often pselect or read has failed
  lost,         \* how often a window's queue_put, its event_set_add has failed
  events, waiting, memory, predicates, buffer, members, skip, issued, delivered

env == <<now, input, closed>>
sources == <<ready, enabled, read>>
graph == <<events, waiting, memory, predicates, buffer, members, skip, issued,
           delivered>>
faults == <<failures, lost>>
vars == <<env, pc, externTime, hasFuture, sources, faults, graph>>

(* The variables of the graph as a machine of module Handlers.             *)
machine ==
  [events |-> events, waiting |-> waiting, memory |-> memory,
   predicates |-> predicates, buffer |-> buffer, members |-> members,
   skip |-> skip, issued |-> issued, delivered |-> delivered]

Becomes(m) ==
  /\ events' = m.events /\ waiting' = m.waiting
  /\ memory' = m.memory /\ predicates' = m.predicates
  /\ buffer' = m.buffer /\ members' = m.members /\ skip' = m.skip
  /\ issued' = m.issued /\ delivered' = m.delivered

Init ==
  /\ now = 0
  /\ input = [s \in Source |-> << >>]
  /\ closed = [s \in Source |-> FALSE]
  /\ pc = "top"
  /\ externTime = 0
  /\ hasFuture = FALSE
  /\ ready = << >>
  /\ enabled = [s \in Source |-> TRUE]
  /\ read = [s \in Source |-> 0]
  /\ failures = 0 /\ lost = [x \in Both |-> 0]
  /\ events = Idle.events /\ waiting = Idle.waiting
  /\ memory = Idle.memory /\ predicates = Idle.predicates
  /\ buffer = Idle.buffer /\ members = Idle.members /\ skip = Idle.skip
  /\ issued = Idle.issued /\ delivered = Idle.delivered

-----------------------------------------------------------------------------
(* The outside world.                                                      *)

Tick ==
  /\ now < MaxTime
  /\ now' = now + 1
  /\ UNCHANGED <<input, closed, pc, externTime, hasFuture, sources, faults,
                 graph>>

(* A byte on stdin; or an input event, which the kernel stamps.            *)
Arrive(s, p) ==
  /\ ~closed[s]
  /\ read[s] + Len(input[s]) < MaxInputs[s]
  /\ input' = [input EXCEPT ![s] =
                 Append(@, [time |-> IF Kind[s] = "evdev" THEN now ELSE 0,
                            payload |-> p])]
  /\ UNCHANGED <<now, closed, pc, externTime, hasFuture, sources, faults,
                 graph>>

(* stdin is closed behind the bytes written to it; a device that goes away *)
(* takes its unread events along.                                          *)
Close(s) ==
  /\ ~closed[s]
  /\ closed' = [closed EXCEPT ![s] = TRUE]
  /\ input' = IF Kind[s] = "evdev" THEN [input EXCEPT ![s] = << >>] ELSE input
  /\ UNCHANGED <<now, pc, externTime, hasFuture, sources, faults, graph>>

-----------------------------------------------------------------------------
(* process_io                                                              *)

IsReady(s) == enabled[s] /\ (input[s] # << >> \/ closed[s])

(* pselect returns, and the handlers of the sources in r are to be called  *)
(* in the order in which the sources were registered.                      *)
PollReturns(r) ==
  /\ ready' = r
  /\ pc' = IF r = << >> THEN "scan" ELSE "handle"
  /\ UNCHANGED <<env, externTime, hasFuture, enabled, read, lost, graph>>

ReadyInOrder == Those(Registered, IsReady)

(* The events a source creates for one input: one for every connector,     *)
(* also for a connector that has no channel.                               *)
FromSource(s, n, code, t, p) ==
  [k \in DOMAIN Outputs[s] |->
     [pos |-> Outputs[s][k], ttl |-> InitialTTL, time |-> t, code |-> code,
      payload |-> p, src |-> s, n |-> n, id |-> 0]]

(* evdev reads until EAGAIN.  It moves the time stamps of the kernel to    *)
(* the monotonic clock by the difference of two clocks that it reads one   *)
(* after the other, so all of them are off by skew.  (The clock must be    *)
(* able to reach them, so MaxTime bounds them too.)                        *)
EventsFromDevice(s, skew) ==
  FlattenSeq([i \in DOMAIN input[s] |->
                FromSource(s, read[s] + i, "data", input[s][i].time + skew,
                           input[s][i].payload)])

(* getchar reads one byte, or end of file.                                 *)
EventsFromStdin(s) ==
  IF input[s] = << >> THEN FromSource(s, read[s] + 1, "eof", now, 0)
  ELSE FromSource(s, read[s] + 1, "data", now, Head(input[s]).payload)

InputsRead(s) ==
  IF Kind[s] = "evdev" THEN Len(input[s]) ELSE 1

InputLeft(s) ==
  IF Kind[s] = "evdev" \/ input[s] = << >> THEN << >> ELSE Tail(input[s])

(* getchar disables itself at end of file, evdev at any error.             *)
StillEnabled(s) == ~(closed[s] /\ input[s] = << >>)

NextSource ==
  /\ ready' = Tail(ready)
  /\ pc' = IF Len(ready) = 1 THEN "scan" ELSE "handle"

(* handle_io of the first source that was ready.  Input may have come, and *)
(* a device may have gone, since pselect looked.                           *)
HandleIo(created) ==
  LET s == Head(ready)
  IN  /\ NextSource
      /\ events' = FoldLeft(Created, events, created)
      /\ read' = [read EXCEPT ![s] = @ + InputsRead(s)]
      /\ input' = [input EXCEPT ![s] = InputLeft(s)]
      /\ enabled' = [enabled EXCEPT ![s] = StillEnabled(s)]
      /\ UNCHANGED <<now, closed, externTime, hasFuture, faults, waiting,
                     memory, predicates, buffer, members, skip, issued, delivered>>

HandleDevice ==
  /\ pc = "handle"
  /\ Kind[Head(ready)] = "evdev"
  /\ \E skew \in 0..MaxSkew :
       LET created == EventsFromDevice(Head(ready), skew)
       IN  /\ \A k \in DOMAIN created : created[k].time <= MaxTime
           /\ HandleIo(created)

HandleStdin ==
  /\ pc = "handle"
  /\ Kind[Head(ready)] = "getchar"
  /\ HandleIo(EventsFromStdin(Head(ready)))

(* read returns -1.                                                        *)
HandleFails ==
  /\ pc = "handle"
  /\ Kind[Head(ready)] = "getchar"
  /\ failures < MaxFailures
  /\ failures' = failures + 1
  /\ NextSource
  /\ UNCHANGED <<env, externTime, hasFuture, enabled, read, lost, graph>>

-----------------------------------------------------------------------------
(* process_iteration                                                       *)

BeginIteration ==
  /\ pc = "top"
  /\ pc' = "poll"
  /\ externTime' = now
  /\ UNCHANGED <<env, hasFuture, sources, faults, graph>>

(* The timeout is zero with future events and infinite without: pselect    *)
(* then returns only for input.                                            *)
BlockingIo ==
  /\ pc = "poll"
  /\ hasFuture \/ ReadyInOrder # << >>
  /\ PollReturns(ReadyInOrder)
  /\ UNCHANGED failures

(* The pselect behind a pass of process_events_until that did something.   *)
PendingIo ==
  /\ pc = "io"
  /\ PollReturns(ReadyInOrder)
  /\ UNCHANGED failures

(* pselect returns -1.                                                     *)
FailedIo ==
  /\ pc \in {"poll", "io"}
  /\ failures < MaxFailures
  /\ failures' = failures + 1
  /\ PollReturns(<< >>)

-----------------------------------------------------------------------------
(* process_events_until                                                    *)

Due(e) == e.time <= externTime
ActionableWaiting(i) == HasHandler(events[i].pos)
Actionable(i) == Callable(machine, i)
Buffered(i) == Rejects(machine, i)

(* Where the pass may end: at a future event at the head of the list (no   *)
(* priority is found then), at a future event it would have handled, and   *)
(* at an event whose handler returns true.                                 *)
Stopping ==
  {i \in DOMAIN events :
     \/ i = 1 /\ ~Due(events[i])
     \/ Actionable(i) /\ (~Due(events[i]) \/ ~Buffered(i))}

SeesFutureNever == FALSE
SeesFuture == \E i \in DOMAIN events : ~Due(events[i])

(* The first handler that returns true; next is where it leaves the loop.  *)
Handle(i, m, next) ==
  /\ Due(events[i])
  /\ Becomes(m)
  /\ hasFuture' = SeesFuture
  /\ pc' = next
  /\ UNCHANGED <<env, externTime, sources, failures>>

HandleAtChannel(i) ==
  /\ events[i].pos \in Channel
  /\ Handle(i, AtChannel(machine, i), "io")
  /\ UNCHANGED lost

AtKind(i, kinds) == events[i].pos \in Node /\ Kind[events[i].pos] \in kinds

HandleAtForward(i) ==
  /\ AtKind(i, {"forward", "router"})
  /\ Handle(i, AtForward(machine, i), "io")
  /\ UNCHANGED lost

HandleAtAssign(i) ==
  /\ AtKind(i, {"assign"})
  /\ Handle(i, AtAssign(machine, i), "io")
  /\ UNCHANGED lost

HandleAtComputing(i) ==
  /\ AtKind(i, {"differentiate", "integrate", "scale"})
  /\ Handle(i, AtComputing(machine, i), "io")
  /\ UNCHANGED lost

HandleAtModifyPredicate(i) ==
  /\ AtKind(i, {"modify_predicate"})
  /\ Handle(i, AtModifyPredicate(machine, i), "io")
  /\ UNCHANGED lost

HandleAtSink(i) ==
  /\ AtKind(i, {"sink"})
  /\ Handle(i, AtSink(machine, i), "io")
  /\ UNCHANGED lost

SkipAtWindow(i) ==
  /\ AtKind(i, {"window"})
  /\ Skips(machine, i) /\ ~Astray(machine, i)
  /\ Handle(i, AtWindowSkip(machine, i), "io")
  /\ UNCHANGED lost

BufferAtWindow(i, taken) ==
  /\ AtKind(i, {"window"})
  /\ ~Skips(machine, i) /\ ~Astray(machine, i)
  /\ taken # Both => lost["buffer"] + lost["members"] < MaxLost
  /\ lost' = [x \in Both |-> IF x \in taken THEN lost[x] ELSE lost[x] + 1]
  /\ Handle(i, AtWindow(machine, i, taken),
            IF LoopsForever(events[i].pos) THEN "hung" ELSE "io")

(* What the handler does from here on depends on memory that is no longer  *)
(* the window's, so this is where the model of the process ends.           *)
GoAstrayAtWindow(i) ==
  /\ AtKind(i, {"window"})
  /\ Astray(machine, i)
  /\ Handle(i, machine, "astray")
  /\ UNCHANGED lost

HandleAt(i) ==
  \/ HandleAtChannel(i) \/ HandleAtForward(i) \/ HandleAtAssign(i)
  \/ HandleAtComputing(i) \/ HandleAtModifyPredicate(i) \/ HandleAtSink(i)
  \/ SkipAtWindow(i) \/ \E taken \in SUBSET Both : BufferAtWindow(i, taken)
  \/ GoAstrayAtWindow(i)

(* The first event at which the pass may end is one that is handled.       *)
HandleEvent ==
  /\ pc = "scan"
  /\ LET stopping == Stopping
     IN  \E i \in stopping :
           /\ \A j \in stopping : i <= j
           /\ HandleAt(i)

(* No handler returned true.  One that was called all the same keeps the   *)
(* inner loop of process_iteration going.                                  *)
EndPass ==
  /\ pc = "scan"
  /\ \A i \in Stopping : \E j \in Stopping : j <= i /\ ~Due(events[j])
  /\ IF \E i \in DOMAIN events : Actionable(i) /\ \A j \in Stopping : i < j
       THEN pc' = "io" /\ UNCHANGED externTime
       ELSE pc' = "top" /\ externTime' = 0
  /\ hasFuture' = SeesFuture
  /\ UNCHANGED <<env, sources, faults, graph>>

-----------------------------------------------------------------------------
Next ==
  \/ Tick
  \/ \E s \in Source, p \in Payload : Arrive(s, p)
  \/ \E s \in Source : Close(s)
  \/ BeginIteration \/ BlockingIo \/ PendingIo \/ FailedIo
  \/ HandleDevice \/ HandleStdin \/ HandleFails
  \/ HandleEvent \/ EndPass

Spec == Init /\ [][Next]_vars

(* The clock goes on and the process is scheduled: only a pselect that     *)
(* waits for input may keep it where it is.  Every step of the loop        *)
(* changes pc, but for a handle_io behind which there are others to call;  *)
(* so the second conjunct is weak fairness of the loop, said in a form     *)
(* that TLC evaluates quickly.                                             *)
MayRun ==
  IF pc = "poll" THEN hasFuture \/ ReadyInOrder # << >>
  ELSE pc \notin {"hung", "astray"}
Runs ==
  /\ MayRun
  /\ pc' \in {"top", "poll", "handle", "scan", "io", "hung", "astray"} /\ pc' # pc
FairSpec == Spec /\ WF_now(Tick) /\ WF_pc(Runs)
=============================================================================
