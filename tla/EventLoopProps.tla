--------------------------- MODULE EventLoopProps ---------------------------
(***************************************************************************)
(* What the main loop promises to every graph it runs.                     *)
(***************************************************************************)
EXTENDS EventLoop

Event == [pos : Node \union Channel \union {Null}, ttl : 1..InitialTTL,
          time : 0..MaxTime, code : Code, payload : Int64,
          src : Source, n : Nat \ {0}, id : Nat]

TypeOK ==
  /\ now \in 0..MaxTime /\ externTime \in 0..MaxTime
  /\ input \in [Source -> Seq([time : 0..MaxTime, payload : Payload])]
  /\ closed \in [Source -> BOOLEAN] /\ enabled \in [Source -> BOOLEAN]
  /\ pc \in {"top", "poll", "handle", "scan", "io", "hung", "astray"}
  /\ hasFuture \in BOOLEAN
  /\ ready \in Seq(Source) /\ (ready = << >>) = (pc # "handle")
  /\ \A s \in Source : read[s] \in 0..(MaxInputs[s] + 1)
  /\ failures \in 0..MaxFailures /\ lost \in [Both -> 0..MaxLost]
  /\ events \in Seq(Event)
  /\ waiting \in [Node -> BOOLEAN]
  /\ memory \in [ComputingNode -> Int64]
  /\ predicates \in [Predicate -> [enabled : BOOLEAN, inverted : BOOLEAN]]
  /\ buffer \in [WindowNode -> Seq(Event)]
  /\ members \in [WindowNode -> SUBSET Event]
  /\ skip \in [WindowNode -> Nat] /\ issued \in Nat
  /\ delivered \in Seq([sink : Node, src : Source, n : Nat \ {0},
                        time : 0..MaxTime, code : Code,
                        payload : Int64])

(* process_iteration never waits without a timeout while an event could be *)
(* handled: when the loop comes to pselect and has_future_events is not    *)
(* set, every event in the list is one no handler will ever be called for. *)
NeverSleepsOnWork ==
  pc \in {"top", "poll"} /\ ~hasFuture =>
    \A i \in DOMAIN events : ~Actionable(i)

(* The deliveries to sinks that an event causes, in a graph without        *)
(* windows whose predicates look at codes only and are not modified.       *)
(* YieldAt: an event with this code at node m, y being what one causes at  *)
(* the beginning of a channel.  Yield[t][code][c]: an event at the         *)
(* beginning of channel c with time to live t.                             *)
Total(s) == FoldLeft(+, 0, s)
Probe(pos, code) == [pos |-> pos, code |-> code, payload |-> 0]
CodeLeaving(m, code) ==
  IF Kind[m] = "assign" THEN Options[m].recode[code] ELSE code
YieldAt(m, code, y) ==
  LET outs == Outs(Probe(m, code), Preset)
      left == CodeLeaving(m, code)
  IN  IF Kind[m] = "sink" THEN 1
      ELSE IF m \in Source THEN 0
      ELSE Total([j \in DOMAIN outs |-> y[left][outs[j]]])
Yield[t \in 0..InitialTTL] ==
  [code \in Code |-> [c \in Channel |->
     IF t <= 1 \/ End[c] = Null THEN 0
     ELSE YieldAt(End[c], code, Yield[t - 1])]]

YieldOf(e) ==
  IF e.pos = Null THEN 0
  ELSE IF e.pos \in Channel THEN Yield[e.ttl][e.code][e.pos]
  ELSE YieldAt(e.pos, e.code, Yield[e.ttl])

(* How often the n-th input of s is in q, what has been delivered; and how *)
(* often it is to be delivered yet because of the events of q.             *)
Arrived(q, s, n) ==
  Total([i \in DOMAIN q |-> IF q[i].src = s /\ q[i].n = n THEN 1 ELSE 0])
Pending(q, s, n) ==
  Total([i \in DOMAIN q |->
           IF q[i].src = s /\ q[i].n = n THEN YieldOf(q[i]) ELSE 0])

(* What the n-th input of s was: the last of a getchar is the end of file. *)
CodeRead(s, n) ==
  IF Kind[s] = "getchar" /\ ~enabled[s] /\ n = read[s] THEN "eof" ELSE "data"

(* Every input is delivered exactly as often as the graph has paths for it *)
(* that are no longer than the time to live: no copy is lost, none is made *)
(* twice, wherever the input's copies are at the moment.                   *)
Conservation ==
  \A s \in Source : \A n \in 1..read[s] :
    Arrived(delivered, s, n) + Pending(events, s, n)
      = Pending(FromSource(s, n, CodeRead(s, n), 0, 0), s, n)

(* All copies of one input of a source reach their sinks before any copy   *)
(* of a later input of that source does, unless the later input has got an *)
(* earlier time stamp, which only the conversion of the time stamps of a   *)
(* device can bring about.                                                 *)
DeliveredInOrder ==
  \A i, j \in DOMAIN delivered :
    LET d == delivered[i]
        later == delivered[j]
    IN  i < j /\ d.src = later.src /\ d.n > later.n =>
          d.time < later.time /\ Kind[d.src] = "evdev"

(* An input that has arrived and is not yet everywhere it belongs.         *)
Underway(s, n) ==
  \/ n \in (read[s] + 1)..(read[s] + Len(input[s]))
  \/ \E i \in DOMAIN events :
       /\ events[i].src = s /\ events[i].n = n
       /\ Actionable(i)

(* Every input is read and all its copies end at a sink, at their time to  *)
(* live or where no channel goes on.                                       *)
EveryInputArrives ==
  \A s \in Source : \A n \in 1..MaxInputs[s] :
    Underway(s, n) ~> ~Underway(s, n)

(* Every iteration comes to an end, on a graph with cycles as well, unless *)
(* a window's handler goes astray.                                         *)
IterationsEnd == pc = "scan" ~> pc \in {"top", "astray"}

-----------------------------------------------------------------------------
(* Windows                                                                 *)

(* A window's buffer and buffered_set point to no event that has left the  *)
(* window's position, up to the moment at which the handler gives away an  *)
(* event that it keeps in its buffer; and that, or an event that is in the *)
(* buffer twice, comes of a failed event_set_add and of nothing else.      *)
BufferListed ==
  /\ \A w \in WindowNode :
       /\ \A e \in ToSet(buffer[w]) \union members[w] :
            e.pos = w /\ e \in ToSet(events)
       /\ lost["members"] = 0 => IsInjective(buffer[w])
  /\ lost["members"] = 0 => pc # "astray"

(* What came to a sink from a window.                                      *)
BehindWindow(k) ==
  \E w \in WindowNode : \E c \in ToSet(Outputs[w]) \ {Null} : End[c] = k
FromWindow == Those(delivered, LAMBDA d : BehindWindow(d.sink))

OnlyStdin == \A s \in Source : Kind[s] = "getchar"

(* A graph without cycles, fed by standard input, with one window, of      *)
(* which one connector leads to a sink of its own, through the channel     *)
(* g.exit.  g.depth says how far from the sources a position is.  What     *)
(* comes to the window is no "end" yet, and may live long enough to reach  *)
(* the sink.                                                               *)
LoneWindow(g) ==
  /\ OnlyStdin
  /\ WindowNode = {g.window} /\ ~LoopsForever(g.window)
  /\ g.exit \in Channel /\ End[g.exit] \in Node /\ Kind[End[g.exit]] = "sink"
  /\ \A b \in Channel \ {g.exit} : End[b] # End[g.exit]
  /\ \A n \in Node : \A j \in DOMAIN Outputs[n] :
       LET b == Outputs[n][j]
       IN  /\ b = g.exit => n = g.window
           /\ n = g.window /\ b \notin {g.exit, Null} /\ End[b] # Null => Kind[End[b]] # "sink"
           /\ b # Null => g.depth[n] <= g.depth[b]
  /\ \E j \in DOMAIN Outputs[g.window] :
       \A k \in DOMAIN Outputs[g.window] : Outputs[g.window][k] = g.exit <=> k = j
  /\ g.depth \in [Node \union Channel -> Nat]
  /\ \A b \in Channel : End[b] # Null => g.depth[b] < g.depth[End[b]]
  /\ g.depth[g.exit] + 1 < InitialTTL
  /\ \A n \in Node : \A code \in Code :
       Kind[n] = "assign" /\ g.depth[n] < g.depth[g.window]
         => Options[n].recode[code] # "end"

(* No terminator ends an empty window: in front of each one an event was   *)
(* sent, or sent again, after the terminator before it.                    *)
NoEmptyWindow ==
  LET sent == FromWindow
  IN  \A i \in DOMAIN sent :
        sent[i].code = "end" => i > 1 /\ sent[i - 1].code # "end"

Reported(s, n) ==
  \E d \in ToSet(delivered) : d.src = s /\ d.n = n /\ BehindWindow(d.sink)

(* A window passes on every event of its first window, also those that     *)
(* come while it waits with other events in its buffer, unless an          *)
(* allocation has failed.  (Once a window has ended an event may wait for  *)
(* the next one to come: what left the buffer is handled in its place.)    *)
FirstWindowPasses ==
  \A s \in Source : \A n \in 1..MaxInputs[s] :
    Underway(s, n) ~>
      \/ Reported(s, n)
      \/ \E x \in Both : lost[x] > 0
      \/ \E d \in ToSet(delivered) : d.code = "end"

(* "Option 'is_jumping' (optional): whether to send events at most once".  *)
(* Does not hold: what leaves the buffer stays in the event list at the    *)
(* window's position and is taken for a new event later.                   *)
SentAtMostOnce ==
  LET sent == FromWindow
  IN  \A i, j \in DOMAIN sent :
        /\ sent[i].src = sent[j].src /\ sent[i].n = sent[j].n
        /\ sent[i].code # "end" /\ sent[j].code # "end"
        => i = j
=============================================================================
