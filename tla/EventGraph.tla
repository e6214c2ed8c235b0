----------------------------- MODULE EventGraph -----------------------------
(***************************************************************************)
(* The graph that events travel through (graph.c) and what one call of a   *)
(* position's handle_event makes of the event it is given: the sequence of *)
(* events that takes its place in the event list.  Every handler modelled  *)
(* here replaces its event on the spot: event_replicate puts the copies    *)
(* right behind the event, and event_destroy takes out what is left over.  *)
(*                                                                         *)
(* An event is a record with                                               *)
(*   pos      where it is: a node, a channel, or Null                      *)
(*   ttl      its remaining time to live                                   *)
(*   time     its creation time                                            *)
(*   code     its namespace, major and minor code, taken together          *)
(*   payload  its payload                                                  *)
(*   src, n   the source node it came from and its number there; the       *)
(*            program does not keep these, properties tell events apart    *)
(*            by them                                                      *)
(*   id       what stands for its address while it is at a window, the     *)
(*            only place where addresses are kept and compared             *)
(***************************************************************************)
EXTENDS EventSeq, Arithmetic

CONSTANTS
  Node, Channel,
  Null,          \* a NULL channel or position, a handle of -1, no option
  Kind,          \* Kind[n]: which of src/nodes/*.c the node runs
  Outputs,       \* Outputs[n]: its output connectors, Null where none is set
  End,           \* End[c]: the node a channel leads to, Null when replaced
  Options,       \* Options[n]: a record of the options of a node
  Code,          \* the codes of events
  Predicate,     \* the registered predicates
  Preset,        \* Preset[p]: enabled and inverted as configured
  Accepts,       \* Accepts[p]: the <<code, payload>> pairs p itself accepts
  Guard          \* Guard[n]: the predicates of a router, by connector

Kinds == {"getchar", "evdev", "forward", "router", "window", "assign",
          "differentiate", "integrate", "scale", "modify_predicate", "sink"}

ASSUME GraphAssumption ==
  /\ Node \intersect Channel = {} /\ Null \notin Node \union Channel
  /\ Null \notin Predicate
  /\ Kind \in [Node -> Kinds]
  /\ Outputs \in [Node -> Seq(Channel \union {Null})]
  /\ End \in [Channel -> Node \union {Null}]
  /\ Preset \in [Predicate -> [enabled : BOOLEAN, inverted : BOOLEAN]]
  /\ \A p \in Predicate : \A a \in Accepts[p] : a[1] \in Code /\ a[2] \in Int64
  /\ \A n \in Node :
       Kind[n] = "router" => Guard[n] \in Seq(Predicate \union {Null})

(* Numbers in a configuration are int64_t, and a modify_predicate node is  *)
(* not created without its target.                                         *)
ASSUME OptionsAssumption ==
  \A n \in Node :
    /\ Kind[n] \in {"differentiate", "integrate"} => Options[n].initial \in Int64
    /\ Kind[n] = "scale" =>
         /\ Options[n].numerator \in Int64 /\ Options[n].denominator \in Int64
         /\ Options[n].center \in Int64 /\ Options[n].amortize \in BOOLEAN
    /\ Kind[n] = "assign" =>
         /\ Options[n].recode \in [Code -> Code]
         /\ Options[n].payload \in Int64 \union {Null}
    /\ Kind[n] = "modify_predicate" => Options[n].target \in Predicate

Source == {n \in Node : Kind[n] \in {"getchar", "evdev"}}

(* The positions that have a handle_event.  A source has none.             *)
HasHandler(p) ==
  p \in Channel \/ (p \in Node /\ Kind[p] \notin {"getchar", "evdev"})

(* event_predicate_apply returns EVPREDRES_ACCEPTED; state holds what      *)
(* modify_predicate nodes have made of the predicates.                     *)
Holds(p, e, state) ==
  /\ p # Null
  /\ state[p].enabled
  /\ (<<e.code, e.payload>> \in Accepts[p]) # state[p].inverted

(* The channels that get a copy of an event at a node, in the order in     *)
(* which the copies come to stand in the list.  A copy for a connector     *)
(* without a channel is destroyed at once.                                 *)
Outs(e, state) ==
  LET n == e.pos
      Taken(k) == /\ Outputs[n][k] # Null
                  /\ Kind[n] = "router" =>
                       k \in DOMAIN Guard[n] /\ Holds(Guard[n][k], e, state)
      taken == Those([k \in DOMAIN Outputs[n] |-> k], Taken)
  IN  [j \in DOMAIN taken |-> Outputs[n][taken[j]]]

(* channel_handle_event                                                    *)
PassedAtZero(e) ==
  IF e.ttl = 0 \/ End[e.pos] = Null THEN << >>
  ELSE << [e EXCEPT !.pos = End[e.pos], !.ttl = e.ttl - 1] >>
Passed(e) ==
  IF e.ttl <= 1 \/ End[e.pos] = Null THEN << >>
  ELSE << [e EXCEPT !.pos = End[e.pos], !.ttl = e.ttl - 1] >>

(* graph_node_broadcast_forward_event, and the router's loop               *)
CopiesShort(e, state) ==
  LET outs == Outs(e, state)
  IN  [j \in 1..(IF Len(outs) > 1 THEN Len(outs) - 1 ELSE Len(outs))
         |-> [e EXCEPT !.pos = outs[j]]]
Copies(e, state) ==
  LET outs == Outs(e, state)
  IN  [j \in DOMAIN outs |-> [e EXCEPT !.pos = outs[j]]]

(* What assign does: the codes it is given replace codes of the event,     *)
(* recode says how, and the payload likewise.                              *)
Assigned(e) ==
  [e EXCEPT !.code = Options[e.pos].recode[e.code],
            !.payload = IF Options[e.pos].payload = Null THEN e.payload
                        ELSE Options[e.pos].payload]

(* What the nodes that compute make of a payload; m is what the node       *)
(* remembers.                                                              *)
ComputingNode == {n \in Node : Kind[n] \in {"differentiate", "integrate", "scale"}}
Computed(e, m) ==
  CASE Kind[e.pos] = "differentiate" -> Differentiated(m, e.payload)
    [] Kind[e.pos] = "integrate"     -> Integrated(m, e.payload)
    [] Kind[e.pos] = "scale"         -> Scaled(Options[e.pos], m, e.payload)

(* The state a computing node begins with: the option "initial", and no    *)
(* defect.                                                                 *)
Remembered(n) == IF Kind[n] = "scale" THEN 0 ELSE Options[n].initial

(* modify_predicate: the state of the target says which of its conditions  *)
(* are looked at, before anything is changed.                              *)
SwitchedByOne(e, state) ==
  LET o == Options[e.pos]
      t == state[o.target]
  IN  [state EXCEPT ![o.target] =
         [enabled |-> t.enabled \/ Holds(o.enableOn, e, state),
          inverted |-> t.inverted \/ Holds(o.invertOn, e, state)]]
Switched(e, state) ==
  LET o == Options[e.pos]
      t == state[o.target]
  IN  [state EXCEPT ![o.target] =
         [enabled |-> IF t.enabled THEN ~Holds(o.disableOn, e, state)
                      ELSE Holds(o.enableOn, e, state),
          inverted |-> IF t.inverted THEN ~Holds(o.uninvertOn, e, state)
                       ELSE Holds(o.invertOn, e, state)]]

(* The event list when r has taken the place of its i-th event.            *)
Replaced(s, i, r) == SubSeq(s, 1, i - 1) \o r \o SubSeq(s, i + 1, Len(s))
=============================================================================
