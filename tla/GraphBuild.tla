----------------------------- MODULE GraphBuild -----------------------------
(***************************************************************************)
(* How main.c connects the nodes of the configuration by channels          *)
(* (graph.c): the lists of connectors grow on demand, and a channel that   *)
(* takes a connector in use detaches the channel that was there.  The      *)
(* graph stays as it is once the main loop runs; module EventGraph takes   *)
(* it as a constant.                                                       *)
(***************************************************************************)
EXTENDS Integers

CONSTANTS
  Node, Channel,
  Null,           \* NULL
  MaxConnector    \* bound on the indices a configuration uses

ASSUME BuildAssumption ==
  /\ Null \notin Node \union Channel
  /\ MaxConnector \in Nat

VARIABLES
  made,                \* the channels that have been initialised
  outputs, inputs,     \* the connectors of each node: functions on 0..n-1
  start, end,          \* the nodes a channel connects, Null when detached
  idxStart, idxEnd     \* the connectors it connects

vars == <<made, outputs, inputs, start, end, idxStart, idxEnd>>

Connector == 0..MaxConnector

Init ==
  /\ made = {}
  /\ outputs = [n \in Node |-> [i \in {} |-> Null]]
  /\ inputs = [n \in Node |-> [i \in {} |-> Null]]
  /\ start = [c \in Channel |-> Null]
  /\ end = [c \in Channel |-> Null]
  /\ idxStart = [c \in Channel |-> 0]
  /\ idxEnd = [c \in Channel |-> 0]

(* graph_channel_list_ensure fills up with NULL, then the connector is     *)
(* set.                                                                    *)
WithOneMore(list, i, c) ==
  [j \in DOMAIN list \union 0..(i + 1) |->
     IF j = i THEN c ELSE IF j \in DOMAIN list THEN list[j] ELSE Null]
With(list, i, c) ==
  [j \in DOMAIN list \union 0..i |->
     IF j = i THEN c ELSE IF j \in DOMAIN list THEN list[j] ELSE Null]

(* The channels that leave connector i when it is set, if they still say   *)
(* that they are connected there.                                          *)
LeavingNone(list, ends, idx, n, i) == {}
LeavingWhole(list, ends, idx, n, i) == {c \in Channel : ends[c] = n}
Leaving(list, ends, idx, n, i) ==
  {c \in Channel : i \in DOMAIN list /\ list[i] = c /\ ends[c] = n /\ idx[c] = i}

(* graph_channel_init                                                      *)
Connect(ch, s, i, e, j) ==
  /\ ch \notin made
  /\ made' = made \union {ch}
  /\ outputs' = [outputs EXCEPT ![s] = With(@, i, ch)]
  /\ inputs' = [inputs EXCEPT ![e] = With(@, j, ch)]
  /\ start' = [c \in Channel |->
                 IF c = ch THEN s
                 ELSE IF c \in Leaving(outputs[s], start, idxStart, s, i) THEN Null
                 ELSE start[c]]
  /\ end' = [c \in Channel |->
               IF c = ch THEN e
               ELSE IF c \in Leaving(inputs[e], end, idxEnd, e, j) THEN Null
               ELSE end[c]]
  /\ idxStart' = [idxStart EXCEPT ![ch] = i]
  /\ idxEnd' = [idxEnd EXCEPT ![ch] = j]

Next == \E ch \in Channel, s, e \in Node, i, j \in Connector : Connect(ch, s, i, e, j)

Spec == Init /\ [][Next]_vars

-----------------------------------------------------------------------------
TypeOK ==
  /\ made \subseteq Channel
  /\ \A n \in Node :
       /\ outputs[n] \in [DOMAIN outputs[n] -> made \union {Null}]
       /\ inputs[n] \in [DOMAIN inputs[n] -> made \union {Null}]
       /\ DOMAIN outputs[n] \subseteq Connector
       /\ DOMAIN inputs[n] \subseteq Connector
  /\ outputs = [n \in Node |-> outputs[n]] /\ inputs = [n \in Node |-> inputs[n]]
  /\ start \in [Channel -> Node \union {Null}]
  /\ end \in [Channel -> Node \union {Null}]
  /\ idxStart \in [Channel -> Connector] /\ idxEnd \in [Channel -> Connector]

(* What a channel says of one of its ends and what the connectors of the   *)
(* nodes say of the channels agree.                                        *)
Agree(lists, ends, idx) ==
  /\ \A c \in Channel : ends[c] # Null =>
       idx[c] \in DOMAIN lists[ends[c]] /\ lists[ends[c]][idx[c]] = c
  /\ \A n \in Node : \A i \in DOMAIN lists[n] : lists[n][i] # Null =>
       ends[lists[n][i]] = n /\ idx[lists[n][i]] = i

(* A channel is at a connector exactly when the connector is at the        *)
(* channel, so a connector has one connection, as src/README.md says, and  *)
(* a channel that has lost it says so.                                     *)
Connected == Agree(outputs, start, idxStart) /\ Agree(inputs, end, idxEnd)

(* Connecting a channel detaches no end of another channel but the one     *)
(* that was at the same connector.                                         *)
OthersStay ==
  [][\A ch \in made' \ made : \A c \in made :
       /\ start'[c] # start[c] =>
            /\ start'[c] = Null
            /\ start[c] = start'[ch] /\ idxStart[c] = idxStart'[ch]
       /\ end'[c] # end[c] =>
            /\ end'[c] = Null
            /\ end[c] = end'[ch] /\ idxEnd[c] = idxEnd'[ch]]_vars
=============================================================================
