---------------------------- MODULE MCEventLoop ----------------------------
(***************************************************************************)
(* A small graph with everything in it that the handlers tell apart:       *)
(*                                                                         *)
(*   key --typed--> tee --direct--> out     out is reached on two ways,    *)
(*                   |  \ -- (no channel)   one connector of tee is not    *)
(*   dev --moved--> tee  \--choice--> route set, route sends data to out   *)
(*                   ^         |  |  \-nowhere and end of file back to tee *)
(*                   +---back--+  +--rest--> out    and to no node at all  *)
(***************************************************************************)
EXTENDS EventLoopProps

CONSTANTS key, dev, tee, route, out,
          typed, moved, direct, choice, rest, back, nowhere

MCKind ==
  [n \in Node |-> CASE n = key -> "getchar" [] n = dev -> "evdev"
                      [] n = tee -> "forward" [] n = route -> "router"
                      [] n = out -> "sink"]
MCOutputs ==
  [n \in Node |-> CASE n = key -> <<typed>> [] n = dev -> <<moved>>
                      [] n = tee -> <<direct, Null, choice>>
                      [] n = route -> <<rest, back, nowhere>>
                      [] n = out -> << >>]
MCEnd ==
  [h \in Channel |-> CASE h \in {typed, moved, back} -> tee
                         [] h \in {direct, rest} -> out
                         [] h = choice -> route [] h = nowhere -> Null]
MCCode == {"data", "eof"}
(* The predicates of route: one that accepts data, one that accepts the    *)
(* end of file by rejecting data, and one that is disabled.                *)
MCPredicate == {"data", "other", "never"}
MCPreset ==
  [p \in MCPredicate |-> [enabled |-> p # "never", inverted |-> p = "other"]]
MCAccepts == [p \in MCPredicate |-> {"data"} \X Int64]
MCGuard == [n \in Node |-> <<"data", "other", "other", "never">>]
MCOptions == << >>
MCPayload == {0}
MCRegistered == <<key, dev>>
MCMaxInputs == [s \in {key, dev} |-> IF s = key THEN 1 ELSE 2]
=============================================================================
