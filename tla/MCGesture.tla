----------------------------- MODULE MCGesture -----------------------------
(***************************************************************************)
(* A tap recogniser like example_configs/quadtap-both-click.cfg, in small. *)
(* A window over the taps switches a predicate, which guards the way to    *)
(* the sink out; on that way the payload is summed up, the sum is taken    *)
(* apart again, and halved without losing the remainder.                   *)
(*                                                                         *)
(*   key --> split --> plain                                               *)
(*            | \----> win --> toggle                                      *)
(*            |          \---> log                                         *)
(*            \----> total --> delta --> half --> meter                    *)
(*                                         \----> gate --> mark --> out    *)
(***************************************************************************)
EXTENDS SerialLoop

CONSTANTS key, split, plain, win, toggle, log, total, delta, half, meter, gate,
          mark, out,
          toSplit, toPlain, toWin, toTotal, toToggle, toLog, toDelta, toHalf,
          toMeter, toGate, toMark, toOut

MCKind ==
  [n \in Node |-> CASE n = key -> "getchar" [] n = split -> "forward"
                      [] n = win -> "window" [] n = toggle -> "modify_predicate"
                      [] n = total -> "integrate" [] n = delta -> "differentiate"
                      [] n = half -> "scale" [] n = gate -> "router"
                      [] n = mark -> "assign"
                      [] n \in {plain, log, meter, out} -> "sink"]
MCOutputs ==
  [n \in Node |-> CASE n = key -> <<toSplit>> [] n = split -> <<toPlain, toWin, toTotal>>
                    [] n = win -> <<toToggle, toLog>> [] n = total -> <<toDelta>>
                    [] n = delta -> <<toHalf>> [] n = half -> <<toMeter, toGate>>
                    [] n = gate -> <<toMark>> [] n = mark -> <<toOut>>
                    [] OTHER -> << >>]
MCEnd ==
  [c \in Channel |->
     CASE c = toSplit -> split [] c = toPlain -> plain [] c = toWin -> win
       [] c = toTotal -> total [] c = toToggle -> toggle [] c = toLog -> log
       [] c = toDelta -> delta [] c = toHalf -> half [] c = toMeter -> meter
       [] c = toGate -> gate [] c = toMark -> mark [] c = toOut -> out]
MCCode == {"data", "eof", "end", "marked"}
MCPayload == {0, 1}
MCPredicate == {"held", "pressed", "over"}
MCPreset ==
  [p \in MCPredicate |-> [enabled |-> p # "held", inverted |-> FALSE]]
MCAccepts ==
  [p \in MCPredicate |-> CASE p = "held" -> {<<"data", 1>>, <<"data", 0>>}
                           [] p = "pressed" -> {<<"data", 1>>}
                           [] p = "over" -> {<<"end", 0>>, <<"eof", 0>>}]
MCGuard == [n \in {gate} |-> <<"held">>]
MCOptions ==
  [n \in {win, toggle, total, delta, half, mark} |->
     CASE n = win -> [jumping |-> FALSE, additionalStep |-> 1, maxTime |-> 0,
                      maxLength |-> 3, terminator |-> TRUE]
       [] n = toggle -> [target |-> "held", enableOn |-> "pressed",
                         disableOn |-> "over", invertOn |-> Null,
                         uninvertOn |-> Null]
       [] n \in {total, delta} -> [initial |-> Half - 1]
       [] n = half -> [numerator |-> 1, denominator |-> 2, center |-> 0,
                       amortize |-> TRUE]
       [] n = mark -> [recode |-> [c \in MCCode |-> "marked"], payload |-> Null]]
MCRegistered == <<key>>
MCMaxInputs == [s \in {key} |-> 3]

(* How far from key everything is: the graph is one that NoWindowIsEmpty   *)
(* of EventLoopProofs is about.                                            *)
MCDepth ==
  [p \in Node \union Channel |->
     CASE p \in {key, toSplit} -> 0
       [] p \in {split, toPlain, toWin, toTotal} -> 1
       [] p \in {plain, win, total, toToggle, toLog, toDelta} -> 2
       [] p \in {toggle, log, delta, toHalf} -> 3
       [] p \in {half, toMeter, toGate} -> 4
       [] p \in {meter, gate, toMark} -> 5
       [] p \in {mark, toOut} -> 6
       [] p = out -> 7]
ASSUME IsLoneWindow ==
  LoneWindow([window |-> win, exit |-> toLog, depth |-> MCDepth])

(* Halving with the remainder kept: at every moment the halves that have   *)
(* been sent differ by less than one from half of what was put in, however *)
(* the sum in between has wrapped around.                                  *)
NeverDrifts ==
  LET At(k) == SelectSeq(delivered, LAMBDA d : d.sink = k)
      halves == At(meter)
      whole == At(plain)
      Sum(s, j) == FoldLeft(LAMBDA x, d : x + d.payload, 0, SubSeq(s, 1, j))
  IN  \A j \in DOMAIN halves : Magnitude(2 * Sum(halves, j) - Sum(whole, j)) < 2

(* The predicate that guards out follows what the window sends: a value    *)
(* that passes the meter gets to out if and only if it is of an input, and *)
(* the last press or end that the log has of the window by then is a press *)
(* (the copies for toggle are handled in front of those for the log).      *)
GuardFollowsWindow ==
  LET Switches(d) ==
        d.sink = log /\ (d.code \in {"end", "eof"} \/ d.payload = 1)
      Held(i) ==
        LET j == SelectLastInSubSeq(delivered, 1, i, Switches)
        IN  j # 0 /\ delivered[j].code = "data"
      Before(p) == p \in {toGate, gate, toMark, mark, toOut, out}
  IN  \A i \in DOMAIN delivered : delivered[i].sink = meter =>
        LET n == delivered[i].n
            reached == \E d \in ToSet(delivered) : d.sink = out /\ d.n = n
            passes == delivered[i].code = "data" /\ Held(i)
        IN  /\ reached => passes
            /\ passes => \/ reached
                          \/ \E e \in ToSet(events) : e.n = n /\ Before(e.pos)
=============================================================================
