----------------------------- MODULE MCWindows -----------------------------
(***************************************************************************)
(* Two windows, one behind the other, and copies of one input that the     *)
(* windows can tell apart by nothing but their addresses: both connectors  *)
(* of key lead to the first window.                                        *)
(*                                                                         *)
(*   key --upper---> first --between--> second                             *)
(*     \---lower---/                                                       *)
(***************************************************************************)
EXTENDS EventLoopProps

CONSTANTS key, first, second, upper, lower, between

MCKind == [n \in Node |-> IF n = key THEN "getchar" ELSE "window"]
MCOutputs == [n \in Node |-> CASE n = key -> <<upper, lower>> [] n = first -> <<between>>
                                 [] n = second -> << >>]
MCEnd == [c \in Channel |-> IF c = between THEN second ELSE first]
MCCode == {"data", "eof", "end"}
MCNone == << >>
MCRegistered == <<key>>
MCMaxInputs == [s \in {key} |-> 3]
(* The first window ends by its length and sends terminators, the second   *)
(* ends by time and by its length, and only takes in.                      *)
MCOptions ==
  [w \in {first, second} |->
     [jumping |-> FALSE, additionalStep |-> 0,
      maxTime |-> IF w = first THEN Null ELSE 0,
      maxLength |-> IF w = first THEN 3 ELSE 4,
      terminator |-> w = first]]
=============================================================================
