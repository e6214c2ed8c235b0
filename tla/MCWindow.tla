------------------------------ MODULE MCWindow ------------------------------
(***************************************************************************)
(* A jumping window between standard input and a sink:                     *)
(*                                                                         *)
(*   key --typed--> win --passed--> out                                    *)
(***************************************************************************)
EXTENDS EventLoopProps

CONSTANTS key, win, out, typed, passed

MCKind == [n \in Node |-> CASE n = key -> "getchar" [] n = win -> "window"
                              [] n = out -> "sink"]
MCOutputs == [n \in Node |-> CASE n = key -> <<typed>> [] n = win -> <<passed>>
                                 [] n = out -> << >>]
MCEnd == [c \in Channel |-> IF c = typed THEN win ELSE out]
MCCode == {"data", "eof", "end"}
MCNone == << >>
MCRegistered == <<key>>
MCMaxInputs == [s \in {key} |-> 3]
MCOptions ==
  [w \in {win} |-> [jumping |-> TRUE, additionalStep |-> 0, maxTime |-> Null,
                    maxLength |-> 2, terminator |-> TRUE]]
=============================================================================
