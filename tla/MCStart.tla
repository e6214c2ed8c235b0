------------------------------ MODULE MCStart ------------------------------
(***************************************************************************)
(* Configurations of a few items: a constant x and members E.x and E.y of  *)
(* an enum, which settings refer to, as they do to the code EV_KEY and to  *)
(* a name that nothing defines; and two nodes, which may both be named a.  *)
(***************************************************************************)
EXTENDS Start

MCCode == {[enum |-> "event_type", prefix |-> "EV", name |-> "KEY", value |-> 1]}
MCConstantName == {<<"x">>, <<"E", "y">>}
MCSetting ==
  LET A(form, n, c) == [form |-> form, number |-> n, string |-> c]
  IN  {A("number", 1, << >>), A("string", 0, <<"x">>), A("string", 0, <<"E", "y">>)}
MCKeys == {<<"from", "to">>, <<"to", "from">>}
=============================================================================
