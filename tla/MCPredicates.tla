---------------------------- MODULE MCPredicates ----------------------------
(***************************************************************************)
(* Three names and two events.  Definitions with every type, both flags,   *)
(* inner definitions, and arguments that may come before or after.  The    *)
(* first modify_predicate node switches predicate a by b and c, the second *)
(* one switches b by conditions it is itself one of.                       *)
(***************************************************************************)
EXTENDS Predicates

CONSTANTS a, b, c, e1, e2

MCName == {a, b, c}
MCEvent == {e1, e2}
Test(s, on, inv) == [type |-> "test", accepts |-> s, args |-> << >>,
                     enabled |-> on, inverted |-> inv]
Combined(t, s) == [type |-> t, accepts |-> {}, args |-> s,
                   enabled |-> TRUE, inverted |-> FALSE]
MCDefinition ==
  {Test({e1}, TRUE, FALSE), Test(MCEvent, FALSE, FALSE), Test({e1}, TRUE, TRUE),
   Combined("and", <<a, Inner>>), Combined("and", <<b, c>>),
   Combined("or", <<c, a>>), Combined("or", <<Inner, Inner>>),
   Combined("and", << >>)}
MCModifyNode ==
  {[target |-> a, enableOn |-> b, disableOn |-> c, invertOn |-> c, uninvertOn |-> NoName],
   [target |-> b, enableOn |-> c, disableOn |-> b, invertOn |-> b, uninvertOn |-> a]}
=============================================================================
