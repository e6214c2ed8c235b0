----------------------------- MODULE Predicates -----------------------------
(***************************************************************************)
(* Event predicates: the definitions of a configuration are loaded one     *)
(* after the other (config.c), predicates name each other by handles into  *)
(* one growing list (event_predicate.c), and modify_predicate nodes change *)
(* the flags of a predicate while events are processed.                    *)
(*                                                                         *)
(* A definition is a record with                                           *)
(*   type      "test" (accept, a range or a modifier), "and" or "or"       *)
(*   accepts   the events a test accepts                                   *)
(*   args      the arguments of an "and" or "or": names, or Inner where    *)
(*             the configuration has a definition in place of a name       *)
(*   enabled, inverted                                                     *)
(***************************************************************************)
EXTENDS Integers, FiniteSets, Sequences

CONSTANTS
  Name,            \* the names in the predicates section
  Inner, NoName,   \* a definition in place of a name; an option not given
  Event,
  Definition,      \* the definitions a configuration may contain
  ModifyNode,      \* modify_predicate nodes: target, enableOn, disableOn,
                   \* invertOn and uninvertOn
  MaxPredicates    \* bound on the list, INT32_MAX in the code

ASSUME PredicateAssumption ==
  /\ Inner \notin Name /\ NoName \notin Name
  /\ MaxPredicates \in Nat
  /\ \A d \in Definition :
       /\ d = [type |-> d.type, accepts |-> d.accepts, args |-> d.args,
               enabled |-> d.enabled, inverted |-> d.inverted]
       /\ d.type \in {"test", "and", "or"} /\ d.accepts \subseteq Event
       /\ d.args \in Seq(Name \union {Inner})
       /\ d.enabled \in BOOLEAN /\ d.inverted \in BOOLEAN
  /\ \A m \in ModifyNode :
       /\ m.target \in Name
       /\ {m.enableOn, m.disableOn, m.invertOn, m.uninvertOn}
            \subseteq Name \union {NoName}

VARIABLES
  predicates,   \* by handle: a definition with its handles (of its args)
  names,        \* the registry of handles by name, None when not in it
  met,          \* the names of the section that have been loaded
  inner,        \* handles of the inner definitions whose outer one is not
                \* yet complete, in the order of the text
  phase         \* "load", "run", or "exit" when a node cannot be created

vars == <<predicates, names, met, inner, phase>>

None == -1
Length == Cardinality(DOMAIN predicates)

Init ==
  /\ predicates = [h \in {} |-> None]
  /\ names = [n \in Name |-> None]
  /\ met = {}
  /\ inner = << >>
  /\ phase = "load"

-----------------------------------------------------------------------------
(* Loading                                                                 *)

(* How many of the first k arguments are inner definitions.                *)
InnerArgs(d, k) == Cardinality({i \in 1..k : d.args[i] = Inner})
AllInner(d) == InnerArgs(d, Len(d.args))

(* resolve_event_predicate for each argument, before the predicate itself  *)
(* is registered: inner definitions have been registered just before, and  *)
(* a name that is not yet in the registry resolves to -1.                  *)
HandlesOwn(d) ==
  [i \in 1..Len(d.args) |->
     IF d.args[i] = Inner
     THEN inner[Len(inner) - AllInner(d) + InnerArgs(d, i)]
     ELSE IF names[d.args[i]] = None THEN Length ELSE names[d.args[i]]]
Handles(d) ==
  [i \in 1..Len(d.args) |->
     IF d.args[i] = Inner
     THEN inner[Len(inner) - AllInner(d) + InnerArgs(d, i)]
     ELSE names[d.args[i]]]

(* event_predicate_register                                                *)
RegisteredAtLast(d) ==
  LET i == IF Length > 1 THEN Length - 1 ELSE Length
  IN  [h \in DOMAIN predicates \union {i} |->
         IF h = i
         THEN [type |-> d.type, accepts |-> d.accepts, args |-> d.args,
               handles |-> Handles(d),
               enabled |-> d.enabled, inverted |-> d.inverted]
         ELSE predicates[h]]
Registered(d) ==
  [h \in DOMAIN predicates \union {Length} |->
     IF h = Length
     THEN [type |-> d.type, accepts |-> d.accepts, args |-> d.args,
           handles |-> Handles(d),
           enabled |-> d.enabled, inverted |-> d.inverted]
     ELSE predicates[h]]

(* load_single_predicate for a definition among the arguments of another.  *)
LoadInner(d) ==
  /\ phase = "load" /\ Length < MaxPredicates
  /\ AllInner(d) <= Len(inner)
  /\ predicates' = Registered(d)
  /\ inner' = Append(SubSeq(inner, 1, Len(inner) - AllInner(d)), Length)
  /\ UNCHANGED <<names, met, phase>>

(* A definition of the section, with all its inner definitions.            *)
LoadNamed(n, d) ==
  /\ phase = "load" /\ Length < MaxPredicates
  /\ n \notin met /\ AllInner(d) = Len(inner)
  /\ predicates' = Registered(d)
  /\ names' = [names EXCEPT ![n] = Length]
  /\ met' = met \union {n}
  /\ inner' = << >>
  /\ UNCHANGED phase

(* A name in place of a definition; a definition without a valid type is   *)
(* like a name that is not in the registry.                                *)
LoadAlias(n, other) ==
  /\ phase = "load"
  /\ n \notin met /\ inner = << >>
  /\ names' = [names EXCEPT ![n] = names[other]]
  /\ met' = met \union {n}
  /\ UNCHANGED <<predicates, inner, phase>>

(* The nodes are created when the whole section has been loaded; one whose *)
(* target is not a predicate ends the program.                             *)
CreateNodes ==
  /\ phase = "load" /\ inner = << >>
  /\ phase' = IF \A m \in ModifyNode : names[m.target] # None
              THEN "run" ELSE "exit"
  /\ UNCHANGED <<predicates, names, met, inner>>

-----------------------------------------------------------------------------
(* event_predicate_apply of every predicate in p to event e.  A predicate  *)
(* that is disabled, and handle -1, have no part in an "and" or "or" that  *)
(* names them; one without arguments is itself as good as disabled.        *)
Results(p, e) ==
  LET r[h \in DOMAIN p] ==
        LET q == p[h]
            seen == {r[g] : g \in {q.handles[i] : i \in DOMAIN q.handles} \ {None}}
            accepted == CASE q.type = "test" -> e \in q.accepts
                          [] q.type = "and" -> "rejected" \notin seen
                          [] q.type = "or" -> "accepted" \in seen
        IN  IF ~q.enabled \/ (q.type # "test" /\ q.handles = << >>)
              THEN "disabled"
            ELSE IF accepted # q.inverted THEN "accepted" ELSE "rejected"
  IN  r

HandleOf(n) == IF n \in Name THEN names[n] ELSE None
Satisfies(p, e, n) ==
  HandleOf(n) \in DOMAIN p /\ Results(p, e)[HandleOf(n)] = "accepted"

(* handle_event of a modify_predicate node: both flags are decided before  *)
(* either is set.                                                          *)
Enabled(p, m, e) ==
  IF p[names[m.target]].enabled THEN ~Satisfies(p, e, m.disableOn)
  ELSE Satisfies(p, e, m.enableOn)
Inverted(p, m, e) ==
  IF p[names[m.target]].inverted THEN ~Satisfies(p, e, m.uninvertOn)
  ELSE Satisfies(p, e, m.invertOn)

ModifiedInTurn(p, m, e) ==
  LET q == [p EXCEPT ![names[m.target]].enabled = Enabled(p, m, e)]
  IN  [q EXCEPT ![names[m.target]].inverted = Inverted(q, m, e)]
Modified(p, m, e) ==
  [p EXCEPT ![names[m.target]] =
     [@ EXCEPT !.enabled = Enabled(p, m, e), !.inverted = Inverted(p, m, e)]]

Modify(m, e) ==
  /\ phase = "run"
  /\ predicates' = Modified(predicates, m, e)
  /\ UNCHANGED <<names, met, inner, phase>>

Next ==
  \/ \E d \in Definition : LoadInner(d)
  \/ \E n \in Name, d \in Definition : LoadNamed(n, d)
  \/ \E n, other \in Name : LoadAlias(n, other)
  \/ CreateNodes
  \/ \E m \in ModifyNode, e \in Event : Modify(m, e)

Spec == Init /\ [][Next]_vars

-----------------------------------------------------------------------------
Predicate ==
  [type : {"test", "and", "or"}, accepts : SUBSET Event,
   args : Seq(Name \union {Inner}),
   handles : Seq((0..MaxPredicates) \union {None}),
   enabled : BOOLEAN, inverted : BOOLEAN]

TypeOK ==
  /\ Length \in 0..MaxPredicates
  /\ predicates \in [0..(Length - 1) -> Predicate]
  /\ names \in [Name -> (0..(Length - 1)) \union {None}]
  /\ met \subseteq Name
  /\ inner \in Seq(0..(Length - 1))
  /\ phase \in {"load", "run", "exit"}

(* A predicate names only predicates that were registered before it, so    *)
(* event_predicate_apply ("TODO protect from stack overflow") ends, at a   *)
(* depth that the number of predicates bounds.                             *)
RefersBack ==
  \A h \in DOMAIN predicates : \A i \in DOMAIN predicates[h].handles :
    predicates[h].handles[i] < h

(* A handle means the same predicate for ever: what it tests or combines   *)
(* never changes, and its flags change only while events are processed.    *)
HandlesStay ==
  [][\A h \in DOMAIN predicates :
       /\ h \in DOMAIN predicates'
       /\ LET p == predicates[h]
              q == predicates'[h]
          IN  /\ q.type = p.type /\ q.accepts = p.accepts
              /\ q.handles = p.handles
              /\ phase = "load" => q = p]_vars

(* A flag does what the options of modify_predicate say it does, judged by *)
(* the state before the event: which of the flags is decided first makes   *)
(* no difference, also when the target takes part in its own conditions.   *)
(* No other predicate is changed.                                          *)
Follows(now, next, on, off) ==
  /\ on /\ ~off => next
  /\ off /\ ~on => ~next
  /\ ~on /\ ~off => next = now
ModifiesAsDocumented ==
  [][\A m \in ModifyNode, e \in Event : Modify(m, e) =>
       LET t == names[m.target]
           Sat(n) == Satisfies(predicates, e, n)
       IN  /\ Follows(predicates[t].enabled, predicates'[t].enabled,
                      Sat(m.enableOn), Sat(m.disableOn))
           /\ Follows(predicates[t].inverted, predicates'[t].inverted,
                      Sat(m.invertOn), Sat(m.uninvertOn))
           /\ \A h \in DOMAIN predicates \ {t} : predicates'[h] = predicates[h]]_vars

(* README: "accepts the event if all the predicates in the `args`          *)
(* predicate field accept the event, disabled predicated are skipped".     *)
(* Does not hold: a predicate that the section defines later is not        *)
(* consulted.                                                              *)
AllArgsAccept ==
  phase = "run" =>
    \A h \in DOMAIN predicates, e \in Event :
      LET p == predicates[h]
      IN  /\ p.type = "and" /\ p.enabled /\ ~p.inverted
          /\ Results(predicates, e)[h] = "accepted"
          => \A i \in DOMAIN p.args :
               p.args[i] \in Name /\ names[p.args[i]] # None =>
                 Results(predicates, e)[names[p.args[i]]] # "rejected"
=============================================================================
