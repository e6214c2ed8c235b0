-------------------------- MODULE PredicateProofs --------------------------
(***************************************************************************)
(* Handles: where they point, and that they keep their meaning, for every  *)
(* set of definitions and every order in which they are loaded.            *)
(*                                                                         *)
(* Length is the cardinality of the domain of predicates.  That it is the  *)
(* next handle rests on the domain being 0..n-1; Numbered(n) says so and   *)
(* is part of the invariant, with everything that holds a handle below n.  *)
(***************************************************************************)
EXTENDS Predicates, FiniteSetTheorems, TLAPS

Numbered(n) ==
  /\ n \in 0..MaxPredicates
  /\ predicates \in [0..(n - 1) -> Predicate]
  /\ names \in [Name -> (0..(n - 1)) \union {None}]
  /\ inner \in Seq(0..(n - 1))

IInv ==
  /\ \E n \in Nat : Numbered(n)
  /\ met \subseteq Name
  /\ phase \in {"load", "run", "exit"}
  /\ RefersBack

LEMMA LengthIs ==
  ASSUME NEW n \in Nat, DOMAIN predicates = 0..(n - 1)
  PROVE  Length = n
<1>1. Cardinality(0..(n - 1)) = IF 0 > n - 1 THEN 0 ELSE (n - 1) - 0 + 1
  BY FS_Interval
<1> QED BY <1>1 DEF Length

(* The number of inner arguments among the first k is at most k and does   *)
(* not decrease.                                                           *)
LEMMA InnerArgsBounds ==
  ASSUME NEW d \in Definition, NEW i \in 1..Len(d.args), d.args[i] = Inner
  PROVE  /\ InnerArgs(d, i) \in 1..AllInner(d)
         /\ AllInner(d) \in Nat
<1> DEFINE S(k) == {j \in 1..k : d.args[j] = Inner}
<1>1. Len(d.args) \in Nat
  BY PredicateAssumption
<1>2. IsFiniteSet(1..Len(d.args)) /\ IsFiniteSet(1..i)
  BY <1>1, FS_Interval
<1>3. IsFiniteSet(S(Len(d.args))) /\ IsFiniteSet(S(i))
  BY <1>2, FS_Subset
<1>4. S(i) \subseteq S(Len(d.args)) /\ i \in S(i)
  BY <1>1
<1>5. Cardinality(S(i)) <= Cardinality(S(Len(d.args)))
  BY <1>3, <1>4, FS_Subset
<1>6. Cardinality(S(i)) \in Nat /\ Cardinality(S(Len(d.args))) \in Nat
  BY <1>3, FS_CardinalityType
<1>7. Cardinality(S(i)) # 0
  BY <1>3, <1>4, FS_EmptySet
<1> QED BY <1>5, <1>6, <1>7 DEF InnerArgs, AllInner

(* All handles of a definition are below the one it gets.                  *)
LEMMA HandlesBelow ==
  ASSUME NEW n \in Nat, Numbered(n), NEW d \in Definition,
         AllInner(d) <= Len(inner)
  PROVE  /\ Handles(d) \in Seq((0..(n - 1)) \union {None})
         /\ DOMAIN Handles(d) = 1..Len(d.args)
         /\ \A i \in DOMAIN Handles(d) : Handles(d)[i] < n
<1>1. Len(d.args) \in Nat /\ \A i \in 1..Len(d.args) : d.args[i] \in Name \union {Inner}
  BY PredicateAssumption
<1>2. ASSUME NEW i \in 1..Len(d.args)
      PROVE  Handles(d)[i] \in (0..(n - 1)) \union {None}
  <2>1. CASE d.args[i] = Inner
    <3>1. Len(inner) \in Nat /\ \A k \in 1..Len(inner) : inner[k] \in 0..(n - 1)
      BY DEF Numbered
    <3>2. Len(inner) - AllInner(d) + InnerArgs(d, i) \in 1..Len(inner)
      BY <3>1, <2>1, InnerArgsBounds
    <3> QED BY <3>1, <3>2, <2>1 DEF Handles
  <2>2. CASE d.args[i] # Inner
    BY <2>2, <1>1 DEF Handles, Numbered
  <2> QED BY <2>1, <2>2
<1>3. DOMAIN Handles(d) = 1..Len(d.args)
  BY DEF Handles
<1>4. Handles(d) \in [1..Len(d.args) -> (0..(n - 1)) \union {None}]
  BY <1>2, <1>3 DEF Handles
<1>5. Handles(d) \in Seq((0..(n - 1)) \union {None})
  BY <1>1, <1>4
<1> QED BY <1>2, <1>3, <1>5 DEF None

(* event_predicate_register appends a predicate.                           *)
LEMMA RegisterSteps ==
  ASSUME NEW n \in Nat, Numbered(n), RefersBack, n < MaxPredicates,
         NEW d \in Definition, AllInner(d) <= Len(inner),
         predicates' = Registered(d)
  PROVE  /\ predicates' \in [0..n -> Predicate]
         /\ \A h \in 0..(n - 1) : predicates'[h] = predicates[h]
         /\ RefersBack'
<1>1. DOMAIN predicates = 0..(n - 1) /\ Length = n
  BY LengthIs DEF Numbered
<1> DEFINE p == [type |-> d.type, accepts |-> d.accepts, args |-> d.args,
                 handles |-> Handles(d),
                 enabled |-> d.enabled, inverted |-> d.inverted]
<1>2. p \in Predicate
  <2>1. Handles(d) \in Seq((0..(n - 1)) \union {None})
    BY HandlesBelow
  <2>2. (0..(n - 1)) \union {None} \subseteq (0..MaxPredicates) \union {None}
    BY DEF Numbered
  <2>3. Handles(d) \in Seq((0..MaxPredicates) \union {None})
    BY <2>1, <2>2
  <2> QED BY <2>3, PredicateAssumption DEF Predicate
<1>3. (0..(n - 1)) \union {n} = 0..n /\ n \notin 0..(n - 1)
  OBVIOUS
<1>4. predicates' = [h \in 0..n |-> IF h = n THEN p ELSE predicates[h]]
  BY <1>1, <1>3 DEF Registered
<1> HIDE DEF p
<1>5. predicates' \in [0..n -> Predicate]
  <2>1. \A h \in 0..n : h # n => predicates[h] \in Predicate
    BY <1>3 DEF Numbered
  <2> QED BY <2>1, <1>2, <1>4
<1>6. \A h \in 0..(n - 1) : predicates'[h] = predicates[h]
  BY <1>3, <1>4
<1>7. RefersBack'
  <2> SUFFICES ASSUME NEW h \in 0..n, NEW i \in DOMAIN predicates'[h].handles
               PROVE  predicates'[h].handles[i] < h
    BY <1>5 DEF RefersBack
  <2>1. CASE h = n
    <3>1. predicates'[h].handles = Handles(d)
      BY <2>1, <1>4 DEF p
    <3> QED BY <3>1, <2>1, HandlesBelow
  <2>2. CASE h # n
    BY <2>2, <1>1, <1>3, <1>6 DEF RefersBack
  <2> QED BY <2>1, <2>2
<1> QED BY <1>5, <1>6, <1>7

(* modify_predicate leaves everything of a predicate but its flags.        *)
LEMMA ModifySteps ==
  ASSUME NEW n \in Nat, Numbered(n), NEW m \in ModifyNode, NEW e \in Event,
         predicates' = Modified(predicates, m, e)
  PROVE  /\ predicates' \in [0..(n - 1) -> Predicate]
         /\ \A h \in 0..(n - 1) :
              /\ predicates'[h].type = predicates[h].type
              /\ predicates'[h].accepts = predicates[h].accepts
              /\ predicates'[h].handles = predicates[h].handles
<1> DEFINE on == Enabled(predicates, m, e)
           inv == Inverted(predicates, m, e)
<1>1. on \in BOOLEAN /\ inv \in BOOLEAN
  BY DEF Enabled, Inverted, Satisfies
<1> HIDE DEF on, inv
<1>2. predicates' = [predicates EXCEPT ![names[m.target]] =
                       [@ EXCEPT !.enabled = on, !.inverted = inv]]
  BY DEF Modified, on, inv
<1>3. ASSUME NEW h \in 0..(n - 1)
      PROVE  /\ predicates'[h] \in Predicate
             /\ predicates'[h].type = predicates[h].type
             /\ predicates'[h].accepts = predicates[h].accepts
             /\ predicates'[h].handles = predicates[h].handles
  <2>1. predicates[h] \in Predicate
    BY DEF Numbered
  <2>2. predicates'[h] = predicates[h]
        \/ predicates'[h] = [predicates[h] EXCEPT !.enabled = on, !.inverted = inv]
    BY <1>2 DEF Numbered
  <2> QED BY <2>1, <2>2, <1>1 DEF Predicate
<1>4. predicates' = [h \in 0..(n - 1) |-> predicates'[h]]
  BY <1>2 DEF Numbered
<1> QED BY <1>3, <1>4

-----------------------------------------------------------------------------
(* One step per action; the loading actions give the next handle, n.       *)
LEMMA StepIInv == IInv /\ [Next]_vars => IInv'
<1> SUFFICES ASSUME IInv, [Next]_vars PROVE IInv'
  OBVIOUS
<1>1. PICK n \in Nat : Numbered(n)
  BY DEF IInv
<1>2. Length = n /\ n \in 0..MaxPredicates /\ MaxPredicates \in Nat
  BY <1>1, LengthIs, PredicateAssumption DEF Numbered
<1>3. ASSUME NEW d \in Definition, LoadInner(d) PROVE IInv'
  <2>1. /\ predicates' = Registered(d) /\ AllInner(d) <= Len(inner)
        /\ n < MaxPredicates /\ names' = names /\ met' = met /\ phase' = phase
        /\ inner' = Append(SubSeq(inner, 1, Len(inner) - AllInner(d)), n)
    BY <1>2, <1>3 DEF LoadInner
  <2>2. predicates' \in [0..n -> Predicate] /\ RefersBack'
    BY <1>1, <2>1, RegisterSteps DEF IInv
  <2>3. AllInner(d) \in Nat
    <3>1. IsFiniteSet(1..Len(d.args))
      BY FS_Interval, PredicateAssumption
    <3>2. IsFiniteSet({i \in 1..Len(d.args) : d.args[i] = Inner})
      BY <3>1, FS_Subset
    <3> QED BY <3>2, FS_CardinalityType DEF AllInner, InnerArgs
  <2>4. inner \in Seq(0..n)
    <3>1. 0..(n - 1) \subseteq 0..n
      BY <1>2
    <3> QED BY <1>1, <3>1 DEF Numbered
  <2>5. SubSeq(inner, 1, Len(inner) - AllInner(d)) \in Seq(0..n)
    <3> DEFINE k == Len(inner) - AllInner(d)
    <3>1. Len(inner) \in Nat /\ k \in 0..Len(inner)
      BY <2>1, <2>3, <2>4
    <3> HIDE DEF k
    <3>2. ASSUME NEW S, inner \in Seq(S) PROVE SubSeq(inner, 1, k) \in Seq(S)
      BY <3>1, <3>2
    <3>3. SubSeq(inner, 1, k) \in Seq(0..n)
      BY <3>2, <2>4
    <3> QED BY <3>3 DEF k
  <2>6. inner' \in Seq(0..n)
    BY <2>1, <2>5, <1>2
  <2>7. names' \in [Name -> (0..n) \union {None}]
    BY <1>1, <1>2, <2>1 DEF Numbered
  <2>8. n + 1 \in 0..MaxPredicates /\ (n + 1) - 1 = n
    BY <1>2, <2>1
  <2>9. Numbered(n + 1)'
    BY <2>2, <2>6, <2>7, <2>8 DEF Numbered
  <2> QED BY <2>1, <2>2, <2>8, <2>9 DEF IInv
<1>4. ASSUME NEW a \in Name, NEW d \in Definition, LoadNamed(a, d) PROVE IInv'
  <2>1. /\ predicates' = Registered(d) /\ AllInner(d) = Len(inner)
        /\ n < MaxPredicates /\ names' = [names EXCEPT ![a] = n]
        /\ met' = met \union {a} /\ phase' = phase /\ inner' = << >>
    BY <1>2, <1>4 DEF LoadNamed
  <2>2. AllInner(d) <= Len(inner)
    <3>1. Len(inner) \in Nat
      BY <1>1 DEF Numbered
    <3> QED BY <2>1, <3>1
  <2>3. predicates' \in [0..n -> Predicate] /\ RefersBack'
    BY <1>1, <2>1, <2>2, RegisterSteps DEF IInv
  <2>4. inner' \in Seq(0..n)
    BY <2>1
  <2>5. names' \in [Name -> (0..n) \union {None}]
    BY <1>1, <1>2, <2>1 DEF Numbered
  <2>6. n + 1 \in 0..MaxPredicates /\ (n + 1) - 1 = n
    BY <1>2, <2>1
  <2>7. Numbered(n + 1)'
    BY <2>3, <2>4, <2>5, <2>6 DEF Numbered
  <2> QED BY <2>1, <2>3, <2>6, <2>7 DEF IInv
<1>5. ASSUME NEW a \in Name, NEW b \in Name, LoadAlias(a, b) PROVE IInv'
  <2>1. /\ predicates' = predicates /\ inner' = inner /\ phase' = phase
        /\ names' = [names EXCEPT ![a] = names[b]] /\ met' = met \union {a}
    BY <1>5 DEF LoadAlias
  <2>2. Numbered(n)'
    BY <1>1, <2>1 DEF Numbered
  <2>3. RefersBack'
    BY <2>1 DEF IInv, RefersBack
  <2> QED BY <2>1, <2>2, <2>3 DEF IInv
<1>6. ASSUME UNCHANGED <<predicates, names, met, inner>>,
             phase' \in {"load", "run", "exit"}
      PROVE  IInv'
  <2>1. Numbered(n)'
    BY <1>1, <1>6 DEF Numbered
  <2>2. RefersBack'
    BY <1>6 DEF IInv, RefersBack
  <2> QED BY <1>6, <2>1, <2>2 DEF IInv
<1>7. CASE CreateNodes
  BY <1>6, <1>7 DEF CreateNodes
<1>8. ASSUME NEW m \in ModifyNode, NEW e \in Event, Modify(m, e) PROVE IInv'
  <2>1. /\ predicates' = Modified(predicates, m, e)
        /\ UNCHANGED <<names, met, inner, phase>>
    BY <1>8 DEF Modify
  <2>2. /\ predicates' \in [0..(n - 1) -> Predicate]
        /\ \A h \in 0..(n - 1) : predicates'[h].handles = predicates[h].handles
    BY <1>1, <2>1, ModifySteps
  <2>3. Numbered(n)'
    BY <1>1, <2>1, <2>2 DEF Numbered
  <2>4. RefersBack'
    BY <1>1, <2>2 DEF IInv, RefersBack, Numbered
  <2> QED BY <2>1, <2>3, <2>4 DEF IInv
<1>9. CASE UNCHANGED vars
  BY <1>6, <1>9 DEF vars, IInv
<1> QED BY <1>3, <1>4, <1>5, <1>7, <1>8, <1>9 DEF Next

LEMMA SpecIInv == Spec => []IInv
<1>1. Init => IInv
  <2> SUFFICES ASSUME Init PROVE IInv
    OBVIOUS
  <2>1. 0..(0 - 1) = {} /\ 0 \in 0..MaxPredicates
    BY PredicateAssumption
  <2>2. Numbered(0)
    BY <2>1 DEF Init, Numbered
  <2> QED BY <2>2 DEF Init, IInv, RefersBack
<1> QED BY <1>1, StepIInv, PTL DEF Spec

-----------------------------------------------------------------------------
(* Every handle in use, of a name, of an argument or of an inner           *)
(* definition, is one of a registered predicate, or -1.                    *)
THEOREM TypeCorrect == Spec => []TypeOK
<1>1. IInv => TypeOK
  <2> SUFFICES ASSUME IInv PROVE TypeOK
    OBVIOUS
  <2>1. PICK n \in Nat : Numbered(n)
    BY DEF IInv
  <2>2. Length = n
    BY <2>1, LengthIs DEF Numbered
  <2> QED BY <2>1, <2>2 DEF IInv, Numbered, TypeOK
<1> QED BY <1>1, SpecIInv, PTL

(* Predicates name only earlier ones: event_predicate_apply ends for every *)
(* configuration.                                                          *)
THEOREM AlwaysRefersBack == Spec => []RefersBack
<1>1. IInv => RefersBack
  BY DEF IInv
<1> QED BY <1>1, SpecIInv, PTL

(* A handle means the same predicate for ever.                             *)
THEOREM HandlesKeepMeaning == Spec => HandlesStay
<1> DEFINE Stays ==
      \A h \in DOMAIN predicates :
        /\ h \in DOMAIN predicates'
        /\ LET p == predicates[h]
               q == predicates'[h]
           IN  /\ q.type = p.type /\ q.accepts = p.accepts
               /\ q.handles = p.handles
               /\ phase = "load" => q = p
<1>1. IInv /\ [Next]_vars => [Stays]_vars
  <2> SUFFICES ASSUME IInv, Next PROVE Stays
    OBVIOUS
  <2>1. PICK n \in Nat : Numbered(n)
    BY DEF IInv
  <2>2. Length = n /\ DOMAIN predicates = 0..(n - 1)
    BY <2>1, LengthIs DEF Numbered
  <2>3. ASSUME NEW d \in Definition, predicates' = Registered(d) PROVE Stays
    BY <2>2, <2>3 DEF Registered
  <2>4. ASSUME predicates' = predicates PROVE Stays
    BY <2>4
  <2>5. ASSUME NEW d \in Definition, LoadInner(d) PROVE Stays
    BY <2>3, <2>5 DEF LoadInner
  <2>6. ASSUME NEW a \in Name, NEW d \in Definition, LoadNamed(a, d) PROVE Stays
    BY <2>3, <2>6 DEF LoadNamed
  <2>7. ASSUME NEW a \in Name, NEW b \in Name, LoadAlias(a, b) PROVE Stays
    BY <2>4, <2>7 DEF LoadAlias
  <2>8. CASE CreateNodes
    BY <2>4, <2>8 DEF CreateNodes
  <2>9. ASSUME NEW m \in ModifyNode, NEW e \in Event, Modify(m, e) PROVE Stays
    <3>1. predicates' = Modified(predicates, m, e) /\ phase = "run"
      BY <2>9 DEF Modify
    <3>2. DOMAIN predicates' = 0..(n - 1)
      BY <2>1, <3>1, ModifySteps
    <3>3. \A h \in 0..(n - 1) :
            /\ predicates'[h].type = predicates[h].type
            /\ predicates'[h].accepts = predicates[h].accepts
            /\ predicates'[h].handles = predicates[h].handles
      BY <2>1, <3>1, ModifySteps
    <3> QED BY <3>1, <3>2, <3>3, <2>2
  <2> HIDE DEF Stays
  <2> QED BY <2>5, <2>6, <2>7, <2>8, <2>9 DEF Next
<1> QED BY <1>1, SpecIInv, PTL DEF Spec, HandlesStay

(* Once the nodes have been created their targets exist.                   *)
TargetsExist == phase = "run" => \A m \in ModifyNode : names[m.target] # None

LEMMA SpecTargetsExist == Spec => []TargetsExist
<1>1. Init => TargetsExist
  BY DEF Init, TargetsExist
<1>2. TargetsExist /\ [Next]_vars => TargetsExist'
  BY DEF TargetsExist, Next, vars, LoadInner, LoadNamed, LoadAlias, CreateNodes, Modify
<1> QED BY <1>1, <1>2, PTL DEF Spec

(* modify_predicate does what its options say, judged by the state before  *)
(* the event, whatever the target and the conditions are.                  *)
THEOREM ModifyFollowsOptions == Spec => ModifiesAsDocumented
<1> DEFINE Sat(e, n) == Satisfies(predicates, e, n)
           AsDocumented ==
             \A m \in ModifyNode, e \in Event : Modify(m, e) =>
               LET t == names[m.target]
               IN  /\ Follows(predicates[t].enabled, predicates'[t].enabled,
                              Sat(e, m.enableOn), Sat(e, m.disableOn))
                   /\ Follows(predicates[t].inverted, predicates'[t].inverted,
                              Sat(e, m.invertOn), Sat(e, m.uninvertOn))
                   /\ \A h \in DOMAIN predicates \ {t} : predicates'[h] = predicates[h]
<1>1. IInv /\ TargetsExist => AsDocumented
  <2> SUFFICES ASSUME IInv, TargetsExist,
                      NEW m \in ModifyNode, NEW e \in Event, Modify(m, e)
               PROVE  LET t == names[m.target]
                      IN  /\ Follows(predicates[t].enabled, predicates'[t].enabled,
                                     Sat(e, m.enableOn), Sat(e, m.disableOn))
                          /\ Follows(predicates[t].inverted, predicates'[t].inverted,
                                     Sat(e, m.invertOn), Sat(e, m.uninvertOn))
                          /\ \A h \in DOMAIN predicates \ {t} :
                               predicates'[h] = predicates[h]
    OBVIOUS
  <2> DEFINE t == names[m.target]
             p == predicates[t]
  <2>1. PICK n \in Nat : Numbered(n)
    BY DEF IInv
  <2>2. t \in 0..(n - 1) /\ DOMAIN predicates = 0..(n - 1) /\ p \in Predicate
    <3>1. m.target \in Name /\ t # None
      BY PredicateAssumption DEF TargetsExist, Modify
    <3> QED BY <2>1, <3>1 DEF Numbered
  <2>3. \A k : Sat(e, k) \in BOOLEAN
    BY DEF Satisfies
  <2> DEFINE on == Sat(e, m.enableOn)
             off == Sat(e, m.disableOn)
             inv == Sat(e, m.invertOn)
             uninv == Sat(e, m.uninvertOn)
             q == [p EXCEPT !.enabled = IF p.enabled THEN ~off ELSE on,
                            !.inverted = IF p.inverted THEN ~uninv ELSE inv]
  <2>4. predicates' = [predicates EXCEPT ![t] = q]
    BY DEF Modify, Modified, Enabled, Inverted
  <2>5. on \in BOOLEAN /\ off \in BOOLEAN /\ inv \in BOOLEAN /\ uninv \in BOOLEAN
    BY <2>3
  <2> HIDE DEF on, off, inv, uninv
  <2>6. predicates'[t] = q /\ \A h \in DOMAIN predicates \ {t} : predicates'[h] = predicates[h]
    BY <2>2, <2>4
  <2>7. /\ p.enabled \in BOOLEAN /\ p.inverted \in BOOLEAN
        /\ q.enabled = (IF p.enabled THEN ~off ELSE on)
        /\ q.inverted = (IF p.inverted THEN ~uninv ELSE inv)
    BY <2>2 DEF Predicate
  <2> HIDE DEF p, q, t
  <2>8. Follows(p.enabled, q.enabled, on, off) /\ Follows(p.inverted, q.inverted, inv, uninv)
    BY <2>5, <2>7 DEF Follows
  <2> USE DEF p, q, t
  <2>9. Follows(predicates[t].enabled, predicates'[t].enabled, on, off)
        /\ Follows(predicates[t].inverted, predicates'[t].inverted, inv, uninv)
    BY <2>6, <2>8
  <2> QED BY <2>6, <2>9 DEF on, off, inv, uninv
<1>2. [Next]_vars /\ IInv /\ TargetsExist => [AsDocumented]_vars
  BY <1>1
<1> QED BY <1>2, SpecIInv, SpecTargetsExist, PTL DEF Spec, ModifiesAsDocumented
=============================================================================
