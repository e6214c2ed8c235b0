----------------------------- MODULE SerialLoop -----------------------------
(***************************************************************************)
(* The promise behind the event list: although the main loop reads input   *)
(* between any two calls of a handler, a graph works as if it were given   *)
(* one input at a time and came to rest before the next.  The history      *)
(* variable unserved holds the inputs that the main loop has read and      *)
(* whose turn has not come; all other events in the list are those of a    *)
(* graph that has been given its inputs one by one.                        *)
(***************************************************************************)
EXTENDS EventLoopProps

VARIABLE unserved   \* for each of these inputs, the events created for it

serialVars == <<vars, unserved>>

-----------------------------------------------------------------------------
(* A graph that is given one input at a time.                              *)

(* The events whose handler would be called and return true.               *)
Able(m) == {i \in DOMAIN m.events : Callable(m, i) /\ ~Rejects(m, i)}
FirstAble(m) == {i \in Able(m) : \A j \in Able(m) : i <= j}

(* m2 is what a call of the handler of the i-th event makes of m.          *)
Handles(m, i, m2) ==
  LET p == m.events[i].pos
  IN  \/ p \in Channel /\ m2 = AtChannel(m, i)
      \/ p \in ComputingNode /\ m2 = AtComputing(m, i)
      \/ /\ p \in WindowNode /\ ~Astray(m, i)
         /\ IF Skips(m, i) THEN m2 = AtWindowSkip(m, i)
            ELSE \E taken \in SUBSET Both : m2 = AtWindow(m, i, taken)
      \/ p \in Node /\ \/ Kind[p] \in {"forward", "router"} /\ m2 = AtForward(m, i)
                       \/ Kind[p] = "assign" /\ m2 = AtAssign(m, i)
                       \/ Kind[p] = "modify_predicate" /\ m2 = AtModifyPredicate(m, i)
                       \/ Kind[p] = "sink" /\ m2 = AtSink(m, i)

Given(m, q, k) == [m EXCEPT !.events = m.events \o FlattenSeq(SubSeq(q, 1, k))]

(* One call of a handler, of the first event that has one.  The next input *)
(* is given only where no event is left that a handler could be called     *)
(* for; an input may give rise to no such event, then another is given.    *)
Serves(m, q, m2, q2) ==
  \E k \in 0..Len(q) :
    LET given == Given(m, q, k)
    IN  /\ k > 0 => Able(Given(m, q, k - 1)) = {}
        /\ \E i \in FirstAble(given) : Handles(given, i, m2)
        /\ q2 = SubSeq(q, k + 1, Len(q))

-----------------------------------------------------------------------------
(* Beside the main loop.                                                   *)

(* The place in the list up to which inputs have been given when the first *)
(* k of the unserved ones have.                                            *)
GivenUpTo(k) == Len(events) - Len(FlattenSeq(SubSeq(unserved, k + 1, Len(unserved))))

(* The turn of an input comes when a handler is called for an event of it, *)
(* or for one behind it.                                                   *)
TurnsCome(i) ==
  CHOOSE k \in 0..Len(unserved) :
    i <= GivenUpTo(k) /\ \A j \in 0..Len(unserved) : i <= GivenUpTo(j) => k <= j

Reads == pc = "handle" /\ read' # read
Calls == pc = "scan" /\ graph' # graph

SerialInit == Init /\ unserved = << >>
SerialNext ==
  /\ Next
  /\ unserved' =
       IF Reads THEN Append(unserved, EventsFromStdin(Head(ready)))
       ELSE IF Calls
            THEN LET k == TurnsCome(CHOOSE i \in FirstAble(machine) : TRUE)
                 IN  SubSeq(unserved, k + 1, Len(unserved))
            ELSE unserved

SerialSpec == SerialInit /\ [][SerialNext]_serialVars
FairSerialSpec == SerialSpec /\ WF_now(Tick) /\ WF_pc(Runs)

(* The graph with the events of all inputs whose turn has come.            *)
served == [machine EXCEPT !.events = SubSeq(events, 1, GivenUpTo(0))]

(* On a graph fed by standard input, whose time stamps never go back,      *)
(* everything that handlers do, to the events, to what the nodes remember, *)
(* to the predicates and to what the sinks have been given, they do to a   *)
(* graph that is given one input at a time, and each input only when all   *)
(* before it have been dealt with.  (Reading adds to the inputs that are   *)
(* unserved, and to nothing else.)                                         *)
ActsSerially ==
  /\ served = Idle /\ unserved = << >>
  /\ [][\/ Serves(served, unserved, served', unserved')
        \/ /\ Reads /\ UNCHANGED served
           /\ unserved' = Append(unserved, EventsFromStdin(Head(ready)))
       ]_<<served, unserved>>
=============================================================================
