----------------------------- MODULE EventList -----------------------------
(***************************************************************************)
(* The doubly linked list of all live events (events.c, events.h): the     *)
(* sentinel END_EVENTS, the pointer assignments of event_create,           *)
(* event_replicate and event_destroy, and the loops around them, one round *)
(* per step.  The program is single threaded, so at most one of these      *)
(* calls is in progress; pc says which.                                    *)
(***************************************************************************)
EXTENDS Integers, FiniteSets

CONSTANTS
  Cell,         \* the addresses malloc can return for an event
  End,          \* &END_EVENTS
  Null,         \* NULL
  Time,         \* the creation times in use
  MaxReplicas   \* bound on the count a caller passes to event_replicate

ASSUME EventListAssumption ==
  /\ Cell # {}
  /\ End \notin Cell
  /\ Null \notin Cell \union {End}
  /\ Time # {} /\ Time \subseteq Nat
  /\ MaxReplicas \in Nat \ {0}

VARIABLES
  next, prev,   \* the link fields of END_EVENTS and of every cell
  time,         \* data.time of every cell, Null in one that is not allocated
  live,         \* the cells malloc handed out and free has not taken back
  pc,           \* the call in progress, "idle" between calls
  ev,           \* the event the call works on
  owner,        \* event_create: list_pos = &owner->prev
  other,        \* event_create: the loop variable of FOREACH_EVENT_DESC
  todo          \* event_replicate: replicas still to be made

links == <<next, prev>>
vars == <<next, prev, time, live, pc, ev, owner, other, todo>>

Node == Cell \union {End}
First == next[End]
Last == prev[End]

(* The events that are in the list: all live ones, but the one that        *)
(* event_create has allocated and not linked yet.                          *)
Linked == IF pc = "scan" THEN live \ {ev} ELSE live

Init ==
  /\ next = [n \in Node |-> IF n = End THEN End ELSE Null]
  /\ prev = [n \in Node |-> IF n = End THEN End ELSE Null]
  /\ time = [c \in Cell |-> Null]
  /\ live = {}
  /\ pc = "idle"
  /\ ev = Null /\ owner = Null /\ other = Null
  /\ todo = 0

(* The four assignments that put cell c behind node p.                     *)
LinkAfterOneWay(p, c) ==
  /\ next' = [next EXCEPT ![c] = next[p], ![p] = c]
  /\ prev' = [prev EXCEPT ![c] = p]
LinkAfter(p, c) ==
  /\ next' = [next EXCEPT ![c] = next[p], ![p] = c]
  /\ prev' = [prev EXCEPT ![c] = p, ![next[p]] = c]

Free(c) ==
  /\ live' = live \ {c}
  /\ time' = [time EXCEPT ![c] = Null]

(* The local variables of a call end with it.                              *)
Returned == ev' = Null /\ owner' = Null /\ other' = Null /\ todo' = 0

(* The link assignments of event_destroy, which then frees the cell.       *)
UnlinkOneWay(c) ==
  /\ prev' = [prev EXCEPT ![next[c]] = prev[c], ![c] = Null]
  /\ next' = [next EXCEPT ![c] = Null]
Unlink(c) ==
  /\ prev' = [prev EXCEPT ![next[c]] = prev[c], ![c] = Null]
  /\ next' = [next EXCEPT ![prev[c]] = next[c], ![c] = Null]

(***************************************************************************)
(* event_create                                                            *)
(***************************************************************************)
BeginCreate(c, t) ==
  /\ pc = "idle"
  /\ c \notin live
  /\ live' = live \union {c}
  /\ time' = [time EXCEPT ![c] = t]
  /\ pc' = "scan"
  /\ ev' = c
  /\ owner' = End
  /\ other' = Last
  /\ UNCHANGED <<links, todo>>

(* The loop ends at the sentinel, at a NULL link, or at the first event    *)
(* from the back that is not later than the new one.                       *)
ScanEndsStrict(n) == n \in Cell => time[ev] > time[n]
ScanEnds(n) == n \in Cell => time[ev] >= time[n]

ScanStep ==
  /\ pc = "scan"
  /\ ~ScanEnds(other)
  /\ owner' = next[other]
  /\ other' = prev[other]
  /\ UNCHANGED <<links, time, live, pc, ev, todo>>

LinkCreated ==
  /\ pc = "scan"
  /\ ScanEnds(other)
  /\ IF prev[owner] = Null
       THEN pc' = "abort" /\ UNCHANGED links
       ELSE pc' = "idle" /\ LinkAfter(prev[owner], ev)
  /\ Returned
  /\ UNCHANGED <<time, live>>

(***************************************************************************)
(* event_replicate: todo rounds, cut short when malloc fails.              *)
(***************************************************************************)
BeginReplicate(c, count) ==
  /\ pc = "idle"
  /\ c \in live
  /\ pc' = "replicate"
  /\ ev' = c
  /\ todo' = count
  /\ UNCHANGED <<links, time, live, owner, other>>

ReplicaRoundUncounted(c) ==
  /\ pc = "replicate"
  /\ c \notin live
  /\ live' = live \union {c}
  /\ time' = [time EXCEPT ![c] = time[ev]]
  /\ LinkAfter(ev, c)
  /\ todo' = todo - 1
  /\ UNCHANGED <<pc, ev, owner, other>>
ReplicaRoundAtEnd(c) ==
  /\ pc = "replicate" /\ todo > 0
  /\ c \notin live
  /\ live' = live \union {c}
  /\ time' = [time EXCEPT ![c] = time[ev]]
  /\ LinkAfter(Last, c)
  /\ todo' = todo - 1
  /\ UNCHANGED <<pc, ev, owner, other>>
ReplicaRound(c) ==
  /\ pc = "replicate" /\ todo > 0
  /\ c \notin live
  /\ live' = live \union {c}
  /\ time' = [time EXCEPT ![c] = time[ev]]
  /\ LinkAfter(ev, c)
  /\ todo' = todo - 1
  /\ UNCHANGED <<pc, ev, owner, other>>

EndReplicate ==
  /\ pc = "replicate"   \* todo = 0, or malloc returned NULL
  /\ pc' = "idle"
  /\ Returned
  /\ UNCHANGED <<links, time, live>>

(***************************************************************************)
(* event_destroy and event_destroy_all                                     *)
(***************************************************************************)
Destroy(c) ==
  /\ pc = "idle"
  /\ c \in live
  /\ Unlink(c)
  /\ Free(c)
  /\ UNCHANGED <<pc, ev, owner, other, todo>>

BeginDestroyAll ==
  /\ pc = "idle"
  /\ pc' = "destroy_all"
  /\ UNCHANGED <<links, time, live, ev, owner, other, todo>>

(* One round: destroy the first event; if it is still the first one        *)
(* afterwards the code reports a broken list and aborts.                   *)
DestroyAllRound ==
  /\ pc = "destroy_all" /\ First # End
  /\ ev' = First
  /\ Unlink(First)
  /\ Free(First)
  /\ pc' = IF next'[End] = First THEN "abort" ELSE pc
  /\ UNCHANGED <<owner, other, todo>>

EndDestroyAllAtLast ==
  /\ pc = "destroy_all" /\ (First = End \/ First = Last)
  /\ pc' = "idle"
  /\ Returned
  /\ UNCHANGED <<links, time, live>>
EndDestroyAll ==
  /\ pc = "destroy_all" /\ First = End
  /\ pc' = "idle"
  /\ Returned
  /\ UNCHANGED <<links, time, live>>

-----------------------------------------------------------------------------
InCall ==
  \/ ScanStep \/ LinkCreated
  \/ \E c \in Cell : ReplicaRound(c)
  \/ EndReplicate
  \/ DestroyAllRound \/ EndDestroyAll

Next ==
  \/ \E c \in Cell, t \in Time : BeginCreate(c, t)
  \/ \E c \in Cell, n \in 1..MaxReplicas : BeginReplicate(c, n)
  \/ \E c \in Cell : Destroy(c)
  \/ BeginDestroyAll
  \/ InCall

Spec == Init /\ [][Next]_vars

(* A call that has begun goes on: nothing in events.c waits.               *)
FairSpec == Spec /\ WF_vars(InCall)

-----------------------------------------------------------------------------
TypeOK ==
  /\ next \in [Node -> Node \union {Null}]
  /\ prev \in [Node -> Node \union {Null}]
  /\ time \in [Cell -> Time \union {Null}]
  /\ live \subseteq Cell
  /\ pc \in {"idle", "scan", "replicate", "destroy_all", "abort"}
  /\ {ev, owner, other} \subseteq Node \union {Null}
  /\ todo \in 0..MaxReplicas

(* Between two pointer updates next and prev are inverse to each other on  *)
(* the list and never lead out of it to a freed or unlinked cell.          *)
LinksMutual ==
  \A n \in Linked \union {End} :
    /\ next[n] \in Linked \union {End} /\ prev[n] \in Linked \union {End}
    /\ prev[next[n]] = n /\ next[prev[n]] = n

(* The aborts of event_create ("*list_pos is NULL") and event_destroy_all  *)
(* ("Broken doubly linked event list invariant") are never reached.        *)
NoAbort == pc # "abort"

(* Walk[i] is where i steps forward from the sentinel lead.                *)
Walk ==
  LET w[i \in 0..Cardinality(Linked)] == IF i = 0 THEN End ELSE next[w[i - 1]]
  IN  w

(* The list as the sequence that FOREACH_EVENT visits.                     *)
ListOfEvents ==
  [i \in 1..Cardinality(Linked) |-> [id |-> Walk[i], time |-> time[Walk[i]]]]

Abstract == INSTANCE AbstractEventList WITH events <- ListOfEvents

(* The pointer code implements the sequence of AbstractEventList.          *)
ImplementsSequence == Abstract!Spec

Place(c) == CHOOSE i \in 1..Cardinality(Linked) : Walk[i] = c

(* event_create never puts a new event ahead of one that was created       *)
(* earlier or at the same time: simultaneous events keep their order.      *)
NeverOvertakes ==
  [][LinkCreated =>
       \A c \in Linked, e \in {ev} :
         time[c] <= time[e] => Place(c)' < Place(e)']_vars

(* event_destroy_all ends and leaves no event behind.                      *)
DestroyAllEmpties == pc = "destroy_all" ~> (pc = "idle" /\ live = {})

(* README: "Events are strictly ordered (initially by their creation       *)
(* time)".  Does not hold: event_create leaves one later event ahead.      *)
OrderedByCreationTime ==
  \A i, j \in 1..Cardinality(Linked) : i < j => time[Walk[i]] <= time[Walk[j]]
=============================================================================
