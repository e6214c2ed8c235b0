------------------------- MODULE AbstractEventList -------------------------
(***************************************************************************)
(* What events.c promises its callers: a sequence of live events to which  *)
(* event_create adds an event at the place EventSeq!Ahead gives,           *)
(* event_replicate adds a copy right behind its source, and from which     *)
(* event_destroy takes one event and nothing else.                         *)
(***************************************************************************)
EXTENDS EventSeq

CONSTANTS
  Cell,   \* the addresses malloc can return for an event
  Time    \* creation times

VARIABLE events   \* sequence of [id, time] records

Ids == {events[i].id : i \in DOMAIN events}

Init == events = << >>

Create(c, t) ==
  /\ c \notin Ids
  /\ events' = Created(events, [id |-> c, time |-> t])

Replicate(i, c) ==
  /\ c \notin Ids
  /\ events' = ReplicatedAt(events, i, [id |-> c, time |-> events[i].time])

Destroy(i) == events' = DestroyedAt(events, i)

Next ==
  \/ \E c \in Cell, t \in Time : Create(c, t)
  \/ \E c \in Cell, i \in DOMAIN events : Replicate(i, c)
  \/ \E i \in DOMAIN events : Destroy(i)

Spec == Init /\ [][Next]_events
=============================================================================
