------------------------------ MODULE EventSeq ------------------------------
(***************************************************************************)
(* The global event list of events.c as a sequence of records.  Only the   *)
(* field "time" of a record is looked at here; the other fields belong to  *)
(* the module that instantiates the list.  EventList shows that the doubly *)
(* linked list of events.c computes exactly these operators.               *)
(***************************************************************************)
EXTENDS Naturals, Sequences, SequencesExt

(* The last event of s, in list order, that is not later than t (0: none): *)
(* where the backward loop of event_create stops.                          *)
LastEarlier(s, t) == SelectLastInSeq(s, LAMBDA e : e.time < t)
LastNotLater(s, t) == SelectLastInSeq(s, LAMBDA e : e.time <= t)

(* How many events stay ahead of an event created with time t.  list_pos   *)
(* is &other->next->prev, that is the address of a pointer to other, and   *)
(* not of one to other->prev: the new event goes behind the last event the *)
(* loop passed over, so one later event stays ahead of it if there is any. *)
Ahead(s, t) ==
  LET k == LastNotLater(s, t)
  IN  IF k = Len(s) THEN k ELSE k + 1

(* event_create: the event is linked in behind the Ahead events.           *)
Created(s, e) == InsertAt(s, Ahead(s, e.time) + 1, e)

(* One round of the loop of event_replicate: r becomes the successor of    *)
(* the i-th event.                                                         *)
ReplicatedAt(s, i, r) == InsertAt(s, i + 1, r)

(* event_destroy on the i-th event.                                        *)
DestroyedAt(s, i) == RemoveAt(s, i)

(* The elements of s that Test holds of, in their order.  (What SelectSeq  *)
(* is, in a form that proofs can open.)                                    *)
Those(s, Test(_)) ==
  FlattenSeq([i \in DOMAIN s |-> IF Test(s[i]) THEN <<s[i]>> ELSE << >>])
=============================================================================
