-------------------------------- MODULE Fifo --------------------------------
(***************************************************************************)
(* What queue.h promises: a first-in first-out queue.  A put may fail for  *)
(* lack of memory and then leaves the queue as it was; a pop or a peek     *)
(* fails only when the queue is empty.                                     *)
(***************************************************************************)
EXTENDS Sequences

CONSTANT Value   \* what is put into the queue

VARIABLES
  items,    \* the queue
  result    \* what the last call returned

Init == items = << >> /\ result = "none"

Put(v) == items' = Append(items, v) /\ result' = "stored"
PutFails == result' = "no memory" /\ UNCHANGED items

Pop ==
  /\ items # << >>
  /\ items' = Tail(items)
  /\ result' = Head(items)

Peek ==
  /\ items # << >>
  /\ result' = Head(items)
  /\ UNCHANGED items

FindsNone == items = << >> /\ result' = "empty" /\ UNCHANGED items

Deinit == items' = << >> /\ result' = "none"

Next ==
  \/ \E v \in Value : Put(v)
  \/ PutFails \/ Pop \/ Peek \/ FindsNone \/ Deinit

Spec == Init /\ [][Next]_<<items, result>>
=============================================================================
