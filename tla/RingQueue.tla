----------------------------- MODULE RingQueue -----------------------------
(***************************************************************************)
(* The ring buffer of queue.c, which holds the events a window buffers.    *)
(* One slot always stays unused, so that head = tail says "empty".         *)
(***************************************************************************)
EXTENDS Integers, Sequences

CONSTANTS
  Value,         \* what is put into the queue
  Junk,          \* what a slot holds that was never written
  MaxCapacity    \* bound on the growth: beyond it realloc fails

ASSUME QueueAssumption ==
  /\ Junk \notin Value
  /\ MaxCapacity \in Nat

VARIABLES
  q,         \* the queue: capacity, head (head_idx), tail (after_tail_idx)
             \* and values, an array indexed from 0
  result,    \* what the last call returned: a value, or how it ended
  aborted    \* an assert has failed

vars == <<q, result, aborted>>

Queue(c, h, t, v) == [capacity |-> c, head |-> h, tail |-> t, values |-> v]
Empty == Queue(0, 0, 0, [i \in 0..(-1) |-> Junk])

(* The slot behind slot i of an array with c slots.                        *)
AfterUnwrapped(i, c) == i + 1
After(i, c) == (i + 1) % c

IsEmpty(r) == r.head = r.tail
IsFull(r) == r.capacity # 0 => After(r.tail, r.capacity) = r.head
Length(r) ==
  IF r.tail < r.head THEN r.tail - r.head + r.capacity ELSE r.tail - r.head

(* queue_grow: realloc keeps what is there; the part from head to the end  *)
(* of the old array is moved to the end of the new one when the contents   *)
(* wrap around.                                                            *)
GrownByHalf(r) ==
  LET c == r.capacity + r.capacity \div 2
  IN  Queue(c, r.head, r.tail,
            [i \in 0..(c - 1) |->
               IF i < r.capacity THEN r.values[i] ELSE Junk])
GrownInPlace(r) ==
  LET c == r.capacity + r.capacity \div 2 + 2
  IN  Queue(c, r.head, r.tail,
            [i \in 0..(c - 1) |->
               IF i < r.capacity THEN r.values[i] ELSE Junk])
Grown(r) ==
  LET c == r.capacity + r.capacity \div 2 + 2
      shift == IF r.head > r.tail THEN c - r.capacity ELSE 0
  IN  Queue(c, r.head + shift, r.tail,
            [i \in 0..(c - 1) |->
               IF shift > 0 /\ i >= r.head + shift THEN r.values[i - shift]
               ELSE IF i < r.capacity THEN r.values[i] ELSE Junk])

(* The value goes into the slot at tail.                                   *)
Stored(r, v) ==
  Queue(r.capacity, r.head, After(r.tail, r.capacity),
        [r.values EXCEPT ![r.tail] = v])

Init == q = Empty /\ result = "none" /\ aborted = FALSE

(* queue_put.  It asserts that a queue that has grown is not full.         *)
Put(v) ==
  /\ ~aborted
  /\ ~IsFull(q)
  /\ q' = Stored(q, v)
  /\ result' = "stored"
  /\ UNCHANGED aborted

GrowAndPut(v) ==
  /\ ~aborted
  /\ IsFull(q)
  /\ Grown(q).capacity <= MaxCapacity
  /\ IF IsFull(Grown(q))
       THEN aborted' = TRUE /\ UNCHANGED q
       ELSE q' = Stored(Grown(q), v) /\ UNCHANGED aborted
  /\ result' = "stored"

PutFails ==
  /\ ~aborted
  /\ IsFull(q)
  /\ result' = "no memory"
  /\ UNCHANGED <<q, aborted>>

(* queue_try_pop                                                           *)
Pop ==
  /\ ~aborted
  /\ IF IsEmpty(q)
       THEN result' = "empty" /\ UNCHANGED q
       ELSE /\ result' = q.values[q.head]
            /\ q' = [q EXCEPT !.head = After(q.head, q.capacity)]
  /\ UNCHANGED aborted

(* queue_try_peek                                                          *)
Peek ==
  /\ ~aborted
  /\ result' = IF IsEmpty(q) THEN "empty" ELSE q.values[q.head]
  /\ UNCHANGED <<q, aborted>>

(* queue_deinit                                                            *)
Deinit ==
  /\ ~aborted
  /\ q' = Empty
  /\ result' = "none"
  /\ UNCHANGED aborted

Next ==
  \/ \E v \in Value : Put(v) \/ GrowAndPut(v)
  \/ PutFails \/ Pop \/ Peek \/ Deinit

Spec == Init /\ [][Next]_vars

-----------------------------------------------------------------------------
(* The indices stay inside the array, whatever it has grown from.          *)
TypeOK ==
  /\ q.capacity \in Nat
  /\ q.values \in [0..(q.capacity - 1) -> Value \union {Junk}]
  /\ \/ q.capacity = 0 /\ q.head = 0 /\ q.tail = 0
     \/ q.head \in 0..(q.capacity - 1) /\ q.tail \in 0..(q.capacity - 1)
  /\ result \in Value \union {"none", "stored", "no memory", "empty"}
  /\ aborted \in BOOLEAN

(* The assert of queue_put behind queue_grow holds.                        *)
NeverAborts == ~aborted

(* The i-th value in the order of QUEUE_FOREACH_INDEX, and all of them.    *)
Slot(r, i) ==
  IF r.head + i - 1 < r.capacity THEN r.head + i - 1
  ELSE r.head + i - 1 - r.capacity
Items(r) == [i \in 1..Length(r) |-> r.values[Slot(r, i)]]

Abstract == INSTANCE Fifo WITH items <- Items(q)

(* The ring buffer is a queue: growing, also with contents that wrap       *)
(* around, neither loses a value nor shows a slot that was never written.  *)
ImplementsFifo == Abstract!Spec
=============================================================================
