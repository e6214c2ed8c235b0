-------------------------- MODULE RingQueueProofs --------------------------
(***************************************************************************)
(* The ring buffer of queue.c is a queue.  What a call does to the stored  *)
(* values is stated slot by slot first (StoredItems, GrownItems,           *)
(* PoppedItems), then for the sequence of the values (AppendItems,         *)
(* GrownKeeps, TailItems); the invariant and the refinement follow.        *)
(***************************************************************************)
EXTENDS RingQueue, SequenceTheorems, TLAPS

(* An array with its two indices inside.                                   *)
QType(r) ==
  /\ r = Queue(r.capacity, r.head, r.tail, r.values)
  /\ r.capacity \in Nat
  /\ r.values \in [0..(r.capacity - 1) -> Value \union {Junk}]
  /\ \/ r.capacity = 0 /\ r.head = 0 /\ r.tail = 0
     \/ r.head \in 0..(r.capacity - 1) /\ r.tail \in 0..(r.capacity - 1)

(* Every slot from head to tail holds a value that was put into the queue. *)
Filled(r) == \A i \in 1..Length(r) : r.values[Slot(r, i)] \in Value

(* The modulo of queue_put and queue_try_pop only ever wraps to slot 0.    *)
LEMMA AfterWraps ==
  ASSUME NEW c \in Nat \ {0}, NEW i \in 0..(c - 1)
  PROVE  After(i, c) = IF i + 1 = c THEN 0 ELSE i + 1
<1>1. CASE i + 1 = c
  <2>1. c % c = 0 OBVIOUS
  <2> QED BY <1>1, <2>1 DEF After
<1>2. CASE i + 1 # c
  <2>1. i + 1 \in 0..(c - 1) BY <1>2
  <2>2. (i + 1) % c = i + 1 BY <2>1
  <2> QED BY <1>2, <2>2 DEF After
<1> QED BY <1>1, <1>2

(* The slots that QUEUE_FOREACH_INDEX visits are in the array, and the one *)
(* at tail is not among them.                                              *)
LEMMA LengthSlot ==
  ASSUME NEW r, QType(r)
  PROVE  /\ Length(r) \in Nat
         /\ \A i \in 1..Length(r) : Slot(r, i) \in 0..(r.capacity - 1) /\ Slot(r, i) # r.tail
<1>1. /\ r.capacity \in Nat
      /\ \/ r.capacity = 0 /\ r.head = 0 /\ r.tail = 0
         \/ r.head \in 0..(r.capacity - 1) /\ r.tail \in 0..(r.capacity - 1)
  BY DEF QType
<1>2. Length(r) \in Nat
  BY <1>1 DEF Length
<1>3. ASSUME NEW i \in 1..Length(r)
      PROVE  Slot(r, i) \in 0..(r.capacity - 1) /\ Slot(r, i) # r.tail
  <2>1. CASE r.tail < r.head
    BY <1>1, <1>2, <1>3, <2>1 DEF Length, Slot
  <2>2. CASE ~(r.tail < r.head)
    <3>1. i <= r.tail - r.head /\ r.tail - r.head \in Nat
      BY <1>1, <1>3, <2>2 DEF Length
    <3>2. r.capacity # 0
      BY <1>1, <1>3, <3>1
    <3> QED BY <1>1, <1>3, <3>1, <3>2 DEF Slot
  <2> QED BY <2>1, <2>2
<1> QED BY <1>2, <1>3

(* Storing a value leaves the others alone and comes behind them.          *)
LEMMA StoredItems ==
  ASSUME NEW r, QType(r), ~IsFull(r), NEW v
  PROVE  /\ Length(Stored(r, v)) = Length(r) + 1
         /\ \A i \in 1..Length(r) : Stored(r, v).values[Slot(Stored(r, v), i)] = r.values[Slot(r, i)]
         /\ Stored(r, v).values[Slot(Stored(r, v), Length(r) + 1)] = v
<1> DEFINE s == Stored(r, v)
<1>1. r.capacity \in Nat \ {0} /\ r.tail \in 0..(r.capacity - 1) /\ r.head \in 0..(r.capacity - 1)
  BY DEF QType, IsFull
<1>2. After(r.tail, r.capacity) = IF r.tail + 1 = r.capacity THEN 0 ELSE r.tail + 1
  BY <1>1, AfterWraps
<1>3. /\ s.capacity = r.capacity /\ s.head = r.head
      /\ s.tail = IF r.tail + 1 = r.capacity THEN 0 ELSE r.tail + 1
      /\ s.values = [r.values EXCEPT ![r.tail] = v]
  BY <1>2 DEF Stored, Queue
<1>4. r.head # (IF r.tail + 1 = r.capacity THEN 0 ELSE r.tail + 1)
  BY <1>1, <1>2 DEF IsFull
<1> HIDE DEF s
<1>5. Length(s) = Length(r) + 1
  BY <1>1, <1>3, <1>4 DEF Length
<1>6. \A i \in 1..(Length(r) + 1) : Slot(s, i) = Slot(r, i)
  BY <1>3 DEF Slot
<1>7. Slot(r, Length(r) + 1) = r.tail
  BY <1>1, <1>4 DEF Slot, Length
<1>8. Length(r) \in Nat /\ \A i \in 1..Length(r) : Slot(r, i) \in 0..(r.capacity - 1) /\ Slot(r, i) # r.tail
  BY LengthSlot
<1>9. r.values \in [0..(r.capacity - 1) -> Value \union {Junk}] BY DEF QType
<1>10. \A i \in 1..Length(r) : s.values[Slot(s, i)] = r.values[Slot(r, i)]
  BY <1>3, <1>6, <1>8, <1>9
<1>11. s.values[Slot(s, Length(r) + 1)] = v
  BY <1>1, <1>3, <1>6, <1>7, <1>8, <1>9
<1> QED BY <1>5, <1>10, <1>11 DEF s

(* queue_grow: there is room afterwards, and the values are still there in *)
(* the same order.                                                         *)
LEMMA GrownItems ==
  ASSUME NEW r, QType(r), IsFull(r)
  PROVE  /\ QType(Grown(r)) /\ ~IsFull(Grown(r))
         /\ Length(Grown(r)) = Length(r)
         /\ \A i \in 1..Length(r) : Grown(r).values[Slot(Grown(r), i)] = r.values[Slot(r, i)]
<1> DEFINE g == Grown(r)
           c == r.capacity + r.capacity \div 2 + 2
           shift == IF r.head > r.tail THEN c - r.capacity ELSE 0
<1>1. /\ r.capacity \in Nat
      /\ r.values \in [0..(r.capacity - 1) -> Value \union {Junk}]
      /\ \/ r.capacity = 0 /\ r.head = 0 /\ r.tail = 0
         \/ r.head \in 0..(r.capacity - 1) /\ r.tail \in 0..(r.capacity - 1)
  BY DEF QType
<1>ints. /\ r.head \in Nat /\ r.tail \in Nat
         /\ r.capacity = 0 => r.head = 0 /\ r.tail = 0
         /\ r.capacity # 0 => r.head < r.capacity /\ r.tail < r.capacity
  BY <1>1
<1>2. c \in Nat /\ c >= r.capacity + 2 BY <1>1
<1>3. /\ g.capacity = c /\ g.head = r.head + shift /\ g.tail = r.tail
      /\ g = Queue(g.capacity, g.head, g.tail, g.values)
  BY DEF Grown, Queue
<1>values.
      g.values = [i \in 0..(c - 1) |->
               IF shift > 0 /\ i >= r.head + shift THEN r.values[i - shift]
               ELSE IF i < r.capacity THEN r.values[i] ELSE Junk]
  BY DEF Grown, Queue
<1> HIDE DEF g, c
<1>4. shift \in Nat /\ (r.head > r.tail => shift = c - r.capacity /\ shift >= 2) /\ (~ (r.head > r.tail) => shift = 0)
  BY <1>1, <1>2
<1> HIDE DEF shift
<1>5. ASSUME NEW i \in 0..(c - 1) PROVE g.values[i] \in Value \union {Junk}
  <2>1. CASE shift > 0 /\ i >= r.head + shift
    <3>1. i - shift \in 0..(r.capacity - 1)
      BY <1>1, <1>ints, <1>2, <1>4, <2>1
    <3>2. g.values[i] = r.values[i - shift]
      BY <1>values, <2>1
    <3> QED BY <1>1, <3>1, <3>2
  <2>2. CASE ~(shift > 0 /\ i >= r.head + shift)
    <3>1. g.values[i] = IF i < r.capacity THEN r.values[i] ELSE Junk
      BY <1>values, <2>2
    <3> QED BY <1>1, <1>2, <3>1
  <2> QED BY <2>1, <2>2
<1>6. g.head \in 0..(g.capacity - 1) /\ g.tail \in 0..(g.capacity - 1)
  <2>1. CASE r.head > r.tail BY <1>1, <1>ints, <1>2, <1>3, <1>4, <2>1
  <2>2. CASE ~(r.head > r.tail) BY <1>1, <1>ints, <1>2, <1>3, <1>4, <2>2
  <2> QED BY <2>1, <2>2
<1>7. QType(g)
  BY <1>2, <1>3, <1>values, <1>5, <1>6 DEF QType
<1>8. r.capacity # 0 => r.head = IF r.tail + 1 = r.capacity THEN 0 ELSE r.tail + 1
  BY <1>1, AfterWraps DEF IsFull
<1>9. After(g.tail, g.capacity) = IF g.tail + 1 = g.capacity THEN 0 ELSE g.tail + 1
  BY <1>6, <1>2, <1>3, AfterWraps
<1>10. ~IsFull(g)
  <2>1. g.tail + 1 # g.capacity
    BY <1>1, <1>ints, <1>2, <1>3
  <2>2. g.head # g.tail + 1
    <3>1. CASE r.head > r.tail
      BY <1>ints, <1>2, <1>3, <1>4, <1>8, <3>1
    <3>2. CASE ~(r.head > r.tail)
      BY <1>ints, <1>2, <1>3, <1>4, <3>2
    <3> QED BY <3>1, <3>2
  <2> QED BY <1>1, <1>2, <1>3, <1>9, <2>1, <2>2 DEF IsFull
<1>11. Length(g) = Length(r)
  <2>1. CASE r.head > r.tail BY <1>1, <1>ints, <1>2, <1>3, <1>4, <2>1 DEF Length
  <2>2. CASE ~(r.head > r.tail) BY <1>1, <1>ints, <1>2, <1>3, <1>4, <2>2 DEF Length
  <2> QED BY <2>1, <2>2
<1>12. ASSUME NEW i \in 1..Length(r) PROVE g.values[Slot(g, i)] = r.values[Slot(r, i)]
  <2>1. Length(r) \in Nat /\ Slot(r, i) \in 0..(r.capacity - 1) /\ Slot(g, i) \in 0..(c - 1)
    BY <1>3, <1>7, <1>11, LengthSlot
  <2>2. CASE r.head > r.tail
    <3>1. shift > 0 /\ shift = c - r.capacity /\ g.head = r.head + shift BY <2>2, <1>3, <1>4
    <3>2. CASE r.head + i - 1 < r.capacity
      <4>1. Slot(g, i) = Slot(r, i) + shift /\ Slot(r, i) >= r.head
        BY <1>1, <1>2, <1>3, <3>1, <3>2 DEF Slot
      <4>2. g.values[Slot(g, i)] = r.values[Slot(g, i) - shift]
        BY <1>ints, <1>values, <1>2, <1>4, <2>1, <3>1, <4>1
      <4> QED BY <1>4, <2>1, <4>1, <4>2
    <3>3. CASE ~(r.head + i - 1 < r.capacity)
      <4>0. Slot(r, i) = r.head + i - 1 - r.capacity
        BY <3>3 DEF Slot
      <4>1. Slot(g, i) = Slot(r, i) /\ Slot(r, i) < r.tail
        <5>1. i <= r.tail - r.head + r.capacity /\ i \in Nat
          BY <1>ints, <1>1, <2>1, <2>2 DEF Length
        <5>2. Slot(r, i) < r.tail
          BY <1>1, <1>ints, <5>1, <4>0
        <5>3. Slot(g, i) = r.head + shift + i - 1 - c
          BY <1>1, <1>ints, <1>2, <1>3, <3>1, <3>3, <5>1 DEF Slot
        <5> QED BY <1>1, <1>ints, <1>2, <3>1, <4>0, <5>1, <5>2, <5>3
      <4>2. ~(Slot(g, i) >= r.head + shift) /\ Slot(g, i) < r.capacity
        BY <1>1, <1>4, <2>1, <2>2, <4>1
      <4>3. g.values[Slot(g, i)] = r.values[Slot(g, i)]
        BY <1>values, <2>1, <4>2
      <4> QED BY <4>1, <4>3
    <3> QED BY <3>2, <3>3
  <2>3. CASE ~(r.head > r.tail)
    <3>1. shift = 0 BY <2>3, <1>4
    <3>2. Slot(g, i) = Slot(r, i)
      <4>1. i <= r.tail - r.head /\ i \in Nat
        BY <1>ints, <1>1, <2>1, <2>3 DEF Length
      <4>2. r.head + i - 1 < r.capacity /\ r.head + i - 1 < c
        BY <1>1, <1>ints, <1>2, <4>1
      <4> QED BY <1>1, <1>ints, <1>2, <1>3, <3>1, <4>1, <4>2 DEF Slot
    <3> QED BY <1>1, <1>2, <1>ints, <1>values, <2>1, <3>1, <3>2
  <2> QED BY <2>2, <2>3
<1> QED BY <1>7, <1>10, <1>11, <1>12 DEF g

(* A queue without an array.                                               *)
LEMMA EmptyOK == QType(Empty) /\ Filled(Empty) /\ Length(Empty) = 0
BY DEF Empty, QType, Filled, Length, Queue

(* queue_put without growth keeps array and indices right.                 *)
LEMMA StoredOK ==
  ASSUME NEW r, QType(r), Filled(r), ~IsFull(r), NEW v \in Value
  PROVE  QType(Stored(r, v)) /\ Filled(Stored(r, v))
<1>1. r.capacity \in Nat \ {0} /\ r.tail \in 0..(r.capacity - 1) /\ r.head \in 0..(r.capacity - 1)
  BY DEF QType, IsFull
<1>2. After(r.tail, r.capacity) \in 0..(r.capacity - 1)
  BY <1>1, AfterWraps
<1>3. QType(Stored(r, v))
  BY <1>1, <1>2 DEF QType, Stored, Queue
<1>4. Length(r) \in Nat
  BY LengthSlot
<1>5. ASSUME NEW i \in 1..(Length(r) + 1)
      PROVE  Stored(r, v).values[Slot(Stored(r, v), i)] \in Value
  <2>1. CASE i \in 1..Length(r) BY <2>1, StoredItems DEF Filled
  <2>2. CASE i = Length(r) + 1 BY <2>2, StoredItems
  <2> QED BY <1>4, <2>1, <2>2
<1> QED BY <1>3, <1>5, StoredItems DEF Filled

(* Moving head on by one slot drops the first value and no other one.      *)
LEMMA PoppedItems ==
  ASSUME NEW r, QType(r), ~IsEmpty(r)
  PROVE  LET p == [r EXCEPT !.head = After(r.head, r.capacity)]
         IN  /\ QType(p)
             /\ Length(r) = Length(p) + 1
             /\ \A i \in 1..Length(p) : p.values[Slot(p, i)] = r.values[Slot(r, i + 1)]
             /\ r.values[Slot(r, 1)] = r.values[r.head]
<1> DEFINE p == [r EXCEPT !.head = After(r.head, r.capacity)]
<1>1. /\ r.capacity \in Nat \ {0} /\ r.tail \in 0..(r.capacity - 1) /\ r.head \in 0..(r.capacity - 1)
      /\ r.head # r.tail
  BY DEF QType, IsEmpty
<1>2. After(r.head, r.capacity) = IF r.head + 1 = r.capacity THEN 0 ELSE r.head + 1
  BY <1>1, AfterWraps
<1>3. /\ p.capacity = r.capacity /\ p.tail = r.tail /\ p.values = r.values
      /\ p.head = IF r.head + 1 = r.capacity THEN 0 ELSE r.head + 1
      /\ p = Queue(p.capacity, p.head, p.tail, p.values)
  BY <1>2 DEF QType, Queue
<1> HIDE DEF p
<1>4. QType(p)
  BY <1>1, <1>3 DEF QType
<1>5. Length(r) = Length(p) + 1
  BY <1>1, <1>3 DEF Length
<1>6. ASSUME NEW i \in 1..Length(p) PROVE p.values[Slot(p, i)] = r.values[Slot(r, i + 1)]
  <2>1. Length(p) \in Nat /\ Length(p) < p.capacity
    BY <1>1, <1>3 DEF Length
  <2>2. Slot(p, i) = Slot(r, i + 1)
    BY <1>1, <1>3, <2>1 DEF Slot
  <2> QED BY <1>3, <2>2
<1>7. Slot(r, 1) = r.head
  BY <1>1 DEF Slot
<1> QED BY <1>4, <1>5, <1>6, <1>7 DEF p

(* queue_put appends to the sequence of the values.                        *)
LEMMA AppendItems ==
  ASSUME NEW r, QType(r), Filled(r), ~IsFull(r), NEW v \in Value
  PROVE  Items(Stored(r, v)) = Append(Items(r), v)
<1> DEFINE n == Length(r)
           s == Stored(r, v)
<1>1. n \in Nat BY LengthSlot
<1>2. Items(r) = [i \in 1..n |-> r.values[Slot(r, i)]] BY DEF Items
<1>3. Items(s) = [i \in 1..(n + 1) |-> s.values[Slot(s, i)]]
  BY StoredItems DEF Items
<1>4. /\ \A i \in 1..n : s.values[Slot(s, i)] = r.values[Slot(r, i)]
      /\ s.values[Slot(s, n + 1)] = v
  BY StoredItems
<1> HIDE DEF n, s
<1>5. Items(r) \in Seq(Value) /\ Len(Items(r)) = n
  <2>1. \A i \in 1..n : r.values[Slot(r, i)] \in Value
    BY DEF Filled, n
  <2> QED BY <1>1, <1>2, <2>1
<1>6. /\ Append(Items(r), v) \in Seq(Value) /\ Len(Append(Items(r), v)) = n + 1
      /\ \A i \in 1..(n + 1) : Append(Items(r), v)[i] = IF i = n + 1 THEN v ELSE Items(r)[i]
  BY <1>5, <1>1
<1>7. \A i \in 1..(n + 1) : Items(s)[i] = Append(Items(r), v)[i]
  BY <1>1, <1>2, <1>3, <1>4, <1>6
<1>8. Items(s) \in Seq(Value) /\ Len(Items(s)) = n + 1
  <2>1. \A i \in 1..(n + 1) : s.values[Slot(s, i)] \in Value
    BY <1>1, <1>2, <1>4, <1>5
  <2> QED BY <1>1, <1>3, <2>1
<1>9. Items(s) = Append(Items(r), v)
  BY <1>6, <1>7, <1>8, SeqEqual
<1> QED BY <1>9 DEF s

(* queue_grow does not change the sequence of the values.                  *)
LEMMA GrownKeeps ==
  ASSUME NEW r, QType(r), Filled(r), IsFull(r)
  PROVE  Filled(Grown(r)) /\ Items(Grown(r)) = Items(r)
BY GrownItems DEF Items, Filled

(* queue_try_pop takes the head of the sequence of the values.             *)
LEMMA TailItems ==
  ASSUME NEW r, QType(r), Filled(r), ~IsEmpty(r)
  PROVE  LET p == [r EXCEPT !.head = After(r.head, r.capacity)]
         IN  /\ Filled(p)
             /\ Items(p) = Tail(Items(r))
             /\ Items(r) # << >>
             /\ Head(Items(r)) = r.values[r.head]
             /\ r.values[r.head] \in Value
<1> DEFINE p == [r EXCEPT !.head = After(r.head, r.capacity)]
           n == Length(p)
<1>1. /\ QType(p) /\ Length(r) = n + 1
      /\ \A i \in 1..n : p.values[Slot(p, i)] = r.values[Slot(r, i + 1)]
      /\ r.values[Slot(r, 1)] = r.values[r.head]
  BY PoppedItems
<1>2. n \in Nat BY <1>1, LengthSlot
<1>3. Items(p) = [i \in 1..n |-> p.values[Slot(p, i)]] BY DEF Items
<1>4. Items(r) = [i \in 1..(n + 1) |-> r.values[Slot(r, i)]] BY <1>1 DEF Items
<1>5. \A i \in 1..(n + 1) : r.values[Slot(r, i)] \in Value BY <1>1 DEF Filled
<1>6. Filled(p)
  <2>1. ASSUME NEW i \in 1..n PROVE p.values[Slot(p, i)] \in Value
    BY <1>1, <1>2, <1>5
  <2> QED BY <2>1 DEF Filled
<1> HIDE DEF n, p
<1>7. Items(r) \in Seq(Value) /\ Len(Items(r)) = n + 1
  BY <1>2, <1>4, <1>5
<1>8. /\ Tail(Items(r)) \in Seq(Value) /\ Len(Tail(Items(r))) = n
      /\ \A i \in 1..n : Tail(Items(r))[i] = Items(r)[i + 1]
  BY <1>2, <1>7
<1>9. \A i \in 1..n : Tail(Items(r))[i] = Items(p)[i]
  BY <1>1, <1>2, <1>3, <1>4, <1>8
<1>10. Items(p) \in Seq(Value) /\ Len(Items(p)) = n
  <2>1. \A i \in 1..n : p.values[Slot(p, i)] \in Value
    BY <1>1, <1>2, <1>5
  <2> QED BY <1>2, <1>3, <2>1
<1>11. Items(p) = Tail(Items(r))
  BY <1>8, <1>9, <1>10, SeqEqual
<1>12. Items(r) # << >> /\ Head(Items(r)) = r.values[r.head] /\ r.values[r.head] \in Value
  BY <1>1, <1>2, <1>4, <1>5, <1>7
<1> QED BY <1>6, <1>11, <1>12 DEF p

(* head = tail only when there is no value.                                *)
LEMMA EmptyItems ==
  ASSUME NEW r, QType(r), IsEmpty(r)
  PROVE  Items(r) = << >>
<1>1. Length(r) = 0 BY DEF QType, IsEmpty, Length
<1> QED BY <1>1 DEF Items

(* The inductive invariant.  TypeOK alone does not tell that the slots     *)
(* between head and tail have been written.                                *)
IInv ==
  /\ QType(q) /\ Filled(q)
  /\ result \in Value \union {"none", "stored", "no memory", "empty"}
  /\ aborted = FALSE

(* A queue begins in the invariant.                                        *)
LEMMA InitIInv == Init => IInv
BY EmptyOK DEF Init, IInv

(* Every call of queue.h keeps it.                                         *)
LEMMA NextIInv == IInv /\ [Next]_vars => IInv'
<1> SUFFICES ASSUME IInv, [Next]_vars PROVE IInv'
  OBVIOUS
<1> USE DEF IInv
<1>1. ASSUME NEW v \in Value, Put(v) PROVE IInv'
  BY <1>1, StoredOK DEF Put
<1>2. ASSUME NEW v \in Value, GrowAndPut(v) PROVE IInv'
  <2>1. QType(Grown(q)) /\ Filled(Grown(q)) /\ ~IsFull(Grown(q))
    BY <1>2, GrownItems, GrownKeeps DEF GrowAndPut
  <2>2. q' = Stored(Grown(q), v) /\ aborted' = aborted /\ result' = "stored"
    BY <1>2, <2>1 DEF GrowAndPut
  <2> QED BY <2>1, <2>2, StoredOK
<1>3. CASE PutFails BY <1>3 DEF PutFails
<1>4. CASE Pop
  <2>1. CASE IsEmpty(q) BY <1>4, <2>1 DEF Pop
  <2>2. CASE ~IsEmpty(q)
    BY <1>4, <2>2, PoppedItems, TailItems DEF Pop
  <2> QED BY <2>1, <2>2
<1>5. CASE Peek BY <1>5, TailItems DEF Peek
<1>6. CASE Deinit BY <1>6, EmptyOK DEF Deinit
<1>7. CASE UNCHANGED vars BY <1>7 DEF vars
<1> QED BY <1>1, <1>2, <1>3, <1>4, <1>5, <1>6, <1>7 DEF Next

(* So it always holds.                                                     *)
LEMMA SpecIInv == Spec => []IInv
BY InitIInv, NextIInv, PTL DEF Spec

(* The indices stay inside the array and every result is a value that was  *)
(* put, or the report of how the call ended: TypeOK.                       *)
THEOREM TypeCorrect == Spec => []TypeOK
<1>1. IInv => TypeOK BY DEF IInv, QType, TypeOK
<1> QED BY <1>1, SpecIInv, PTL

(* The assert of queue_put cannot fail: NeverAborts.                       *)
THEOREM AssertHolds == Spec => []NeverAborts
<1>1. IInv => NeverAborts BY DEF IInv, NeverAborts
<1> QED BY <1>1, SpecIInv, PTL

(* The ring buffer implements the queue of module Fifo: ImplementsFifo,    *)
(* for every set of values and for every bound on the growth.              *)
THEOREM IsAQueue == Spec => ImplementsFifo
<1> DEFINE Step == [Abstract!Next]_<<Items(q), result>>
<1>1. Items(Empty) = << >>
  BY EmptyOK DEF Items
<1>2. Init => Abstract!Init
  BY <1>1 DEF Init, Abstract!Init
<1>3. IInv /\ [Next]_vars => Step
  <2> SUFFICES ASSUME IInv, [Next]_vars PROVE Step
    OBVIOUS
  <2>1. QType(q) /\ Filled(q)
    BY DEF IInv
  <2>2. ASSUME NEW v \in Value, Put(v) PROVE Abstract!Put(v)
    BY <2>1, <2>2, AppendItems DEF Put, Abstract!Put
  <2>3. ASSUME NEW v \in Value, GrowAndPut(v) PROVE Abstract!Put(v)
    <3>1. QType(Grown(q)) /\ Filled(Grown(q)) /\ ~IsFull(Grown(q))
      BY <2>1, <2>3, GrownItems, GrownKeeps DEF GrowAndPut
    <3>2. q' = Stored(Grown(q), v) /\ result' = "stored"
      BY <2>3, <3>1 DEF GrowAndPut
    <3>3. Items(q)' = Append(Items(Grown(q)), v)
      BY <3>1, <3>2, AppendItems
    <3>4. Items(Grown(q)) = Items(q)
      BY <2>1, <2>3, GrownKeeps DEF GrowAndPut
    <3> QED BY <3>2, <3>3, <3>4 DEF Abstract!Put
  <2>4. ASSUME PutFails PROVE Abstract!PutFails
    BY <2>4 DEF PutFails, Abstract!PutFails
  <2>5. ASSUME Pop PROVE Abstract!Pop \/ Abstract!FindsNone
    <3>1. CASE IsEmpty(q)
      BY <2>1, <2>5, <3>1, EmptyItems DEF Pop, Abstract!FindsNone
    <3>2. CASE ~IsEmpty(q)
      BY <2>1, <2>5, <3>2, TailItems DEF Pop, Abstract!Pop
    <3> QED BY <3>1, <3>2
  <2>6. ASSUME Peek PROVE Abstract!Peek \/ Abstract!FindsNone
    <3>1. CASE IsEmpty(q)
      BY <2>1, <2>6, <3>1, EmptyItems DEF Peek, Abstract!FindsNone
    <3>2. CASE ~IsEmpty(q)
      BY <2>1, <2>6, <3>2, TailItems DEF Peek, Abstract!Peek
    <3> QED BY <3>1, <3>2
  <2>7. ASSUME Deinit PROVE Abstract!Deinit
    BY <1>1, <2>7 DEF Deinit, Abstract!Deinit
  <2>8. ASSUME UNCHANGED vars PROVE UNCHANGED <<Items(q), result>>
    BY <2>8 DEF vars
  <2> QED BY <2>2, <2>3, <2>4, <2>5, <2>6, <2>7, <2>8 DEF Next, Abstract!Next
<1> QED BY <1>2, <1>3, SpecIInv, PTL DEF Spec, ImplementsFifo, Abstract!Spec
=============================================================================
