-------------------------- MODULE HashTableProofs --------------------------
(***************************************************************************)
(* The hash table of hash_table.c is a map.  What one insertion into an    *)
(* array does is stated first (PlacedSound and its neighbours); the tables *)
(* of hash_table_grow and hash_table_change_hash come from such            *)
(* insertions, one a step, so that the invariant carries what in the code  *)
(* is the work of a loop.                                                  *)
(***************************************************************************)
EXTENDS HashTable, FiniteSetTheorems, WellFoundedInduction, TLAPS

(* A table with its arrays; entries have values that were inserted.        *)
Shape(t) ==
  /\ t = Table(t.capacity, t.length, t.hash, t.key, t.value, t.reach)
  /\ t.capacity \in Nat \ {0} /\ t.length \in Nat
  /\ t.hash \in Family
  /\ t.key \in [Slots(t) -> Key \union {NoKey}]
  /\ t.value \in [Slots(t) -> Value \union {"zero"}]
  /\ t.reach \in [Slots(t) -> Slots(t)]
  /\ \A s \in Occupied(t) : t.value[s] \in Value

(* An entry is within the probe limit of its home slot.                    *)
Reached(t) ==
  \A s \in Occupied(t) :
    \E i \in 0..t.reach[Home(t, t.key[s])] : Probe(t, t.key[s], i) = s

(* No key is there twice.                                                  *)
Unique(t) ==
  \A r, s \in Occupied(t) : t.key[r] = t.key[s] => r = s

Sound(t) == Shape(t) /\ Reached(t) /\ Unique(t)

(* Where nothing has been deleted, every slot that is probed before an     *)
(* entry is occupied.                                                      *)
NoGaps(t) ==
  \A s \in Occupied(t), j \in Slots(t) :
    (\A i \in 0..j : Probe(t, t.key[s], i) # s)
      => t.key[Probe(t, t.key[s], j)] # NoKey

-----------------------------------------------------------------------------
(* Probing                                                                 *)

(* A nonempty set of numbers has a least one, which is the one that Min    *)
(* chooses.                                                                *)
LEMMA MinIsLeast ==
  ASSUME NEW T, T \subseteq Nat, T # {}
  PROVE  Min(T) \in T /\ \A y \in T : Min(T) <= y
<1>1. \E x \in T : \A y \in T : ~ (<<y, x>> \in OpToRel(<, Nat))
  BY NatLessThanWellFounded, WFMin
<1>2. PICK x \in T : \A y \in T : ~ (<<y, x>> \in OpToRel(<, Nat))
  BY <1>1
<1>3. ASSUME NEW y \in T PROVE x <= y
  <2>1. y \in Nat /\ x \in Nat
    OBVIOUS
  <2>2. ~ (y < x)
    BY <1>2, <2>1 DEF OpToRel
  <2> QED BY <2>1, <2>2
<1> QED BY <1>3 DEF Min

(* Going around a ring.                                                    *)
LEMMA Around ==
  ASSUME NEW c \in Nat \ {0}, NEW x \in 0..(2 * c - 1)
  PROVE  x % c = IF x < c THEN x ELSE x - c
<1>1. CASE x < c
  BY <1>1
<1>2. CASE x >= c
  <2> DEFINE y == x - c
  <2>1. y \in 0..(c - 1) /\ x = y + 1 * c
    BY <1>2
  <2>2. (y + 1 * c) % c = y % c
    BY <2>1
  <2>3. y % c = y
    BY <2>1
  <2> QED BY <1>2, <2>1, <2>2, <2>3
<1> QED BY <1>1, <1>2

(* Probing stays in the table.                                             *)
LEMMA ProbeType ==
  ASSUME NEW t, Shape(t), NEW k \in Key
  PROVE  /\ Home(t, k) \in Slots(t)
         /\ \A i \in Nat : Probe(t, k, i) \in Slots(t)
<1>1. t.hash[PreHash[k]] \in Nat /\ t.capacity \in Nat \ {0}
  BY TableAssumption DEF Shape
<1>2. Home(t, k) \in Slots(t)
  BY <1>1 DEF Home, Slots
<1>3. ASSUME NEW i \in Nat PROVE Probe(t, k, i) \in Slots(t)
  BY <1>1, <1>2 DEF Probe, Slots
<1> QED BY <1>2, <1>3

(* It comes to every slot, and only once on a way around.                  *)
LEMMA ProbeOnto ==
  ASSUME NEW t, Shape(t), NEW k \in Key
  PROVE  /\ \A s \in Slots(t) : \E i \in Slots(t) : Probe(t, k, i) = s
         /\ \A i, j \in Slots(t) : Probe(t, k, i) = Probe(t, k, j) => i = j
<1>1. PICK c \in Nat \ {0} : c = t.capacity
  BY DEF Shape
<1>2. PICK h \in 0..(c - 1) : h = Home(t, k)
  BY <1>1, ProbeType DEF Slots
<1>3. ASSUME NEW i \in Slots(t)
      PROVE  Probe(t, k, i) = IF h + i < c THEN h + i ELSE h + i - c
  <2>1. PICK x \in 0..(2 * c - 1) : x = h + i
    BY <1>1, <1>2 DEF Slots
  <2>2. x % c = IF x < c THEN x ELSE x - c
    BY <1>1, <2>1, Around
  <2>3. Probe(t, k, i) = x % c
    BY <1>1, <1>2, <2>1 DEF Probe
  <2>4. i \in Int /\ h \in Int /\ c \in Int
    BY <1>1, <1>2 DEF Slots
  <2> QED BY <2>1, <2>2, <2>3, <2>4
<1>4. ASSUME NEW s \in Slots(t)
      PROVE  \E i \in Slots(t) : Probe(t, k, i) = s
  <2> DEFINE i == IF s >= h THEN s - h ELSE s - h + c
  <2>1. i \in Slots(t) /\ (IF h + i < c THEN h + i ELSE h + i - c) = s
    BY <1>1, <1>2 DEF Slots
  <2> QED BY <1>3, <2>1
<1>5. ASSUME NEW i \in Slots(t), NEW j \in Slots(t), Probe(t, k, i) = Probe(t, k, j)
      PROVE  i = j
  BY <1>1, <1>2, <1>3, <1>5 DEF Slots
<1> QED BY <1>4, <1>5

-----------------------------------------------------------------------------
(* One insertion into an array                                             *)

(* Where a key goes.                                                       *)
Target(t, k) == Probe(t, k, Offset(t, k))

(* There is a free slot, and a key that is there is found before a gap.    *)
Placeable(t, k) ==
  /\ Occupied(t) # Slots(t)
  /\ k \notin Present(t) \/ NoGaps(t)

(* The loop of hash_table_insert_impl ends at the first slot that is free  *)
(* or has the key.                                                         *)
LEMMA OffsetIsFirst ==
  ASSUME NEW t, Shape(t), NEW k \in Key, Occupied(t) # Slots(t)
  PROVE  /\ Offset(t, k) \in Slots(t)
         /\ Target(t, k) \in Slots(t)
         /\ t.key[Target(t, k)] \in {NoKey, k}
         /\ \A i \in Slots(t) :
              t.key[Probe(t, k, i)] \in {NoKey, k} => Offset(t, k) <= i
<1>1. PICK s \in Slots(t) : t.key[s] = NoKey
  BY DEF Occupied
<1>2. PICK i \in Slots(t) : Probe(t, k, i) = s
  BY ProbeOnto
<1>3. Room(t, k) # {} /\ Room(t, k) \subseteq Nat
  BY <1>1, <1>2 DEF Room, Slots
<1>4. Offset(t, k) \in Room(t, k) /\ \A y \in Room(t, k) : Offset(t, k) <= y
  BY <1>3, MinIsLeast DEF Offset
<1>5. Offset(t, k) \in Slots(t) /\ Offset(t, k) \in Nat
  BY <1>3, <1>4 DEF Room
<1>6. Target(t, k) \in Slots(t)
  BY <1>5, ProbeType DEF Target
<1> QED BY <1>4, <1>5, <1>6 DEF Room, Target

(* No other slot has the key.                                              *)
LEMMA TargetIsOnly ==
  ASSUME NEW t, Sound(t), NEW k \in Key, Placeable(t, k),
         NEW s \in Occupied(t), t.key[s] = k
  PROVE  s = Target(t, k)
<1> USE DEF Sound
<1>1. NoGaps(t) /\ Occupied(t) # Slots(t) /\ s \in Slots(t)
  BY DEF Placeable, Present, Occupied
<1>2. PICK i \in Slots(t) : Probe(t, k, i) = s
  BY <1>1, ProbeOnto
<1>3. Offset(t, k) \in Slots(t) /\ Offset(t, k) <= i
  BY <1>1, <1>2, OffsetIsFirst
<1>4. CASE \A j \in 0..Offset(t, k) : Probe(t, k, j) # s
  <2>1. t.key[Target(t, k)] = k /\ Target(t, k) \in Slots(t)
    BY <1>1, <1>3, <1>4, OffsetIsFirst DEF NoGaps, Target
  <2>2. Target(t, k) \in Occupied(t)
    BY <2>1, TableAssumption DEF Occupied
  <2> QED BY <2>1, <2>2 DEF Unique
<1>5. CASE \E j \in 0..Offset(t, k) : Probe(t, k, j) = s
  <2>1. PICK j \in 0..Offset(t, k) : Probe(t, k, j) = s
    BY <1>5
  <2>2. j \in Slots(t)
    BY <1>3, <2>1 DEF Slots, Shape
  <2>3. j = i
    <3>1. \A a, b \in Slots(t) : Probe(t, k, a) = Probe(t, k, b) => a = b
      BY ProbeOnto
    <3> QED BY <1>2, <2>1, <2>2, <3>1
  <2>4. Offset(t, k) = i
    BY <1>3, <2>1, <2>3 DEF Slots, Shape
  <2> QED BY <1>2, <2>4 DEF Target
<1> QED BY <1>4, <1>5

(* What the insertion leaves as it is.                                     *)
LEMMA PlacedSameHash ==
  ASSUME NEW t, NEW k, NEW v, NEW p, p = Placed(t, k, v)
  PROVE  /\ p = Table(p.capacity, p.length, p.hash, p.key, p.value, p.reach)
         /\ p.capacity = t.capacity /\ p.length = t.length + 1 /\ p.hash = t.hash
         /\ Slots(p) = Slots(t)
         /\ \A x : Home(p, x) = Home(t, x)
         /\ \A x, i : Probe(p, x, i) = Probe(t, x, i)
<1>1. /\ p = Table(p.capacity, p.length, p.hash, p.key, p.value, p.reach)
      /\ p.capacity = t.capacity /\ p.length = t.length + 1 /\ p.hash = t.hash
  BY DEF Placed, PlacedAs, Table
<1>2. Slots(p) = Slots(t)
  BY <1>1 DEF Slots
<1>3. \A x : Home(p, x) = Home(t, x)
  BY <1>1 DEF Home
<1>4. \A x, i : Probe(p, x, i) = Probe(t, x, i)
  BY <1>1, <1>3 DEF Probe
<1> QED BY <1>1, <1>2, <1>3, <1>4

(* It adds one entry, over an older one of the key if there is one, within *)
(* the probe limit, and leaves the others alone.                           *)
LEMMA PlacedEntries ==
  ASSUME NEW t, Sound(t), NEW k \in Key, Placeable(t, k), NEW v \in Value,
         NEW p, p = Placed(t, k, v)
  PROVE  /\ Shape(p)
         /\ Target(t, k) \in Slots(t)
         /\ Occupied(p) = Occupied(t) \union {Target(t, k)}
         /\ p.key[Target(t, k)] = k /\ p.value[Target(t, k)] = v
         /\ \A r \in Occupied(t) : t.key[r] = k => r = Target(t, k)
         /\ \A r \in Slots(t) \ {Target(t, k)} :
              p.key[r] = t.key[r] /\ p.value[r] = t.value[r]
         /\ Offset(t, k) <= p.reach[Home(t, k)]
         /\ \A h \in Slots(t) : t.reach[h] <= p.reach[h]
<1>1. Shape(t) /\ Occupied(t) # Slots(t)
  BY DEF Sound, Placeable
<1>2. PICK s \in Slots(t) : s = Target(t, k)
  BY <1>1, OffsetIsFirst
<1>3. PICK i \in Slots(t) : i = Offset(t, k)
  BY <1>1, OffsetIsFirst
<1>4. PICK h \in Slots(t) : h = Home(t, k)
  BY <1>1, ProbeType
<1>5. /\ p.key = [t.key EXCEPT ![s] = k]
      /\ p.value = [t.value EXCEPT ![s] = v]
      /\ p.reach = [t.reach EXCEPT ![h] = IF t.reach[h] < i THEN i ELSE t.reach[h]]
  BY <1>2, <1>3, <1>4 DEF Placed, PlacedAs, Target, Table
<1>6. /\ p = Table(p.capacity, p.length, p.hash, p.key, p.value, p.reach)
      /\ p.capacity = t.capacity /\ p.length = t.length + 1 /\ p.hash = t.hash
      /\ Slots(p) = Slots(t)
  BY PlacedSameHash
<1>7. \A r \in Occupied(t) : t.key[r] = k => r = s
  BY <1>2, TargetIsOnly
<1>8. /\ p.key \in [Slots(t) -> Key \union {NoKey}] /\ p.key[s] = k
      /\ \A r \in Slots(t) \ {s} : p.key[r] = t.key[r]
  BY <1>1, <1>2, <1>5 DEF Shape
<1>9. /\ p.value \in [Slots(t) -> Value \union {"zero"}] /\ p.value[s] = v
      /\ \A r \in Slots(t) \ {s} : p.value[r] = t.value[r]
  BY <1>1, <1>2, <1>5 DEF Shape
<1>10. /\ p.reach \in [Slots(t) -> Slots(t)] /\ i <= p.reach[h]
       /\ \A g \in Slots(t) : t.reach[g] <= p.reach[g]
  <2>1. /\ t.reach \in [Slots(t) -> Slots(t)] /\ \A x \in Slots(t) : x \in Int
        /\ t.reach[h] \in Slots(t)
    BY <1>1, <1>4 DEF Shape, Slots
  <2>2. PICK m \in Slots(t) : m = IF t.reach[h] < i THEN i ELSE t.reach[h]
    BY <1>3, <2>1
  <2>3. p.reach = [t.reach EXCEPT ![h] = m] /\ i <= m /\ t.reach[h] <= m
    BY <1>3, <1>4, <1>5, <2>1, <2>2
  <2> QED BY <1>4, <2>1, <2>2, <2>3
<1>11. Occupied(p) = Occupied(t) \union {s}
  BY <1>2, <1>6, <1>8, TableAssumption DEF Occupied
<1>12. \A r \in Occupied(p) : p.value[r] \in Value
  BY <1>1, <1>9, <1>11 DEF Shape, Occupied
<1>13. Shape(p)
  BY <1>1, <1>6, <1>8, <1>9, <1>10, <1>12 DEF Shape
<1> QED BY <1>2, <1>3, <1>4, <1>7, <1>8, <1>9, <1>10, <1>11, <1>13

(* Every entry is within reach afterwards, and no key is there twice.      *)
LEMMA PlacedSound ==
  ASSUME NEW t, Sound(t), NEW k \in Key, Placeable(t, k), NEW v \in Value,
         NEW p, p = Placed(t, k, v)
  PROVE  Sound(p)
<1>1. Shape(t) /\ Reached(t) /\ Unique(t) /\ Occupied(t) # Slots(t)
  BY DEF Sound, Placeable
<1>2. PICK s \in Slots(t) : s = Target(t, k)
  BY PlacedEntries
<1>3. /\ Shape(p)
      /\ Occupied(p) = Occupied(t) \union {s}
      /\ p.key[s] = k
      /\ \A r \in Occupied(t) : t.key[r] = k => r = s
      /\ \A r \in Slots(t) \ {s} : p.key[r] = t.key[r]
      /\ Offset(t, k) <= p.reach[Home(t, k)]
      /\ \A h \in Slots(t) : t.reach[h] <= p.reach[h]
  BY <1>2, PlacedEntries
<1>4. /\ \A x : Home(p, x) = Home(t, x)
      /\ \A x, i : Probe(p, x, i) = Probe(t, x, i)
      /\ Slots(p) = Slots(t)
  BY PlacedSameHash
<1>5. \A h \in Slots(t) : t.reach[h] \in Nat /\ p.reach[h] \in Nat
  BY <1>1, <1>3, <1>4 DEF Shape, Slots
<1>6. Reached(p)
  <2> SUFFICES ASSUME NEW r \in Occupied(p)
               PROVE  \E i \in 0..p.reach[Home(t, p.key[r])] : Probe(t, p.key[r], i) = r
    BY <1>4 DEF Reached
  <2>1. CASE r = s
    <3>1. Offset(t, k) \in Nat /\ Home(t, k) \in Slots(t)
      BY <1>1, OffsetIsFirst, ProbeType DEF Slots
    <3>2. Offset(t, k) \in 0..p.reach[Home(t, k)]
      BY <1>3, <1>5, <3>1
    <3>3. Probe(t, k, Offset(t, k)) = s
      BY <1>2 DEF Target
    <3> QED BY <1>3, <2>1, <3>2, <3>3
  <2>2. CASE r # s
    <3>1. r \in Occupied(t) /\ r \in Slots(t) /\ p.key[r] = t.key[r] /\ t.key[r] \in Key
      BY <1>1, <1>3, <2>2 DEF Occupied, Shape
    <3>2. PICK i \in 0..t.reach[Home(t, t.key[r])] : Probe(t, t.key[r], i) = r
      BY <1>1, <3>1 DEF Reached
    <3>3. Home(t, t.key[r]) \in Slots(t)
      BY <1>1, <3>1, ProbeType
    <3>4. i \in 0..p.reach[Home(t, t.key[r])]
      BY <1>3, <1>5, <3>2, <3>3
    <3> QED BY <3>1, <3>2, <3>4
  <2> QED BY <2>1, <2>2
<1>7. Unique(p)
  BY <1>1, <1>3 DEF Unique, Occupied
<1> QED BY <1>3, <1>6, <1>7 DEF Sound

(* It leaves no gap.                                                       *)
LEMMA PlacedNoGaps ==
  ASSUME NEW t, Sound(t), NoGaps(t), NEW k \in Key, Placeable(t, k), NEW v \in Value,
         NEW p, p = Placed(t, k, v)
  PROVE  NoGaps(p)
<1>1. Shape(t) /\ Occupied(t) # Slots(t)
  BY DEF Sound, Placeable
<1>0. PICK s \in Slots(t) : s = Target(t, k)
  BY PlacedEntries
<1>2. /\ Shape(p)
      /\ Occupied(p) = Occupied(t) \union {s}
      /\ p.key[s] = k
      /\ \A r \in Slots(t) \ {s} : p.key[r] = t.key[r]
  BY <1>0, PlacedEntries
<1>3. /\ Slots(p) = Slots(t)
      /\ \A x, i : Probe(p, x, i) = Probe(t, x, i)
  BY PlacedSameHash
<1>4. /\ Offset(t, k) \in Slots(t)
      /\ \A i \in Slots(t) : t.key[Probe(t, k, i)] \in {NoKey, k} => Offset(t, k) <= i
      /\ Probe(t, k, Offset(t, k)) = s
  BY <1>1, <1>0, OffsetIsFirst DEF Target
<1>5. SUFFICES ASSUME NEW r \in Occupied(p), NEW j \in Slots(t),
                      \A i \in 0..j : Probe(t, p.key[r], i) # r
               PROVE  p.key[Probe(t, p.key[r], j)] # NoKey
  BY <1>3 DEF NoGaps
<1>6. p.key[r] \in Key /\ j \in Nat /\ k # NoKey
  BY <1>2, <1>3, TableAssumption DEF Occupied, Shape, Slots
<1>7. Probe(t, p.key[r], j) \in Slots(t)
  BY <1>1, <1>6, ProbeType
<1>8. CASE Probe(t, p.key[r], j) = s
  BY <1>2, <1>6, <1>8
<1>9. CASE Probe(t, p.key[r], j) # s /\ r = s
  <2>1. p.key[r] = k
    BY <1>2, <1>9
  <2>2. ~ (Offset(t, k) \in 0..j)
    BY <1>4, <1>5, <1>9, <2>1
  <2>3. j < Offset(t, k)
    BY <1>4, <1>6, <2>2 DEF Slots
  <2>4. t.key[Probe(t, k, j)] # NoKey
    BY <1>4, <1>6, <2>3 DEF Slots
  <2> QED BY <1>2, <1>7, <1>9, <2>1, <2>4
<1>10. CASE Probe(t, p.key[r], j) # s /\ r # s
  <2>1. r \in Occupied(t) /\ p.key[r] = t.key[r]
    BY <1>2, <1>10 DEF Occupied
  <2>2. t.key[Probe(t, t.key[r], j)] # NoKey
    BY <1>5, <2>1 DEF NoGaps
  <2> QED BY <1>2, <1>7, <1>10, <2>1, <2>2
<1> QED BY <1>8, <1>9, <1>10

(* How many entries there are.                                             *)
LEMMA Counting ==
  ASSUME NEW t, Shape(t)
  PROVE  /\ IsFiniteSet(Occupied(t))
         /\ Cardinality(Occupied(t)) \in Nat
         /\ Cardinality(Occupied(t)) < t.capacity => Occupied(t) # Slots(t)
<1>1. PICK c \in Nat \ {0} : c = t.capacity
  BY DEF Shape
<1>2. IsFiniteSet(0..(c - 1)) /\ Cardinality(0..(c - 1)) = c
  <2>1. c - 1 \in Int /\ ~ (0 > c - 1) /\ (c - 1) - 0 + 1 = c
    BY <1>1
  <2> QED BY <2>1, FS_Interval
<1>3. IsFiniteSet(Occupied(t))
  BY <1>1, <1>2, FS_Subset DEF Occupied, Slots
<1> QED BY <1>1, <1>2, <1>3, FS_CardinalityType DEF Slots

(* A key that was not there before makes one more.                         *)
LEMMA PlacedCounts ==
  ASSUME NEW t, Sound(t), NEW k \in Key, Placeable(t, k), NEW v \in Value,
         NEW p, p = Placed(t, k, v)
  PROVE  Cardinality(Occupied(p)) =
           IF k \in Present(t) THEN Cardinality(Occupied(t))
           ELSE Cardinality(Occupied(t)) + 1
<1>1. Shape(t) /\ Occupied(t) # Slots(t)
  BY DEF Sound, Placeable
<1>2. /\ Occupied(p) = Occupied(t) \union {Target(t, k)}
      /\ \A r \in Occupied(t) : t.key[r] = k => r = Target(t, k)
  BY PlacedEntries
<1>3. Target(t, k) \in Slots(t) /\ t.key[Target(t, k)] \in {NoKey, k}
  BY <1>1, OffsetIsFirst
<1>4. k \in Present(t) <=> Target(t, k) \in Occupied(t)
  BY <1>2, <1>3 DEF Present, Occupied
<1>5. IsFiniteSet(Occupied(t))
  BY <1>1, Counting
<1> QED BY <1>2, <1>4, <1>5, FS_AddElement

-----------------------------------------------------------------------------
(* The map                                                                 *)

(* The map has the values of the entries.                                  *)
LEMMA MapIs ==
  ASSUME NEW t, Sound(t)
  PROVE  /\ DOMAIN MapOf(t) = Present(t)
         /\ \A s \in Occupied(t) :
              t.key[s] \in Present(t) /\ MapOf(t)[t.key[s]] = t.value[s]
<1>1. DOMAIN MapOf(t) = Present(t)
  BY DEF MapOf
<1>2. ASSUME NEW s \in Occupied(t)
      PROVE  t.key[s] \in Present(t) /\ MapOf(t)[t.key[s]] = t.value[s]
  <2> DEFINE r == CHOOSE r \in Slots(t) : t.key[r] = t.key[s]
  <2>1. s \in Slots(t) /\ t.key[s] # NoKey
    BY DEF Occupied
  <2>2. r \in Slots(t) /\ t.key[r] = t.key[s]
    BY <2>1
  <2>3. r \in Occupied(t)
    BY <2>1, <2>2 DEF Occupied
  <2>4. r = s
    BY <2>2, <2>3 DEF Sound, Unique
  <2>5. t.key[s] \in Present(t)
    BY DEF Present
  <2>6. MapOf(t)[t.key[s]] = t.value[r]
    BY <2>5 DEF MapOf
  <2> QED BY <2>4, <2>5, <2>6
<1> QED BY <1>1, <1>2

(* An insertion sets the value of its key.                                 *)
LEMMA PlacedMap ==
  ASSUME NEW t, Sound(t), NEW k \in Key, Placeable(t, k), NEW v \in Value,
         NEW p, p = Placed(t, k, v)
  PROVE  MapOf(p) = [x \in DOMAIN MapOf(t) \union {k} |->
                       IF x = k THEN v ELSE MapOf(t)[x]]
<1>1. Sound(p)
  BY PlacedSound
<1>0. PICK s \in Slots(t) : s = Target(t, k)
  BY PlacedEntries
<1>2. /\ Occupied(p) = Occupied(t) \union {s}
      /\ p.key[s] = k /\ p.value[s] = v
      /\ \A r \in Occupied(t) : t.key[r] = k => r = s
      /\ \A r \in Slots(t) \ {s} : p.key[r] = t.key[r] /\ p.value[r] = t.value[r]
  BY <1>0, PlacedEntries
<1>3. Shape(t) /\ Occupied(t) # Slots(t)
  BY DEF Sound, Placeable
<1>4. t.key[s] \in {NoKey, k}
  BY <1>0, <1>3, OffsetIsFirst
<1>5. ASSUME NEW r \in Occupied(t), r # s
      PROVE  r \in Occupied(p) /\ p.key[r] = t.key[r] /\ p.value[r] = t.value[r] /\ t.key[r] # k
  BY <1>2, <1>5 DEF Occupied
<1>6. ASSUME NEW r \in Occupied(p), r # s
      PROVE  r \in Occupied(t)
  BY <1>2, <1>6
<1>7. Present(p) = Present(t) \union {k}
  <2>1. ASSUME NEW x \in Present(t) PROVE x \in Present(p) \union {k}
    <3>1. PICK r \in Occupied(t) : x = t.key[r]
      BY DEF Present
    <3>2. CASE r = s
      BY <1>4, <3>1, <3>2 DEF Occupied
    <3>3. CASE r # s
      BY <1>5, <3>1, <3>3 DEF Present
    <3> QED BY <3>2, <3>3
  <2>2. ASSUME NEW x \in Present(p) PROVE x \in Present(t) \union {k}
    <3>1. PICK r \in Occupied(p) : x = p.key[r]
      BY DEF Present
    <3> QED BY <1>2, <1>5, <1>6, <3>1 DEF Present
  <2>3. k \in Present(p)
    BY <1>2 DEF Present
  <2> QED BY <2>1, <2>2, <2>3
<1>8. DOMAIN MapOf(p) = DOMAIN MapOf(t) \union {k}
  BY <1>1, <1>7, MapIs
<1>9. ASSUME NEW x \in DOMAIN MapOf(t) \union {k}
      PROVE  MapOf(p)[x] = IF x = k THEN v ELSE MapOf(t)[x]
  <2>1. CASE x = k
    <3>1. s \in Occupied(p)
      BY <1>2
    <3> QED BY <1>1, <1>2, <2>1, <3>1, MapIs
  <2>2. CASE x # k
    <3>1. x \in Present(t)
      BY <2>2, MapIs
    <3>2. PICK r \in Occupied(t) : x = t.key[r]
      BY <3>1 DEF Present
    <3>3. r # s
      BY <1>4, <2>2, <3>2 DEF Occupied
    <3>4. r \in Occupied(p) /\ p.key[r] = x /\ p.value[r] = t.value[r]
      BY <1>5, <3>2, <3>3
    <3>5. MapOf(p)[x] = t.value[r]
      BY <1>1, <3>4, MapIs
    <3>6. MapOf(t)[x] = t.value[r]
      BY <3>2, MapIs
    <3> QED BY <2>2, <3>5, <3>6
  <2> QED BY <2>1, <2>2
<1>10. MapOf(p) = [x \in DOMAIN MapOf(p) |-> MapOf(p)[x]]
  BY DEF MapOf
<1> QED BY <1>8, <1>9, <1>10

(* A search ends with the entry of the key if there is one.                *)
LEMMA FoundIs ==
  ASSUME NEW t, Sound(t), NEW k \in Key
  PROVE  /\ Found(t, k) = {} <=> k \notin Present(t)
         /\ \A s \in Occupied(t) : t.key[s] = k => FoundSlot(t, k) = s
<1>1. Shape(t) /\ Reached(t) /\ Unique(t)
  BY DEF Sound
<1>2. /\ Home(t, k) \in Slots(t) /\ \A i \in Nat : Probe(t, k, i) \in Slots(t)
  BY <1>1, ProbeType
<1>3. t.reach[Home(t, k)] \in Nat
  <2>1. t.reach \in [Slots(t) -> Slots(t)]
    BY <1>1 DEF Shape
  <2>2. t.reach[Home(t, k)] \in Slots(t)
    BY <1>2, <2>1
  <2> QED BY <2>2 DEF Slots
<1>4. ASSUME NEW i \in Found(t, k)
      PROVE  i \in Nat /\ Probe(t, k, i) \in Occupied(t) /\ t.key[Probe(t, k, i)] = k
  <2>1. i \in Nat /\ t.key[Probe(t, k, i)] = k
    BY <1>3 DEF Found
  <2> QED BY <1>2, <2>1, TableAssumption DEF Occupied
<1>5. ASSUME NEW s \in Occupied(t), t.key[s] = k
      PROVE  Found(t, k) # {} /\ FoundSlot(t, k) = s
  <2>1. PICK i \in 0..t.reach[Home(t, k)] : Probe(t, k, i) = s
    BY <1>1, <1>5 DEF Reached
  <2>2. i \in Found(t, k)
    BY <1>5, <2>1 DEF Found
  <2>3. Min(Found(t, k)) \in Found(t, k)
    BY <1>4, <2>2, MinIsLeast
  <2>4. Probe(t, k, Min(Found(t, k))) \in Occupied(t)
        /\ t.key[Probe(t, k, Min(Found(t, k)))] = k
    BY <1>4, <2>3
  <2>5. Probe(t, k, Min(Found(t, k))) = s
    BY <1>1, <1>5, <2>4 DEF Unique
  <2> QED BY <2>2, <2>5 DEF FoundSlot
<1>6. ASSUME k \in Present(t) PROVE Found(t, k) # {}
  BY <1>5, <1>6 DEF Present
<1>7. ASSUME Found(t, k) # {} PROVE k \in Present(t)
  BY <1>4, <1>7 DEF Present
<1> QED BY <1>5, <1>6, <1>7

(* Tables with the same entries, wherever they are, are the same map.      *)
SameEntries(n, t, S) ==
  /\ \A s \in S :
       \E r \in Occupied(n) : n.key[r] = t.key[s] /\ n.value[r] = t.value[s]
  /\ \A r \in Occupied(n) :
       \E s \in S : n.key[r] = t.key[s] /\ n.value[r] = t.value[s]

LEMMA SameMap ==
  ASSUME NEW n, Sound(n), NEW t, Sound(t), SameEntries(n, t, Occupied(t))
  PROVE  Present(n) = Present(t) /\ MapOf(n) = MapOf(t)
<1>1. Present(n) = Present(t)
  <2>1. ASSUME NEW x \in Present(t) PROVE x \in Present(n)
    BY DEF Present, SameEntries
  <2>2. ASSUME NEW x \in Present(n) PROVE x \in Present(t)
    BY DEF Present, SameEntries
  <2> QED BY <2>1, <2>2
<1>2. ASSUME NEW x \in Present(t) PROVE MapOf(n)[x] = MapOf(t)[x]
  <2>1. PICK s \in Occupied(t) : x = t.key[s]
    BY DEF Present
  <2>2. PICK r \in Occupied(n) : n.key[r] = t.key[s] /\ n.value[r] = t.value[s]
    BY DEF SameEntries
  <2> QED BY <2>1, <2>2, MapIs
<1>3. DOMAIN MapOf(n) = Present(t) /\ DOMAIN MapOf(t) = Present(t)
  BY <1>1, MapIs
<1>4. /\ MapOf(n) = [x \in DOMAIN MapOf(n) |-> MapOf(n)[x]]
      /\ MapOf(t) = [x \in DOMAIN MapOf(t) |-> MapOf(t)[x]]
  BY DEF MapOf
<1> QED BY <1>1, <1>2, <1>3, <1>4

(* A new table has no entries.                                             *)
LEMMA EmptyIs ==
  ASSUME NEW c \in Nat \ {0}, NEW h \in Family, NEW t, t = EmptyTable(c, h)
  PROVE  /\ Sound(t) /\ NoGaps(t) /\ Occupied(t) = {} /\ Present(t) = {}
         /\ t.capacity = c /\ t.length = 0 /\ t.hash = h
         /\ MapOf(t) = << >> /\ Cardinality(Occupied(t)) = 0
<1>1. /\ t = Table(t.capacity, t.length, t.hash, t.key, t.value, t.reach)
      /\ t.capacity = c /\ t.length = 0 /\ t.hash = h
      /\ t.key = [s \in 0..(c - 1) |-> NoKey]
      /\ t.value = [s \in 0..(c - 1) |-> "zero"]
      /\ t.reach = [s \in 0..(c - 1) |-> 0]
  BY DEF EmptyTable, Table
<1>2. Slots(t) = 0..(c - 1)
  BY <1>1 DEF Slots
<1>3. Occupied(t) = {}
  BY <1>1, <1>2 DEF Occupied
<1>4. Present(t) = {}
  BY <1>3 DEF Present
<1>5. /\ t.key \in [Slots(t) -> Key \union {NoKey}]
      /\ t.value \in [Slots(t) -> Value \union {"zero"}]
      /\ t.reach \in [Slots(t) -> Slots(t)]
  BY <1>1, <1>2
<1>6. Shape(t)
  <2>1. t.capacity \in Nat \ {0} /\ t.length \in Nat /\ t.hash \in Family
    BY <1>1
  <2>2. t = Table(t.capacity, t.length, t.hash, t.key, t.value, t.reach)
    BY <1>1
  <2>3. \A s \in Occupied(t) : t.value[s] \in Value
    BY <1>3
  <2> QED BY <1>5, <2>1, <2>2, <2>3 DEF Shape
<1>7. Sound(t) /\ NoGaps(t)
  BY <1>3, <1>6 DEF Sound, Reached, Unique, NoGaps
<1>8. MapOf(t) = << >>
  BY <1>4 DEF MapOf
<1> QED BY <1>1, <1>3, <1>4, <1>7, <1>8, FS_EmptySet

(* Deletion takes one entry out.                                           *)
LEMMA DeletedIs ==
  ASSUME NEW t, Sound(t), t.length >= 1, NEW s \in Occupied(t), NEW d, d = Deleted(t, s)
  PROVE  /\ Sound(d) /\ Occupied(d) = Occupied(t) \ {s}
         /\ d.capacity = t.capacity /\ d.length = t.length - 1
         /\ MapOf(d) = Restrict(MapOf(t), DOMAIN MapOf(t) \ {t.key[s]})
<1>1. /\ d = Table(d.capacity, d.length, d.hash, d.key, d.value, d.reach)
      /\ d.capacity = t.capacity /\ d.length = t.length - 1 /\ d.hash = t.hash
      /\ d.key = [t.key EXCEPT ![s] = NoKey]
      /\ d.value = [t.value EXCEPT ![s] = "zero"]
      /\ d.reach = t.reach
  BY DEF Deleted, Table
<1>2. /\ Shape(t) /\ Reached(t) /\ Unique(t) /\ s \in Slots(t)
  BY DEF Sound, Occupied
<1>3. Slots(d) = Slots(t)
  BY <1>1 DEF Slots
<1>4. \A x : Home(d, x) = Home(t, x)
  BY <1>1 DEF Home
<1>5. \A x, i : Probe(d, x, i) = Probe(t, x, i)
  BY <1>1, <1>4 DEF Probe
<1>6. /\ d.key \in [Slots(t) -> Key \union {NoKey}] /\ d.key[s] = NoKey
      /\ \A r \in Slots(t) \ {s} : d.key[r] = t.key[r]
  BY <1>1, <1>2 DEF Shape
<1>7. /\ d.value \in [Slots(t) -> Value \union {"zero"}]
      /\ \A r \in Slots(t) \ {s} : d.value[r] = t.value[r]
  BY <1>1, <1>2 DEF Shape
<1>8. Occupied(d) = Occupied(t) \ {s}
  BY <1>2, <1>3, <1>6 DEF Occupied
<1>9. \A r \in Occupied(d) :
        r \in Occupied(t) /\ r # s /\ d.key[r] = t.key[r] /\ d.value[r] = t.value[r]
  BY <1>6, <1>7, <1>8 DEF Occupied
<1>10. Shape(d)
  <2>1. d.length \in Nat
    BY <1>1, <1>2 DEF Shape
  <2> QED BY <1>1, <1>2, <1>3, <1>6, <1>7, <1>9, <2>1 DEF Shape
<1>11. Reached(d)
  BY <1>1, <1>2, <1>4, <1>5, <1>9 DEF Reached
<1>12. Unique(d)
  BY <1>2, <1>9 DEF Unique
<1>13. Sound(d)
  BY <1>10, <1>11, <1>12 DEF Sound
<1>14. Present(d) = Present(t) \ {t.key[s]}
  <2>1. ASSUME NEW x \in Present(d) PROVE x \in Present(t) /\ x # t.key[s]
    BY <1>2, <1>9 DEF Present, Unique
  <2>2. ASSUME NEW x \in Present(t), x # t.key[s] PROVE x \in Present(d)
    <3>1. PICK r \in Occupied(t) : x = t.key[r]
      BY DEF Present
    <3>2. r \in Occupied(d) /\ d.key[r] = x
      BY <1>8, <1>9, <2>2, <3>1
    <3> QED BY <3>2 DEF Present
  <2> QED BY <2>1, <2>2
<1>15. ASSUME NEW x \in Present(d) PROVE MapOf(d)[x] = MapOf(t)[x]
  <2>1. PICK r \in Occupied(d) : x = d.key[r]
    BY DEF Present
  <2>2. r \in Occupied(t) /\ t.key[r] = x /\ d.value[r] = t.value[r]
    BY <1>9, <2>1
  <2>3. MapOf(d)[x] = d.value[r]
    BY <1>13, <2>1, MapIs
  <2>4. MapOf(t)[x] = t.value[r]
    BY <2>2, MapIs
  <2> QED BY <2>2, <2>3, <2>4
<1>16. DOMAIN MapOf(d) = DOMAIN MapOf(t) \ {t.key[s]} /\ DOMAIN MapOf(d) = Present(d)
  BY <1>13, <1>14, MapIs
<1>17. MapOf(d) = [x \in DOMAIN MapOf(d) |-> MapOf(d)[x]]
  BY DEF MapOf
<1>18. MapOf(d) = Restrict(MapOf(t), DOMAIN MapOf(t) \ {t.key[s]})
  BY <1>15, <1>16, <1>17 DEF Restrict
<1> QED BY <1>1, <1>8, <1>13, <1>18

(* The length is only a number.                                            *)
LEMMA WithLengthIs ==
  ASSUME NEW t, Sound(t), NEW m \in Nat, NEW n, n = WithLength(t, m)
  PROVE  /\ Sound(n) /\ Occupied(n) = Occupied(t) /\ Present(n) = Present(t)
         /\ NoGaps(t) => NoGaps(n)
         /\ n.length = m /\ n.capacity = t.capacity
         /\ \A u, S : SameEntries(t, u, S) => SameEntries(n, u, S)
<1>1. /\ n = Table(n.capacity, n.length, n.hash, n.key, n.value, n.reach)
      /\ n.capacity = t.capacity /\ n.length = m /\ n.hash = t.hash
      /\ n.key = t.key /\ n.value = t.value /\ n.reach = t.reach
  BY DEF WithLength, Table
<1>2. Slots(n) = Slots(t) /\ Occupied(n) = Occupied(t)
  BY <1>1 DEF Slots, Occupied
<1>3. Present(n) = Present(t)
  BY <1>1, <1>2 DEF Present
<1>4. /\ \A x : Home(n, x) = Home(t, x)
      /\ \A x, i : Probe(n, x, i) = Probe(t, x, i)
  BY <1>1 DEF Home, Probe
<1>5. Shape(n)
  BY <1>1, <1>2 DEF Sound, Shape
<1>6. Sound(n)
  BY <1>1, <1>2, <1>4, <1>5 DEF Sound, Reached, Unique
<1>7. NoGaps(t) => NoGaps(n)
  BY <1>1, <1>2, <1>4 DEF NoGaps
<1>8. \A u, S : SameEntries(t, u, S) => SameEntries(n, u, S)
  BY <1>1, <1>2 DEF SameEntries
<1> QED BY <1>1, <1>2, <1>3, <1>6, <1>7, <1>8

(* One entry more of the old table is in the new one.                      *)
LEMMA CopyStep ==
  ASSUME NEW t, Sound(t), NEW n, Sound(n), NoGaps(n), Occupied(n) # Slots(n),
         NEW S \in SUBSET Occupied(t), SameEntries(n, t, S),
         NEW s \in Occupied(t) \ S,
         NEW p, p = Placed(n, t.key[s], t.value[s])
  PROVE  /\ Sound(p) /\ NoGaps(p) /\ SameEntries(p, t, S \union {s})
         /\ Cardinality(Occupied(p)) = Cardinality(Occupied(n)) + 1
<1>1. PICK k \in Key : k = t.key[s]
  BY DEF Sound, Shape, Occupied
<1>2. PICK v \in Value : v = t.value[s]
  BY DEF Sound, Shape
<1>3. p = Placed(n, k, v)
  BY <1>1, <1>2
<1>4. k \notin Present(n)
  <2> SUFFICES ASSUME NEW r \in Occupied(n), n.key[r] = k PROVE FALSE
    BY DEF Present
  <2>1. PICK x \in S : n.key[r] = t.key[x]
    BY DEF SameEntries
  <2> QED BY <1>1, <2>1 DEF Sound, Unique
<1>5. Placeable(n, k)
  BY <1>4 DEF Placeable
<1>6. Sound(p) /\ NoGaps(p)
  BY <1>3, <1>5, PlacedSound, PlacedNoGaps
<1>7. Cardinality(Occupied(p)) = Cardinality(Occupied(n)) + 1
  BY <1>3, <1>4, <1>5, PlacedCounts
<1>8. PICK g \in Slots(n) : g = Target(n, k)
  BY <1>3, <1>5, PlacedEntries
<1>9. /\ Occupied(p) = Occupied(n) \union {g}
      /\ p.key[g] = k /\ p.value[g] = v
      /\ \A r \in Slots(n) \ {g} : p.key[r] = n.key[r] /\ p.value[r] = n.value[r]
  BY <1>3, <1>5, <1>8, PlacedEntries
<1>10. g \notin Occupied(n)
  <2>1. n.key[g] \in {NoKey, k}
    BY <1>8, OffsetIsFirst DEF Sound
  <2> QED BY <1>4, <2>1 DEF Present, Occupied
<1>11. \A r \in Occupied(n) :
         r \in Occupied(p) /\ p.key[r] = n.key[r] /\ p.value[r] = n.value[r]
  BY <1>9, <1>10 DEF Occupied
<1>12. ASSUME NEW x \in S \union {s}
       PROVE  \E r \in Occupied(p) : p.key[r] = t.key[x] /\ p.value[r] = t.value[x]
  <2>1. CASE x = s
    BY <1>1, <1>2, <1>9, <2>1
  <2>2. CASE x \in S
    <3>1. PICK r \in Occupied(n) : n.key[r] = t.key[x] /\ n.value[r] = t.value[x]
      BY <2>2 DEF SameEntries
    <3> QED BY <1>11, <3>1
  <2> QED BY <2>1, <2>2
<1>13. ASSUME NEW r \in Occupied(p)
       PROVE  \E x \in S \union {s} : p.key[r] = t.key[x] /\ p.value[r] = t.value[x]
  <2>1. CASE r = g
    BY <1>1, <1>2, <1>9, <2>1
  <2>2. CASE r # g
    <3>1. r \in Occupied(n)
      BY <1>9, <2>2
    <3>2. PICK x \in S : n.key[r] = t.key[x] /\ n.value[r] = t.value[x]
      BY <3>1 DEF SameEntries
    <3> QED BY <1>11, <3>1, <3>2
  <2> QED BY <2>1, <2>2
<1>14. SameEntries(p, t, S \union {s})
  BY <1>12, <1>13 DEF SameEntries
<1> QED BY <1>6, <1>7, <1>14

(* What a search finds.                                                    *)
LEMMA KeyFound ==
  ASSUME NEW t, Sound(t), NEW k \in Key, Found(t, k) # {}
  PROVE  /\ FoundSlot(t, k) \in Occupied(t) /\ t.key[FoundSlot(t, k)] = k
         /\ k \in Present(t)
<1>1. PICK s \in Occupied(t) : t.key[s] = k
  BY FoundIs DEF Present
<1>2. FoundSlot(t, k) = s
  BY <1>1, FoundIs
<1> QED BY <1>1, <1>2, FoundIs

-----------------------------------------------------------------------------
(* The invariant                                                           *)

(* The length before the last insertion was less than two thirds.          *)
Balanced(t) ==
  t.length = 0 \/ (t.length - 1) + (t.length - 1) \div 2 < t.capacity

TableOK ==
  /\ Sound(table) /\ Balanced(table)
  /\ 3 <= table.capacity /\ table.capacity <= MaxCapacity
  /\ Cardinality(Occupied(table)) <= table.length
  /\ client = "set" => table.length = Cardinality(Occupied(table))
  /\ client = "registry" => NoGaps(table)

ClientOK ==
  /\ doing \in {"nothing", "grow", "place", "rehash"}
  /\ entry \in [key : Key \union {NoKey}, value : Value \union {"zero"}]
  /\ client \in {"registry", "set"}
  /\ result \in Value \union {"none", "inserted", "absent", "deleted"}

(* While a key is waiting to be inserted.                                  *)
EntryOK ==
  /\ doing \in {"grow", "place"} =>
       /\ entry.key \in Key /\ entry.value \in Value
       /\ client = "set" => entry.key \notin Present(table)
  /\ doing = "place" => ~MustGrow(table)

(* The table that is being built has the entries that have been copied.    *)
NewOK ==
  /\ doing \in {"nothing", "place"} => left = {}
  /\ doing \in {"grow", "rehash"} =>
       /\ Sound(new) /\ NoGaps(new)
       /\ left \in SUBSET Occupied(table)
       /\ SameEntries(new, table, Occupied(table) \ left)
       /\ Cardinality(Occupied(new)) + Cardinality(left) = Cardinality(Occupied(table))
       /\ new.length = Cardinality(Occupied(new))
  /\ doing = "grow" =>
       new.capacity = GrownCapacity(table) /\ new.capacity <= MaxCapacity
  /\ doing = "rehash" => new.capacity = table.capacity

IInv == TableOK /\ ClientOK /\ EntryOK /\ NewOK

(* Two thirds are not everything, and a grown table is below them.         *)
LEMMA Balance ==
  ASSUME NEW c \in Nat, c >= 3, NEW n \in Nat,
         n = 0 \/ (n - 1) + (n - 1) \div 2 < c
  PROVE  /\ n < c
         /\ n + n \div 2 < c + c \div 2 + 1
         /\ \A m \in 0..n : m = 0 \/ (m - 1) + (m - 1) \div 2 < c
OBVIOUS

(* There is always a free slot.                                            *)
LEMMA FreeSlot ==
  ASSUME TableOK
  PROVE  /\ table.capacity \in Nat /\ table.length \in Nat
         /\ IsFiniteSet(Occupied(table)) /\ Cardinality(Occupied(table)) \in Nat
         /\ table.length < table.capacity
         /\ Cardinality(Occupied(table)) < table.capacity
         /\ Occupied(table) # Slots(table)
<1>1. table.capacity \in Nat /\ table.length \in Nat /\ Shape(table)
  BY DEF TableOK, Sound, Shape
<1>2. table.length < table.capacity
  BY <1>1, Balance DEF TableOK, Balanced
<1>3. IsFiniteSet(Occupied(table)) /\ Cardinality(Occupied(table)) \in Nat
  BY <1>1, Counting
<1>4. Cardinality(Occupied(table)) < table.capacity
  BY <1>1, <1>2, <1>3 DEF TableOK
<1> QED BY <1>1, <1>2, <1>3, <1>4, Counting

(* To build a table begins with an empty one.                              *)
LEMMA RebuildStep ==
  ASSUME NEW what, NEW t, Sound(t), NEW c \in Nat \ {0}, NEW h \in Family,
         Rebuild(what, t, c, h)
  PROVE  /\ doing' = what /\ left' = Occupied(t)
         /\ Sound(new') /\ NoGaps(new') /\ new'.capacity = c
         /\ SameEntries(new', t, Occupied(t) \ left')
         /\ Cardinality(Occupied(new')) + Cardinality(left') = Cardinality(Occupied(t))
         /\ new'.length = Cardinality(Occupied(new'))
<1>1. doing' = what /\ left' = Occupied(t) /\ new' = EmptyTable(c, h)
  BY DEF Rebuild
<1>2. PICK e : e = new'
  OBVIOUS
<1>3. /\ Sound(e) /\ NoGaps(e) /\ Occupied(e) = {} /\ e.capacity = c
      /\ e.length = 0 /\ Cardinality(Occupied(e)) = 0
  BY <1>1, <1>2, EmptyIs
<1>4. SameEntries(e, t, Occupied(t) \ left')
  BY <1>1, <1>3 DEF SameEntries
<1>5. Cardinality(Occupied(t)) \in Nat
  BY Counting DEF Sound
<1> QED BY <1>1, <1>2, <1>3, <1>4, <1>5

-----------------------------------------------------------------------------
(* One lemma per action                                                    *)

LEMMA InitStep == Init => IInv
<1> SUFFICES ASSUME Init PROVE IInv
  OBVIOUS
<1>1. PICK h \in Family : table = EmptyTable(InitialCapacity, h)
  BY DEF Init
<1>2. InitialCapacity \in Nat \ {0} /\ InitialCapacity <= MaxCapacity /\ 3 <= InitialCapacity
  BY TableAssumption
<1>3. /\ Sound(table) /\ NoGaps(table) /\ table.capacity = InitialCapacity
      /\ table.length = 0 /\ Cardinality(Occupied(table)) = 0
  BY <1>1, <1>2, EmptyIs
<1>4. TableOK
  BY <1>2, <1>3 DEF TableOK, Balanced
<1>5. ClientOK
  BY DEF Init, ClientOK, NoEntry
<1>6. EntryOK /\ NewOK
  BY DEF Init, EntryOK, NewOK
<1> QED BY <1>4, <1>5, <1>6 DEF IInv

LEMMA InsertStep ==
  ASSUME IInv, NEW k \in Key, NEW v \in Value, Insert(k, v)
  PROVE  IInv'
<1>1. /\ table' = table /\ client' = client /\ result' = result
      /\ doing = "nothing" /\ entry' = [key |-> k, value |-> v]
      /\ TableOK /\ ClientOK /\ NewOK
  BY DEF Insert, IInv
<1>2. TableOK'
  BY <1>1 DEF TableOK, Balanced
<1>3. client = "set" => k \notin Present(table)
  BY <1>1, FoundIs DEF Insert, TableOK
<1>4. CASE MustGrow(table)
  <2>1. /\ GrownCapacity(table) <= MaxCapacity
        /\ Rebuild("grow", table, GrownCapacity(table), table.hash)
    BY <1>4 DEF Insert
  <2>2. Sound(table) /\ GrownCapacity(table) \in Nat \ {0} /\ table.hash \in Family
    BY <1>1, FreeSlot DEF TableOK, GrownCapacity, Sound, Shape
  <2>3. /\ doing' = "grow" /\ left' = Occupied(table)
        /\ Sound(new') /\ NoGaps(new') /\ new'.capacity = GrownCapacity(table)
        /\ SameEntries(new', table, Occupied(table) \ left')
        /\ Cardinality(Occupied(new')) + Cardinality(left') = Cardinality(Occupied(table))
        /\ new'.length = Cardinality(Occupied(new'))
    BY <2>1, <2>2, RebuildStep
  <2>4. ClientOK'
    BY <1>1, <2>3 DEF ClientOK
  <2>5. EntryOK'
    BY <1>1, <1>3, <2>3 DEF EntryOK
  <2>6. NewOK'
    BY <1>1, <2>1, <2>3 DEF NewOK, GrownCapacity
  <2> QED BY <1>2, <2>4, <2>5, <2>6 DEF IInv
<1>5. CASE ~ MustGrow(table)
  <2>1. doing' = "place" /\ left' = left
    BY <1>5 DEF Insert
  <2>2. ClientOK'
    BY <1>1, <2>1 DEF ClientOK
  <2>3. EntryOK'
    BY <1>1, <1>3, <1>5, <2>1 DEF EntryOK, MustGrow
  <2>4. NewOK'
    BY <1>1, <2>1 DEF NewOK
  <2> QED BY <1>2, <2>2, <2>3, <2>4 DEF IInv
<1> QED BY <1>4, <1>5

(* The entry can be placed: there is room, and if the key may be there     *)
(* already, nothing has been deleted.                                      *)
LEMMA CanPlace ==
  ASSUME IInv, Place
  PROVE  /\ entry.key \in Key /\ entry.value \in Value
         /\ Sound(table) /\ Placeable(table, entry.key)
         /\ table'= Placed(table, entry.key, entry.value)
<1>1. /\ entry.key \in Key /\ entry.value \in Value
      /\ client = "set" => entry.key \notin Present(table)
  BY DEF IInv, Place, EntryOK
<1>2. Sound(table) /\ (client = "registry" => NoGaps(table)) /\ client \in {"registry", "set"}
  BY DEF IInv, TableOK, ClientOK
<1>3. Placeable(table, entry.key)
  BY <1>1, <1>2, FreeSlot DEF IInv, Placeable
<1>4. table'= Placed(table, entry.key, entry.value)
  BY DEF Place
<1> QED BY <1>1, <1>2, <1>3, <1>4

LEMMA PlaceStep ==
  ASSUME IInv, Place
  PROVE  IInv'
<1>1. PICK k \in Key : k = entry.key
  BY CanPlace
<1>2. PICK v \in Value : v = entry.value
  BY CanPlace
<1>3. /\ Sound(table) /\ Placeable(table, k) /\ table' = Placed(table, k, v)
  BY <1>1, <1>2, CanPlace
<1>4. /\ TableOK /\ ClientOK /\ NewOK /\ EntryOK
      /\ doing = "place" /\ client' = client /\ entry' = NoEntry /\ result' = "inserted"
  BY DEF IInv, Place
<1>5. Sound(table')
  BY <1>3, PlacedSound
<1>6. /\ table'.capacity = table.capacity /\ table'.length = table.length + 1
  BY <1>3, PlacedSameHash
<1>7. TableOK'
  <2>1. Balanced(table')
    <3>1. ~ MustGrow(table)
      BY <1>4 DEF EntryOK
    <3> QED BY <1>4, <1>6, <3>1, FreeSlot DEF MustGrow, Balanced
  <2>2. Cardinality(Occupied(table')) =
          IF k \in Present(table) THEN Cardinality(Occupied(table))
          ELSE Cardinality(Occupied(table)) + 1
    BY <1>3, PlacedCounts
  <2>3. client = "set" => k \notin Present(table)
    BY <1>1, <1>4 DEF EntryOK
  <2>4. /\ Cardinality(Occupied(table')) <= table'.length
        /\ client = "set" => table'.length = Cardinality(Occupied(table'))
    BY <1>4, <1>6, <2>2, <2>3, FreeSlot DEF TableOK
  <2>5. client = "registry" => NoGaps(table')
    BY <1>3, <1>4, PlacedNoGaps DEF TableOK
  <2> QED BY <1>4, <1>5, <1>6, <2>1, <2>4, <2>5 DEF TableOK
<1>8. CASE FarProbe(table, k)
  <2>1. PICK h \in Family : Rebuild("rehash", table', table'.capacity, h)
    BY <1>1, <1>2, <1>3, <1>8 DEF Place
  <2>2. table'.capacity \in Nat \ {0}
    BY <1>5 DEF Sound, Shape
  <2>3. /\ doing' = "rehash" /\ left' = Occupied(table')
        /\ Sound(new') /\ NoGaps(new') /\ new'.capacity = table'.capacity
        /\ SameEntries(new', table', Occupied(table') \ left')
        /\ Cardinality(Occupied(new')) + Cardinality(left') = Cardinality(Occupied(table'))
        /\ new'.length = Cardinality(Occupied(new'))
    BY <1>5, <2>1, <2>2, RebuildStep
  <2>4. ClientOK'
    BY <1>4, <2>3 DEF ClientOK, NoEntry
  <2>5. EntryOK'
    BY <2>3 DEF EntryOK
  <2>6. NewOK'
    BY <2>3 DEF NewOK
  <2> QED BY <1>7, <2>4, <2>5, <2>6 DEF IInv
<1>9. CASE ~ FarProbe(table, k)
  <2>1. doing' = "nothing" /\ left' = left
    BY <1>1, <1>9 DEF Place
  <2>2. ClientOK' /\ EntryOK' /\ NewOK'
    BY <1>4, <2>1 DEF ClientOK, NoEntry, EntryOK, NewOK
  <2> QED BY <1>7, <2>2 DEF IInv
<1> QED BY <1>8, <1>9

(* While a table is being built, what it is built from is as it was.       *)
LEMMA CopyKeeps ==
  ASSUME IInv, NEW s \in left, Copy(s)
  PROVE  IInv'
<1>1. /\ TableOK /\ ClientOK /\ NewOK /\ EntryOK
      /\ table' = table /\ doing' = doing /\ entry' = entry /\ client' = client
      /\ result' = result /\ left' = left \ {s}
      /\ new' = Placed(new, table.key[s], table.value[s])
  BY DEF IInv, Copy
<1>2. /\ doing \in {"grow", "rehash"}
      /\ Sound(new) /\ NoGaps(new) /\ Sound(table)
      /\ left \in SUBSET Occupied(table)
      /\ SameEntries(new, table, Occupied(table) \ left)
      /\ Cardinality(Occupied(new)) + Cardinality(left) = Cardinality(Occupied(table))
      /\ new.length = Cardinality(Occupied(new))
  BY <1>1 DEF NewOK, ClientOK, TableOK
<1>3. /\ new.capacity \in Nat /\ table.capacity \in Nat
      /\ new.capacity >= table.capacity
  BY <1>1, <1>2, FreeSlot DEF NewOK, GrownCapacity, Sound, Shape
<1>4. /\ IsFiniteSet(left) /\ Cardinality(left) \in Nat
      /\ Cardinality(left \ {s}) = Cardinality(left) - 1
  BY <1>1, <1>2, FreeSlot, FS_Subset, FS_RemoveElement, FS_CardinalityType
<1>5. Occupied(new) # Slots(new) /\ Cardinality(Occupied(new)) \in Nat
  BY <1>1, <1>2, <1>3, <1>4, FreeSlot, Counting DEF Sound
<1>6. PICK S \in SUBSET Occupied(table) : S = Occupied(table) \ left
  OBVIOUS
<1>7. /\ s \in Occupied(table) \ S
      /\ S \union {s} = Occupied(table) \ (left \ {s})
  BY <1>2, <1>6
<1>8. PICK p : p = Placed(new, table.key[s], table.value[s])
  OBVIOUS
<1>9. /\ Sound(p) /\ NoGaps(p) /\ SameEntries(p, table, S \union {s})
      /\ Cardinality(Occupied(p)) = Cardinality(Occupied(new)) + 1
  <2>1. SameEntries(new, table, S) /\ Sound(table) /\ Sound(new) /\ NoGaps(new)
    BY <1>2, <1>6
  <2> QED BY <1>5, <1>6, <1>7, <1>8, <2>1, CopyStep
<1>10. p.capacity = new.capacity /\ p.length = new.length + 1
  BY <1>8, PlacedSameHash
<1>11. TableOK' /\ ClientOK'
  BY <1>1 DEF TableOK, Balanced, ClientOK
<1>12. EntryOK'
  BY <1>1 DEF EntryOK, MustGrow
<1>13. NewOK'
  <2>1. new' = p /\ left' \in SUBSET Occupied(table)
    BY <1>1, <1>2, <1>8
  <2>2. SameEntries(new', table, Occupied(table) \ left')
    BY <1>1, <1>7, <1>9, <2>1
  <2>3. /\ Cardinality(Occupied(p)) + Cardinality(left') = Cardinality(Occupied(table))
        /\ p.length = Cardinality(Occupied(p))
    BY <1>1, <1>2, <1>4, <1>5, <1>9, <1>10
  <2>4. /\ doing = "grow" => p.capacity = GrownCapacity(table) /\ p.capacity <= MaxCapacity
        /\ doing = "rehash" => p.capacity = table.capacity
    BY <1>1, <1>10 DEF NewOK
  <2> QED BY <1>1, <1>2, <1>9, <2>1, <2>2, <2>3, <2>4 DEF NewOK, GrownCapacity
<1> QED BY <1>11, <1>12, <1>13 DEF IInv

(* The table that has been built has all entries and is the same map.      *)
LEMMA BuiltIs ==
  ASSUME IInv, EndRebuild
  PROVE  /\ Sound(table') /\ NoGaps(table') /\ left' = {}
         /\ Cardinality(Occupied(table')) = Cardinality(Occupied(table))
         /\ Present(table') = Present(table) /\ MapOf(table') = MapOf(table)
         /\ doing = "grow" => /\ doing' = "place" /\ table'.length = table.length
                              /\ table'.capacity = GrownCapacity(table)
                              /\ table'.capacity <= MaxCapacity
         /\ doing = "rehash" => /\ doing' = "nothing"
                                /\ table'.length = Cardinality(Occupied(table))
                                /\ table'.capacity = table.capacity
<1>1. /\ TableOK /\ NewOK /\ left = {} /\ left' = {} /\ doing \in {"grow", "rehash"}
      /\ Sound(table) /\ table.length \in Nat
  BY FreeSlot DEF IInv, EndRebuild, TableOK
<1>2. /\ Sound(new) /\ NoGaps(new) /\ new.length = Cardinality(Occupied(new))
      /\ SameEntries(new, table, Occupied(table) \ {})
      /\ Cardinality(Occupied(new)) + Cardinality({}) = Cardinality(Occupied(table))
  BY <1>1 DEF NewOK
<1>3. /\ SameEntries(new, table, Occupied(table))
      /\ Cardinality(Occupied(new)) = Cardinality(Occupied(table))
  <2>1. Occupied(table) \ {} = Occupied(table)
    OBVIOUS
  <2>2. Cardinality(Occupied(new)) \in Nat /\ Cardinality({}) = 0
    BY <1>2, Counting, FS_EmptySet DEF Sound
  <2> QED BY <1>2, <2>1, <2>2
<1>4. CASE doing = "grow"
  <2>1. table' = WithLength(new, table.length) /\ doing' = "place"
    BY <1>4 DEF EndRebuild
  <2>2. PICK n : n = WithLength(new, table.length)
    OBVIOUS
  <2>3. /\ Sound(n) /\ NoGaps(n) /\ Occupied(n) = Occupied(new)
        /\ n.length = table.length /\ n.capacity = new.capacity
        /\ SameEntries(n, table, Occupied(table))
    BY <1>1, <1>2, <1>3, <2>2, WithLengthIs
  <2>4. Present(n) = Present(table) /\ MapOf(n) = MapOf(table)
    BY <1>1, <2>3, SameMap
  <2> QED BY <1>1, <1>3, <1>4, <2>1, <2>2, <2>3, <2>4 DEF NewOK
<1>5. CASE doing = "rehash"
  <2>1. table' = new /\ doing' = "nothing"
    BY <1>5 DEF EndRebuild
  <2>2. Present(new) = Present(table) /\ MapOf(new) = MapOf(table)
    BY <1>1, <1>2, <1>3, SameMap
  <2> QED BY <1>1, <1>2, <1>3, <1>5, <2>1, <2>2 DEF NewOK
<1> QED BY <1>1, <1>4, <1>5

LEMMA EndRebuildStep ==
  ASSUME IInv, EndRebuild
  PROVE  IInv'
<1>1. /\ TableOK /\ ClientOK /\ EntryOK /\ doing \in {"grow", "rehash"}
      /\ client' = client /\ entry' = entry /\ result' = result
  BY DEF IInv, EndRebuild
<1>2. /\ table.capacity \in Nat /\ table.length \in Nat /\ 3 <= table.capacity
      /\ Cardinality(Occupied(table)) \in 0..table.length
      /\ Balanced(table) /\ table.capacity <= MaxCapacity
  BY <1>1, FreeSlot DEF TableOK
<1>3. TableOK'
  <2>1. Balanced(table') /\ 3 <= table'.capacity /\ table'.capacity <= MaxCapacity
    <3>1. CASE doing = "grow"
      BY <1>2, <3>1, BuiltIs DEF Balanced, GrownCapacity
    <3>2. CASE doing = "rehash"
      BY <1>2, <3>2, BuiltIs, Balance DEF Balanced
    <3> QED BY <1>1, <3>1, <3>2
  <2>2. /\ Cardinality(Occupied(table')) <= table'.length
        /\ client = "set" => table'.length = Cardinality(Occupied(table'))
    BY <1>1, <1>2, BuiltIs DEF TableOK
  <2> QED BY <1>1, <2>1, <2>2, BuiltIs DEF TableOK
<1>4. ClientOK'
  BY <1>1, BuiltIs DEF ClientOK
<1>5. EntryOK'
  <2>1. CASE doing = "grow"
    <3>1. ~ MustGrow(table')
      BY <1>2, <2>1, BuiltIs, Balance DEF MustGrow, Balanced, GrownCapacity
    <3> QED BY <1>1, <2>1, <3>1, BuiltIs DEF EntryOK
  <2>2. CASE doing = "rehash"
    BY <2>2, BuiltIs DEF EntryOK
  <2> QED BY <1>1, <2>1, <2>2
<1>6. NewOK'
  BY <1>1, BuiltIs DEF NewOK
<1> QED BY <1>3, <1>4, <1>5, <1>6 DEF IInv

LEMMA FindStep ==
  ASSUME IInv, NEW k \in Key, Find(k)
  PROVE  IInv'
<1>1. /\ TableOK /\ ClientOK /\ EntryOK /\ NewOK
      /\ UNCHANGED <<table, doing, new, left, entry, client>>
  BY DEF IInv, Find
<1>2. result' \in Value \union {"none", "inserted", "absent", "deleted"}
  <2>1. CASE Found(table, k) = {}
    BY <2>1 DEF Find
  <2>2. CASE Found(table, k) # {}
    <3>1. FoundSlot(table, k) \in Occupied(table)
      BY <1>1, <2>2, KeyFound DEF TableOK
    <3>2. table.value[FoundSlot(table, k)] \in Value
      BY <1>1, <3>1 DEF TableOK, Sound, Shape
    <3> QED BY <2>2, <3>2 DEF Find
  <2> QED BY <2>1, <2>2
<1>3. TableOK' /\ EntryOK'
  BY <1>1 DEF TableOK, Balanced, EntryOK, MustGrow
<1>4. ClientOK' /\ NewOK'
  BY <1>1, <1>2 DEF ClientOK, NewOK, GrownCapacity
<1> QED BY <1>3, <1>4 DEF IInv

LEMMA DeleteStep ==
  ASSUME IInv, NEW k \in Key, Delete(k)
  PROVE  IInv'
<1>1. /\ TableOK /\ ClientOK /\ EntryOK /\ NewOK
      /\ doing = "nothing" /\ client = "set"
      /\ UNCHANGED <<doing, new, left, entry, client>>
  BY DEF IInv, Delete
<1>2. ClientOK' /\ EntryOK' /\ NewOK'
  BY <1>1 DEF ClientOK, EntryOK, NewOK, Delete
<1>3. TableOK'
  <2>1. CASE Found(table, k) = {}
    BY <1>1, <2>1 DEF Delete, TableOK, Balanced
  <2>2. CASE Found(table, k) # {}
    <3>1. PICK s \in Occupied(table) : s = FoundSlot(table, k)
      BY <1>1, <2>2, KeyFound DEF TableOK
    <3>2. /\ IsFiniteSet(Occupied(table)) /\ table.length \in Nat /\ table.capacity \in Nat
          /\ table.length = Cardinality(Occupied(table)) /\ Sound(table)
      BY <1>1, FreeSlot DEF TableOK
    <3>3. table.length >= 1
      <4>1. Cardinality(Occupied(table)) # 0
        BY <3>2, FS_EmptySet
      <4> QED BY <3>2, <4>1
    <3>4. Cardinality(Occupied(table) \ {s}) = table.length - 1
      BY <3>2, FS_RemoveElement
    <3>5. table' = Deleted(table, s)
      BY <2>2, <3>1 DEF Delete
    <3>6. /\ Sound(table') /\ Occupied(table') = Occupied(table) \ {s}
          /\ table'.capacity = table.capacity /\ table'.length = table.length - 1
      BY <3>2, <3>3, <3>5, DeletedIs
    <3>7. Balanced(table')
      BY <1>1, <3>2, <3>3, <3>6, Balance DEF TableOK, Balanced
    <3> QED BY <1>1, <3>2, <3>3, <3>4, <3>6, <3>7 DEF TableOK
  <2> QED BY <2>1, <2>2
<1> QED BY <1>2, <1>3 DEF IInv

LEMMA StutterStep == ASSUME IInv, UNCHANGED vars PROVE IInv'
<1>1. /\ TableOK /\ ClientOK /\ EntryOK /\ NewOK
      /\ UNCHANGED <<table, doing, new, left, entry, client, result>>
  BY DEF IInv, vars
<1>2. TableOK' /\ ClientOK'
  BY <1>1 DEF TableOK, Balanced, ClientOK
<1>3. EntryOK' /\ NewOK'
  BY <1>1 DEF EntryOK, MustGrow, NewOK, GrownCapacity
<1> QED BY <1>2, <1>3 DEF IInv

LEMMA SpecIInv == Spec => []IInv
<1>1. IInv /\ [Next]_vars => IInv'
  BY InsertStep, PlaceStep, CopyKeeps, EndRebuildStep, FindStep, DeleteStep,
     StutterStep DEF Next
<1> QED BY InitStep, <1>1, PTL DEF Spec

-----------------------------------------------------------------------------
(* The properties of HashTable                                             *)

(* The table has the shape that hash_table.c gives it, within the bound on *)
(* the growth: TypeOK.                                                     *)
THEOREM TypeCorrect == Spec => []TypeOK
<1>1. ASSUME IInv PROVE TypeOK
  <2>1. /\ Shape(table) /\ table.capacity \in Nat /\ table.length \in Nat
        /\ table.length < table.capacity /\ table.capacity <= MaxCapacity
        /\ 3 <= table.capacity
    BY <1>1, FreeSlot DEF IInv, TableOK, Sound
  <2>2. table.capacity \in 1..MaxCapacity /\ table.length \in 0..MaxCapacity
    BY <2>1, TableAssumption
  <2>3. left \subseteq Slots(table)
    BY <1>1 DEF IInv, NewOK, ClientOK, Occupied
  <2>4. ClientOK
    BY <1>1 DEF IInv
  <2> QED BY <2>1, <2>2, <2>3, <2>4 DEF TypeOK, Shape, ClientOK
<1> QED BY <1>1, SpecIInv, PTL

(* hash_table_find comes to every entry, after any growth, change of the   *)
(* hash function and deletion: EveryEntryFound.                            *)
THEOREM EntriesFound == Spec => []EveryEntryFound
<1>1. ASSUME IInv PROVE EveryEntryFound
  <2>1. Sound(table)
    BY <1>1 DEF IInv, TableOK
  <2>2. ASSUME NEW s \in Occupied(table)
        PROVE  /\ Found(table, table.key[s]) # {}
               /\ FoundSlot(table, table.key[s]) = s
    <3>1. table.key[s] \in Key /\ table.key[s] \in Present(table)
      BY <2>1 DEF Sound, Shape, Occupied, Present
    <3> QED BY <2>1, <3>1, FoundIs
  <2> QED BY <2>2 DEF EveryEntryFound
<1> QED BY <1>1, SpecIInv, PTL

(* The length never falls behind the number of entries, is that number in  *)
(* a set, and leaves a free slot: LengthCounts.                            *)
THEOREM LengthIsRight == Spec => []LengthCounts
<1>1. ASSUME IInv PROVE LengthCounts
  BY <1>1, FreeSlot DEF IInv, TableOK, LengthCounts
<1> QED BY <1>1, SpecIInv, PTL

(* The hash table is the map of AbstractMap, for all keys, values and hash *)
(* functions: ImplementsMap.                                               *)
THEOREM IsAMap == Spec => ImplementsMap
<1> DEFINE Step == [Abstract!Next]_<<MapOf(table), result>>
<1>1. ASSUME Init PROVE Abstract!Init
  <2>1. PICK h \in Family : table = EmptyTable(InitialCapacity, h)
    BY <1>1 DEF Init
  <2>2. MapOf(table) = << >>
    BY <2>1, TableAssumption, EmptyIs
  <2> QED BY <1>1, <2>2 DEF Init, Abstract!Init
<1>2. ASSUME IInv, [Next]_vars PROVE Step
  <2>1. Sound(table)
    BY <1>2 DEF IInv, TableOK
  <2>2. ASSUME NEW k \in Key, NEW v \in Value, Insert(k, v)
        PROVE  UNCHANGED <<MapOf(table), result>>
    BY <2>2 DEF Insert
  <2>3. ASSUME Place PROVE Abstract!Insert(entry.key, entry.value)
    <3>1. PICK k \in Key : k = entry.key
      BY <1>2, <2>3, CanPlace
    <3>2. PICK v \in Value : v = entry.value
      BY <1>2, <2>3, CanPlace
    <3>3. Placeable(table, k) /\ table' = Placed(table, k, v)
      BY <1>2, <2>3, <3>1, <3>2, CanPlace
    <3>4. MapOf(table') = [x \in DOMAIN MapOf(table) \union {k} |->
                             IF x = k THEN v ELSE MapOf(table)[x]]
      BY <2>1, <3>3, PlacedMap
    <3>5. result' = "inserted"
      BY <2>3 DEF Place
    <3> QED BY <3>1, <3>2, <3>4, <3>5 DEF Abstract!Insert
  <2>4. ASSUME NEW s \in left, Copy(s)
        PROVE  UNCHANGED <<MapOf(table), result>>
    BY <2>4 DEF Copy
  <2>5. ASSUME EndRebuild PROVE UNCHANGED <<MapOf(table), result>>
    <3>1. result' = result
      BY <2>5 DEF EndRebuild
    <3> QED BY <1>2, <2>5, <3>1, BuiltIs
  <2>6. ASSUME NEW k \in Key, Find(k) PROVE Abstract!Find(k)
    <3>1. UNCHANGED MapOf(table)
      BY <2>6 DEF Find
    <3>2. DOMAIN MapOf(table) = Present(table)
      BY <2>1, MapIs
    <3>3. CASE Found(table, k) = {}
      BY <2>1, <2>6, <3>1, <3>2, <3>3, FoundIs DEF Find, Abstract!Find
    <3>4. CASE Found(table, k) # {}
      <4>1. /\ FoundSlot(table, k) \in Occupied(table) /\ k \in Present(table)
            /\ table.key[FoundSlot(table, k)] = k
        BY <2>1, <3>4, KeyFound
      <4>2. MapOf(table)[k] = table.value[FoundSlot(table, k)]
        BY <2>1, <4>1, MapIs
      <4> QED BY <2>6, <3>1, <3>2, <3>4, <4>1, <4>2 DEF Find, Abstract!Find
    <3> QED BY <3>3, <3>4
  <2>7. ASSUME NEW k \in Key, Delete(k) PROVE Abstract!Delete(k)
    <3>1. DOMAIN MapOf(table) = Present(table)
      BY <2>1, MapIs
    <3>2. CASE Found(table, k) = {}
      <4>1. k \notin DOMAIN MapOf(table) /\ result' = "absent" /\ table' = table
        BY <2>1, <2>7, <3>1, <3>2, FoundIs DEF Delete
      <4>2. MapOf(table) = [x \in DOMAIN MapOf(table) |-> MapOf(table)[x]]
        BY DEF MapOf
      <4>3. DOMAIN MapOf(table) \ {k} = DOMAIN MapOf(table)
        BY <4>1
      <4>4. MapOf(table) = Abstract!Restrict(MapOf(table), DOMAIN MapOf(table) \ {k})
        BY <4>2, <4>3 DEF Abstract!Restrict
      <4> QED BY <4>1, <4>4 DEF Abstract!Delete
    <3>3. CASE Found(table, k) # {}
      <4>1. PICK s \in Occupied(table) : s = FoundSlot(table, k)
        BY <2>1, <3>3, KeyFound
      <4>2. table.key[s] = k /\ k \in DOMAIN MapOf(table)
        BY <2>1, <3>1, <3>3, <4>1, KeyFound
      <4>3. table' = Deleted(table, s) /\ result' = "deleted"
        BY <2>7, <3>3, <4>1 DEF Delete
      <4>4. table.length >= 1
        <5>1. client = "set" /\ TableOK
          BY <1>2, <2>7 DEF Delete, IInv
        <5>2. Cardinality(Occupied(table)) # 0
          BY <5>1, FreeSlot, FS_EmptySet
        <5> QED BY <5>1, <5>2, FreeSlot DEF TableOK
      <4>5. MapOf(table') = Restrict(MapOf(table), DOMAIN MapOf(table) \ {k})
        BY <2>1, <4>2, <4>3, <4>4, DeletedIs
      <4> QED BY <4>2, <4>3, <4>5 DEF Abstract!Delete, Abstract!Restrict, Restrict
    <3> QED BY <3>2, <3>3
  <2>8. ASSUME UNCHANGED vars PROVE UNCHANGED <<MapOf(table), result>>
    BY <2>8 DEF vars
  <2> QED BY <1>2, <2>2, <2>3, <2>4, <2>5, <2>6, <2>7, <2>8, CanPlace DEF Next, Abstract!Next
<1> QED BY <1>1, <1>2, SpecIInv, PTL DEF Spec, ImplementsMap, Abstract!Spec

(* In the table that hash_table_grow fills, no entry is so far from home   *)
(* that insertion would change the hash function: the growth need not be   *)
(* modelled as the rebuilding within a rebuilding that the code allows.    *)
GrowthKeepsHash ==
  doing = "grow" => \A s \in left : ~ FarProbe(new, table.key[s])

(* What is probed before the first free slot is occupied, by one entry for *)
(* every offset.                                                           *)
LEMMA OffsetCounts ==
  ASSUME NEW t, Sound(t), NEW k \in Key, k \notin Present(t),
         Occupied(t) # Slots(t)
  PROVE  Offset(t, k) \in Nat /\ Offset(t, k) <= Cardinality(Occupied(t))
<1>1. Shape(t) /\ IsFiniteSet(Occupied(t)) /\ Cardinality(Occupied(t)) \in Nat
  BY Counting DEF Sound
<1>2. PICK n \in Slots(t) : n = Offset(t, k)
  BY <1>1, OffsetIsFirst
<1>3. PICK f : f = [i \in 0..(n - 1) |-> Probe(t, k, i)]
  OBVIOUS
<1>4. n \in Nat /\ \A i \in 0..(n - 1) : i \in Nat /\ i < n /\ i \in Slots(t)
  <2>1. PICK c \in Nat \ {0} : c = t.capacity
    BY <1>1 DEF Shape
  <2> QED BY <1>2, <2>1 DEF Slots
<1>5. ASSUME NEW i \in 0..(n - 1) PROVE f[i] \in Occupied(t)
  <2>1. i \in Nat /\ i < n /\ i \in Slots(t)
    BY <1>4
  <2>2. f[i] = Probe(t, k, i) /\ f[i] \in Slots(t)
    BY <1>1, <1>3, <2>1, ProbeType
  <2>3. t.key[f[i]] \notin {NoKey, k}
    <3>1. t.key[Probe(t, k, i)] \in {NoKey, k} => n <= i
      BY <1>1, <1>2, <2>1, OffsetIsFirst
    <3> QED BY <1>4, <2>1, <2>2, <3>1
  <2> QED BY <2>2, <2>3 DEF Occupied
<1>6. ASSUME NEW i \in 0..(n - 1), NEW j \in 0..(n - 1), f[i] = f[j] PROVE i = j
  BY <1>1, <1>3, <1>4, <1>6, ProbeOnto
<1>7. f \in Injection(0..(n - 1), Occupied(t))
  <2>1. f \in [0..(n - 1) -> Occupied(t)]
    BY <1>3, <1>5
  <2> QED BY <1>6, <2>1 DEF Injection, IsInjective
<1>8. Cardinality(0..(n - 1)) = n
  BY <1>4, FS_Interval
<1>9. Cardinality(0..(n - 1)) <= Cardinality(Occupied(t))
  BY <1>1, <1>7, FS_Injection
<1> QED BY <1>2, <1>4, <1>8, <1>9

(* GrowthKeepsHash, for any Slack: what probed too far would have to pass  *)
(* more entries than the smaller table may hold.                           *)
THEOREM GrowthIsPlain == Spec => []GrowthKeepsHash
<1>1. ASSUME IInv, doing = "grow", NEW s \in left
      PROVE  ~ FarProbe(new, table.key[s])
  <2>1. /\ TableOK /\ Sound(table) /\ Sound(new) /\ s \in Occupied(table)
        /\ left \in SUBSET Occupied(table)
        /\ SameEntries(new, table, Occupied(table) \ left)
        /\ Cardinality(Occupied(new)) + Cardinality(left) = Cardinality(Occupied(table))
        /\ new.capacity = GrownCapacity(table)
    BY <1>1 DEF IInv, NewOK, TableOK
  <2>2. PICK k \in Key : k = table.key[s]
    BY <2>1 DEF Sound, Shape, Occupied
  <2>3. k \notin Present(new)
    BY <2>1, <2>2 DEF Present, SameEntries, Sound, Unique
  <2>4. /\ table.capacity \in Nat /\ table.length \in Nat /\ table.capacity >= 3
        /\ Cardinality(Occupied(table)) \in 0..table.length
        /\ Cardinality(Occupied(new)) \in Nat /\ new.capacity \in Nat
        /\ IsFiniteSet(Occupied(table)) /\ Balanced(table)
    BY <2>1, FreeSlot, Counting DEF TableOK, Sound, Shape
  <2>5. Cardinality(left) \in Nat /\ Cardinality(left) # 0
    BY <1>1, <2>1, <2>4, FS_Subset, FS_EmptySet, FS_CardinalityType
  <2>6. /\ Cardinality(Occupied(new)) <= table.length - 1
        /\ Cardinality(Occupied(new)) < new.capacity
    BY <2>1, <2>4, <2>5, FreeSlot DEF GrownCapacity
  <2>7. Offset(new, k) \in Nat /\ Offset(new, k) <= table.length - 1
    BY <2>1, <2>3, <2>4, <2>6, OffsetCounts, Counting DEF Sound
  <2>8. 2 * Offset(new, k) <= new.capacity
    <3>1. (table.length - 1) + (table.length - 1) \div 2 < table.capacity
      BY <2>4, <2>7 DEF Balanced
    <3> QED BY <2>1, <2>4, <2>7, <3>1 DEF GrownCapacity
  <2> QED BY <2>2, <2>4, <2>7, <2>8, TableAssumption DEF FarProbe
<1>2. IInv => GrowthKeepsHash
  BY <1>1 DEF GrowthKeepsHash
<1> QED BY <1>2, SpecIInv, PTL
=============================================================================
