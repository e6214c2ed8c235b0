----------------------------- MODULE HashTable -----------------------------
(***************************************************************************)
(* The hash table of hash_table.c: open addressing with linear probing, a  *)
(* probe limit per home slot that only ever grows, and deletion that       *)
(* leaves a gap in the probe sequences that pass over it.                  *)
(*                                                                         *)
(* The program uses it in two ways.  A registry (constants, predicates,    *)
(* node names, node types) is only inserted into, the same key perhaps     *)
(* several times.  A set (the buffered events of a window) inserts a key   *)
(* only after it has looked for it in vain, and deletes.                   *)
(***************************************************************************)
EXTENDS Integers, FiniteSetsExt

CONSTANTS
  Key,
  NoKey,            \* an entry whose bytes are NULL
  Value,            \* what a registry stores; a set stores the first of them
  PreHash,          \* PreHash[k]: fnv_1a of the bytes of a key
  Family,           \* the functions family_map can be, on pre-hashes
  InitialCapacity,  \* 5 in the code
  Slack,            \* 6 in the code: how much more than half of the table a
                    \* probe must pass over to change the hash function
  MaxCapacity       \* bound on the growth

ASSUME TableAssumption ==
  /\ InitialCapacity \in Nat /\ InitialCapacity >= 3 /\ Slack \in Nat
  /\ MaxCapacity \in Nat /\ InitialCapacity <= MaxCapacity
  /\ NoKey \notin Key /\ Value # {}
  /\ \A h \in Family, k \in Key : h[PreHash[k]] \in Nat

VARIABLES
  table,     \* capacity, length, hash, and the arrays key, value, reach
             \* (max_collision_offset), indexed from 0
  doing,     \* the place in an insertion: "nothing", "grow", "place", "rehash"
  new,       \* the table that is being built
  left,      \* the slots of table whose entries it does not have yet
  entry,     \* the key and the value to be inserted
  client,    \* "registry" or "set"
  result     \* what the last call returned

vars == <<table, doing, new, left, entry, client, result>>

Slots(t) == 0..(t.capacity - 1)
Table(c, n, h, k, v, r) ==
  [capacity |-> c, length |-> n, hash |-> h, key |-> k, value |-> v, reach |-> r]
EmptyTable(c, h) ==
  Table(c, 0, h, [s \in 0..(c - 1) |-> NoKey], [s \in 0..(c - 1) |-> "zero"],
        [s \in 0..(c - 1) |-> 0])
WithLength(t, n) == Table(t.capacity, n, t.hash, t.key, t.value, t.reach)

NoTable == EmptyTable(0, CHOOSE h \in Family : TRUE)
NoEntry == [key |-> NoKey, value |-> "zero"]

(* initial_position, and the slot that is i probes away from it.           *)
Home(t, k) == t.hash[PreHash[k]] % t.capacity
Probe(t, k, i) == (Home(t, k) + i) % t.capacity

(* hash_table_find_impl: the offsets within the limit where the key is.    *)
FoundFirstOnly(t, k) == {i \in {0} : t.key[Probe(t, k, i)] = k}
Found(t, k) == {i \in 0..t.reach[Home(t, k)] : t.key[Probe(t, k, i)] = k}
FoundSlot(t, k) == Probe(t, k, Min(Found(t, k)))

(* Where the loop of hash_table_insert_impl stops: at a free slot, or at   *)
(* the key.                                                                *)
Room(t, k) == {i \in Slots(t) : t.key[Probe(t, k, i)] \in {NoKey, k}}
Offset(t, k) == Min(Room(t, k))

(* The entry is written, also over an older one of the same key; length    *)
(* counts the insertion either way.                                        *)
PlacedAs(t, k, v, reach) ==
  LET slot == Probe(t, k, Offset(t, k))
  IN  Table(t.capacity, t.length + 1, t.hash, [t.key EXCEPT ![slot] = k],
            [t.value EXCEPT ![slot] = v], [t.reach EXCEPT ![Home(t, k)] = reach])
PlacedUnreached(t, k, v) == PlacedAs(t, k, v, t.reach[Home(t, k)])
PlacedSum(t, k, v) == PlacedAs(t, k, v, t.reach[Home(t, k)] + Offset(t, k))
Placed(t, k, v) ==
  LET old == t.reach[Home(t, k)]
      i == Offset(t, k)
  IN  PlacedAs(t, k, v, IF old < i THEN i ELSE old)

(* The slots that hold entries.                                            *)
Occupied(t) == {s \in Slots(t) : t.key[s] # NoKey}

(* The table grows before the entries fill two thirds of it.               *)
MustGrowLate(t) == t.length > t.capacity
MustGrow(t) == t.length + t.length \div 2 >= t.capacity
GrownCapacity(t) == t.capacity + t.capacity \div 2 + 1

(* A key that was probed far, and past no key with the same pre-hash, asks *)
(* for another hash function.                                              *)
FarProbe(t, k) ==
  /\ 2 * Offset(t, k) > t.capacity + Slack
  /\ \A i \in 0..(Offset(t, k) - 1) :
       PreHash[t.key[Probe(t, k, i)]] # PreHash[k]

Init ==
  /\ \E h \in Family : table = EmptyTable(InitialCapacity, h)
  /\ doing = "nothing" /\ new = NoTable /\ left = {} /\ entry = NoEntry
  /\ client \in {"registry", "set"}
  /\ result = "none"

(* A new table is to take the entries of t.                                *)
Rebuild(what, t, c, h) ==
  /\ doing' = what
  /\ new' = EmptyTable(c, h)
  /\ left' = Occupied(t)

(* hash_table_insert_impl is called, and begins with the growth.           *)
Insert(k, v) ==
  /\ doing = "nothing"
  /\ client = "set" => Found(table, k) = {} /\ v = CHOOSE w \in Value : TRUE
  /\ entry' = [key |-> k, value |-> v]
  /\ IF MustGrow(table)
       THEN /\ GrownCapacity(table) <= MaxCapacity
            /\ Rebuild("grow", table, GrownCapacity(table), table.hash)
       ELSE doing' = "place" /\ UNCHANGED <<new, left>>
  /\ UNCHANGED <<table, client, result>>

(* The entry is written; then the hash function may have to be changed.    *)
Place ==
  /\ doing = "place"
  /\ LET k == entry.key
         p == Placed(table, k, entry.value)
     IN  /\ table' = p
         /\ IF FarProbe(table, k)
              THEN \E h \in Family : Rebuild("rehash", p, p.capacity, h)
              ELSE doing' = "nothing" /\ UNCHANGED <<new, left>>
  /\ entry' = NoEntry
  /\ result' = "inserted"
  /\ UNCHANGED client

(* A round of the loop of hash_table_grow, which goes through the old      *)
(* table from slot 0 on, or of hash_table_change_hash.  Insertion into the *)
(* table that the latter builds may change the hash again, and what comes  *)
(* out holds the entries in one of the orders in which they can be         *)
(* inserted.                                                               *)
Copy(s) ==
  /\ doing = "grow" => \A x \in left : s <= x
  /\ new' = Placed(new, table.key[s], table.value[s])
  /\ left' = left \ {s}
  /\ UNCHANGED <<table, doing, entry, client, result>>

(* The new table takes the place of the old one.  Behind hash_table_grow,  *)
(* the insertion goes on with the length that it read before.              *)
EndRebuild ==
  /\ doing \in {"grow", "rehash"}
  /\ left = {}
  /\ IF doing = "grow"
       THEN table' = WithLength(new, table.length) /\ doing' = "place"
       ELSE table' = new /\ doing' = "nothing"
  /\ new' = NoTable
  /\ UNCHANGED <<left, entry, client, result>>

(* hash_table_find                                                         *)
Find(k) ==
  /\ doing = "nothing"
  /\ result' = IF Found(table, k) = {} THEN "absent"
               ELSE table.value[FoundSlot(table, k)]
  /\ UNCHANGED <<table, doing, new, left, entry, client>>

(* hash_table_delete_by_key                                                *)
Deleted(t, s) ==
  Table(t.capacity, t.length - 1, t.hash, [t.key EXCEPT ![s] = NoKey],
        [t.value EXCEPT ![s] = "zero"], t.reach)
Delete(k) ==
  /\ doing = "nothing"
  /\ client = "set"
  /\ IF Found(table, k) = {}
       THEN result' = "absent" /\ UNCHANGED table
       ELSE result' = "deleted" /\ table' = Deleted(table, FoundSlot(table, k))
  /\ UNCHANGED <<doing, new, left, entry, client>>

Next ==
  \/ \E k \in Key, v \in Value : Insert(k, v)
  \/ Place \/ (\E s \in left : Copy(s)) \/ EndRebuild
  \/ \E k \in Key : Find(k) \/ Delete(k)

Spec == Init /\ [][Next]_vars

-----------------------------------------------------------------------------
TypeOK ==
  /\ table.capacity \in 1..MaxCapacity /\ table.length \in 0..MaxCapacity
  /\ table.hash \in Family
  /\ table.key \in [Slots(table) -> Key \union {NoKey}]
  /\ table.value \in [Slots(table) -> Value \union {"zero"}]
  /\ table.reach \in [Slots(table) -> Slots(table)]
  /\ doing \in {"nothing", "grow", "place", "rehash"}
  /\ left \subseteq Slots(table)
  /\ entry \in [key : Key \union {NoKey}, value : Value \union {"zero"}]
  /\ client \in {"registry", "set"}
  /\ result \in Value \union {"none", "inserted", "absent", "deleted"}

(* Every entry is found by its key, at the slot where it is: it lies       *)
(* within the probe limit of its home slot and no other slot before it     *)
(* holds the same key.                                                     *)
EveryEntryFound ==
  \A s \in Occupied(table) :
    LET k == table.key[s]
    IN  Found(table, k) # {} /\ FoundSlot(table, k) = s

(* length, from which the table decides to grow, never counts too little,  *)
(* and exactly the keys of a set: a free slot is always left to insert a   *)
(* key into and to end the probing.                                        *)
LengthCounts ==
  /\ Cardinality(Occupied(table)) <= table.length
  /\ client = "set" => table.length = Cardinality(Occupied(table))
  /\ Occupied(table) # Slots(table)

Present(t) == {t.key[s] : s \in Occupied(t)}
MapOf(t) ==
  [k \in Present(t) |-> t.value[CHOOSE s \in Slots(t) : t.key[s] = k]]

Abstract == INSTANCE AbstractMap WITH map <- MapOf(table)

(* The table is a map, for both kinds of clients: growing, changing the    *)
(* hash function and the gaps of deleted keys neither lose nor revive an   *)
(* entry.                                                                  *)
ImplementsMap == Abstract!Spec
=============================================================================
