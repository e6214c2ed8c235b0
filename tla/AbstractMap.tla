---------------------------- MODULE AbstractMap ----------------------------
(***************************************************************************)
(* What hash_table.h promises: a finite map that keeps the last value      *)
(* inserted for a key until the key is deleted.                            *)
(***************************************************************************)
EXTENDS Functions

CONSTANTS Key, Value

VARIABLES
  map,      \* a function on the keys that are in the table
  result    \* what the last call returned

Init == map = << >> /\ result = "none"

Insert(k, v) ==
  /\ map' = [x \in DOMAIN map \union {k} |-> IF x = k THEN v ELSE map[x]]
  /\ result' = "inserted"

Find(k) ==
  /\ result' = IF k \in DOMAIN map THEN map[k] ELSE "absent"
  /\ UNCHANGED map

Delete(k) ==
  /\ map' = Restrict(map, DOMAIN map \ {k})
  /\ result' = IF k \in DOMAIN map THEN "deleted" ELSE "absent"

Next ==
  \/ \E k \in Key, v \in Value : Insert(k, v)
  \/ \E k \in Key : Find(k) \/ Delete(k)

Spec == Init /\ [][Next]_<<map, result>>
=============================================================================
