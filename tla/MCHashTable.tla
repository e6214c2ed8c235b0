---------------------------- MODULE MCHashTable ----------------------------
(***************************************************************************)
(* Five keys, two of them with the same pre-hash.  One hash function maps  *)
(* all keys to the same slot of a table of 5 or 8, the other spreads them. *)
(***************************************************************************)
EXTENDS HashTable

MCKey == 1..5
MCPreHash == [k \in MCKey |-> IF k = 5 THEN 4 ELSE k]
MCFamily == {[p \in 1..4 |-> 40 * p], [p \in 1..4 |-> p + 2]}
=============================================================================
