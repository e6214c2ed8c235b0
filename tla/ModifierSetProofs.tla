------------------------- MODULE ModifierSetProofs -------------------------
(***************************************************************************)
(* Modifier sets stay within their arrays, share none and, but for those   *)
(* windows drop, lose none, for any number of events, nodes and modifiers, *)
(* whatever allocations fail.                                              *)
(***************************************************************************)
EXTENDS ModifierSets, FiniteSetTheorems, TLAPS

Block == [length : Nat \ {0}, has : SUBSET Modifier]

(* A heap and a set in it, as every operation of modifiers.h finds them.   *)
Heap(h) ==
  /\ DOMAIN h \subseteq Buffer /\ h \in [DOMAIN h -> Block]
  /\ \A b \in DOMAIN h : \A m \in h[b].has : ByteOf(m) < h[b].length
Fits(h, s) ==
  /\ s \in ModifierSet
  /\ IF s.byte_length = 0 THEN s.bits = Null
     ELSE s.bits \in DOMAIN h /\ h[s.bits].length = s.byte_length

(* What an operation on the set s leaves: arrays other than that of s are  *)
(* as they were, and a new array was not in use.                           *)
Leaves(h, s, o) ==
  /\ Heap(o.heap) /\ Fits(o.heap, o.set) /\ o.failed \in BOOLEAN
  /\ o.set.bits = s.bits \/ o.set.bits \notin DOMAIN h
  /\ \A b \in DOMAIN h \ {s.bits} : b \in DOMAIN o.heap /\ o.heap[b] = h[b]

(* A heap and the sets of all holders.                                     *)
Good(h, t) ==
  /\ Heap(h) /\ t \in [Holder -> ModifierSet]
  /\ \A x \in Holder : Fits(h, t[x])
  /\ \A x, y \in Holder : x # y /\ t[x].bits = t[y].bits => t[x].bits = Null

HasMembers(h, s, members) == Members(h, s) = members

(* All holders but x have the members they had.                            *)
OthersKeep(x, h, t, r, u) ==
  \A y \in Holder \ {x} : Members(r, u[y]) = Members(h, t[y])

(* The inductive invariant: the three invariants need each other.          *)
Inv == TypeOK /\ InBounds /\ OneOwner

LEMMA EmptyFits == ASSUME NEW h PROVE Fits(h, EMPTY)
BY DEF Fits, EMPTY, ModifierSet

LEMMA MembersAre ==
  ASSUME NEW h, NEW s, Heap(h), Fits(h, s)
  PROVE  /\ Members(h, s) \subseteq Modifier
         /\ \A m \in Members(h, s) : ByteOf(m) < s.byte_length
BY DEF Heap, Fits, Members, Block, ModifierSet

LEMMA PlacedIsHeap ==
  ASSUME NEW h, Heap(h), NEW old, NEW b \in Buffer, NEW len \in Nat \ {0},
         NEW has, has \subseteq Modifier, \A m \in has : ByteOf(m) < len
  PROVE  Heap(Placed(h, old, b, len, has))
<1> DEFINE p == Placed(h, old, b, len, has)
<1>1. DOMAIN p = (DOMAIN h \ {old}) \union {b}
  BY DEF Placed
<1>2. \A x \in DOMAIN p : p[x] = IF x = b THEN [length |-> len, has |-> has] ELSE h[x]
  BY DEF Placed
<1>3. p = [x \in DOMAIN p |-> p[x]]
  BY DEF Placed
<1> HIDE DEF p
<1>4. \A x \in DOMAIN p : p[x] \in Block /\ \A m \in p[x].has : ByteOf(m) < p[x].length
  BY <1>1, <1>2 DEF Heap, Block
<1>5. Heap(p)
  BY <1>1, <1>3, <1>4 DEF Heap
<1> QED
  BY <1>5 DEF p

LEMMA ByteIsNat ==
  ASSUME ModifierAssumption, NEW m \in Modifier
  PROVE  ByteOf(m) \in Nat
BY DEF ByteOf, ModifierAssumption

(* modifier_set_copy makes an array of its own.                            *)
LEMMA CopiedIs ==
  ASSUME ModifierAssumption, NEW h, NEW s, Heap(h), Fits(h, s),
         NEW o \in Copied(h, s)
  PROVE  /\ Heap(o.heap) /\ Fits(o.heap, o.set) /\ o.failed \in BOOLEAN
         /\ o.set.bits = Null \/ o.set.bits \notin DOMAIN h
         /\ \A b \in DOMAIN h : b \in DOMAIN o.heap /\ o.heap[b] = h[b]
         /\ IF o.failed THEN o.set = EMPTY
            ELSE Members(o.heap, o.set) = Members(h, s)
<1>1. CASE o = Outcome(h, EMPTY, FALSE) /\ s.byte_length = 0
  BY <1>1, EmptyFits DEF Outcome, Members, EMPTY
<1>2. CASE o = Outcome(h, EMPTY, TRUE)
  BY <1>2, EmptyFits DEF Outcome, EMPTY
<1>3. ASSUME NEW b \in Buffer \ DOMAIN h, s.byte_length # 0,
             o = Outcome(Placed(h, Null, b, s.byte_length, Members(h, s)),
                         [s EXCEPT !.bits = b], FALSE)
      PROVE  /\ Heap(o.heap) /\ Fits(o.heap, o.set) /\ o.failed \in BOOLEAN
             /\ o.set.bits = Null \/ o.set.bits \notin DOMAIN h
             /\ \A c \in DOMAIN h : c \in DOMAIN o.heap /\ o.heap[c] = h[c]
             /\ ~o.failed /\ Members(o.heap, o.set) = Members(h, s)
  <2> DEFINE p == Placed(h, Null, b, s.byte_length, Members(h, s))
  <2>0. /\ Members(h, s) \subseteq Modifier
        /\ \A m \in Members(h, s) : ByteOf(m) < s.byte_length
    BY MembersAre
  <2>1. s.byte_length \in Nat \ {0} /\ Null \notin DOMAIN h
    BY <1>3 DEF Fits, ModifierSet, ModifierAssumption, Heap
  <2>2. /\ Heap(p) /\ DOMAIN p = (DOMAIN h \ {Null}) \union {b}
        /\ p[b] = [length |-> s.byte_length, has |-> Members(h, s)]
        /\ \A x \in DOMAIN h \ {Null, b} : p[x] = h[x]
    <3>1. Heap(p)
      BY <2>0, <2>1, PlacedIsHeap
    <3> QED
      BY <3>1 DEF Placed
  <2>3. o.heap = p /\ o.set = [s EXCEPT !.bits = b] /\ o.failed = FALSE
    BY <1>3 DEF Outcome
  <2>4. /\ o.set.byte_length = s.byte_length /\ o.set.bits = b
        /\ o.set \in ModifierSet
    BY <2>3 DEF Fits, ModifierSet
  <2>5. Fits(o.heap, o.set)
    BY <2>1, <2>2, <2>3, <2>4 DEF Fits
  <2>6. Members(o.heap, o.set) = Members(h, s)
    BY <2>1, <2>2, <2>3, <2>4 DEF Members
  <2> QED
    BY <2>1, <2>2, <2>3, <2>4, <2>5, <2>6
<1> QED
  BY <1>1, <1>2, <1>3 DEF Copied

(* modifier_set_extend keeps the members and makes room unless it failed.  *)
LEMMA ExtendedIs ==
  ASSUME ModifierAssumption, NEW h, NEW s, Heap(h), Fits(h, s),
         NEW len \in Nat, NEW o \in Extended(h, s, len)
  PROVE  /\ Leaves(h, s, o)
         /\ Members(o.heap, o.set) = Members(h, s)
         /\ ~o.failed => o.set.byte_length >= len
<1>1. CASE o = Outcome(h, s, FALSE) /\ len <= s.byte_length
  BY <1>1 DEF Outcome, Leaves, Fits, ModifierSet
<1>2. CASE o = Outcome(h, s, TRUE)
  BY <1>2 DEF Outcome, Leaves
<1>3. ASSUME NEW b \in Buffer \ (DOMAIN h \ {s.bits}), ~(len <= s.byte_length),
             o = Outcome(Placed(h, s.bits, b, len, Members(h, s)),
                         [byte_length |-> len, bits |-> b], FALSE)
      PROVE  /\ Leaves(h, s, o)
             /\ Members(o.heap, o.set) = Members(h, s)
             /\ ~o.failed => o.set.byte_length >= len
  <2> DEFINE p == Placed(h, s.bits, b, len, Members(h, s))
  <2>0. /\ Members(h, s) \subseteq Modifier
        /\ \A m \in Members(h, s) : ByteOf(m) < len
    <3>1. /\ Members(h, s) \subseteq Modifier
          /\ \A m \in Members(h, s) : ByteOf(m) < s.byte_length
      BY MembersAre
    <3>2. s.byte_length \in Nat /\ s.byte_length < len
      BY <1>3 DEF Fits, ModifierSet
    <3>3. \A m \in Members(h, s) : ByteOf(m) \in Nat
      BY <3>1, ByteIsNat
    <3> QED
      BY <3>1, <3>2, <3>3
  <2>1. len \in Nat \ {0}
    BY <1>3 DEF Fits, ModifierSet
  <2>2. /\ Heap(p) /\ DOMAIN p = (DOMAIN h \ {s.bits}) \union {b}
        /\ p[b] = [length |-> len, has |-> Members(h, s)]
        /\ \A x \in DOMAIN h \ {s.bits, b} : p[x] = h[x]
    <3>1. Heap(p)
      BY <2>0, <2>1, PlacedIsHeap
    <3> QED
      BY <3>1 DEF Placed
  <2>3. /\ o.heap = p /\ o.failed = FALSE
        /\ o.set.byte_length = len /\ o.set.bits = b /\ o.set \in ModifierSet
    BY <1>3 DEF Outcome, ModifierSet
  <2> HIDE DEF p
  <2>4. Fits(o.heap, o.set)
    BY <2>1, <2>2, <2>3 DEF Fits
  <2>6. Members(o.heap, o.set) = Members(h, s)
    <3>1. Members(o.heap, o.set) = o.heap[b].has
      BY <2>1, <2>3 DEF Members
    <3> QED
      BY <3>1, <2>2, <2>3
  <2>5. \A c \in DOMAIN h \ {s.bits} : c \in DOMAIN o.heap /\ o.heap[c] = h[c]
    BY <2>2, <2>3
  <2>7. o.set.bits = s.bits \/ o.set.bits \notin DOMAIN h
    BY <2>3
  <2>8. Heap(o.heap) /\ o.failed \in BOOLEAN
    BY <2>2, <2>3
  <2>9. o.set.byte_length >= len
    BY <2>1, <2>3
  <2> QED
    BY <2>4, <2>5, <2>6, <2>7, <2>8, <2>9 DEF Leaves
<1> QED
  BY <1>1, <1>2, <1>3 DEF Extended

(* Bits of an array are overwritten in place.                              *)
LEMMA WrittenIs ==
  ASSUME ModifierAssumption, NEW h, NEW s, Heap(h), Fits(h, s),
         s.byte_length # 0,
         NEW has, has \subseteq Modifier, \A m \in has : ByteOf(m) < s.byte_length,
         NEW o, o.heap = Placed(h, Null, s.bits, s.byte_length, has),
         o.set = s, o.failed \in BOOLEAN
  PROVE  Leaves(h, s, o) /\ HasMembers(o.heap, o.set, has)
<1> DEFINE p == Placed(h, Null, s.bits, s.byte_length, has)
<1>1. /\ s.bits \in Buffer /\ s.bits \in DOMAIN h /\ Null \notin DOMAIN h
      /\ s.byte_length \in Nat \ {0}
  BY DEF Heap, Fits, ModifierSet, ModifierAssumption
<1>2. Heap(p)
  BY <1>1, PlacedIsHeap
<1>3. /\ DOMAIN p = DOMAIN h
      /\ p[s.bits] = [length |-> s.byte_length, has |-> has]
      /\ \A b \in DOMAIN h \ {s.bits} : p[b] = h[b]
  BY <1>1 DEF Placed
<1>4. o.heap = p
  OBVIOUS
<1> HIDE DEF p
<1>5. Fits(o.heap, o.set)
  BY <1>1, <1>3, <1>4 DEF Fits
<1>6. Members(o.heap, o.set) = has
  BY <1>3, <1>4 DEF Members
<1>7. Leaves(h, s, o)
  BY <1>2, <1>3, <1>4, <1>5 DEF Leaves
<1> QED
  BY <1>6, <1>7 DEF HasMembers

(* One outcome after another is an outcome.                                *)
LEMMA LeavesTwice ==
  ASSUME NEW h, NEW s, NEW o, NEW q, Fits(h, s),
         Leaves(h, s, o), Leaves(o.heap, o.set, q), q.set = o.set
  PROVE  Leaves(h, s, q)
<1>1. \A b \in DOMAIN h \ {s.bits} : b # o.set.bits
  BY DEF Leaves
<1> QED
  BY <1>1 DEF Leaves

LEMMA WithModifierIs ==
  ASSUME ModifierAssumption, NEW h, NEW s, Heap(h), Fits(h, s),
         NEW m \in Modifier, NEW q \in WithModifier(h, s, m)
  PROVE  Leaves(h, s, q)
<1> DEFINE len == ByteOf(m) + 1
<1>1. len \in Nat \ {0} /\ ByteOf(m) < len
  BY ByteIsNat
<1> HIDE DEF len
<1>2. PICK o \in Extended(h, s, len) :
        q = IF o.failed THEN o
            ELSE Outcome(Placed(o.heap, Null, o.set.bits, o.set.byte_length,
                                Members(o.heap, o.set) \union {m}), o.set, FALSE)
  BY DEF WithModifier, len
<1>3. Leaves(h, s, o) /\ (~o.failed => o.set.byte_length >= len)
  BY <1>1, ExtendedIs
<1>4. Heap(o.heap) /\ Fits(o.heap, o.set) /\ o.set.byte_length \in Nat
  BY <1>3 DEF Leaves, Fits, ModifierSet
<1>5. CASE o.failed
  BY <1>2, <1>3, <1>5
<1>6. CASE ~o.failed
  <2> DEFINE has == Members(o.heap, o.set) \union {m}
  <2>1. has \subseteq Modifier
    BY <1>4, MembersAre
  <2>2. o.set.byte_length # 0 /\ ByteOf(m) < o.set.byte_length
    BY <1>1, <1>3, <1>4, <1>6, ByteIsNat DEF len
  <2>3. \A x \in has : ByteOf(x) < o.set.byte_length
    BY <1>4, <2>2, MembersAre
  <2> HIDE DEF has
  <2>4. q = Outcome(Placed(o.heap, Null, o.set.bits, o.set.byte_length, has),
                    o.set, FALSE)
    BY <1>2, <1>6 DEF has
  <2>5. Leaves(o.heap, o.set, q)
    <3>1. /\ q.heap = Placed(o.heap, Null, o.set.bits, o.set.byte_length, has)
          /\ q.set = o.set /\ q.failed \in BOOLEAN
      BY <2>4 DEF Outcome
    <3> QED
      BY <1>4, <2>1, <2>2, <2>3, <3>1, WrittenIs
  <2>6. q.set = o.set
    BY <2>4 DEF Outcome
  <2> QED
    BY <1>3, <2>5, <2>6, LeavesTwice
<1> QED
  BY <1>5, <1>6

LEMMA ResultIs ==
  ASSUME NEW op \in Ops, NEW old, NEW source
  PROVE  /\ Result(op, old, source) \subseteq old \union source
         /\ \A m : (m \in Result(op, old, source)) # (m \in old) => m \in source
<1>1. CASE op = "set"
  BY <1>1 DEF Result
<1>2. CASE op = "unset"
  BY <1>2 DEF Result
<1>3. CASE op = "toggle"
  BY <1>3 DEF Result
<1>4. CASE op = "unknown"
  BY <1>4 DEF Result
<1> QED
  BY <1>1, <1>2, <1>3, <1>4 DEF Ops

(* modifier_set_operation_from                                             *)
LEMMA OperatedIs ==
  ASSUME ModifierAssumption, NEW h, NEW s, NEW source, NEW op \in Ops,
         Heap(h), Fits(h, s), Fits(h, source),
         source.bits = s.bits => source.bits = Null,
         NEW q \in Operated(h, s, source, op)
  PROVE  /\ Leaves(h, s, q)
         /\ ~q.failed =>
              Members(q.heap, q.set) = Result(op, Members(h, s), Members(h, source))
         /\ \A m : (m \in Members(q.heap, q.set)) # (m \in Members(h, s))
                    => m \in Members(h, source)
<1> DEFINE len == IF op \in {"set", "toggle"} THEN source.byte_length ELSE 0
           Within(o) == {m \in Members(o.heap, source) : ByteOf(m) < o.set.byte_length}
<1>1. PICK o \in Extended(h, s, len) :
        q = IF o.set.byte_length = 0 THEN o
            ELSE Outcome(Placed(o.heap, Null, o.set.bits, o.set.byte_length,
                                Result(op, Members(o.heap, o.set), Within(o))),
                         o.set, o.failed)
  BY DEF Operated
<1>2. len \in Nat /\ source.byte_length \in Nat
  BY DEF Fits, ModifierSet
<1>3. /\ Leaves(h, s, o) /\ Members(o.heap, o.set) = Members(h, s)
      /\ ~o.failed => o.set.byte_length >= len
  BY <1>1, <1>2, ExtendedIs
<1>4. /\ Heap(o.heap) /\ Fits(o.heap, o.set) /\ o.failed \in BOOLEAN
      /\ o.set.byte_length \in Nat
  BY <1>3 DEF Leaves, Fits, ModifierSet
<1>5. Members(o.heap, source) = Members(h, source)
  <2>1. CASE source.byte_length = 0
    BY <2>1 DEF Members
  <2>2. CASE source.byte_length # 0
    <3>1. source.bits \in DOMAIN h \ {s.bits}
      BY <2>2 DEF Fits, Heap, ModifierAssumption
    <3> QED
      BY <1>3, <2>2, <3>1 DEF Members, Leaves
  <2> QED
    BY <2>1, <2>2
<1>6. /\ Members(h, source) \subseteq Modifier
      /\ \A m \in Members(h, source) : ByteOf(m) < source.byte_length
  BY MembersAre
<1>7. \A m \in Members(h, s) : ByteOf(m) < o.set.byte_length
  BY <1>3, <1>4, MembersAre
<1>8. CASE o.set.byte_length = 0
  <2>1. q = o /\ Members(h, s) = {}
    BY <1>1, <1>3, <1>8 DEF Members
  <2>2. ASSUME ~o.failed
        PROVE  Result(op, {}, Members(h, source)) = {}
    <3>1. CASE op = "unset"
      BY <3>1 DEF Result
    <3>2. CASE op \in {"set", "toggle"}
      <4>1. source.byte_length = 0
        BY <1>2, <1>3, <1>8, <2>2, <3>2
      <4>2. Members(h, source) = {}
        BY <4>1 DEF Members
      <4> QED
        BY <3>2, <4>2 DEF Result, Ops
    <3>3. CASE op = "unknown"
      BY <3>3 DEF Result
    <3> QED
      BY <3>1, <3>2, <3>3 DEF Ops
  <2> QED
    BY <1>3, <2>1, <2>2
<1>9. CASE o.set.byte_length # 0
  <2> DEFINE W == Within(o)
             has == Result(op, Members(h, s), W)
  <2>1. W = {m \in Members(h, source) : ByteOf(m) < o.set.byte_length}
    BY <1>5
  <2> HIDE DEF W
  <2>2. /\ has \subseteq Members(h, s) \union W
        /\ \A m : (m \in has) # (m \in Members(h, s)) => m \in W
    BY ResultIs
  <2>3. ~o.failed => has = Result(op, Members(h, s), Members(h, source))
    <3>1. CASE op = "unset"
      BY <1>7, <2>1, <3>1 DEF Result
    <3>2. ASSUME op \in {"set", "toggle"}, ~o.failed PROVE W = Members(h, source)
      <4>1. o.set.byte_length >= source.byte_length
        BY <1>3, <3>2
      <4>2. \A m \in Members(h, source) : ByteOf(m) \in Nat
        BY <1>6, ByteIsNat
      <4>3. \A m \in Members(h, source) : ByteOf(m) < o.set.byte_length
        BY <1>2, <1>4, <1>6, <4>1, <4>2
      <4> QED
        BY <2>1, <4>3
    <3>3. CASE op = "unknown"
      BY <3>3 DEF Result
    <3> QED
      BY <3>1, <3>2, <3>3 DEF Ops
  <2>4. /\ Members(h, s) \subseteq Modifier
        /\ \A m \in has : ByteOf(m) < o.set.byte_length
    BY <1>7, <2>1, <2>2, MembersAre
  <2>5. has \subseteq Modifier
    BY <1>6, <2>1, <2>2, <2>4
  <2>6. q = Outcome(Placed(o.heap, Null, o.set.bits, o.set.byte_length, has),
                    o.set, o.failed)
    BY <1>1, <1>3, <1>9 DEF W
  <2> HIDE DEF has
  <2>8. /\ q.heap = Placed(o.heap, Null, o.set.bits, o.set.byte_length, has)
        /\ q.set = o.set /\ q.failed = o.failed
    BY <2>6 DEF Outcome
  <2>7. Leaves(o.heap, o.set, q) /\ Members(q.heap, q.set) = has
    <3>1. q.failed \in BOOLEAN /\ q.set = o.set
      BY <1>4, <2>8
    <3>2. Leaves(o.heap, o.set, q) /\ HasMembers(q.heap, q.set, has)
      BY <1>4, <1>9, <2>4, <2>5, <2>8, <3>1, WrittenIs
    <3> QED
      BY <3>2 DEF HasMembers
  <2>9. Leaves(h, s, q)
    BY <1>3, <2>7, <2>8, LeavesTwice
  <2> QED
    BY <2>1, <2>2, <2>3, <2>7, <2>8, <2>9 DEF has
<1> QED
  BY <1>8, <1>9

-----------------------------------------------------------------------------
(* What Inv says of the heap and the sets, in the terms of the lemmas.     *)
LEMMA InvIsGood ==
  ASSUME Inv
  PROVE  Good(heap, set) /\ Event \subseteq Holder /\ Node \subseteq Holder
BY DEF Inv, TypeOK, InBounds, OneOwner, Heap, Fits, Block, Good, Holder

(* An operation on the set of one holder leaves the sets of the others.    *)
LEMMA OneHolder ==
  ASSUME ModifierAssumption, NEW h, NEW t, Good(h, t), NEW x \in Holder, NEW o,
         Leaves(h, t[x], o), NEW u, u = [t EXCEPT ![x] = o.set]
  PROVE  Good(o.heap, u) /\ OthersKeep(x, h, t, o.heap, u)
<1>1. /\ Heap(h) /\ t \in [Holder -> ModifierSet]
      /\ \A y \in Holder : Fits(h, t[y])
      /\ \A y, z \in Holder : y # z /\ t[y].bits = t[z].bits => t[y].bits = Null
  BY DEF Good
<1>2. /\ Heap(o.heap) /\ Fits(o.heap, u[x]) /\ u[x] = o.set
      /\ u \in [Holder -> ModifierSet]
      /\ \A y \in Holder \ {x} : u[y] = t[y]
  BY <1>1 DEF Leaves, Fits
<1>3. ASSUME NEW y \in Holder \ {x}, t[y].bits # Null
      PROVE  /\ t[y].bits \in DOMAIN h /\ t[y].bits # t[x].bits
             /\ t[y].bits \in DOMAIN o.heap
             /\ o.heap[t[y].bits] = h[t[y].bits]
  <2>1. t[y].bits \in DOMAIN h /\ t[y].bits # t[x].bits
    BY <1>1, <1>3 DEF Fits
  <2> QED
    BY <2>1 DEF Leaves
<1>4. ASSUME NEW y \in Holder \ {x}
      PROVE  Fits(o.heap, u[y]) /\ Members(o.heap, u[y]) = Members(h, t[y])
  <2>1. Fits(h, t[y]) /\ u[y] = t[y]
    BY <1>1, <1>2
  <2>2. CASE t[y].byte_length = 0
    BY <2>1, <2>2 DEF Fits, Members
  <2>3. CASE t[y].byte_length # 0
    <3>1. t[y].bits # Null
      BY <1>1, <2>1, <2>3 DEF Fits, Heap, ModifierAssumption
    <3> QED
      BY <1>3, <2>1, <2>3, <3>1 DEF Fits, Members
  <2> QED
    BY <2>2, <2>3
<1>5. ASSUME NEW y \in Holder \ {x}, u[x].bits = u[y].bits
      PROVE  u[x].bits = Null
  <2>1. t[y].bits = o.set.bits
    BY <1>2, <1>5
  <2>2. CASE t[y].bits # Null
    BY <1>3, <2>1, <2>2 DEF Leaves
  <2> QED
    BY <1>2, <1>5, <2>1, <2>2
<1>6. ASSUME NEW y \in Holder \ {x}, NEW z \in Holder \ {x}, y # z,
             u[y].bits = u[z].bits
      PROVE  u[y].bits = Null
  BY <1>1, <1>2, <1>6
<1>7. Good(o.heap, u)
  BY <1>2, <1>4, <1>5, <1>6 DEF Good
<1> QED
  BY <1>4, <1>7 DEF OthersKeep

(* The set that an event gets by copying s.                                *)
LEMMA CopyLeaves ==
  ASSUME ModifierAssumption, NEW h, NEW t, Good(h, t), NEW f \in Holder,
         NEW s, Fits(h, s), NEW o \in Copied(h, s)
  PROVE  Leaves(h, t[f], o)
<1>1. Heap(h) /\ Null \notin DOMAIN h
  BY DEF Heap, Good, ModifierAssumption
<1> QED
  BY <1>1, CopiedIs DEF Leaves

(* event_destroy is an operation that leaves no set.                       *)
LEMMA DestroyLeaves ==
  ASSUME ModifierAssumption, NEW h, NEW s, Heap(h)
  PROVE  Leaves(h, s, Outcome(Freed(h, s), EMPTY, FALSE))
<1> DEFINE r == Freed(h, s)
<1>1. Null \notin DOMAIN h
  BY DEF Heap, ModifierAssumption
<1>2. /\ DOMAIN r = DOMAIN h \ {s.bits}
      /\ \A b \in DOMAIN r : r[b] = h[b]
      /\ r = [b \in DOMAIN r |-> r[b]]
  BY DEF Freed
<1> HIDE DEF r
<1>3. Heap(r)
  BY <1>1, <1>2 DEF Heap
<1>4. Fits(r, EMPTY) /\ EMPTY.bits = Null
  BY EmptyFits DEF EMPTY
<1> QED
  BY <1>1, <1>2, <1>3, <1>4 DEF Leaves, Outcome, r

LEMMA InitInv == ASSUME ModifierAssumption, Init PROVE Inv
<1>1. TypeOK
  <2>1. DOMAIN heap = {} /\ heap \in [DOMAIN heap -> Block]
    BY DEF Init
  <2>2. set \in [Holder -> ModifierSet]
    BY DEF Init, EMPTY, ModifierSet
  <2>3. due \in [Event -> 0..MaxReplicas]
    BY DEF Init, ModifierAssumption
  <2> QED
    BY <2>1, <2>2, <2>3 DEF Init, TypeOK, ModifierAssumption, Block
<1>2. InBounds
  BY DEF Init, InBounds, EMPTY
<1>3. OneOwner
  BY DEF Init, OneOwner, EMPTY
<1> QED
  BY <1>1, <1>2, <1>3 DEF Inv

-----------------------------------------------------------------------------
(* Every step is an operation on the set of one holder, or of two in turn, *)
(* or leaves all sets alone.                                               *)
LEMMA StepIsGood ==
  ASSUME ModifierAssumption, Inv, [Next]_vars
  PROVE  Good(heap', set')
<1>0. /\ Good(heap, set) /\ Heap(heap) /\ Fits(heap, EMPTY)
      /\ \A x \in Holder : Fits(heap, set[x])
      /\ Event \subseteq Holder /\ Node \subseteq Holder
  BY InvIsGood, EmptyFits DEF Good
<1>1. ASSUME NEW x \in Holder, NEW o, Leaves(heap, set[x], o),
             heap' = o.heap, set' = [set EXCEPT ![x] = o.set]
      PROVE  Good(heap', set')
  BY <1>0, <1>1, OneHolder
<1>2. ASSUME NEW n \in Node, NEW m \in Modifier, ReadListed(n, m)
      PROVE  Good(heap', set')
  BY <1>0, <1>1, <1>2, WithModifierIs DEF ReadListed
<1>3. ASSUME NEW e \in Event, Destroy(e) PROVE Good(heap', set')
  <2> DEFINE o == Outcome(Freed(heap, set[e]), EMPTY, FALSE)
  <2>1. Leaves(heap, set[e], o)
    BY <1>0, DestroyLeaves
  <2>2. heap' = o.heap /\ set' = [set EXCEPT ![e] = o.set]
    BY <1>3 DEF Destroy, Outcome
  <2> HIDE DEF o
  <2> QED
    BY <1>0, <1>1, <2>1, <2>2
<1>4. ASSUME NEW e \in Event, NEW k \in 0..MaxReplicas, NEW n \in Node,
             Handle(n, e, k)
      PROVE  Good(heap', set')
  <2>1. /\ e \in Holder /\ n \in Holder /\ Op[n] \in Ops
        /\ set[n].bits = set[e].bits => set[n].bits = Null
    BY <1>0 DEF Inv, OneOwner, ModifierAssumption
  <2>2. PICK o \in Operated(heap, set[e], set[n], Op[n]) :
          heap' = o.heap /\ set' = [set EXCEPT ![e] = o.set]
    BY <1>4 DEF Handle
  <2>3. Leaves(heap, set[e], o)
    BY <1>0, <2>1, OperatedIs
  <2> QED
    BY <1>1, <2>1, <2>2, <2>3
<1>5. ASSUME NEW e \in Event, NEW f \in Event, Replicate(e, f)
      PROVE  Good(heap', set')
  BY <1>0, <1>1, <1>5, CopyLeaves DEF Replicate
<1>6. ASSUME NEW e \in Event, NEW f \in Event, NEW k \in 0..MaxReplicas,
             NEW proto, Fits(heap, proto), WindowSends(e, f, proto, k)
      PROVE  Good(heap', set')
  <2>1. e \in Holder /\ f \in Holder
    BY <1>0
  <2>2. PICK o \in Copied(heap, set[e]) : \E p \in Copied(o.heap, proto) :
          heap' = p.heap /\ set' = [set EXCEPT ![f] = o.set, ![e] = p.set]
    BY <1>6 DEF WindowSends
  <2>3. PICK p \in Copied(o.heap, proto) :
          heap' = p.heap /\ set' = [set EXCEPT ![f] = o.set, ![e] = p.set]
    BY <2>2
  <2> DEFINE u == [set EXCEPT ![f] = o.set]
  <2>4. Leaves(heap, set[f], o)
    BY <1>0, <2>1, CopyLeaves
  <2>5. Good(o.heap, u)
    BY <1>0, <2>1, <2>4, OneHolder
  <2>6. set' = [u EXCEPT ![e] = p.set]
    BY <2>3
  <2>7. Fits(o.heap, proto)
    <3>1. \A b \in DOMAIN heap : b \in DOMAIN o.heap /\ o.heap[b] = heap[b]
      BY <1>0, <2>1, CopiedIs
    <3> QED
      BY <1>6, <3>1 DEF Fits
  <2> HIDE DEF u
  <2>8. Leaves(o.heap, u[e], p)
    BY <2>1, <2>5, <2>7, CopyLeaves
  <2>9. Good(p.heap, set')
    BY <2>1, <2>5, <2>6, <2>8, OneHolder
  <2> QED
    BY <2>3, <2>9
<1>7. ASSUME NEW g \in events PROVE Fits(heap, set[g])
  BY <1>0 DEF Inv, TypeOK
<1>8. ASSUME UNCHANGED <<heap, set>> PROVE Good(heap', set')
  BY <1>0, <1>8
<1>9. CASE Next
  BY <1>0, <1>2, <1>3, <1>4, <1>5, <1>6, <1>7, <1>8, <1>9
     DEF Next, Create, Broadcast, StopReplicating
<1> QED
  BY <1>8, <1>9 DEF vars

LEMMA NextInv == ASSUME ModifierAssumption, Inv, [Next]_vars PROVE Inv'
<1>1. Good(heap', set')
  BY StepIsGood
<1>2. /\ events' \subseteq Event /\ unread' \in [Node -> SUBSET Modifier]
      /\ due' \in [Event -> 0..MaxReplicas] /\ failed' \in BOOLEAN
  <2> DEFINE Rest ==
        /\ events' \subseteq Event /\ unread' \in [Node -> SUBSET Modifier]
        /\ due' \in [Event -> 0..MaxReplicas] /\ failed' \in BOOLEAN
  <2>0. /\ events \subseteq Event /\ unread \in [Node -> SUBSET Modifier]
        /\ due \in [Event -> 0..MaxReplicas] /\ failed \in BOOLEAN
        /\ MaxReplicas \in Nat
    BY DEF Inv, TypeOK, ModifierAssumption
  <2>1. /\ Heap(heap) /\ \A x \in Holder : Fits(heap, set[x])
        /\ Event \subseteq Holder /\ Node \subseteq Holder
    BY InvIsGood DEF Good
  <2>2. ASSUME NEW n \in Node, NEW m \in Modifier, ReadListed(n, m) PROVE Rest
    <3>1. failed' \in BOOLEAN
      BY <2>1, <2>2, WithModifierIs DEF ReadListed, Leaves
    <3> QED
      BY <2>0, <2>2, <3>1 DEF ReadListed
  <2>3. ASSUME NEW e \in Event, Create(e) \/ Destroy(e) \/ StopReplicating(e)
        PROVE  Rest
    <3>1. CASE Create(e)
      BY <2>0, <3>1 DEF Create
    <3>2. CASE Destroy(e)
      BY <2>0, <3>2 DEF Destroy
    <3>3. CASE StopReplicating(e)
      BY <2>0, <3>3 DEF StopReplicating
    <3> QED
      BY <2>3, <3>1, <3>2, <3>3
  <2>4. ASSUME NEW e \in Event, NEW k \in 0..MaxReplicas, Broadcast(e, k)
        PROVE  Rest
    BY <2>0, <2>4 DEF Broadcast
  <2>5. ASSUME NEW e \in Event, NEW k \in 0..MaxReplicas, NEW n \in Node,
               Handle(n, e, k)
        PROVE  Rest
    <3>1. Op[n] \in Ops /\ (set[n].bits = set[e].bits => set[n].bits = Null)
      BY <2>1 DEF Holder, Inv, OneOwner, ModifierAssumption
    <3>2. failed' \in BOOLEAN
      BY <2>1, <2>5, <3>1, OperatedIs DEF Handle, Leaves
    <3> QED
      BY <2>0, <2>5, <3>2 DEF Handle
  <2>6. ASSUME NEW e \in Event, NEW f \in Event, Replicate(e, f) PROVE Rest
    <3>1. failed' \in BOOLEAN
      BY <2>1, <2>6, CopiedIs DEF Replicate
    <3> QED
      BY <2>0, <2>6, <3>1 DEF Replicate
  <2>7. ASSUME NEW e \in Event, NEW f \in Event, NEW k \in 0..MaxReplicas,
               NEW proto, WindowSends(e, f, proto, k)
        PROVE  Rest
    <3>1. failed' \in BOOLEAN
      BY <2>7, Zenon DEF WindowSends
    <3> QED
      BY <2>0, <2>7, <3>1 DEF WindowSends
  <2>8. CASE UNCHANGED vars
    BY <2>0, <2>8 DEF vars
  <2> HIDE DEF Rest
  <2>9. ASSUME Next PROVE Rest
    BY <2>2, <2>3, <2>4, <2>5, <2>6, <2>7, <2>9 DEF Next
  <2> QED
    BY <2>8, <2>9 DEF Rest
<1>3. TypeOK'
  BY <1>1, <1>2 DEF TypeOK, Good, Heap, Block
<1>4. InBounds' /\ OneOwner'
  BY <1>1 DEF Good, InBounds, OneOwner, Heap, Fits
<1> QED
  BY <1>3, <1>4 DEF Inv

THEOREM AlwaysInv == Spec => []Inv
<1>1. Init => Inv
  BY ModifierAssumption, InitInv
<1>2. Inv /\ [Next]_vars => Inv'
  BY ModifierAssumption, NextInv
<1> QED
  BY <1>1, <1>2, PTL DEF Spec

(* The invariants the runs check.                                          *)
THEOREM TypeCorrect == Spec => []TypeOK
BY AlwaysInv, PTL DEF Inv

(* No set outgrows its array or keeps one that was freed.                  *)
THEOREM StaysInBounds == Spec => []InBounds
BY AlwaysInv, PTL DEF Inv

(* No two holders share an array.                                          *)
THEOREM NothingShared == Spec => []OneOwner
BY AlwaysInv, PTL DEF Inv

(* A modifiers node computes its set operation on its event alone.         *)
THEOREM NodesOperate == Spec => HandlerOperates
<1> DEFINE A == \A n \in Node, e \in Event, k \in 0..MaxReplicas : Handle(n, e, k) =>
       /\ ~failed' => Contents(e)' = Result(Op[n], Contents(e), Contents(n))
       /\ \A m \in Modifier :
            (m \in Contents(e)') # (m \in Contents(e)) => m \in Contents(n)
       /\ \A x \in Holder \ {e} : Contents(x)' = Contents(x)
<1>1. Inv => A
  <2> SUFFICES ASSUME Inv, NEW n \in Node, NEW e \in Event,
                      NEW k \in 0..MaxReplicas, Handle(n, e, k)
               PROVE
       /\ ~failed' => Contents(e)' = Result(Op[n], Contents(e), Contents(n))
       /\ \A m \in Modifier :
            (m \in Contents(e)') # (m \in Contents(e)) => m \in Contents(n)
       /\ \A x \in Holder \ {e} : Contents(x)' = Contents(x)
    OBVIOUS
  <2>1. /\ e \in Holder /\ n \in Holder /\ Op[n] \in Ops
        /\ set[n].bits = set[e].bits => set[n].bits = Null
    BY ModifierAssumption DEF Holder, Inv, OneOwner
  <2>2. PICK o \in Operated(heap, set[e], set[n], Op[n]) :
          heap' = o.heap /\ set' = [set EXCEPT ![e] = o.set] /\ failed' = o.failed
    BY DEF Handle
  <2>3. /\ Leaves(heap, set[e], o)
        /\ ~o.failed => Members(o.heap, o.set)
                          = Result(Op[n], Members(heap, set[e]), Members(heap, set[n]))
        /\ \A m : (m \in Members(o.heap, o.set)) # (m \in Members(heap, set[e]))
                   => m \in Members(heap, set[n])
    BY ModifierAssumption, <2>1, InvIsGood, OperatedIs DEF Good
  <2>4. /\ set'[e] = o.set
        /\ \A x \in Holder \ {e} : Contents(x)' = Contents(x)
    <3>1. Good(heap, set) /\ set \in [Holder -> ModifierSet]
      BY InvIsGood DEF Good
    <3>2. set'[e] = o.set
      BY <2>1, <2>2, <3>1
    <3>3. OthersKeep(e, heap, set, o.heap, set')
      BY ModifierAssumption, <2>1, <2>2, <2>3, <3>1, OneHolder
    <3> QED
      BY <2>2, <3>2, <3>3 DEF Contents, OthersKeep
  <2>5. Contents(e)' = Members(o.heap, o.set)
    BY <2>2, <2>4 DEF Contents
  <2> QED
    BY <2>2, <2>3, <2>4, <2>5 DEF Contents
<1> QED
  BY <1>1, AlwaysInv, PTL DEF HandlerOperates

(* A copy of an event has the event's modifiers, or none.                  *)
THEOREM CopiesHaveSame == Spec => CopiesAgree
<1> DEFINE A == \A e, f \in Event : Replicate(e, f) =>
       /\ Contents(f)' = Contents(e) \/ (failed' /\ Contents(f)' = {})
       /\ \A x \in Holder \ {f} : Contents(x)' = Contents(x)
<1>1. Inv => A
  <2> SUFFICES ASSUME Inv, NEW e \in Event, NEW f \in Event, Replicate(e, f)
               PROVE
       /\ Contents(f)' = Contents(e) \/ (failed' /\ Contents(f)' = {})
       /\ \A x \in Holder \ {f} : Contents(x)' = Contents(x)
    OBVIOUS
  <2>1. /\ e \in Holder /\ f \in Holder
        /\ Heap(heap) /\ Fits(heap, set[e])
    BY InvIsGood DEF Good
  <2>2. PICK o \in Copied(heap, set[e]) :
          heap' = o.heap /\ set' = [set EXCEPT ![f] = o.set] /\ failed' = o.failed
    BY DEF Replicate
  <2>3. Leaves(heap, set[f], o)
    BY ModifierAssumption, <2>1, InvIsGood, CopyLeaves
  <2>4. /\ set'[f] = o.set
        /\ \A x \in Holder \ {f} : Contents(x)' = Contents(x)
    <3>1. Good(heap, set) /\ set \in [Holder -> ModifierSet]
      BY InvIsGood DEF Good
    <3>2. set'[f] = o.set
      BY <2>1, <2>2, <3>1
    <3>3. OthersKeep(f, heap, set, o.heap, set')
      BY ModifierAssumption, <2>1, <2>2, <2>3, <3>1, OneHolder
    <3> QED
      BY <2>2, <3>2, <3>3 DEF Contents, OthersKeep
  <2>5. Contents(f)' = Members(o.heap, o.set)
    BY <2>2, <2>4 DEF Contents
  <2>6. IF o.failed THEN o.set = EMPTY
        ELSE Members(o.heap, o.set) = Members(heap, set[e])
    BY ModifierAssumption, <2>1, CopiedIs
  <2>7. o.set = EMPTY => Members(o.heap, o.set) = {}
    BY DEF Members, EMPTY
  <2> QED
    BY <2>2, <2>4, <2>5, <2>6, <2>7 DEF Contents
<1> QED
  BY <1>1, AlwaysInv, PTL DEF CopiesAgree

-----------------------------------------------------------------------------
(* What an operation on the set s may leave besides what was there: it     *)
(* gives back the array of s, unless the set is still in it.               *)
Frees(h, s, o) == DOMAIN o.heap \subseteq (DOMAIN h \ {s.bits}) \union {o.set.bits}

(* An event that does not exist has no set, so a copy put in its place     *)
(* overwrites none.                                                        *)
NoneLeft == \A e \in Event \ events : set[e] = EMPTY

LEMMA ExtendedFrees ==
  ASSUME NEW h, NEW s, NEW len, NEW o \in Extended(h, s, len)
  PROVE  Frees(h, s, o)
<1>1. CASE o.heap = h /\ o.set.bits = s.bits
  BY <1>1 DEF Frees
<1>2. ASSUME NEW b, o = Outcome(Placed(h, s.bits, b, len, Members(h, s)),
                                [byte_length |-> len, bits |-> b], FALSE)
      PROVE  Frees(h, s, o)
  <2>1. o.heap = Placed(h, s.bits, b, len, Members(h, s)) /\ o.set.bits = b
    BY <1>2 DEF Outcome
  <2> QED
    BY <2>1 DEF Placed, Frees
<1>3. \/ o = Outcome(h, s, FALSE)
      \/ o = Outcome(h, s, TRUE)
      \/ \E b \in Buffer : o = Outcome(Placed(h, s.bits, b, len, Members(h, s)),
                                       [byte_length |-> len, bits |-> b], FALSE)
  BY DEF Extended
<1> QED
  BY <1>1, <1>2, <1>3 DEF Outcome

(* Writing the bits of an array that is there makes no other.              *)
LEMMA WrittenFrees ==
  ASSUME NEW h, NEW s, NEW o, Frees(h, s, o), NEW has, NEW no,
         Null \notin DOMAIN o.heap
  PROVE  Frees(h, s, Outcome(Placed(o.heap, Null, o.set.bits, o.set.byte_length,
                                    has), o.set, no))
<1> DEFINE r == Placed(o.heap, Null, o.set.bits, o.set.byte_length, has)
<1>1. DOMAIN r \subseteq DOMAIN o.heap \union {o.set.bits}
  BY DEF Placed
<1> DEFINE q == Outcome(r, o.set, no)
<1>2. q.heap = r /\ q.set.bits = o.set.bits
  BY DEF Outcome
<1> HIDE DEF r, q
<1>3. Frees(h, s, q)
  BY <1>1, <1>2 DEF Frees
<1> QED
  BY <1>3 DEF q, r

LEMMA WithModifierFrees ==
  ASSUME ModifierAssumption, NEW h, NEW s, Heap(h), Fits(h, s),
         NEW m \in Modifier, NEW q \in WithModifier(h, s, m)
  PROVE  Frees(h, s, q)
<1> DEFINE W(o) ==
      IF o.failed THEN o
      ELSE Outcome(Placed(o.heap, Null, o.set.bits, o.set.byte_length,
                          Members(o.heap, o.set) \union {m}), o.set, FALSE)
<1>1. ByteOf(m) + 1 \in Nat
  BY ByteIsNat
<1>2. PICK o \in Extended(h, s, ByteOf(m) + 1) : q = W(o)
  BY DEF WithModifier
<1>3. Frees(h, s, o) /\ Leaves(h, s, o)
  BY <1>1, ExtendedFrees, ExtendedIs
<1>4. Null \notin DOMAIN o.heap
  BY <1>3 DEF Leaves, Heap, ModifierAssumption
<1> QED
  BY <1>2, <1>3, <1>4, WrittenFrees

LEMMA OperatedFrees ==
  ASSUME ModifierAssumption, NEW h, NEW s, Heap(h), Fits(h, s),
         NEW source, Fits(h, source), NEW op, NEW q \in Operated(h, s, source, op)
  PROVE  Frees(h, s, q)
<1> DEFINE len == IF op \in {"set", "toggle"} THEN source.byte_length ELSE 0
           has(o) == Result(op, Members(o.heap, o.set),
                            {m \in Members(o.heap, source) :
                               ByteOf(m) < o.set.byte_length})
           W(o) == IF o.set.byte_length = 0 THEN o
                   ELSE Outcome(Placed(o.heap, Null, o.set.bits,
                                       o.set.byte_length, has(o)),
                                o.set, o.failed)
<1>1. len \in Nat
  BY DEF Fits, ModifierSet
<1>2. PICK o \in Extended(h, s, len) : q = W(o)
  BY DEF Operated
<1> HIDE DEF len, has
<1>3. Frees(h, s, o) /\ Leaves(h, s, o)
  BY <1>1, ExtendedFrees, ExtendedIs
<1>4. Null \notin DOMAIN o.heap
  BY <1>3 DEF Leaves, Heap, ModifierAssumption
<1> QED
  BY <1>2, <1>3, <1>4, WrittenFrees

(* A copy makes one array at most, which its set is in.                    *)
LEMMA CopiedAdds ==
  ASSUME NEW h, NEW s \in ModifierSet, NEW o \in Copied(h, s)
  PROVE  DOMAIN o.heap \subseteq DOMAIN h \union {o.set.bits}
<1>1. CASE o.heap = h
  BY <1>1
<1>2. ASSUME NEW b \in Buffer,
             o = Outcome(Placed(h, Null, b, s.byte_length, Members(h, s)),
                         [s EXCEPT !.bits = b], FALSE)
      PROVE  DOMAIN o.heap \subseteq DOMAIN h \union {o.set.bits}
  <2>1. /\ o.heap = Placed(h, Null, b, s.byte_length, Members(h, s))
        /\ o.set.bits = b
    BY <1>2 DEF Outcome, ModifierSet
  <2> QED
    BY <2>1 DEF Placed
<1>3. \/ o = Outcome(h, EMPTY, FALSE) \/ o = Outcome(h, EMPTY, TRUE)
      \/ \E b \in Buffer :
           o = Outcome(Placed(h, Null, b, s.byte_length, Members(h, s)),
                       [s EXCEPT !.bits = b], FALSE)
  BY DEF Copied
<1> QED
  BY <1>1, <1>2, <1>3 DEF Outcome

(* An operation on the set of one holder that gives back its array loses   *)
(* nothing.                                                                *)
LEMMA FreeingLosesNothing ==
  ASSUME Inv, NEW x \in Holder, NEW o, Frees(heap, set[x], o),
         heap' = o.heap, set' = [set EXCEPT ![x] = o.set]
  PROVE  Lost' \subseteq Lost
<1>1. set'[x] = o.set /\ \A y \in Holder \ {x} : set'[y] = set[y]
  BY DEF Inv, TypeOK
<1>2. ASSUME NEW b \in Lost' PROVE b \in Lost
  <2>1. b \in DOMAIN heap' /\ \A y \in Holder : b # set'[y].bits
    BY <1>2 DEF Lost
  <2>2. b \in DOMAIN heap /\ b # set[x].bits
    BY <1>1, <2>1 DEF Frees
  <2>3. \A y \in Holder : b # set[y].bits
    BY <1>1, <2>1, <2>2
  <2> QED
    BY <2>2, <2>3 DEF Lost
<1> QED
  BY <1>2

LEMMA NoneLeftAtFirst == ASSUME ModifierAssumption, Init PROVE NoneLeft
BY DEF Init, NoneLeft, Holder

LEMMA NoneLeftLater ==
  ASSUME ModifierAssumption, Inv, NoneLeft, [Next]_vars
  PROVE  NoneLeft'
<1>1. /\ set \in [Holder -> ModifierSet] /\ events \subseteq Event
      /\ Event \subseteq Holder /\ Node \subseteq Holder
      /\ Event \intersect Node = {}
  BY DEF Inv, TypeOK, Holder, ModifierAssumption
<1>2. ASSUME NEW n \in Node, NEW m \in Modifier, ReadListed(n, m)
      PROVE  NoneLeft'
  BY <1>1, <1>2 DEF ReadListed, NoneLeft
<1>3. ASSUME NEW e \in Event, Create(e) \/ Destroy(e) \/ StopReplicating(e)
      PROVE  NoneLeft'
  BY <1>1, <1>3 DEF Create, Destroy, StopReplicating, NoneLeft
<1>4. ASSUME NEW e \in Event, NEW k \in 0..MaxReplicas, Broadcast(e, k)
      PROVE  NoneLeft'
  BY <1>4 DEF Broadcast, NoneLeft
<1>5. ASSUME NEW e \in Event, NEW k \in 0..MaxReplicas, NEW n \in Node,
             Handle(n, e, k)
      PROVE  NoneLeft'
  BY <1>1, <1>5 DEF Handle, NoneLeft
<1>6. ASSUME NEW e \in Event, NEW f \in Event, Replicate(e, f)
      PROVE  NoneLeft'
  BY <1>1, <1>6 DEF Replicate, NoneLeft
<1>7. ASSUME NEW e \in Event, NEW f \in Event, NEW k \in 0..MaxReplicas,
             NEW proto, WindowSends(e, f, proto, k)
      PROVE  NoneLeft'
  <2>1. PICK s, p : set' = [set EXCEPT ![f] = s, ![e] = p]
    BY <1>7 DEF WindowSends
  <2>2. e \in events /\ events' = events \union {f}
    BY <1>7 DEF WindowSends
  <2> QED
    BY <1>1, <2>1, <2>2 DEF NoneLeft
<1>8. CASE UNCHANGED vars
  BY <1>8 DEF vars, NoneLeft
<1>9. CASE Next
  BY <1>2, <1>3, <1>4, <1>5, <1>6, <1>7, <1>9 DEF Next
<1> QED
  BY <1>8, <1>9

(* A window sends f, as a copy of base, and gives base another set: what   *)
(* base had is all that can be lost.                                       *)
LEMMA WindowLosesOne ==
  ASSUME ModifierAssumption, Inv, NoneLeft, NEW base \in Event, NEW f \in Event,
         NEW k, NEW proto \in ModifierSet, WindowSends(base, f, proto, k)
  PROVE  Lost' \subseteq Lost \/ Cardinality(Lost' \ Lost) = 1
<1>1. /\ base \in events /\ f \in Event \ events /\ base # f
      /\ base \in Holder /\ f \in Holder
      /\ set \in [Holder -> ModifierSet] /\ Null \notin DOMAIN heap
  BY DEF WindowSends, Inv, TypeOK, Holder, ModifierAssumption
<1>2. PICK o \in Copied(heap, set[base]) : \E p \in Copied(o.heap, proto) :
        heap' = p.heap /\ set' = [set EXCEPT ![f] = o.set, ![base] = p.set]
  BY DEF WindowSends
<1>3. PICK p \in Copied(o.heap, proto) :
        heap' = p.heap /\ set' = [set EXCEPT ![f] = o.set, ![base] = p.set]
  BY <1>2
<1>4. DOMAIN heap' \subseteq DOMAIN heap \union {o.set.bits, p.set.bits}
  <2>1. set[base] \in ModifierSet
    BY <1>1
  <2>2. DOMAIN o.heap \subseteq DOMAIN heap \union {o.set.bits}
    BY <2>1, CopiedAdds
  <2>3. DOMAIN p.heap \subseteq DOMAIN o.heap \union {p.set.bits}
    BY CopiedAdds
  <2> QED
    BY <1>3, <2>2, <2>3
<1>5. set'[f] = o.set /\ set'[base] = p.set
      /\ \A y \in Holder \ {f, base} : set'[y] = set[y]
  BY <1>1, <1>3
<1>6. set[f].bits \notin DOMAIN heap
  BY <1>1 DEF NoneLeft, EMPTY
<1>7. ASSUME NEW b \in Lost' PROVE b \in Lost \/ b = set[base].bits
  <2>1. b \in DOMAIN heap' /\ \A y \in Holder : b # set'[y].bits
    BY <1>7 DEF Lost
  <2>2. b \in DOMAIN heap
    BY <1>1, <1>4, <1>5, <2>1
  <2>3. \A y \in Holder \ {base} : b # set[y].bits
    BY <1>5, <1>6, <2>1, <2>2
  <2> QED
    BY <2>2, <2>3 DEF Lost
<1>8. Lost' \subseteq Lost \/ Lost' \ Lost = {set[base].bits}
  BY <1>7
<1> QED
  BY <1>8, FS_Singleton

(* Every step but those of windows keeps each array with a holder or gives *)
(* it back.                                                                *)
LEMMA StepLoses ==
  ASSUME ModifierAssumption, Inv, NoneLeft, [Next]_vars
  PROVE  \/ Lost' \subseteq Lost
         \/ \E e, f \in Event, k \in 0..MaxReplicas :
              /\ \/ WindowSends(e, f, EMPTY, k)
                 \/ \E g \in events : WindowSends(e, f, set[g], k)
              /\ Cardinality(Lost' \ Lost) = 1
<1>1. /\ Heap(heap) /\ set \in [Holder -> ModifierSet]
      /\ \A x \in Holder : Fits(heap, set[x])
      /\ Event \subseteq Holder /\ Node \subseteq Holder
      /\ Null \notin DOMAIN heap
  BY InvIsGood DEF Good, Heap, ModifierAssumption
<1>2. ASSUME NEW x \in Holder, NEW o, Frees(heap, set[x], o),
             heap' = o.heap, set' = [set EXCEPT ![x] = o.set]
      PROVE  Lost' \subseteq Lost
  BY <1>2, FreeingLosesNothing
<1>3. ASSUME NEW n \in Node, NEW m \in Modifier, ReadListed(n, m)
      PROVE  Lost' \subseteq Lost
  BY <1>1, <1>2, <1>3, WithModifierFrees DEF ReadListed
<1>4. ASSUME NEW e \in Event, Destroy(e) PROVE Lost' \subseteq Lost
  <2> DEFINE o == Outcome(Freed(heap, set[e]), EMPTY, FALSE)
  <2>1. Frees(heap, set[e], o)
    BY DEF Frees, Freed, Outcome
  <2>2. heap' = o.heap /\ set' = [set EXCEPT ![e] = o.set]
    BY <1>4 DEF Destroy, Outcome
  <2> HIDE DEF o
  <2> QED
    BY <1>1, <1>2, <2>1, <2>2
<1>5. ASSUME NEW e \in Event, NEW k \in 0..MaxReplicas, NEW n \in Node,
             Handle(n, e, k)
      PROVE  Lost' \subseteq Lost
  BY <1>1, <1>2, <1>5, OperatedFrees DEF Handle
<1>6. ASSUME NEW e \in Event, NEW f \in Event, Replicate(e, f)
      PROVE  Lost' \subseteq Lost
  <2>1. PICK o \in Copied(heap, set[e]) :
          heap' = o.heap /\ set' = [set EXCEPT ![f] = o.set]
    BY <1>6 DEF Replicate
  <2>2. set[f].bits \notin DOMAIN heap
    BY <1>1, <1>6 DEF Replicate, NoneLeft, EMPTY
  <2>3. set[e] \in ModifierSet
    BY <1>1
  <2>4. DOMAIN o.heap \subseteq DOMAIN heap \union {o.set.bits}
    BY <2>3, CopiedAdds
  <2>5. Frees(heap, set[f], o)
    BY <2>2, <2>4 DEF Frees
  <2> QED
    BY <1>1, <1>2, <2>1, <2>5
<1>7. ASSUME UNCHANGED <<heap, set>> PROVE Lost' \subseteq Lost
  BY <1>7 DEF Lost
<1>8. CASE \E e, f \in Event, k \in 0..MaxReplicas :
             \/ WindowSends(e, f, EMPTY, k)
             \/ \E g \in events : WindowSends(e, f, set[g], k)
  <2>1. EMPTY \in ModifierSet /\ \A g \in events : set[g] \in ModifierSet
    BY <1>1 DEF EMPTY, ModifierSet, Inv, TypeOK
  <2>2. ASSUME NEW e \in Event, NEW f \in Event, NEW k \in 0..MaxReplicas,
               NEW proto \in ModifierSet, WindowSends(e, f, proto, k)
        PROVE  Lost' \subseteq Lost \/ Cardinality(Lost' \ Lost) = 1
    BY <2>2, WindowLosesOne
  <2> QED
    BY <1>8, <2>1, <2>2
<1>9. CASE Next
  BY <1>3, <1>4, <1>5, <1>6, <1>7, <1>8, <1>9
     DEF Next, Create, Broadcast, StopReplicating
<1> QED
  BY <1>7, <1>9 DEF vars

(* Only windows lose memory, and one array for each event they send.       *)
THEOREM MemoryIsKept == Spec => OnlyWindowsLose
<1> DEFINE A == \/ Lost' \subseteq Lost
                \/ \E e, f \in Event, k \in 0..MaxReplicas :
                     /\ \/ WindowSends(e, f, EMPTY, k)
                        \/ \E g \in events : WindowSends(e, f, set[g], k)
                     /\ Cardinality(Lost' \ Lost) = 1
<1>1. Init => Inv /\ NoneLeft
  BY ModifierAssumption, InitInv, NoneLeftAtFirst
<1>2. Inv /\ NoneLeft /\ [Next]_vars => Inv' /\ NoneLeft'
  BY ModifierAssumption, NextInv, NoneLeftLater
<1>3. Inv /\ NoneLeft /\ [Next]_vars => A
  BY ModifierAssumption, StepLoses
<1> QED
  BY <1>1, <1>2, <1>3, PTL DEF Spec, OnlyWindowsLose
=============================================================================
