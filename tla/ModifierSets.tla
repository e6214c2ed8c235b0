---------------------------- MODULE ModifierSets ----------------------------
(***************************************************************************)
(* Modifier sets (modifiers.h) in memory: a set is a pointer to an array   *)
(* of bytes and the length of that array, and it grows when a modifier     *)
(* beyond its end is added.  The holders of sets are the events, which are *)
(* created, copied, handled and destroyed, and the "modifiers" nodes,      *)
(* which apply an operation with their own set to the set of an event.     *)
(* Any allocation may fail; the code goes on without a message.            *)
(*                                                                         *)
(* A bit that is 1 in an array is a member of "has".                       *)
(***************************************************************************)
EXTENDS Naturals, FiniteSets

CONSTANTS
  Event,        \* addresses of events
  Node,         \* the modifiers nodes
  Buffer, Null, \* addresses of arrays
  Modifier,     \* the modifiers a configuration may name, 0..0xFFFFF
  ByteBits,     \* bits of a byte, 8
  Op,           \* Op[n]: the operation of a node
  Listed,       \* Listed[n]: the modifiers its configuration lists
  MaxReplicas   \* bound on the copies one handler makes of its event

(* modifier_operation_parse answers -1 for any other name.  create means   *)
(* to reject it, but ModifierOperation has no negative value and is        *)
(* unsigned, so op < 0 never holds: the node is created and does nothing.  *)
Ops == {"set", "unset", "toggle", "unknown"}
Holder == Event \union Node

ASSUME ModifierAssumption ==
  /\ Null \notin Buffer /\ Event \intersect Node = {}
  /\ Modifier \subseteq Nat /\ ByteBits \in Nat \ {0} /\ MaxReplicas \in Nat
  /\ Op \in [Node -> Ops] /\ Listed \in [Node -> SUBSET Modifier]

VARIABLES
  heap,     \* the allocated arrays: length in bytes, and the bits set
  set,      \* the ModifierSet of each holder, EMPTY where none exists
  events,   \* the events that exist
  unread,   \* unread[n]: what create has not yet read of Listed[n]
  due,      \* due[e]: copies of e the handler in progress has yet to make
  failed    \* whether an allocation of the last step failed

vars == <<heap, set, events, unread, due, failed>>

EMPTY == [byte_length |-> 0, bits |-> Null]

Init ==
  /\ heap = [b \in {} |-> EMPTY]
  /\ set = [x \in Holder |-> EMPTY]
  /\ events = {}
  /\ unread = Listed
  /\ due = [e \in Event |-> 0]
  /\ failed = FALSE

(* Between two handlers of the main loop, with all nodes created.          *)
Idle == (\A e \in Event : due[e] = 0) /\ (\A n \in Node : unread[n] = {})

-----------------------------------------------------------------------------
(* modifiers.h.  What may become of the heap h and of a set s is a set of  *)
(* outcomes, since allocators choose addresses and fail.                   *)

ByteOf(m) == m \div ByteBits
Members(h, s) == IF s.byte_length = 0 THEN {} ELSE h[s.bits].has
Outcome(h, s, no) == [heap |-> h, set |-> s, failed |-> no]

(* The heap with a given array at b, after old has been freed.             *)
Placed(h, old, b, len, has) ==
  [x \in (DOMAIN h \ {old}) \union {b} |->
     IF x = b THEN [length |-> len, has |-> has] ELSE h[x]]
Freed(h, s) == [b \in DOMAIN h \ {s.bits} |-> h[b]]

(* modifier_set_copy                                                       *)
CopiedShallow(h, s) == {Outcome(h, s, FALSE)}
CopiedUnfilled(h, s) ==
  IF s.byte_length = 0 THEN {Outcome(h, EMPTY, FALSE)}
  ELSE {Outcome(Placed(h, Null, b, s.byte_length, {}),
                [s EXCEPT !.bits = b], FALSE) : b \in Buffer \ DOMAIN h}
       \union {Outcome(h, EMPTY, TRUE)}
Copied(h, s) ==
  IF s.byte_length = 0 THEN {Outcome(h, EMPTY, FALSE)}
  ELSE {Outcome(Placed(h, Null, b, s.byte_length, Members(h, s)),
                [s EXCEPT !.bits = b], FALSE) : b \in Buffer \ DOMAIN h}
       \union {Outcome(h, EMPTY, TRUE)}

(* modifier_set_extend: realloc leaves the array where it is or moves it.  *)
ExtendedLengthFirst(h, s, len) ==
  IF len <= s.byte_length THEN {Outcome(h, s, FALSE)}
  ELSE {Outcome(Placed(h, s.bits, b, len, Members(h, s)),
                [byte_length |-> len, bits |-> b], FALSE) :
          b \in Buffer \ (DOMAIN h \ {s.bits})}
       \union {Outcome(h, [s EXCEPT !.byte_length = len], TRUE)}
Extended(h, s, len) ==
  IF len <= s.byte_length THEN {Outcome(h, s, FALSE)}
  ELSE {Outcome(Placed(h, s.bits, b, len, Members(h, s)),
                [byte_length |-> len, bits |-> b], FALSE) :
          b \in Buffer \ (DOMAIN h \ {s.bits})}
       \union {Outcome(h, s, TRUE)}

(* modifier_set_set                                                        *)
WithModifierShort(h, s, m) ==
  {IF o.failed THEN o
   ELSE Outcome(Placed(o.heap, Null, o.set.bits, o.set.byte_length,
                       Members(o.heap, o.set) \union {m}), o.set, FALSE) :
     o \in Extended(h, s, ByteOf(m))}
WithModifier(h, s, m) ==
  {IF o.failed THEN o
   ELSE Outcome(Placed(o.heap, Null, o.set.bits, o.set.byte_length,
                       Members(o.heap, o.set) \union {m}), o.set, FALSE) :
     o \in Extended(h, s, ByteOf(m) + 1)}

(* modifier_set_operation_from: what lies behind the end of either array   *)
(* has no part in it, also when the target could not be extended.          *)
Result(op, old, source) ==
  CASE op = "set" -> old \union source
    [] op = "unset" -> old \ source
    [] op = "toggle" -> (old \ source) \union (source \ old)
    [] op = "unknown" -> old
OperatedNotExtended(h, s, source, op) ==
  {IF o.set.byte_length = 0 THEN o
   ELSE Outcome(Placed(o.heap, Null, o.set.bits, o.set.byte_length,
                       Result(op, Members(o.heap, o.set),
                              {m \in Members(o.heap, source) :
                                 ByteOf(m) < o.set.byte_length})),
                o.set, o.failed) :
     o \in Extended(h, s, IF op = "set" THEN source.byte_length ELSE 0)}
Operated(h, s, source, op) ==
  {IF o.set.byte_length = 0 THEN o
   ELSE Outcome(Placed(o.heap, Null, o.set.bits, o.set.byte_length,
                       Result(op, Members(o.heap, o.set),
                              {m \in Members(o.heap, source) :
                                 ByteOf(m) < o.set.byte_length})),
                o.set, o.failed) :
     o \in Extended(h, s, IF op \in {"set", "toggle"} THEN source.byte_length ELSE 0)}

-----------------------------------------------------------------------------
(* create of a modifiers node: one round of its loop.                      *)
ReadListed(n, m) ==
  /\ m \in unread[n]
  /\ \E o \in WithModifier(heap, set[n], m) :
       /\ heap' = o.heap
       /\ set' = [set EXCEPT ![n] = o.set]
       /\ failed' = o.failed
  /\ unread' = [unread EXCEPT ![n] = @ \ {m}]
  /\ UNCHANGED <<events, due>>

(* event_create as the sources call it, with EMPTY_MODIFIER_SET.           *)
Create(e) ==
  /\ Idle /\ e \notin events
  /\ events' = events \union {e}
  /\ failed' = FALSE
  /\ UNCHANGED <<heap, set, unread, due>>

(* handle_event of a modifiers node; with k + 1 outputs, broadcasting      *)
(* makes k copies.  Without outputs the event is destroyed, see Destroy.   *)
Handle(n, e, k) ==
  /\ Idle /\ e \in events
  /\ \E o \in Operated(heap, set[e], set[n], Op[n]) :
       /\ heap' = o.heap
       /\ set' = [set EXCEPT ![e] = o.set]
       /\ failed' = o.failed
  /\ due' = [due EXCEPT ![e] = k]
  /\ UNCHANGED <<events, unread>>

(* Any other node that broadcasts its event.                               *)
Broadcast(e, k) ==
  /\ Idle /\ e \in events
  /\ due' = [due EXCEPT ![e] = k]
  /\ failed' = FALSE
  /\ UNCHANGED <<heap, set, events, unread>>

(* One round of event_replicate: the copy f of e.                          *)
Replicate(e, f) ==
  /\ due[e] > 0 /\ f \notin events
  /\ \E o \in Copied(heap, set[e]) :
       /\ heap' = o.heap
       /\ set' = [set EXCEPT ![f] = o.set]
       /\ failed' = o.failed
  /\ events' = events \union {f}
  /\ due' = [due EXCEPT ![e] = @ - 1]
  /\ UNCHANGED unread

(* There is no memory for the copy itself: event_replicate stops.          *)
StopReplicating(e) ==
  /\ due[e] > 0
  /\ due' = [due EXCEPT ![e] = 0]
  /\ failed' = TRUE
  /\ UNCHANGED <<heap, set, events, unread>>

(* trigger_new_window makes a copy f of base, goes on with f as base, and  *)
(* assigns to the event it had a copy of the modifiers of a buffered event *)
(* or of the terminator, which are EMPTY.  The array the event had until   *)
(* then is not freed.  Last, the event is broadcast.                       *)
WindowSends(base, f, proto, k) ==
  /\ Idle /\ base \in events /\ f \notin events
  /\ \E o \in Copied(heap, set[base]) :
       \E p \in Copied(o.heap, proto) :
         /\ heap' = p.heap
         /\ set' = [set EXCEPT ![f] = o.set, ![base] = p.set]
         /\ failed' = (o.failed \/ p.failed)
  /\ events' = events \union {f}
  /\ due' = [due EXCEPT ![base] = k]
  /\ UNCHANGED unread

(* event_destroy                                                           *)
DestroyKeepsArray(e) ==
  /\ Idle /\ e \in events
  /\ events' = events \ {e}
  /\ set' = [set EXCEPT ![e] = EMPTY]
  /\ failed' = FALSE
  /\ UNCHANGED <<heap, unread, due>>
Destroy(e) ==
  /\ Idle /\ e \in events
  /\ events' = events \ {e}
  /\ heap' = Freed(heap, set[e])
  /\ set' = [set EXCEPT ![e] = EMPTY]
  /\ failed' = FALSE
  /\ UNCHANGED <<unread, due>>

Next ==
  \/ \E n \in Node, m \in Modifier : ReadListed(n, m)
  \/ \E e \in Event : Create(e) \/ Destroy(e) \/ StopReplicating(e)
  \/ \E e \in Event, k \in 0..MaxReplicas :
       Broadcast(e, k) \/ \E n \in Node : Handle(n, e, k)
  \/ \E e, f \in Event : Replicate(e, f)
  \/ \E e, f \in Event, k \in 0..MaxReplicas :
       \/ WindowSends(e, f, EMPTY, k)
       \/ \E g \in events : WindowSends(e, f, set[g], k)

Spec == Init /\ [][Next]_vars

-----------------------------------------------------------------------------
ModifierSet == [byte_length : Nat, bits : Buffer \union {Null}]

TypeOK ==
  /\ DOMAIN heap \subseteq Buffer
  /\ heap \in [DOMAIN heap -> [length : Nat \ {0}, has : SUBSET Modifier]]
  /\ set \in [Holder -> ModifierSet]
  /\ events \subseteq Event
  /\ unread \in [Node -> SUBSET Modifier]
  /\ due \in [Event -> 0..MaxReplicas]
  /\ failed \in BOOLEAN

(* No set points to an array that was freed, or that is shorter than the   *)
(* set says, and no bit is written behind the end of an array, whatever    *)
(* fails on the way.                                                       *)
InBounds ==
  /\ \A x \in Holder :
       IF set[x].byte_length = 0 THEN set[x].bits = Null
       ELSE /\ set[x].bits \in DOMAIN heap
            /\ heap[set[x].bits].length = set[x].byte_length
  /\ \A b \in DOMAIN heap : \A m \in heap[b].has : ByteOf(m) < heap[b].length

(* No two events or nodes have their modifiers in the same array: what is  *)
(* done to one copy of an event does nothing to another copy, and frees    *)
(* none of its memory.                                                     *)
OneOwner ==
  \A x, y \in Holder :
    x # y /\ set[x].bits = set[y].bits => set[x].bits = Null

Contents(x) == Members(heap, set[x])

(* A modifiers node does to its event what its operation does to sets, and *)
(* nothing to other events and nodes.  When memory runs out it changes     *)
(* fewer modifiers, but only ones it lists.                                *)
HandlerOperates ==
  [][\A n \in Node, e \in Event, k \in 0..MaxReplicas : Handle(n, e, k) =>
       /\ ~failed' => Contents(e)' = Result(Op[n], Contents(e), Contents(n))
       /\ \A m \in Modifier :
            (m \in Contents(e)') # (m \in Contents(e)) => m \in Contents(n)
       /\ \A x \in Holder \ {e} : Contents(x)' = Contents(x)]_vars

(* A copy of an event has the modifiers of the event it is a copy of, or   *)
(* none when memory ran out; all others keep theirs.                       *)
CopiesAgree ==
  [][\A e, f \in Event : Replicate(e, f) =>
       /\ Contents(f)' = Contents(e) \/ (failed' /\ Contents(f)' = {})
       /\ \A x \in Holder \ {f} : Contents(x)' = Contents(x)]_vars

(* Arrays nobody will ever free.                                           *)
Lost == DOMAIN heap \ {set[x].bits : x \in Holder}

(* Only windows lose memory, and not more than one array for each event    *)
(* they send: everything else that drops a set frees its array.            *)
OnlyWindowsLose ==
  [][\/ Lost' \subseteq Lost
     \/ \E e, f \in Event, k \in 0..MaxReplicas :
          /\ \/ WindowSends(e, f, EMPTY, k)
             \/ \E g \in events : WindowSends(e, f, set[g], k)
          /\ Cardinality(Lost' \ Lost) = 1]_vars
=============================================================================
