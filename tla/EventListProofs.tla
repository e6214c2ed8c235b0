-------------------------- MODULE EventListProofs --------------------------
(***************************************************************************)
(* The pointer updates of events.c keep the event list well linked, for    *)
(* any set of cells, any creation times and any replica count.             *)
(*                                                                         *)
(* LinksMutual is not inductive: a call in progress carries addresses in   *)
(* its local variables, and the step that uses them is only right because  *)
(* they still point into the list.  InCallOK says so.  For the refinement  *)
(* of AbstractEventList, the links are compared with a sequence.           *)
(***************************************************************************)
EXTENDS EventList, SequenceTheorems, FiniteSetTheorems, TLAPS

(* The local variables of the call in progress point into the list.        *)
InCallOK ==
  /\ pc = "scan" => /\ ev \in live
                    /\ owner \in Linked \union {End}
                    /\ other \in Linked \union {End}
  /\ pc = "replicate" => ev \in live

IInv == TypeOK /\ LinksMutual /\ InCallOK /\ NoAbort

(* next and prev are mutually inverse on S and stay in it.                 *)
MutualOn(S) ==
  \A n \in S : /\ next[n] \in S /\ prev[n] \in S
               /\ prev[next[n]] = n /\ next[prev[n]] = n

(* Linking a new cell behind a node of the list: what the four assignments *)
(* at the end of event_create and of event_replicate's loop do.            *)
LEMMA LinkAfterMutual ==
  ASSUME NEW S \in SUBSET Node, NEW p \in S, NEW c \in Node \ S,
         next \in [Node -> Node \union {Null}],
         prev \in [Node -> Node \union {Null}],
         MutualOn(S), LinkAfter(p, c)
  PROVE  /\ next' \in [Node -> Node \union {Null}]
         /\ prev' \in [Node -> Node \union {Null}]
         /\ \A n \in S \union {c} :
              /\ next'[n] \in S \union {c} /\ prev'[n] \in S \union {c}
              /\ prev'[next'[n]] = n /\ next'[prev'[n]] = n
<1> DEFINE q == next[p]
<1>1. q \in S /\ prev[q] = p
  BY DEF MutualOn
<1>2. /\ next' = [next EXCEPT ![c] = q, ![p] = c]
      /\ prev' = [prev EXCEPT ![c] = p, ![q] = c]
  BY DEF LinkAfter
<1>3. /\ next' \in [Node -> Node \union {Null}]
      /\ prev' \in [Node -> Node \union {Null}]
  BY <1>1, <1>2
<1>4. /\ next'[p] = c /\ next'[c] = q
      /\ prev'[q] = c /\ prev'[c] = p
  BY <1>1, <1>2
<1>5. \A n \in S : n # p => next'[n] = next[n]
  BY <1>1, <1>2
<1>6. \A n \in S : n # q => prev'[n] = prev[n]
  BY <1>1, <1>2
<1>7. ASSUME NEW n \in S
      PROVE  /\ next'[n] \in S \union {c} /\ prev'[n] \in S \union {c}
             /\ prev'[next'[n]] = n /\ next'[prev'[n]] = n
  <2>1. next'[n] \in S \union {c} /\ prev'[next'[n]] = n
    <3>1. CASE n = p
      BY <3>1, <1>4
    <3>2. CASE n # p
      <4>1. next[n] # q
        BY <3>2, <1>1 DEF MutualOn
      <4> QED BY <4>1, <3>2, <1>5, <1>6 DEF MutualOn
    <3> QED BY <3>1, <3>2
  <2>2. prev'[n] \in S \union {c} /\ next'[prev'[n]] = n
    <3>1. CASE n = q
      BY <3>1, <1>4
    <3>2. CASE n # q
      <4>1. prev[n] # p
        BY <3>2, <1>1 DEF MutualOn
      <4> QED BY <4>1, <3>2, <1>5, <1>6 DEF MutualOn
    <3> QED BY <3>1, <3>2
  <2> QED BY <2>1, <2>2
<1>8. /\ next'[c] \in S \union {c} /\ prev'[c] \in S \union {c}
      /\ prev'[next'[c]] = c /\ next'[prev'[c]] = c
  BY <1>1, <1>4
<1> HIDE DEF q
<1> QED BY <1>3, <1>7, <1>8

(* Unlinking a cell of the list: what event_destroy does.                  *)
LEMMA UnlinkMutual ==
  ASSUME NEW S \in SUBSET Node, NEW c \in S,
         next \in [Node -> Node \union {Null}],
         prev \in [Node -> Node \union {Null}],
         MutualOn(S), Unlink(c)
  PROVE  /\ next' \in [Node -> Node \union {Null}]
         /\ prev' \in [Node -> Node \union {Null}]
         /\ \A n \in S \ {c} :
              /\ next'[n] \in S \ {c} /\ prev'[n] \in S \ {c}
              /\ prev'[next'[n]] = n /\ next'[prev'[n]] = n
<1> DEFINE p == prev[c]
           q == next[c]
<1>1. p \in S /\ q \in S /\ next[p] = c /\ prev[q] = c
  BY DEF MutualOn
<1>2. /\ next' = [next EXCEPT ![p] = q, ![c] = Null]
      /\ prev' = [prev EXCEPT ![q] = p, ![c] = Null]
  BY DEF Unlink
<1>3. /\ next' \in [Node -> Node \union {Null}]
      /\ prev' \in [Node -> Node \union {Null}]
  BY <1>1, <1>2
<1>4. \A n \in S \ {c} : next'[n] = IF n = p THEN q ELSE next[n]
  BY <1>1, <1>2
<1>5. \A n \in S \ {c} : prev'[n] = IF n = q THEN p ELSE prev[n]
  BY <1>1, <1>2
<1>6. ASSUME NEW n \in S \ {c}
      PROVE  /\ next'[n] \in S \ {c} /\ prev'[n] \in S \ {c}
             /\ prev'[next'[n]] = n /\ next'[prev'[n]] = n
  <2>1. next'[n] \in S \ {c} /\ prev'[next'[n]] = n
    <3>1. CASE n = p
      <4>1. q # c
        BY <3>1, <1>1
      <4> QED BY <4>1, <3>1, <1>1, <1>4, <1>5
    <3>2. CASE n # p
      <4>1. next[n] \in S \ {c} /\ next[n] # q /\ prev[next[n]] = n
        BY <3>2, <1>1 DEF MutualOn
      <4> QED BY <4>1, <3>2, <1>4, <1>5
    <3> QED BY <3>1, <3>2
  <2>2. prev'[n] \in S \ {c} /\ next'[prev'[n]] = n
    <3>1. CASE n = q
      <4>1. p # c
        BY <3>1, <1>1
      <4> QED BY <4>1, <3>1, <1>1, <1>4, <1>5
    <3>2. CASE n # q
      <4>1. prev[n] \in S \ {c} /\ prev[n] # p /\ next[prev[n]] = n
        BY <3>2, <1>1 DEF MutualOn
      <4> QED BY <4>1, <3>2, <1>4, <1>5
    <3> QED BY <3>1, <3>2
  <2> QED BY <2>1, <2>2
<1> QED BY <1>3, <1>6

LEMMA InitIInv == Init => IInv
BY EventListAssumption
   DEF Init, IInv, TypeOK, LinksMutual, InCallOK, NoAbort, Linked, Node

(* Every step preserves the inductive invariant.                           *)
LEMMA NextIInv == IInv /\ [Next]_vars => IInv'
<1> SUFFICES ASSUME IInv, [Next]_vars PROVE IInv'
  OBVIOUS
<1> USE EventListAssumption
<1>t. /\ next \in [Node -> Node \union {Null}]
      /\ prev \in [Node -> Node \union {Null}]
      /\ Linked \union {End} \in SUBSET Node
      /\ MutualOn(Linked \union {End})
  BY DEF IInv, TypeOK, LinksMutual, MutualOn, Linked, Node
<1>1. ASSUME NEW c \in Cell, NEW t \in Time, BeginCreate(c, t) PROVE IInv'
  BY <1>1 DEF IInv, BeginCreate, TypeOK, LinksMutual, InCallOK, NoAbort,
              Linked, links, Last, Node
<1>2. ASSUME ScanStep PROVE IInv'
  <2>1. other \in Linked \union {End} /\ Linked' = Linked
    BY <1>2 DEF IInv, ScanStep, ScanEnds, InCallOK, Linked, links
  <2>2. owner' \in Linked \union {End} /\ other' \in Linked \union {End}
    BY <2>1, <1>2, <1>t DEF ScanStep, MutualOn
  <2>3. LinksMutual'
    BY <2>1, <1>2 DEF IInv, ScanStep, LinksMutual, links
  <2>4. TypeOK'
    BY <1>2, <2>2, <1>t DEF IInv, ScanStep, TypeOK, links
  <2> QED
    BY <2>1, <2>2, <2>3, <2>4, <1>2 DEF IInv, ScanStep, InCallOK, NoAbort
<1>3. ASSUME LinkCreated PROVE IInv'
  <2> DEFINE S == Linked \union {End}
             p == prev[owner]
  <2>1. /\ pc = "scan" /\ ev \in live /\ ev \in Cell
        /\ owner \in S /\ Linked = live \ {ev}
    BY <1>3 DEF LinkCreated, IInv, InCallOK, TypeOK, Linked
  <2>2. p \in S /\ p # Null
    BY <2>1, <1>t DEF MutualOn, Node
  <2>3. LinkAfter(p, ev) /\ pc' = "idle" /\ Returned /\ UNCHANGED <<time, live>>
    BY <1>3, <2>2 DEF LinkCreated
  <2>4. ev \in Node \ S
    BY <2>1 DEF Node
  <2>5. Linked' \union {End} = S \union {ev}
    BY <2>1, <2>3 DEF Linked
  <2>6. /\ next' \in [Node -> Node \union {Null}]
        /\ prev' \in [Node -> Node \union {Null}]
        /\ LinksMutual'
    BY <1>t, <2>2, <2>3, <2>4, <2>5, LinkAfterMutual DEF LinksMutual
  <2> QED
    BY <2>3, <2>6 DEF IInv, TypeOK, InCallOK, NoAbort, Returned
<1>4. ASSUME NEW c \in Cell, NEW n \in 1..MaxReplicas, BeginReplicate(c, n)
      PROVE  IInv'
  BY <1>4 DEF IInv, BeginReplicate, TypeOK, LinksMutual, InCallOK, NoAbort,
              Linked, links, Node
<1>5. ASSUME NEW c \in Cell, ReplicaRound(c) PROVE IInv'
  <2> DEFINE S == Linked \union {End}
  <2>1. /\ pc = "replicate" /\ ev \in live /\ Linked = live /\ c \notin live
        /\ pc' = pc /\ ev' = ev /\ live' = live \union {c}
    BY <1>5 DEF ReplicaRound, IInv, InCallOK, Linked
  <2>2. ev \in S /\ c \in Node \ S /\ Linked' \union {End} = S \union {c}
    BY <2>1 DEF Node, Linked
  <2>3. LinkAfter(ev, c)
    BY <1>5 DEF ReplicaRound
  <2>4. /\ next' \in [Node -> Node \union {Null}]
        /\ prev' \in [Node -> Node \union {Null}]
        /\ LinksMutual'
    BY <1>t, <2>2, <2>3, LinkAfterMutual DEF LinksMutual
  <2>5. time' \in [Cell -> Time \union {Null}] /\ todo' \in 0..MaxReplicas
    BY <1>5, <2>1 DEF ReplicaRound, IInv, TypeOK
  <2> QED
    BY <1>5, <2>1, <2>4, <2>5 DEF ReplicaRound, IInv, TypeOK, InCallOK, NoAbort
<1>6. ASSUME EndReplicate PROVE IInv'
  BY <1>6 DEF IInv, EndReplicate, TypeOK, LinksMutual, InCallOK, NoAbort,
              Linked, links, Returned, Node
<1>7. ASSUME NEW c \in Cell, Destroy(c) PROVE IInv'
  <2> DEFINE S == Linked \union {End}
  <2>1. /\ pc = "idle" /\ pc' = "idle" /\ c \in live /\ Linked = live
        /\ live' = live \ {c}
        /\ time' \in [Cell -> Time \union {Null}]
    BY <1>7 DEF Destroy, Free, IInv, TypeOK, Linked
  <2>2. c \in S /\ Linked' \union {End} = S \ {c}
    BY <2>1 DEF Linked
  <2>3. Unlink(c)
    BY <1>7 DEF Destroy
  <2>4. /\ next' \in [Node -> Node \union {Null}]
        /\ prev' \in [Node -> Node \union {Null}]
        /\ LinksMutual'
    BY <1>t, <2>2, <2>3, UnlinkMutual DEF LinksMutual
  <2> QED
    BY <1>7, <2>1, <2>4 DEF Destroy, IInv, TypeOK, InCallOK, NoAbort
<1>8. ASSUME BeginDestroyAll PROVE IInv'
  BY <1>8 DEF IInv, BeginDestroyAll, TypeOK, LinksMutual, InCallOK, NoAbort,
              Linked, links, Node
<1>9. ASSUME DestroyAllRound PROVE IInv'
  <2> DEFINE S == Linked \union {End}
  <2>1. /\ First \in S /\ First # End /\ prev[First] = End
        /\ next[First] \in S /\ prev[next[First]] = First
    BY <1>9, <1>t DEF DestroyAllRound, First, MutualOn
  <2>2. /\ Linked = live /\ First \in live /\ First \in Cell
        /\ live' = live \ {First} /\ Unlink(First)
        /\ time' \in [Cell -> Time \union {Null}]
    BY <1>9, <2>1 DEF DestroyAllRound, Free, IInv, TypeOK, Linked
  <2>3. next[First] # First
    BY <2>1
  <2>4. next'[End] = next[First]
    BY <2>1, <2>2, <1>t DEF Unlink, Node
  <2>5. pc = "destroy_all" /\ pc' = pc
    BY <1>9, <2>3, <2>4 DEF DestroyAllRound
  <2>6. Linked' \union {End} = S \ {First}
    BY <2>1, <2>2, <2>5 DEF Linked
  <2>7. /\ next' \in [Node -> Node \union {Null}]
        /\ prev' \in [Node -> Node \union {Null}]
        /\ LinksMutual'
    BY <1>t, <2>1, <2>2, <2>6, UnlinkMutual DEF LinksMutual
  <2> QED
    BY <1>9, <2>2, <2>5, <2>7
       DEF DestroyAllRound, IInv, TypeOK, InCallOK, NoAbort, Node
<1>10. ASSUME EndDestroyAll PROVE IInv'
  BY <1>10 DEF IInv, EndDestroyAll, TypeOK, LinksMutual, InCallOK, NoAbort,
               Linked, links, Returned, Node
<1>11. ASSUME UNCHANGED vars PROVE IInv'
  BY <1>11 DEF IInv, vars, links, TypeOK, LinksMutual, InCallOK, NoAbort,
               Linked, Node
<1> QED
  BY <1>1, <1>2, <1>3, <1>4, <1>5, <1>6, <1>7, <1>8, <1>9, <1>10, <1>11
     DEF Next, InCall

LEMMA SpecIInv == Spec => []IInv
<1>1. Init => IInv
  BY InitIInv
<1>2. IInv /\ [Next]_vars => IInv'
  BY NextIInv
<1> QED BY <1>1, <1>2, PTL DEF Spec

-----------------------------------------------------------------------------
(* Every variable of the list code keeps its type.                         *)
THEOREM TypeCorrect == Spec => []TypeOK
<1>1. IInv => TypeOK
  BY DEF IInv
<1> QED BY <1>1, SpecIInv, PTL

(* At every point of every call the links of the listed events are         *)
(* mutually inverse and lead to no freed and to no unlinked cell.          *)
THEOREM WellLinked == Spec => []LinksMutual
<1>1. IInv => LinksMutual
  BY DEF IInv
<1> QED BY <1>1, SpecIInv, PTL

(* The two aborts in events.c are unreachable.                             *)
THEOREM NeverAborts == Spec => []NoAbort
<1>1. IInv => NoAbort
  BY DEF IInv
<1> QED BY <1>1, SpecIInv, PTL

-----------------------------------------------------------------------------
(***************************************************************************)
(* LinksMutual allows the live events to form several rings.  To relate    *)
(* the links to the sequence of AbstractEventList, ListInv says that they  *)
(* form one: there is a sequence s of cells, without repetition, whose     *)
(* neighbours are linked to each other and whose ends are linked to the    *)
(* sentinel, and event_create's loop stands at a place k of it with only   *)
(* later events behind it.                                                 *)
(***************************************************************************)

(* Position i of the ring that the cells of s form with the sentinel.      *)
At(s, i) == IF i \in 1..Len(s) THEN s[i] ELSE End

Distinct(s) == \A i, j \in 1..Len(s) : s[i] = s[j] => i = j

(* nx and pv link s and the sentinel to a ring.                            *)
Ring(s, nx, pv) ==
  \A i \in 0..Len(s) : nx[At(s, i)] = At(s, i + 1) /\ pv[At(s, i + 1)] = At(s, i)

Lists(s) ==
  /\ Distinct(s)
  /\ Ring(s, next, prev)
  /\ Linked = {s[i] : i \in 1..Len(s)}

(* The loop of event_create has passed the events behind place k.          *)
ScansAt(s, k) ==
  /\ other = At(s, k)
  /\ owner = At(s, k + 2)
  /\ \A j \in (k + 1)..Len(s) : time[s[j]] > time[ev]

ListedBy(s) == Lists(s) /\ (pc = "scan" => \E k \in 0..Len(s) : ScansAt(s, k))

(* Live events have a creation time.                                       *)
Timed == \A c \in live : time[c] \in Time

ListInv == Timed /\ \E s \in Seq(Cell) : ListedBy(s)

(* t is s with c put in behind the first a elements.                       *)
IsInserted(t, s, a, c) ==
  /\ Len(t) = Len(s) + 1
  /\ \A i \in 1..Len(t) :
       t[i] = IF i <= a THEN s[i] ELSE IF i = a + 1 THEN c ELSE s[i - 1]

(* t is s without its element at place k.                                  *)
IsRemoved(t, s, k) ==
  /\ Len(t) = Len(s) - 1
  /\ \A i \in 1..Len(t) : t[i] = IF i < k THEN s[i] ELSE s[i + 1]

(* What InsertAt and RemoveAt of SequencesExt return.                      *)
LEMMA InsertAtIs ==
  ASSUME NEW S, NEW s \in Seq(S), NEW a \in 0..Len(s), NEW c \in S
  PROVE  /\ Abstract!InsertAt(s, a + 1, c) \in Seq(S)
         /\ IsInserted(Abstract!InsertAt(s, a + 1, c), s, a, c)
<1>n. Len(s) \in Nat /\ \A i \in 1..Len(s) : s[i] \in S
  BY LenProperties, ElementOfSeq
<1> DEFINE l == SubSeq(s, 1, (a + 1) - 1)
           m == <<c>>
           r == SubSeq(s, a + 1, Len(s))
<1>1. /\ l \in Seq(S) /\ Len(l) = a
      /\ \A i \in 1..a : l[i] = s[i]
  <2>1. (a + 1) - 1 = a
    BY <1>n
  <2>2. /\ 1 \in Int /\ a \in Int
        /\ \A i \in 1..a : s[i] \in S
    BY <1>n
  <2>3. /\ SubSeq(s, 1, a) \in Seq(S)
        /\ Len(SubSeq(s, 1, a)) = IF 1 <= a THEN a - 1 + 1 ELSE 0
        /\ \A i \in 1 .. a - 1 + 1 : SubSeq(s, 1, a)[i] = s[1 + i - 1]
    BY <2>2, SubSeqProperties
  <2> QED BY <1>n, <2>1, <2>3
<1>2. m \in Seq(S) /\ Len(m) = 1 /\ m[1] = c
  OBVIOUS
<1>3. /\ r \in Seq(S) /\ Len(r) = Len(s) - a
      /\ \A i \in 1..(Len(s) - a) : r[i] = s[a + i]
  <2>2. /\ a + 1 \in Int /\ Len(s) \in Int
        /\ \A i \in (a + 1)..Len(s) : s[i] \in S
    BY <1>n
  <2>3. /\ SubSeq(s, a + 1, Len(s)) \in Seq(S)
        /\ Len(SubSeq(s, a + 1, Len(s)))
             = IF a + 1 <= Len(s) THEN Len(s) - (a + 1) + 1 ELSE 0
        /\ \A i \in 1 .. Len(s) - (a + 1) + 1 :
             SubSeq(s, a + 1, Len(s))[i] = s[(a + 1) + i - 1]
    BY <2>2, SubSeqProperties
  <2> QED BY <1>n, <2>3
<1> HIDE DEF l, m, r
<1>4. PICK lm : lm = l \o m
  OBVIOUS
<1>5. /\ lm \in Seq(S) /\ Len(lm) = a + 1
      /\ \A i \in 1..(a + 1) : lm[i] = IF i <= a THEN s[i] ELSE c
  <2>1. /\ lm \in Seq(S) /\ Len(lm) = Len(l) + Len(m)
        /\ \A i \in 1..(Len(l) + Len(m)) :
             lm[i] = IF i <= Len(l) THEN l[i] ELSE m[i - Len(l)]
    BY <1>1, <1>2, <1>4, ConcatProperties
  <2> QED BY <1>n, <1>1, <1>2, <2>1
<1>6. PICK t : t = lm \o r
  OBVIOUS
<1>7. /\ t \in Seq(S) /\ Len(t) = Len(s) + 1
      /\ \A i \in 1..(Len(s) + 1) :
           t[i] = IF i <= a + 1 THEN lm[i] ELSE r[i - (a + 1)]
  <2>1. /\ t \in Seq(S) /\ Len(t) = Len(lm) + Len(r)
        /\ \A i \in 1..(Len(lm) + Len(r)) :
             t[i] = IF i <= Len(lm) THEN lm[i] ELSE r[i - Len(lm)]
    BY <1>3, <1>5, <1>6, ConcatProperties
  <2>2. Len(lm) + Len(r) = Len(s) + 1
    BY <1>n, <1>3, <1>5
  <2> QED BY <1>5, <2>1, <2>2
<1>8. Abstract!InsertAt(s, a + 1, c) = t
  BY <1>4, <1>6 DEF Abstract!InsertAt, l, m, r
<1>9. ASSUME NEW i \in 1..(Len(s) + 1)
      PROVE  t[i] = IF i <= a THEN s[i] ELSE IF i = a + 1 THEN c ELSE s[i - 1]
  <2>1. CASE i <= a + 1
    BY <1>n, <1>5, <1>7, <2>1
  <2>2. CASE i > a + 1
    <3>1. PICK j \in 1..(Len(s) - a) : j = i - (a + 1) /\ a + j = i - 1
      BY <1>n, <2>2
    <3>2. t[i] = r[j]
      BY <1>n, <1>7, <2>2, <3>1
    <3>3. r[j] = s[i - 1]
      BY <1>3, <3>1
    <3> QED BY <1>n, <2>2, <3>2, <3>3
  <2> QED BY <1>n, <2>1, <2>2
<1> QED BY <1>7, <1>8, <1>9 DEF IsInserted

LEMMA RemoveAtIs ==
  ASSUME NEW S, NEW s \in Seq(S), NEW k \in 1..Len(s)
  PROVE  /\ Abstract!RemoveAt(s, k) \in Seq(S)
         /\ IsRemoved(Abstract!RemoveAt(s, k), s, k)
<1>n. Len(s) \in Nat /\ \A i \in 1..Len(s) : s[i] \in S
  BY LenProperties, ElementOfSeq
<1> DEFINE l == SubSeq(s, 1, k - 1)
           r == SubSeq(s, k + 1, Len(s))
<1>1. /\ l \in Seq(S) /\ Len(l) = k - 1
      /\ \A i \in 1..(k - 1) : l[i] = s[i]
  <2>2. /\ 1 \in Int /\ k - 1 \in Int
        /\ \A i \in 1..(k - 1) : s[i] \in S
    BY <1>n
  <2>3. /\ SubSeq(s, 1, k - 1) \in Seq(S)
        /\ Len(SubSeq(s, 1, k - 1)) = IF 1 <= k - 1 THEN (k - 1) - 1 + 1 ELSE 0
        /\ \A i \in 1 .. (k - 1) - 1 + 1 : SubSeq(s, 1, k - 1)[i] = s[1 + i - 1]
    BY <2>2, SubSeqProperties
  <2> QED BY <1>n, <2>3
<1>2. /\ r \in Seq(S) /\ Len(r) = Len(s) - k
      /\ \A i \in 1..(Len(s) - k) : r[i] = s[k + i]
  <2>2. /\ k + 1 \in Int /\ Len(s) \in Int
        /\ \A i \in (k + 1)..Len(s) : s[i] \in S
    BY <1>n
  <2>3. /\ SubSeq(s, k + 1, Len(s)) \in Seq(S)
        /\ Len(SubSeq(s, k + 1, Len(s)))
             = IF k + 1 <= Len(s) THEN Len(s) - (k + 1) + 1 ELSE 0
        /\ \A i \in 1 .. Len(s) - (k + 1) + 1 :
             SubSeq(s, k + 1, Len(s))[i] = s[(k + 1) + i - 1]
    BY <2>2, SubSeqProperties
  <2> QED BY <1>n, <2>3
<1> HIDE DEF l, r
<1>3. /\ l \o r \in Seq(S) /\ Len(l \o r) = Len(s) - 1
      /\ \A i \in 1..(Len(s) - 1) :
           (l \o r)[i] = IF i <= k - 1 THEN l[i] ELSE r[i - (k - 1)]
  <2>1. /\ l \o r \in Seq(S) /\ Len(l \o r) = Len(l) + Len(r)
        /\ \A i \in 1..(Len(l) + Len(r)) :
             (l \o r)[i] = IF i <= Len(l) THEN l[i] ELSE r[i - Len(l)]
    BY <1>1, <1>2, ConcatProperties
  <2>2. Len(l) + Len(r) = Len(s) - 1
    BY <1>n, <1>1, <1>2
  <2> QED BY <1>1, <2>1, <2>2
<1>4. Abstract!RemoveAt(s, k) = l \o r
  BY DEF Abstract!RemoveAt, l, r
<1>5. PICK t : t = l \o r
  OBVIOUS
<1>6. ASSUME NEW i \in 1..(Len(s) - 1)
      PROVE  t[i] = IF i < k THEN s[i] ELSE s[i + 1]
  <2>1. CASE i < k
    BY <1>n, <1>1, <1>3, <1>5, <2>1
  <2>2. CASE i >= k
    <3>1. i - (k - 1) \in 1..(Len(s) - k) /\ k + (i - (k - 1)) = i + 1
      BY <1>n, <2>2
    <3> QED BY <1>n, <1>2, <1>3, <1>5, <2>2, <3>1
  <2> QED BY <1>n, <2>1, <2>2
<1> QED BY <1>3, <1>4, <1>5, <1>6 DEF IsRemoved

(* The ring passes no cell twice, and never the sentinel in between.       *)
LEMMA AtDistinct ==
  ASSUME NEW s \in Seq(Cell), Distinct(s)
  PROVE  /\ Len(s) \in Nat
         /\ \A i \in Int : At(s, i) \in Node
         /\ \A i, j \in 0..Len(s) : At(s, i) = At(s, j) => i = j
         /\ \A i, j \in 1..(Len(s) + 1) : At(s, i) = At(s, j) => i = j
<1>n. Len(s) \in Nat /\ \A i \in 1..Len(s) : s[i] \in Cell
  BY LenProperties, ElementOfSeq
<1>1. \A i \in 1..Len(s) : At(s, i) = s[i] /\ s[i] # End
  BY <1>n, EventListAssumption DEF At
<1>2. \A i \in Int : i \notin 1..Len(s) => At(s, i) = End
  BY DEF At
<1>3. \A i, j \in 1..Len(s) : At(s, i) = At(s, j) => i = j
  BY <1>1 DEF Distinct
<1>4. \A i \in Int : At(s, i) \in Node
  BY <1>n DEF At, Node
<1> QED BY <1>n, <1>1, <1>2, <1>3, <1>4

LEMMA AtInserted ==
  ASSUME NEW s \in Seq(Cell), NEW t \in Seq(Cell), NEW a \in 0..Len(s),
         NEW c \in Cell, IsInserted(t, s, a, c)
  PROVE  \A i \in 0..(Len(t) + 1) :
           At(t, i) = IF i <= a THEN At(s, i)
                      ELSE IF i = a + 1 THEN c ELSE At(s, i - 1)
<1>n. Len(s) \in Nat /\ Len(t) = Len(s) + 1
  BY LenProperties DEF IsInserted
<1>1. ASSUME NEW i \in 0..(Len(t) + 1)
      PROVE  At(t, i) = IF i <= a THEN At(s, i)
                        ELSE IF i = a + 1 THEN c ELSE At(s, i - 1)
  <2>1. CASE i = 0 \/ i = Len(t) + 1
    BY <1>n, <2>1 DEF At
  <2>2. CASE i \in 1..Len(t)
    <3>1. At(t, i) = t[i]
      BY <2>2 DEF At
    <3>2. t[i] = IF i <= a THEN s[i] ELSE IF i = a + 1 THEN c ELSE s[i - 1]
      BY <2>2 DEF IsInserted
    <3>3. i <= a => At(s, i) = s[i]
      BY <1>n, <2>2 DEF At
    <3>4. i > a + 1 => At(s, i - 1) = s[i - 1]
      BY <1>n, <2>2 DEF At
    <3> QED BY <1>n, <2>2, <3>1, <3>2, <3>3, <3>4
  <2> QED BY <1>n, <2>1, <2>2
<1> QED BY <1>1

LEMMA AtRemoved ==
  ASSUME NEW s \in Seq(Cell), NEW t \in Seq(Cell), NEW k \in 1..Len(s),
         IsRemoved(t, s, k)
  PROVE  \A i \in 0..Len(s) :
           At(t, i) = IF i < k THEN At(s, i) ELSE At(s, i + 1)
<1>n. Len(s) \in Nat /\ Len(t) = Len(s) - 1
  BY LenProperties DEF IsRemoved
<1>1. ASSUME NEW i \in 0..Len(s)
      PROVE  At(t, i) = IF i < k THEN At(s, i) ELSE At(s, i + 1)
  <2>1. CASE i = 0 \/ i = Len(s)
    BY <1>n, <2>1 DEF At
  <2>2. CASE i \in 1..Len(t)
    <3>1. At(t, i) = t[i]
      BY <2>2 DEF At
    <3>2. t[i] = IF i < k THEN s[i] ELSE s[i + 1]
      BY <2>2 DEF IsRemoved
    <3>3. i < k => At(s, i) = s[i]
      BY <1>n, <2>2 DEF At
    <3>4. i >= k => At(s, i + 1) = s[i + 1]
      BY <1>n, <2>2 DEF At
    <3> QED BY <1>n, <2>2, <3>1, <3>2, <3>3, <3>4
  <2> QED BY <1>n, <2>1, <2>2
<1> QED BY <1>1

(* The four assignments behind place a of the ring insert there.           *)
LEMMA LinkAfterInserts ==
  ASSUME NEW s \in Seq(Cell), NEW t \in Seq(Cell), NEW a \in 0..Len(s),
         NEW c \in Cell, \A i \in 1..Len(s) : s[i] # c,
         next \in [Node -> Node \union {Null}],
         prev \in [Node -> Node \union {Null}],
         Distinct(s), Ring(s, next, prev), IsInserted(t, s, a, c),
         LinkAfter(At(s, a), c)
  PROVE  /\ Distinct(t) /\ Ring(t, next', prev')
         /\ {t[i] : i \in 1..Len(t)} = {s[i] : i \in 1..Len(s)} \union {c}
<1>n. Len(s) \in Nat /\ Len(t) = Len(s) + 1 /\ c \in Node /\ c # End
  BY LenProperties, EventListAssumption DEF IsInserted, Node
<1>1. PICK p \in Node, q \in Node : p = At(s, a) /\ q = At(s, a + 1)
  BY <1>n, AtDistinct
<1>2. next[p] = q /\ p # c /\ q # c
  <2>1. next[At(s, a)] = At(s, a + 1)
    BY DEF Ring
  <2>2. At(s, a) # c /\ At(s, a + 1) # c
    BY <1>n DEF At
  <2> QED BY <1>1, <2>1, <2>2
<1>3. /\ next' = [next EXCEPT ![c] = q, ![p] = c]
      /\ prev' = [prev EXCEPT ![c] = p, ![q] = c]
  BY <1>1, <1>2 DEF LinkAfter
<1>4. /\ next'[p] = c /\ next'[c] = q
      /\ prev'[q] = c /\ prev'[c] = p
      /\ \A n \in Node : n # p /\ n # c => next'[n] = next[n]
      /\ \A n \in Node : n # q /\ n # c => prev'[n] = prev[n]
  BY <1>1, <1>2, <1>3, <1>n
<1>5. \A i \in 0..(Len(s) + 1) : At(s, i) \in Node /\ At(s, i) # c
  BY <1>n, AtDistinct DEF At
<1>6. ASSUME NEW i \in 0..Len(s), i # a
      PROVE  next'[At(s, i)] = At(s, i + 1) /\ prev'[At(s, i + 1)] = At(s, i)
  <2>1. At(s, i) # p
    BY <1>1, <1>6, AtDistinct
  <2>2. At(s, i + 1) # q
    <3>1. i + 1 \in 1..(Len(s) + 1) /\ a + 1 \in 1..(Len(s) + 1) /\ i + 1 # a + 1
      BY <1>n, <1>6
    <3> QED BY <1>1, <3>1, AtDistinct
  <2>3. next[At(s, i)] = At(s, i + 1) /\ prev[At(s, i + 1)] = At(s, i)
    BY DEF Ring
  <2>4. i \in 0..(Len(s) + 1) /\ i + 1 \in 0..(Len(s) + 1)
    BY <1>n
  <2> QED BY <1>4, <1>5, <2>1, <2>2, <2>3, <2>4
<1>7. \A i \in 0..(Len(t) + 1) :
        At(t, i) = IF i <= a THEN At(s, i)
                   ELSE IF i = a + 1 THEN c ELSE At(s, i - 1)
  BY AtInserted
<1>8. ASSUME NEW i \in 0..Len(t)
      PROVE  next'[At(t, i)] = At(t, i + 1) /\ prev'[At(t, i + 1)] = At(t, i)
  <2>1. i \in 0..(Len(t) + 1) /\ i + 1 \in 0..(Len(t) + 1)
    BY <1>n
  <2>2. CASE i < a
    <3>1. At(t, i) = At(s, i) /\ At(t, i + 1) = At(s, i + 1)
      BY <1>7, <2>1, <2>2
    <3>2. i \in 0..Len(s) /\ i # a
      BY <1>n, <2>2
    <3> QED BY <1>6, <3>1, <3>2
  <2>3. CASE i = a
    <3>1. At(t, i) = p /\ At(t, i + 1) = c
      BY <1>1, <1>7, <2>1, <2>3
    <3> QED BY <1>4, <3>1
  <2>4. CASE i = a + 1
    <3>1. At(t, i) = c
      BY <1>7, <2>1, <2>4
    <3>2. At(t, i + 1) = At(s, (i + 1) - 1)
      BY <1>7, <2>1, <2>4
    <3>3. At(t, i + 1) = q
      <4>1. (i + 1) - 1 = a + 1
        BY <2>4
      <4> QED BY <1>1, <3>2, <4>1
    <3> QED BY <1>4, <3>1, <3>3
  <2>5. CASE i > a + 1
    <3>1. PICK j \in 0..Len(s) : j = i - 1 /\ j # a /\ j + 1 = i
      BY <1>n, <2>5
    <3>2. At(t, i) = At(s, j)
      BY <1>7, <2>1, <2>5, <3>1
    <3>3. At(t, i + 1) = At(s, j + 1)
      <4>1. At(t, i + 1) = At(s, (i + 1) - 1)
        BY <1>7, <2>1, <2>5
      <4> QED BY <3>1, <4>1
    <3> QED BY <1>6, <3>1, <3>2, <3>3
  <2> QED BY <1>n, <2>2, <2>3, <2>4, <2>5
<1>9. Distinct(t)
  <2>1. ASSUME NEW i \in 1..Len(t)
        PROVE  \/ i = a + 1 /\ t[i] = c
               \/ \E u \in 1..Len(s) :
                    /\ t[i] = s[u]
                    /\ i = IF u <= a THEN u ELSE u + 1
    <3>1. CASE i <= a
      <4>1. i \in 1..Len(s) /\ t[i] = s[i]
        BY <1>n, <3>1 DEF IsInserted
      <4> QED BY <3>1, <4>1
    <3>2. CASE i = a + 1
      BY <1>n, <3>2 DEF IsInserted
    <3>3. CASE i > a + 1
      <4>1. i - 1 \in 1..Len(s) /\ t[i] = s[i - 1] /\ i - 1 > a /\ i = (i - 1) + 1
        BY <1>n, <3>3 DEF IsInserted
      <4> QED BY <1>n, <4>1
    <3> QED BY <1>n, <3>1, <3>2, <3>3
  <2>2. ASSUME NEW i \in 1..Len(t), NEW j \in 1..Len(t), t[i] = t[j]
        PROVE  i = j
    <3>1. CASE t[i] = c
      BY <2>1, <2>2, <3>1
    <3>2. CASE t[i] # c
      <4>1. PICK u \in 1..Len(s) : t[i] = s[u] /\ i = IF u <= a THEN u ELSE u + 1
        BY <2>1, <3>2
      <4>2. PICK v \in 1..Len(s) : t[j] = s[v] /\ j = IF v <= a THEN v ELSE v + 1
        BY <2>1, <2>2, <3>2
      <4>3. u = v
        BY <2>2, <4>1, <4>2 DEF Distinct
      <4> QED BY <4>1, <4>2, <4>3
    <3> QED BY <3>1, <3>2
  <2> QED BY <2>2 DEF Distinct
<1>10. {t[i] : i \in 1..Len(t)} = {s[i] : i \in 1..Len(s)} \union {c}
  <2>1. ASSUME NEW i \in 1..Len(t) PROVE t[i] = c \/ \E j \in 1..Len(s) : t[i] = s[j]
    <3>1. CASE i <= a
      BY <1>n, <3>1 DEF IsInserted
    <3>2. CASE i = a + 1
      BY <1>n, <3>2 DEF IsInserted
    <3>3. CASE i > a + 1
      <4>1. i - 1 \in 1..Len(s) /\ t[i] = s[i - 1]
        BY <1>n, <3>3 DEF IsInserted
      <4> QED BY <4>1
    <3> QED BY <1>n, <3>1, <3>2, <3>3
  <2>2. a + 1 \in 1..Len(t) /\ t[a + 1] = c
    BY <1>n DEF IsInserted
  <2>3. ASSUME NEW i \in 1..Len(s) PROVE \E j \in 1..Len(t) : s[i] = t[j]
    <3>1. CASE i <= a
      BY <1>n, <3>1 DEF IsInserted
    <3>2. CASE i > a
      <4>1. i + 1 \in 1..Len(t) /\ (i + 1) - 1 = i /\ t[i + 1] = s[(i + 1) - 1]
        BY <1>n, <3>2 DEF IsInserted
      <4> QED BY <4>1
    <3> QED BY <1>n, <3>1, <3>2
  <2>4. {t[i] : i \in 1..Len(t)} \subseteq {s[i] : i \in 1..Len(s)} \union {c}
    BY <2>1
  <2>5. c \in {t[i] : i \in 1..Len(t)}
    BY <2>2
  <2>6. {s[i] : i \in 1..Len(s)} \subseteq {t[i] : i \in 1..Len(t)}
    BY <2>3
  <2> QED BY <2>4, <2>5, <2>6
<1> QED BY <1>8, <1>9, <1>10 DEF Ring

(* The link assignments of event_destroy remove one place of the ring.     *)
LEMMA UnlinkRemoves ==
  ASSUME NEW s \in Seq(Cell), NEW t \in Seq(Cell), NEW k \in 1..Len(s),
         next \in [Node -> Node \union {Null}],
         prev \in [Node -> Node \union {Null}],
         Distinct(s), Ring(s, next, prev), IsRemoved(t, s, k),
         Unlink(s[k])
  PROVE  /\ Distinct(t) /\ Ring(t, next', prev')
         /\ {t[i] : i \in 1..Len(t)} = {s[i] : i \in 1..Len(s)} \ {s[k]}
<1>n. Len(s) \in Nat /\ Len(t) = Len(s) - 1
  BY LenProperties DEF IsRemoved
<1>1. PICK p \in Node, q \in Node, c \in Node :
        p = At(s, k - 1) /\ q = At(s, k + 1) /\ c = At(s, k) /\ c = s[k]
  BY <1>n, AtDistinct DEF At
<1>2. next[c] = q /\ prev[c] = p
  <2>1. next[At(s, k)] = At(s, k + 1) /\ k \in 0..Len(s)
    BY <1>n DEF Ring
  <2>2. k - 1 \in 0..Len(s) /\ (k - 1) + 1 = k
    BY <1>n
  <2>3. prev[At(s, k)] = At(s, k - 1)
    BY <2>2 DEF Ring
  <2> QED BY <1>1, <2>1, <2>3
<1>3. p # c /\ q # c
  <2>1. /\ k - 1 \in 0..Len(s) /\ k \in 0..Len(s) /\ k - 1 # k
        /\ k + 1 \in 1..(Len(s) + 1) /\ k \in 1..(Len(s) + 1) /\ k + 1 # k
    BY <1>n
  <2> QED BY <1>1, <2>1, AtDistinct
<1>4. /\ prev' = [prev EXCEPT ![q] = p, ![c] = Null]
      /\ next' = [next EXCEPT ![p] = q, ![c] = Null]
  BY <1>1, <1>2 DEF Unlink
<1>5. /\ next'[p] = q /\ prev'[q] = p
      /\ \A n \in Node : n # p /\ n # c => next'[n] = next[n]
      /\ \A n \in Node : n # q /\ n # c => prev'[n] = prev[n]
  BY <1>1, <1>3, <1>4
<1>6. ASSUME NEW i \in 0..Len(s), i # k - 1, i # k
      PROVE  next'[At(s, i)] = At(s, i + 1) /\ prev'[At(s, i + 1)] = At(s, i)
  <2>1. At(s, i) # p /\ At(s, i) # c
    <3>1. k - 1 \in 0..Len(s) /\ k \in 0..Len(s)
      BY <1>n
    <3> QED BY <1>1, <1>6, <3>1, AtDistinct
  <2>2. At(s, i + 1) # q /\ At(s, i + 1) # c
    <3>1. /\ i + 1 \in 1..(Len(s) + 1) /\ k + 1 \in 1..(Len(s) + 1)
          /\ k \in 1..(Len(s) + 1) /\ i + 1 # k + 1 /\ i + 1 # k
      BY <1>n, <1>6
    <3> QED BY <1>1, <3>1, AtDistinct
  <2>3. next[At(s, i)] = At(s, i + 1) /\ prev[At(s, i + 1)] = At(s, i)
    BY DEF Ring
  <2>4. At(s, i) \in Node /\ At(s, i + 1) \in Node
    BY <1>n, AtDistinct
  <2> QED BY <1>5, <2>1, <2>2, <2>3, <2>4
<1>7. \A i \in 0..Len(s) : At(t, i) = IF i < k THEN At(s, i) ELSE At(s, i + 1)
  BY AtRemoved
<1>8. ASSUME NEW i \in 0..Len(t)
      PROVE  next'[At(t, i)] = At(t, i + 1) /\ prev'[At(t, i + 1)] = At(t, i)
  <2>1. i \in 0..Len(s) /\ i + 1 \in 0..Len(s)
    BY <1>n
  <2>2. CASE i < k - 1
    <3>1. At(t, i) = At(s, i) /\ At(t, i + 1) = At(s, i + 1)
      BY <1>n, <1>7, <2>1, <2>2
    <3> QED BY <1>6, <2>1, <2>2, <3>1
  <2>3. CASE i = k - 1
    <3>1. At(t, i) = p
      BY <1>n, <1>1, <1>7, <2>1, <2>3
    <3>2. At(t, i + 1) = At(s, (i + 1) + 1) /\ (i + 1) + 1 = k + 1
      BY <1>n, <1>7, <2>1, <2>3
    <3> QED BY <1>1, <1>5, <3>1, <3>2
  <2>4. CASE i > k - 1
    <3>1. PICK j \in 0..Len(s) : j = i + 1 /\ j # k - 1 /\ j # k
      BY <1>n, <2>4
    <3>2. At(t, i) = At(s, j)
      BY <1>n, <1>7, <2>1, <2>4, <3>1
    <3>3. At(t, i + 1) = At(s, j + 1)
      BY <1>n, <1>7, <2>1, <2>4, <3>1
    <3> QED BY <1>6, <3>1, <3>2, <3>3
  <2> QED BY <1>n, <2>2, <2>3, <2>4
<1>9. Distinct(t)
  <2>1. ASSUME NEW i \in 1..Len(t)
        PROVE  \E u \in 1..Len(s) : t[i] = s[u] /\ i = IF u < k THEN u ELSE u - 1
    <3>1. CASE i < k
      BY <1>n, <3>1 DEF IsRemoved
    <3>2. CASE i >= k
      <4>1. i + 1 \in 1..Len(s) /\ t[i] = s[i + 1] /\ ~(i + 1 < k) /\ i = (i + 1) - 1
        BY <1>n, <3>2 DEF IsRemoved
      <4> QED BY <1>n, <4>1
    <3> QED BY <1>n, <3>1, <3>2
  <2>2. ASSUME NEW i \in 1..Len(t), NEW j \in 1..Len(t), t[i] = t[j]
        PROVE  i = j
    <3>1. PICK u \in 1..Len(s) : t[i] = s[u] /\ i = IF u < k THEN u ELSE u - 1
      BY <2>1
    <3>2. PICK v \in 1..Len(s) : t[j] = s[v] /\ j = IF v < k THEN v ELSE v - 1
      BY <2>1
    <3>3. u = v
      BY <2>2, <3>1, <3>2 DEF Distinct
    <3> QED BY <3>1, <3>2, <3>3
  <2> QED BY <2>2 DEF Distinct
<1>10. {t[i] : i \in 1..Len(t)} = {s[i] : i \in 1..Len(s)} \ {s[k]}
  <2>1. ASSUME NEW i \in 1..Len(t)
        PROVE  t[i] # s[k] /\ \E j \in 1..Len(s) : t[i] = s[j]
    <3>1. CASE i < k
      BY <1>n, <3>1 DEF IsRemoved, Distinct
    <3>2. CASE i >= k
      <4>1. i + 1 \in 1..Len(s) /\ t[i] = s[i + 1] /\ i + 1 # k
        BY <1>n, <3>2 DEF IsRemoved
      <4> QED BY <4>1 DEF Distinct
    <3> QED BY <1>n, <3>1, <3>2
  <2>2. ASSUME NEW i \in 1..Len(s), s[i] # s[k]
        PROVE  \E j \in 1..Len(t) : s[i] = t[j]
    <3>1. CASE i < k
      BY <1>n, <3>1 DEF IsRemoved
    <3>2. CASE i > k
      <4>1. /\ i - 1 \in 1..Len(t) /\ (i - 1) + 1 = i
            /\ t[i - 1] = s[(i - 1) + 1]
        BY <1>n, <3>2 DEF IsRemoved
      <4> QED BY <4>1
    <3>3. i # k
      BY <2>2
    <3> QED BY <1>n, <3>1, <3>2, <3>3
  <2>3. {t[i] : i \in 1..Len(t)} \subseteq {s[i] : i \in 1..Len(s)} \ {s[k]}
    BY <2>1
  <2>4. {s[i] : i \in 1..Len(s)} \ {s[k]} \subseteq {t[i] : i \in 1..Len(t)}
    BY <2>2
  <2> QED BY <2>3, <2>4
<1> QED BY <1>8, <1>9, <1>10 DEF Ring

(* A nonempty set of numbers has a least one.                              *)
LEMMA LeastOf ==
  ASSUME NEW T, T \subseteq Nat, T # {}
  PROVE  \E x \in T : \A y \in T : x <= y
<1>1. \E x \in T : \A y \in T : ~ (<<y, x>> \in OpToRel(<, Nat))
  BY NatLessThanWellFounded, WFMin
<1>2. PICK x \in T : \A y \in T : ~ (<<y, x>> \in OpToRel(<, Nat))
  BY <1>1
<1>3. ASSUME NEW y \in T PROVE x <= y
  <2>1. y \in Nat /\ x \in Nat
    OBVIOUS
  <2>2. ~ (y < x)
    BY <1>2, <2>1 DEF OpToRel
  <2> QED BY <2>1, <2>2
<1> QED BY <1>3

(* Following nx from the sentinel visits the ring in order.                *)
LEMMA WalkIs ==
  ASSUME NEW s \in Seq(Cell), NEW nx,
         \A i \in 0..Len(s) : nx[At(s, i)] = At(s, i + 1),
         NEW w,
         w = CHOOSE f : f = [i \in 0..Len(s) |->
                               IF i = 0 THEN End ELSE nx[f[i - 1]]]
  PROVE  \A i \in 0..Len(s) : w[i] = At(s, i)
<1>n. Len(s) \in Nat
  BY LenProperties
<1>1. PICK g : g = [i \in 0..Len(s) |-> At(s, i)]
  OBVIOUS
<1>2. \A i \in 0..Len(s) : g[i] = IF i = 0 THEN End ELSE nx[g[i - 1]]
  <2>1. g[0] = End
    BY <1>n, <1>1 DEF At
  <2>2. ASSUME NEW i \in 1..Len(s) PROVE g[i] = nx[g[i - 1]]
    <3>1. PICK j \in 0..Len(s) : j = i - 1 /\ j + 1 = i
      BY <1>n
    <3>2. g[i - 1] = At(s, j) /\ g[i] = At(s, j + 1)
      BY <1>n, <1>1, <3>1
    <3> QED BY <3>2
  <2> QED BY <1>n, <2>1, <2>2
<1>3. g = [i \in 0..Len(s) |-> IF i = 0 THEN End ELSE nx[g[i - 1]]]
  BY <1>1, <1>2
<1>4. w = [i \in 0..Len(s) |-> IF i = 0 THEN End ELSE nx[w[i - 1]]]
  BY <1>3
<1>5. w[0] = End /\ \A i \in 1..Len(s) : w[i] = nx[w[i - 1]]
  <2>1. \A i \in 0..Len(s) : w[i] = IF i = 0 THEN End ELSE nx[w[i - 1]]
    BY ONLY <1>4
  <2> QED BY <1>n, <2>1
<1>6. PICK Bad : Bad = {i \in 0..Len(s) : w[i] # At(s, i)}
  OBVIOUS
<1>7. ASSUME Bad # {} PROVE FALSE
  <2>1. Bad \subseteq Nat
    BY <1>n, <1>6
  <2>2. PICK x \in Bad : \A y \in Bad : x <= y
    BY <1>7, <2>1, LeastOf
  <2>3. x \in 0..Len(s) /\ w[x] # At(s, x)
    BY <1>6, <2>2
  <2>4. x # 0
    BY <1>5, <2>3 DEF At
  <2>5. PICK y \in 0..Len(s) : y = x - 1 /\ y + 1 = x
    BY <1>n, <2>3, <2>4
  <2>6. y \notin Bad
    BY <1>n, <2>2, <2>3, <2>5
  <2>7. w[y] = At(s, y)
    BY <1>6, <2>5, <2>6
  <2>8. w[x] = nx[w[y]]
    BY <1>n, <1>5, <2>3, <2>4, <2>5
  <2>9. nx[At(s, y)] = At(s, y + 1)
    BY <2>5
  <2> QED BY <2>3, <2>5, <2>7, <2>8, <2>9
<1> QED BY <1>6, <1>7

LEMMA CardinalityIs ==
  ASSUME NEW s \in Seq(Cell), Distinct(s)
  PROVE  Cardinality({s[i] : i \in 1..Len(s)}) = Len(s)
<1> DEFINE S == {s[i] : i \in 1..Len(s)}
<1>1. Len(s) \in Nat /\ s \in [1..Len(s) -> Cell]
  BY LenProperties
<1>2. s \in [1..Len(s) -> S]
  BY <1>1
<1>3. s \in Injection(1..Len(s), S)
  BY <1>2 DEF Injection, IsInjective, Distinct
<1>4. s \in Surjection(1..Len(s), S)
  BY <1>2 DEF Surjection
<1>5. ExistsBijection(1..Len(s), S)
  BY <1>3, <1>4 DEF ExistsBijection, Bijection
<1> QED BY <1>1, <1>5, FS_CountingElements

(* The events of the cells of s, with the creation times tm.               *)
Events(s, tm) == [i \in 1..Len(s) |-> [id |-> s[i], time |-> tm[s[i]]]]

(* The sequence that FOREACH_EVENT visits is the one ListInv speaks of,    *)
(* before a step and after it.                                             *)
LEMMA ListNow ==
  ASSUME NEW s \in Seq(Cell), Lists(s)
  PROVE  /\ Cardinality(Linked) = Len(s)
         /\ \A i \in 0..Len(s) : Walk[i] = At(s, i)
         /\ ListOfEvents = Events(s, time)
<1>n. Len(s) \in Nat
  BY LenProperties
<1>1. Cardinality(Linked) = Len(s)
  BY CardinalityIs DEF Lists
<1>2. \A i \in 0..Len(s) : next[At(s, i)] = At(s, i + 1)
  BY DEF Lists, Ring
<1>3. \A i \in 0..Len(s) : Walk[i] = At(s, i)
  <2>1. Walk = CHOOSE f : f = [i \in 0..Len(s) |->
                                 IF i = 0 THEN End ELSE next[f[i - 1]]]
    BY <1>1 DEF Walk
  <2> QED BY <1>2, <2>1, WalkIs
<1>4. \A i \in 1..Len(s) : Walk[i] = s[i]
  BY <1>n, <1>3 DEF At
<1> QED BY <1>1, <1>3, <1>4 DEF ListOfEvents, Events

LEMMA ListNext ==
  ASSUME NEW s \in Seq(Cell), Lists(s)'
  PROVE  /\ Cardinality(Linked)' = Len(s)
         /\ \A i \in 0..Len(s) : Walk'[i] = At(s, i)
         /\ ListOfEvents' = Events(s, time')
<1>n. Len(s) \in Nat
  BY LenProperties
<1>1. Cardinality(Linked)' = Len(s)
  <2>1. Distinct(s) /\ Linked' = {s[i] : i \in 1..Len(s)}
    BY DEF Lists
  <2> QED BY <2>1, CardinalityIs
<1>2. \A i \in 0..Len(s) : next'[At(s, i)] = At(s, i + 1)
  BY DEF Lists, Ring
<1>3. \A i \in 0..Len(s) : Walk'[i] = At(s, i)
  <2>1. Walk' = CHOOSE f : f = [i \in 0..Len(s) |->
                                  IF i = 0 THEN End ELSE next'[f[i - 1]]]
    BY <1>1 DEF Walk
  <2> QED BY <1>2, <2>1, WalkIs
<1>4. \A i \in 1..Len(s) : Walk'[i] = s[i]
  BY <1>n, <1>3 DEF At
<1> QED BY <1>1, <1>3, <1>4 DEF ListOfEvents, Events

-----------------------------------------------------------------------------
(***************************************************************************)
(* One lemma for each step that changes the list: which place of the       *)
(* sequence it changes.                                                    *)
(***************************************************************************)

(* Where event_create puts the event when its loop ends at place k.        *)
PlaceAhead(s, k) == IF k = Len(s) THEN k ELSE k + 1

LEMMA CreateStep ==
  ASSUME NEW s \in Seq(Cell), IInv, Timed, ListedBy(s), LinkCreated
  PROVE  \E k \in 0..Len(s), t \in Seq(Cell) :
           /\ ScansAt(s, k)
           /\ k # 0 => time[ev] >= time[s[k]]
           /\ t = Abstract!InsertAt(s, PlaceAhead(s, k) + 1, ev)
           /\ IsInserted(t, s, PlaceAhead(s, k), ev)
           /\ ListedBy(t)'
<1>n. Len(s) \in Nat
  BY LenProperties
<1>1. /\ pc = "scan" /\ ev \in live /\ ev \in Cell
      /\ Linked = live \ {ev} /\ Linked = {s[i] : i \in 1..Len(s)}
      /\ Distinct(s) /\ Ring(s, next, prev)
      /\ next \in [Node -> Node \union {Null}]
      /\ prev \in [Node -> Node \union {Null}]
  BY DEF LinkCreated, IInv, InCallOK, TypeOK, Linked, ListedBy, Lists
<1>2. PICK k \in 0..Len(s) : ScansAt(s, k)
  BY <1>1 DEF ListedBy
<1>3. PICK a \in 0..Len(s) : a = PlaceAhead(s, k)
  BY <1>n DEF PlaceAhead
<1>4. k # 0 => time[ev] >= time[s[k]]
  <2>1. ASSUME k # 0 PROVE time[ev] >= time[s[k]]
    <3>1. k \in 1..Len(s)
      BY <1>n, <2>1
    <3>2. other = s[k] /\ s[k] \in Cell
      BY <1>2, <3>1, ElementOfSeq DEF ScansAt, At
    <3> QED BY <3>2 DEF LinkCreated, ScanEnds
  <2> QED BY <2>1
<1>5. prev[owner] = At(s, a)
  <2>1. CASE k = Len(s)
    <3>1. owner = At(s, Len(s) + 2) /\ a = Len(s)
      BY <1>2, <1>3, <2>1 DEF ScansAt, PlaceAhead
    <3>2. At(s, Len(s) + 2) = At(s, Len(s) + 1)
      BY <1>n DEF At
    <3>3. Len(s) \in 0..Len(s)
      BY <1>n
    <3>4. prev[At(s, Len(s) + 1)] = At(s, Len(s))
      BY <1>1, <3>3 DEF Ring
    <3> QED BY <3>1, <3>2, <3>4
  <2>2. CASE k # Len(s)
    <3>1. PICK j \in 0..Len(s) : j = k + 1
      BY <1>n, <2>2
    <3>2. owner = At(s, j + 1) /\ a = j
      <4>1. owner = At(s, k + 2) /\ k + 2 = j + 1
        BY <1>2, <3>1 DEF ScansAt
      <4>2. a = j
        BY <1>3, <2>2, <3>1 DEF PlaceAhead
      <4> QED BY <4>1, <4>2
    <3>3. prev[At(s, j + 1)] = At(s, j)
      BY <1>1 DEF Ring
    <3> QED BY <3>2, <3>3
  <2> QED BY <2>1, <2>2
<1>6. At(s, a) \in Node /\ At(s, a) # Null
  BY <1>n, <1>1, AtDistinct, EventListAssumption DEF Node
<1>7. LinkAfter(At(s, a), ev) /\ pc' = "idle" /\ live' = live
  BY <1>5, <1>6 DEF LinkCreated
<1>8. PICK t : t = Abstract!InsertAt(s, a + 1, ev)
  OBVIOUS
<1>9. t \in Seq(Cell) /\ IsInserted(t, s, a, ev)
  BY <1>1, <1>8, InsertAtIs
<1>10. \A i \in 1..Len(s) : s[i] # ev
  BY <1>1
<1>11. /\ Distinct(t) /\ Ring(t, next', prev')
       /\ {t[i] : i \in 1..Len(t)} = {s[i] : i \in 1..Len(s)} \union {ev}
  BY <1>1, <1>7, <1>9, <1>10, LinkAfterInserts
<1>12. Linked' = Linked \union {ev}
  BY <1>1, <1>7 DEF Linked
<1>13. ListedBy(t)'
  BY <1>1, <1>7, <1>11, <1>12 DEF ListedBy, Lists
<1> QED BY <1>2, <1>3, <1>4, <1>8, <1>9, <1>13

LEMMA ReplicaStep ==
  ASSUME NEW s \in Seq(Cell), NEW c \in Cell, IInv, ListedBy(s), ReplicaRound(c)
  PROVE  \E k \in 1..Len(s), t \in Seq(Cell) :
           /\ s[k] = ev
           /\ t = Abstract!InsertAt(s, k + 1, c)
           /\ IsInserted(t, s, k, c)
           /\ ListedBy(t)'
<1>n. Len(s) \in Nat
  BY LenProperties
<1>1. /\ pc = "replicate" /\ ev \in live /\ Linked = live /\ c \notin live
      /\ Linked = {s[i] : i \in 1..Len(s)}
      /\ Distinct(s) /\ Ring(s, next, prev)
      /\ next \in [Node -> Node \union {Null}]
      /\ prev \in [Node -> Node \union {Null}]
  BY DEF ReplicaRound, IInv, InCallOK, TypeOK, Linked, ListedBy, Lists
<1>2. /\ LinkAfter(ev, c) /\ pc' = pc /\ live' = live \union {c}
  BY DEF ReplicaRound
<1>3. PICK k \in 1..Len(s) : s[k] = ev
  BY <1>1
<1>4. At(s, k) = ev /\ k \in 0..Len(s)
  BY <1>n, <1>3 DEF At
<1>5. PICK t : t = Abstract!InsertAt(s, k + 1, c)
  OBVIOUS
<1>6. t \in Seq(Cell) /\ IsInserted(t, s, k, c)
  BY <1>4, <1>5, InsertAtIs
<1>7. \A i \in 1..Len(s) : s[i] # c
  BY <1>1
<1>8. /\ Distinct(t) /\ Ring(t, next', prev')
      /\ {t[i] : i \in 1..Len(t)} = {s[i] : i \in 1..Len(s)} \union {c}
  BY <1>1, <1>2, <1>4, <1>6, <1>7, LinkAfterInserts
<1>9. Linked' = Linked \union {c}
  BY <1>1, <1>2 DEF Linked
<1>10. ListedBy(t)'
  BY <1>1, <1>2, <1>8, <1>9 DEF ListedBy, Lists
<1> QED BY <1>3, <1>5, <1>6, <1>10

LEMMA DestroyStep ==
  ASSUME NEW s \in Seq(Cell), NEW c \in live, IInv, ListedBy(s),
         pc # "scan", pc' # "scan", Unlink(c), live' = live \ {c}
  PROVE  \E k \in 1..Len(s), t \in Seq(Cell) :
           /\ s[k] = c
           /\ t = Abstract!RemoveAt(s, k)
           /\ IsRemoved(t, s, k)
           /\ ListedBy(t)'
<1>1. /\ Linked = live
      /\ Linked = {s[i] : i \in 1..Len(s)}
      /\ Distinct(s) /\ Ring(s, next, prev)
      /\ next \in [Node -> Node \union {Null}]
      /\ prev \in [Node -> Node \union {Null}]
  BY DEF IInv, TypeOK, Linked, ListedBy, Lists
<1>2. PICK k \in 1..Len(s) : s[k] = c
  BY <1>1
<1>3. PICK t : t = Abstract!RemoveAt(s, k)
  OBVIOUS
<1>4. t \in Seq(Cell) /\ IsRemoved(t, s, k)
  BY <1>3, RemoveAtIs
<1>5. Unlink(s[k])
  BY <1>2
<1>6. /\ Distinct(t) /\ Ring(t, next', prev')
      /\ {t[i] : i \in 1..Len(t)} = {s[i] : i \in 1..Len(s)} \ {s[k]}
  BY <1>1, <1>4, <1>5, UnlinkRemoves
<1>7. Linked' = Linked \ {c}
  BY <1>1 DEF Linked
<1>8. ListedBy(t)'
  BY <1>1, <1>2, <1>6, <1>7 DEF ListedBy, Lists
<1> QED BY <1>2, <1>3, <1>4, <1>8

(* The other steps leave the list as it is.                                *)
LEMMA QuietStep ==
  ASSUME NEW s \in Seq(Cell), IInv, Timed, ListedBy(s),
         \/ \E c \in Cell, t \in Time : BeginCreate(c, t)
         \/ ScanStep
         \/ \E c \in Cell, n \in 1..MaxReplicas : BeginReplicate(c, n)
         \/ EndReplicate
         \/ BeginDestroyAll
         \/ EndDestroyAll
         \/ UNCHANGED vars
  PROVE  /\ ListedBy(s)' /\ Timed'
         /\ \A c \in Linked : time'[c] = time[c]
<1>n. Len(s) \in Nat /\ \A i \in 1..Len(s) : s[i] \in Cell
  BY LenProperties, ElementOfSeq
<1>1. /\ Distinct(s) /\ Ring(s, next, prev)
      /\ Linked = {s[i] : i \in 1..Len(s)}
  BY DEF ListedBy, Lists
<1>2. ASSUME NEW c \in Cell, NEW t \in Time, BeginCreate(c, t)
      PROVE  /\ ListedBy(s)' /\ Timed'
             /\ \A d \in Linked : time'[d] = time[d]
  <2>1. /\ Linked = live /\ Linked' = live /\ c \notin live
        /\ next' = next /\ prev' = prev
        /\ live' = live \union {c} /\ ev' = c
        /\ owner' = End /\ other' = Last
    BY <1>2 DEF BeginCreate, Linked, links
  <2>2. /\ \A d \in Cell : time'[d] = IF d = c THEN t ELSE time[d]
        /\ live \subseteq Cell
    BY <1>2 DEF BeginCreate, IInv, TypeOK
  <2>3. Lists(s)'
    BY <1>1, <2>1 DEF Lists
  <2>4. ScansAt(s, Len(s))'
    <3>1. At(s, Len(s) + 2) = End /\ At(s, Len(s) + 1) = End
      BY <1>n DEF At
    <3>2. Len(s) \in 0..Len(s)
      BY <1>n
    <3>3. prev[At(s, Len(s) + 1)] = At(s, Len(s))
      BY <1>1, <3>2 DEF Ring
    <3>4. other' = At(s, Len(s))
      BY <2>1, <3>1, <3>3 DEF Last
    <3>5. owner' = At(s, Len(s) + 2)
      BY <2>1, <3>1
    <3>6. \A j \in (Len(s) + 1)..Len(s) : FALSE
      BY <1>n
    <3> QED BY <3>4, <3>5, <3>6 DEF ScansAt
  <2>5. ListedBy(s)'
    BY <1>n, <2>3, <2>4 DEF ListedBy
  <2>6. Timed'
    BY <2>1, <2>2 DEF Timed
  <2>7. \A d \in Linked : time'[d] = time[d]
    BY <2>1, <2>2
  <2> QED BY <2>5, <2>6, <2>7
<1>3. ASSUME ScanStep
      PROVE  /\ ListedBy(s)' /\ Timed'
             /\ \A d \in Linked : time'[d] = time[d]
  <2>1. /\ pc = "scan" /\ pc' = "scan" /\ UNCHANGED <<next, prev, time, live, ev>>
        /\ owner' = next[other] /\ other' = prev[other]
        /\ other \in Cell /\ ~(time[ev] >= time[other])
    BY <1>3 DEF ScanStep, ScanEnds, links
  <2>2. PICK k \in 0..Len(s) : ScansAt(s, k)
    BY <2>1 DEF ListedBy
  <2>3. k \in 1..Len(s) /\ other = s[k]
    <3>1. other = At(s, k)
      BY <2>2 DEF ScansAt
    <3> QED BY <1>n, <2>1, <3>1, EventListAssumption DEF At
  <2>4. PICK j \in 0..Len(s) : j = k - 1 /\ j + 1 = k
    BY <1>n, <2>3
  <2>5. other' = At(s, j)
    <3>1. prev[At(s, j + 1)] = At(s, j)
      BY <1>1 DEF Ring
    <3> QED BY <2>1, <2>2, <2>4, <3>1 DEF ScansAt
  <2>6. owner' = At(s, j + 2)
    <3>1. next[At(s, k)] = At(s, k + 1) /\ k + 1 = j + 2
      BY <1>1, <2>4 DEF Ring
    <3> QED BY <2>1, <2>2, <3>1 DEF ScansAt
  <2>7. \A i \in (j + 1)..Len(s) : time'[s[i]] > time'[ev']
    <3>1. time[s[k]] > time[ev]
      <4>1. s[k] \in Linked /\ Linked \subseteq live /\ ev \in live
        BY <1>1, <2>1, <2>3 DEF Linked, IInv, InCallOK
      <4>2. time[s[k]] \in Nat /\ time[ev] \in Nat
        BY <4>1, EventListAssumption DEF Timed
      <4> QED BY <2>1, <2>3, <4>2
    <3>2. \A i \in (k + 1)..Len(s) : time[s[i]] > time[ev]
      BY <2>2 DEF ScansAt
    <3> QED BY <1>n, <2>1, <2>3, <2>4, <3>1, <3>2
  <2>8. ScansAt(s, j)'
    BY <2>5, <2>6, <2>7 DEF ScansAt
  <2>9. Lists(s)'
    BY <1>1, <2>1 DEF Lists, Linked
  <2>10. ListedBy(s)'
    BY <2>8, <2>9 DEF ListedBy
  <2> QED BY <2>1, <2>10 DEF Timed
<1>4. ASSUME \/ \E c \in Cell, n \in 1..MaxReplicas : BeginReplicate(c, n)
             \/ EndReplicate
             \/ BeginDestroyAll
             \/ EndDestroyAll
      PROVE  /\ ListedBy(s)' /\ Timed'
             /\ \A d \in Linked : time'[d] = time[d]
  <2>1. /\ pc # "scan" /\ pc' # "scan"
        /\ next' = next /\ prev' = prev /\ time' = time /\ live' = live
    BY <1>4 DEF BeginReplicate, EndReplicate, BeginDestroyAll, EndDestroyAll, links
  <2> QED BY <1>1, <2>1 DEF ListedBy, Lists, Timed, Linked
<1>5. ASSUME UNCHANGED vars
      PROVE  /\ ListedBy(s)' /\ Timed'
             /\ \A d \in Linked : time'[d] = time[d]
  <2>1. ListedBy(s)'
    BY <1>5 DEF ListedBy, Lists, Linked, ScansAt, vars, links
  <2> QED BY <1>5, <2>1 DEF vars, Timed
<1> QED BY <1>2, <1>3, <1>4, <1>5

LEMMA NextListInv == IInv /\ ListInv /\ [Next]_vars => ListInv'
<1> SUFFICES ASSUME IInv, ListInv, [Next]_vars PROVE ListInv'
  OBVIOUS
<1>1. Timed
  BY DEF ListInv
<1>2. PICK s \in Seq(Cell) : ListedBy(s)
  BY DEF ListInv
<1>3. /\ time \in [Cell -> Time \union {Null}] /\ live \subseteq Cell
      /\ \A c \in live : time[c] \in Time
  BY <1>1 DEF IInv, TypeOK, Timed
<1>4. ASSUME LinkCreated PROVE ListInv'
  <2>1. \E t \in Seq(Cell) : ListedBy(t)'
    BY <1>1, <1>2, <1>4, CreateStep
  <2>2. Timed'
    BY <1>3, <1>4 DEF LinkCreated, Timed
  <2> QED BY <2>1, <2>2 DEF ListInv
<1>5. ASSUME NEW c \in Cell, ReplicaRound(c) PROVE ListInv'
  <2>1. \E t \in Seq(Cell) : ListedBy(t)'
    BY <1>2, <1>5, ReplicaStep
  <2>2. Timed'
    BY <1>3, <1>5 DEF ReplicaRound, Timed, IInv, InCallOK
  <2> QED BY <2>1, <2>2 DEF ListInv
<1>6. ASSUME NEW c \in Cell, Destroy(c) PROVE ListInv'
  <2>1. \E t \in Seq(Cell) : ListedBy(t)'
    BY <1>2, <1>6, DestroyStep DEF Destroy, Free
  <2>2. Timed'
    BY <1>3, <1>6 DEF Destroy, Free, Timed
  <2> QED BY <2>1, <2>2 DEF ListInv
<1>7. ASSUME DestroyAllRound PROVE ListInv'
  <2>1. First \in live
    BY <1>7, EventListAssumption
       DEF DestroyAllRound, First, IInv, LinksMutual, Linked
  <2>2. \E t \in Seq(Cell) : ListedBy(t)'
    BY <1>2, <1>7, <2>1, DestroyStep DEF DestroyAllRound, Free
  <2>3. Timed'
    BY <1>3, <1>7 DEF DestroyAllRound, Free, Timed
  <2> QED BY <2>2, <2>3 DEF ListInv
<1>8. CASE \/ \E c \in Cell, t \in Time : BeginCreate(c, t)
           \/ ScanStep
           \/ \E c \in Cell, n \in 1..MaxReplicas : BeginReplicate(c, n)
           \/ EndReplicate
           \/ BeginDestroyAll
           \/ EndDestroyAll
           \/ UNCHANGED vars
  BY <1>1, <1>2, <1>8, QuietStep DEF ListInv
<1> QED BY <1>4, <1>5, <1>6, <1>7, <1>8 DEF Next, InCall

LEMMA InitListed == Init => Timed /\ Lists(<< >>) /\ ListedBy(<< >>)
<1> SUFFICES ASSUME Init PROVE Timed /\ Lists(<< >>) /\ ListedBy(<< >>)
  OBVIOUS
<1>1. << >> \in Seq(Cell) /\ Len(<< >>) = 0
  BY EmptySeq
<1>2. next[End] = End /\ prev[End] = End /\ live = {} /\ pc = "idle"
  BY DEF Init, Node
<1>3. \A i \in Int : At(<< >>, i) = End
  BY <1>1 DEF At
<1>4. Lists(<< >>)
  BY <1>1, <1>2, <1>3 DEF Lists, Distinct, Ring, Linked
<1> QED BY <1>2, <1>4 DEF ListedBy, Timed

LEMMA SpecListInv == Spec => [](IInv /\ ListInv)
<1>1. Init => IInv /\ ListInv
  <2>1. << >> \in Seq(Cell)
    BY EmptySeq
  <2> QED BY <2>1, InitIInv, InitListed DEF ListInv
<1>2. (IInv /\ ListInv) /\ [Next]_vars => (IInv /\ ListInv)'
  BY NextIInv, NextListInv
<1> QED BY <1>1, <1>2, PTL DEF Spec

-----------------------------------------------------------------------------
(***************************************************************************)
(* From sequences of cells to the sequences of records of                  *)
(* AbstractEventList.                                                      *)
(***************************************************************************)
LEMMA EventsIs ==
  ASSUME NEW s \in Seq(Cell), NEW tm, NEW R,
         \A i \in 1..Len(s) : [id |-> s[i], time |-> tm[s[i]]] \in R
  PROVE  /\ Events(s, tm) \in Seq(R)
         /\ Len(Events(s, tm)) = Len(s)
         /\ DOMAIN Events(s, tm) = 1..Len(s)
         /\ \A i \in 1..Len(s) : /\ Events(s, tm)[i].id = s[i]
                                 /\ Events(s, tm)[i].time = tm[s[i]]
<1>n. Len(s) \in Nat
  BY LenProperties
<1>1. PICK e : e = Events(s, tm)
  OBVIOUS
<1>2. e \in [1..Len(s) -> R]
  BY <1>1 DEF Events
<1>3. e \in Seq(R) /\ DOMAIN e = 1..Len(s)
  BY <1>n, <1>2, SeqDef
<1>4. Len(e) = Len(s)
  <2>1. Len(e) \in Nat /\ DOMAIN e = 1..Len(e)
    BY <1>3, LenProperties
  <2> QED BY <1>n, <1>3, <2>1
<1>5. \A i \in 1..Len(s) : e[i] = [id |-> s[i], time |-> tm[s[i]]]
  BY <1>1 DEF Events
<1> QED BY <1>1, <1>3, <1>4, <1>5

LEMMA EventsInserted ==
  ASSUME NEW s \in Seq(Cell), NEW t \in Seq(Cell), NEW a \in 0..Len(s), NEW c,
         IsInserted(t, s, a, c), NEW tm, NEW um,
         \A i \in 1..Len(s) : um[s[i]] = tm[s[i]]
  PROVE  Events(t, um) =
           Abstract!InsertAt(Events(s, tm), a + 1, [id |-> c, time |-> um[c]])
<1>n. Len(s) \in Nat /\ Len(t) = Len(s) + 1
  BY LenProperties DEF IsInserted
<1>1. PICK r : r = [id |-> c, time |-> um[c]]
  OBVIOUS
<1>2. PICK R : R = {[id |-> s[i], time |-> tm[s[i]]] : i \in 1..Len(s)} \union {r}
  OBVIOUS
<1>3. PICK e : e = Events(s, tm)
  OBVIOUS
<1>4. e \in Seq(R) /\ Len(e) = Len(s)
  BY <1>2, <1>3, EventsIs
<1>5. \A i \in 1..Len(s) : e[i] = [id |-> s[i], time |-> tm[s[i]]]
  BY <1>3 DEF Events
<1>6. PICK u : u = Abstract!InsertAt(e, a + 1, r)
  OBVIOUS
<1>7. u \in Seq(R) /\ IsInserted(u, e, a, r)
  BY <1>1, <1>2, <1>4, <1>6, InsertAtIs
<1>8. u = [i \in 1..Len(t) |-> u[i]]
  <2>1. Len(u) = Len(t)
    BY <1>n, <1>4, <1>7 DEF IsInserted
  <2>2. u \in [1..Len(u) -> R]
    BY <1>7, LenProperties
  <2> QED BY <2>1, <2>2
<1>9. ASSUME NEW i \in 1..Len(t) PROVE u[i] = [id |-> t[i], time |-> um[t[i]]]
  <2>1. /\ u[i] = IF i <= a THEN e[i] ELSE IF i = a + 1 THEN r ELSE e[i - 1]
        /\ t[i] = IF i <= a THEN s[i] ELSE IF i = a + 1 THEN c ELSE s[i - 1]
    BY <1>n, <1>4, <1>7 DEF IsInserted
  <2>2. CASE i <= a
    <3>1. i \in 1..Len(s)
      BY <1>n, <2>2
    <3> QED BY <1>5, <2>1, <2>2, <3>1
  <2>3. CASE i = a + 1
    <3>1. u[i] = r /\ t[i] = c
      BY <2>1, <2>3
    <3> QED BY <1>1, <3>1
  <2>4. CASE i > a + 1
    <3>1. PICK j \in 1..Len(s) : j = i - 1
      BY <1>n, <2>4
    <3>2. u[i] = e[j] /\ t[i] = s[j]
      BY <2>1, <2>4, <3>1
    <3> QED BY <1>5, <3>2
  <2> QED BY <1>n, <2>2, <2>3, <2>4
<1>10. Events(t, um) = u
  BY <1>8, <1>9 DEF Events
<1> QED BY <1>1, <1>3, <1>6, <1>10

LEMMA EventsRemoved ==
  ASSUME NEW s \in Seq(Cell), NEW t \in Seq(Cell), NEW k \in 1..Len(s),
         IsRemoved(t, s, k), NEW tm, NEW um,
         \A i \in 1..Len(t) : um[t[i]] = tm[t[i]]
  PROVE  Events(t, um) = Abstract!RemoveAt(Events(s, tm), k)
<1>n. Len(s) \in Nat /\ Len(t) = Len(s) - 1
  BY LenProperties DEF IsRemoved
<1>2. PICK R : R = {[id |-> s[i], time |-> tm[s[i]]] : i \in 1..Len(s)}
  OBVIOUS
<1>3. PICK e : e = Events(s, tm)
  OBVIOUS
<1>4. e \in Seq(R) /\ Len(e) = Len(s)
  BY <1>2, <1>3, EventsIs
<1>5. \A i \in 1..Len(s) : e[i] = [id |-> s[i], time |-> tm[s[i]]]
  BY <1>3 DEF Events
<1>6. PICK u : u = Abstract!RemoveAt(e, k)
  OBVIOUS
<1>7. u \in Seq(R) /\ IsRemoved(u, e, k)
  BY <1>4, <1>6, RemoveAtIs
<1>8. u = [i \in 1..Len(t) |-> u[i]]
  <2>1. Len(u) = Len(t)
    BY <1>n, <1>4, <1>7 DEF IsRemoved
  <2>2. u \in [1..Len(u) -> R]
    BY <1>7, LenProperties
  <2> QED BY <2>1, <2>2
<1>9. ASSUME NEW i \in 1..Len(t) PROVE u[i] = [id |-> t[i], time |-> um[t[i]]]
  <2>1. /\ u[i] = IF i < k THEN e[i] ELSE e[i + 1]
        /\ t[i] = IF i < k THEN s[i] ELSE s[i + 1]
    BY <1>n, <1>4, <1>7 DEF IsRemoved
  <2>2. PICK j \in 1..Len(s) : j = IF i < k THEN i ELSE i + 1
    BY <1>n
  <2>3. u[i] = e[j] /\ t[i] = s[j]
    BY <2>1, <2>2
  <2>4. e[j] = [id |-> s[j], time |-> tm[s[j]]]
    BY <1>5, <2>2
  <2> QED BY <2>3, <2>4
<1>10. Events(t, um) = u
  BY <1>8, <1>9 DEF Events
<1> QED BY <1>3, <1>6, <1>10

(* The place where the backward loop ends is the one Ahead computes.       *)
LEMMA AheadIs ==
  ASSUME NEW s \in Seq(Cell), NEW tm, NEW x \in Nat, NEW k \in 0..Len(s),
         \A i \in 1..Len(s) : tm[s[i]] \in Nat,
         \A j \in (k + 1)..Len(s) : tm[s[j]] > x,
         k # 0 => x >= tm[s[k]]
  PROVE  Abstract!Ahead(Events(s, tm), x) = PlaceAhead(s, k)
<1>n. Len(s) \in Nat
  BY LenProperties
<1>1. PICK e : e = Events(s, tm)
  OBVIOUS
<1>2. Len(e) = Len(s) /\ \A i \in 1..Len(s) : e[i].time = tm[s[i]]
  <2>1. PICK R : R = {[id |-> s[i], time |-> tm[s[i]]] : i \in 1..Len(s)}
    OBVIOUS
  <2>2. \A i \in 1..Len(s) : [id |-> s[i], time |-> tm[s[i]]] \in R
    BY <2>1
  <2> QED BY <1>1, <2>2, EventsIs
<1>3. PICK I : I = {i \in 1..Len(e) : e[i].time <= x}
  OBVIOUS
<1>4. Abstract!LastNotLater(e, x) = IF I # {} THEN Abstract!Max(I) ELSE 0
  BY <1>3 DEF Abstract!LastNotLater, Abstract!SelectLastInSeq
<1>5. \A i \in I : i \in 1..Len(s) /\ i <= k
  BY <1>n, <1>2, <1>3
<1>6. k # 0 => k \in I
  BY <1>n, <1>2, <1>3
<1>7. Abstract!LastNotLater(e, x) = k
  <2>1. CASE k = 0
    BY <1>n, <1>4, <1>5, <2>1
  <2>2. CASE k # 0
    <3>1. k \in I /\ \A i \in I : i <= k
      BY <1>5, <1>6, <2>2
    <3>2. Abstract!Max(I) \in I /\ \A i \in I : i <= Abstract!Max(I)
      BY <3>1 DEF Abstract!Max
    <3>3. Abstract!Max(I) = k
      <4>1. PICK m \in I : m = Abstract!Max(I)
        BY <3>2
      <4>2. m \in Nat /\ m <= k /\ k <= m
        BY <1>n, <1>5, <3>1, <3>2, <4>1
      <4> QED BY <4>1, <4>2
    <3> QED BY <1>4, <3>1, <3>3
  <2> QED BY <2>1, <2>2
<1> QED BY <1>1, <1>2, <1>7 DEF Abstract!Ahead, PlaceAhead

(* The identities of the abstract events are the listed cells.             *)
LEMMA IdsAre ==
  ASSUME NEW s \in Seq(Cell), Lists(s)
  PROVE  /\ DOMAIN ListOfEvents = 1..Len(s)
         /\ \A i \in 1..Len(s) : /\ ListOfEvents[i].id = s[i]
                                 /\ ListOfEvents[i].time = time[s[i]]
         /\ Abstract!Ids = Linked
<1>1. ListOfEvents = [i \in 1..Len(s) |-> [id |-> s[i], time |-> time[s[i]]]]
  BY ListNow DEF Events
<1>2. /\ DOMAIN ListOfEvents = 1..Len(s)
      /\ \A i \in 1..Len(s) : /\ ListOfEvents[i].id = s[i]
                              /\ ListOfEvents[i].time = time[s[i]]
  BY <1>1
<1>3. Abstract!Ids = {s[i] : i \in 1..Len(s)}
  BY <1>2 DEF Abstract!Ids
<1> QED BY <1>2, <1>3 DEF Lists

(* Every step of the pointer code is a step of the sequence, or changes    *)
(* nothing of it.                                                          *)
LEMMA StepRefines ==
  IInv /\ ListInv /\ [Next]_vars => [Abstract!Next]_ListOfEvents
<1> SUFFICES ASSUME IInv, ListInv, [Next]_vars
             PROVE  Abstract!Next \/ UNCHANGED ListOfEvents
  OBVIOUS
<1>1. Timed
  BY DEF ListInv
<1>2. PICK s \in Seq(Cell) : ListedBy(s)
  BY DEF ListInv
<1>3. /\ Lists(s) /\ Linked = {s[i] : i \in 1..Len(s)}
      /\ Len(s) \in Nat
      /\ \A i \in 1..Len(s) : s[i] \in Linked
  BY <1>2, LenProperties DEF ListedBy, Lists
<1>4. ListOfEvents = Events(s, time)
  BY <1>3, ListNow
<1>5. /\ DOMAIN ListOfEvents = 1..Len(s)
      /\ \A i \in 1..Len(s) : /\ ListOfEvents[i].id = s[i]
                              /\ ListOfEvents[i].time = time[s[i]]
      /\ Abstract!Ids = Linked
  BY <1>3, IdsAre
<1>6. /\ time \in [Cell -> Time \union {Null}]
      /\ live \subseteq Cell /\ Linked \subseteq live
      /\ \A c \in live : time[c] \in Time /\ time[c] \in Nat
  BY <1>1, EventListAssumption DEF IInv, TypeOK, Timed, Linked
<1>7. ASSUME LinkCreated PROVE Abstract!Next
  <2>1. PICK k \in 0..Len(s), t \in Seq(Cell) :
           /\ ScansAt(s, k)
           /\ k # 0 => time[ev] >= time[s[k]]
           /\ t = Abstract!InsertAt(s, PlaceAhead(s, k) + 1, ev)
           /\ IsInserted(t, s, PlaceAhead(s, k), ev)
           /\ ListedBy(t)'
    BY <1>1, <1>2, <1>7, CreateStep
  <2>2. /\ ev \in live /\ ev \in Cell /\ ev \notin Linked /\ time' = time
        /\ time[ev] \in Time /\ time[ev] \in Nat
    BY <1>6, <1>7 DEF LinkCreated, IInv, InCallOK, TypeOK, Linked
  <2>3. PICK a \in 0..Len(s) : a = PlaceAhead(s, k)
    BY <1>3 DEF PlaceAhead
  <2>4. IsInserted(t, s, a, ev)
    BY <2>1, <2>3
  <2>5. Abstract!Ahead(Events(s, time), time[ev]) = a
    <3>1. \A j \in (k + 1)..Len(s) : time[s[j]] > time[ev]
      BY <2>1 DEF ScansAt
    <3>2. \A i \in 1..Len(s) : time[s[i]] \in Nat
      BY <1>3, <1>6
    <3> QED BY <2>1, <2>2, <2>3, <3>1, <3>2, AheadIs
  <2>6. ListOfEvents' = Events(t, time)
    <3>1. Lists(t)'
      BY <2>1 DEF ListedBy
    <3> QED BY <2>2, <3>1, ListNext
  <2>7. Events(t, time) = Abstract!InsertAt(Events(s, time), a + 1,
                                            [id |-> ev, time |-> time[ev]])
    BY <2>4, EventsInserted
  <2>8. PICK e : e = [id |-> ev, time |-> time[ev]]
    OBVIOUS
  <2>9. ListOfEvents' = Abstract!Created(ListOfEvents, e)
    <3>1. e.time = time[ev]
      BY <2>8
    <3> QED BY <1>4, <2>5, <2>6, <2>7, <2>8, <3>1 DEF Abstract!Created
  <2>10. Abstract!Create(ev, time[ev])
    BY <1>5, <2>2, <2>8, <2>9 DEF Abstract!Create
  <2> QED BY <2>2, <2>10 DEF Abstract!Next
<1>8. ASSUME NEW c \in Cell, ReplicaRound(c) PROVE Abstract!Next
  <2>1. PICK k \in 1..Len(s), t \in Seq(Cell) :
           /\ s[k] = ev
           /\ t = Abstract!InsertAt(s, k + 1, c)
           /\ IsInserted(t, s, k, c)
           /\ ListedBy(t)'
    BY <1>2, <1>8, ReplicaStep
  <2>2. /\ c \notin live /\ c \notin Linked
        /\ \A d \in Cell : time'[d] = IF d = c THEN time[ev] ELSE time[d]
    BY <1>6, <1>8 DEF ReplicaRound
  <2>3. ListOfEvents' = Events(t, time')
    <3>1. Lists(t)'
      BY <2>1 DEF ListedBy
    <3> QED BY <3>1, ListNext
  <2>4. \A i \in 1..Len(s) : time'[s[i]] = time[s[i]]
    BY <1>3, <1>6, <2>2
  <2>5. Events(t, time') = Abstract!InsertAt(Events(s, time), k + 1,
                                             [id |-> c, time |-> time'[c]])
    <3>1. k \in 0..Len(s)
      BY <1>3
    <3> QED BY <2>1, <2>4, <3>1, EventsInserted
  <2>6. time'[c] = ListOfEvents[k].time
    BY <1>5, <2>1, <2>2
  <2>7. k \in DOMAIN ListOfEvents /\ c \notin Abstract!Ids
    BY <1>5, <2>1, <2>2
  <2>8. Abstract!Replicate(k, c)
    BY <1>4, <2>3, <2>5, <2>6, <2>7 DEF Abstract!Replicate, Abstract!ReplicatedAt
  <2> QED BY <2>7, <2>8 DEF Abstract!Next
<1>9. ASSUME NEW c \in live, pc # "scan", pc' # "scan", Unlink(c), Free(c)
      PROVE  Abstract!Next
  <2>1. PICK k \in 1..Len(s), t \in Seq(Cell) :
           /\ s[k] = c
           /\ t = Abstract!RemoveAt(s, k)
           /\ IsRemoved(t, s, k)
           /\ ListedBy(t)'
    BY <1>2, <1>9, DestroyStep DEF Free
  <2>2. \A d \in Cell : d # c => time'[d] = time[d]
    BY <1>6, <1>9 DEF Free
  <2>3. Lists(t)'
    BY <2>1 DEF ListedBy
  <2>4. ListOfEvents' = Events(t, time')
    BY <2>3, ListNext
  <2>5. \A i \in 1..Len(t) : time'[t[i]] = time[t[i]]
    <3>1. /\ \A i \in 1..Len(t) : t[i] \in Linked'
          /\ Linked' = live \ {c}
      BY <1>9, <2>3 DEF Lists, Linked, Free
    <3> QED BY <1>6, <2>2, <3>1
  <2>6. Events(t, time') = Abstract!RemoveAt(Events(s, time), k)
    <3>1. PICK tm, um : tm = time /\ um = time'
      OBVIOUS
    <3>2. /\ s \in Seq(Cell) /\ t \in Seq(Cell) /\ k \in 1..Len(s)
          /\ IsRemoved(t, s, k)
          /\ \A i \in 1..Len(t) : um[t[i]] = tm[t[i]]
      BY <1>2, <2>1, <2>5, <3>1
    <3>3. Events(t, um) = Abstract!RemoveAt(Events(s, tm), k)
      BY <3>2, EventsRemoved, SMTT(30)
    <3> QED BY <3>1, <3>3
  <2>7. k \in DOMAIN ListOfEvents
    BY <1>5, <2>1
  <2>8. Abstract!Destroy(k)
    BY <1>4, <2>4, <2>6 DEF Abstract!Destroy, Abstract!DestroyedAt
  <2> QED BY <2>7, <2>8 DEF Abstract!Next
<1>10. ASSUME NEW c \in Cell, Destroy(c) PROVE Abstract!Next
  BY <1>9, <1>10 DEF Destroy
<1>11. ASSUME DestroyAllRound PROVE Abstract!Next
  <2>1. First \in live
    BY <1>11, EventListAssumption
       DEF DestroyAllRound, First, IInv, LinksMutual, Linked
  <2> QED BY <1>9, <1>11, <2>1 DEF DestroyAllRound
<1>12. CASE \/ \E c \in Cell, t \in Time : BeginCreate(c, t)
            \/ ScanStep
            \/ \E c \in Cell, n \in 1..MaxReplicas : BeginReplicate(c, n)
            \/ EndReplicate
            \/ BeginDestroyAll
            \/ EndDestroyAll
            \/ UNCHANGED vars
  <2>1. /\ ListedBy(s)'
        /\ \A c \in Linked : time'[c] = time[c]
    BY <1>1, <1>2, <1>12, QuietStep
  <2>2. ListOfEvents' = Events(s, time')
    BY <2>1, ListNext DEF ListedBy
  <2>3. Events(s, time') = Events(s, time)
    BY <1>3, <2>1 DEF Events
  <2> QED BY <1>4, <2>2, <2>3
<1> QED BY <1>7, <1>8, <1>10, <1>11, <1>12 DEF Next, InCall

(* The pointer assignments of events.c compute what EventSeq says: with    *)
(* the calls in progress hidden, the linked list is the sequence of        *)
(* AbstractEventList.                                                      *)
THEOREM ListIsSequence == Spec => ImplementsSequence
<1>1. Init => Abstract!Init
  <2>1. SUFFICES ASSUME Init PROVE ListOfEvents = << >>
    BY DEF Abstract!Init
  <2>2. << >> \in Seq(Cell) /\ Len(<< >>) = 0
    BY EmptySeq
  <2>3. ListOfEvents = Events(<< >>, time)
    BY <2>1, <2>2, InitListed, ListNow
  <2>4. \A i \in 1..Len(<< >>) : [id |-> << >>[i], time |-> time[<< >>[i]]] \in {}
    BY <2>2
  <2>5. Events(<< >>, time) \in Seq({}) /\ Len(Events(<< >>, time)) = 0
    BY <2>2, <2>4, EventsIs
  <2> QED BY <2>3, <2>5, EmptySeq
<1>2. IInv /\ ListInv /\ [Next]_vars => [Abstract!Next]_ListOfEvents
  BY StepRefines
<1> QED BY <1>1, <1>2, SpecListInv, PTL DEF Spec, ImplementsSequence, Abstract!Spec

(* event_create puts a new event behind every event created earlier or at  *)
(* the same time, whatever was linked and unlinked before.                 *)
THEOREM CreateNeverOvertakes == Spec => NeverOvertakes
<1> DEFINE Behind ==
      LinkCreated => \A c \in Linked, e \in {ev} :
                       time[c] <= time[e] => Place(c)' < Place(e)'
<1>1. IInv /\ ListInv /\ [Next]_vars => Behind
  <2> SUFFICES ASSUME IInv, ListInv, LinkCreated,
                      NEW c \in Linked, NEW e \in {ev}, time[c] <= time[e]
               PROVE  Place(c)' < Place(e)'
    OBVIOUS
  <2>1. Timed
    BY DEF ListInv
  <2>2. PICK s \in Seq(Cell) : ListedBy(s)
    BY DEF ListInv
  <2>3. PICK k \in 0..Len(s), t \in Seq(Cell) :
           /\ ScansAt(s, k)
           /\ IsInserted(t, s, PlaceAhead(s, k), ev)
           /\ ListedBy(t)'
    BY <2>1, <2>2, CreateStep
  <2>4. Len(s) \in Nat /\ Len(t) = Len(s) + 1
    BY <2>3, LenProperties DEF IsInserted
  <2>5. PICK i \in 1..Len(s) : s[i] = c
    BY <2>2 DEF ListedBy, Lists
  <2>6. i <= k
    <3>1. time[c] \in Nat /\ time[ev] \in Nat
      BY <2>1, EventListAssumption
         DEF Timed, Linked, IInv, InCallOK, LinkCreated
    <3>2. i \in (k + 1)..Len(s) => time[s[i]] > time[ev]
      BY <2>3 DEF ScansAt
    <3> QED BY <2>4, <2>5, <3>1, <3>2
  <2>7. PICK a \in 0..Len(s) : a = PlaceAhead(s, k) /\ i <= a
    BY <2>4, <2>6 DEF PlaceAhead
  <2>8. t[i] = c /\ t[a + 1] = ev /\ i \in 1..Len(t) /\ a + 1 \in 1..Len(t)
    BY <2>3, <2>4, <2>5, <2>7 DEF IsInserted
  <2>9. /\ Cardinality(Linked)' = Len(t)
        /\ \A j \in 0..Len(t) : Walk'[j] = At(t, j)
    BY <2>3, ListNext DEF ListedBy
  <2>10. \A j \in 1..Len(t) : Walk'[j] = t[j]
    BY <2>4, <2>9 DEF At
  <2>11. Distinct(t)
    BY <2>3 DEF ListedBy, Lists
  <2>12. \A j \in 1..Len(t) : Place(t[j])' = j
    <3>1. ASSUME NEW j \in 1..Len(t) PROVE Place(t[j])' = j
      <4>1. Place(t[j])' = CHOOSE n \in 1..Len(t) : Walk'[n] = t[j]
        BY <2>9 DEF Place
      <4>2. \A n \in 1..Len(t) : Walk'[n] = t[j] <=> n = j
        BY <2>10, <2>11 DEF Distinct
      <4> QED BY <4>1, <4>2
    <3> QED BY <3>1
  <2>13. Place(c)' = i
    BY <2>8, <2>12
  <2>14. Place(e)' = a + 1
    <3>1. e = t[a + 1]
      BY <2>8
    <3> QED BY <2>8, <2>12, <3>1
  <2> QED BY <2>4, <2>7, <2>13, <2>14
<1> QED BY <1>1, SpecListInv, PTL DEF Spec, NeverOvertakes
=============================================================================
