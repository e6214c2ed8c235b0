-------------------------- MODULE GraphBuildProofs --------------------------
(***************************************************************************)
(* The channels and the connectors agree while the graph is built, for     *)
(* every set of nodes, channels and connectors.  Both ends of a channel    *)
(* are treated alike, so the lemmas are about one end: the lists of        *)
(* connectors of the nodes, and what the channels say of them, ends and    *)
(* idx.  On this rests what the configuration becomes: StartBuilds, then   *)
(* the enums, then the graph that runs.                                    *)
(***************************************************************************)
EXTENDS Start, SequenceTheorems, TLAPS

(* What is needed of one end to connect there, when m is the set of the    *)
(* channels made: the types, and that no other channel is connected.       *)
SideOK(m, lists, ends, idx) ==
  /\ lists = [n \in Node |-> lists[n]]
  /\ \A n \in Node :
       /\ lists[n] \in [DOMAIN lists[n] -> m \union {Null}]
       /\ DOMAIN lists[n] \subseteq Connector
  /\ ends \in [Channel -> Node \union {Null}]
  /\ idx \in [Channel -> Connector]
  /\ \A c \in Channel \ m : ends[c] = Null

IInv ==
  /\ made \subseteq Channel
  /\ SideOK(made, outputs, start, idxStart) /\ Agree(outputs, start, idxStart)
  /\ SideOK(made, inputs, end, idxEnd) /\ Agree(inputs, end, idxEnd)

(* One end of a channel after graph_channel_init.                          *)
NewLists(lists, n, i, ch) == [lists EXCEPT ![n] = With(@, i, ch)]
NewEnds(lists, ends, idx, n, i, ch) ==
  [c \in Channel |->
     IF c = ch THEN n
     ELSE IF c \in Leaving(lists[n], ends, idx, n, i) THEN Null
     ELSE ends[c]]
NewIdx(idx, i, ch) == [idx EXCEPT ![ch] = i]

(* The list in which a connector is set keeps its other connectors.        *)
LEMMA WithFacts ==
  ASSUME NEW S, NEW list, list \in [DOMAIN list -> S \union {Null}],
         DOMAIN list \subseteq Connector, NEW i \in Connector, NEW c
  PROVE  /\ DOMAIN With(list, i, c) = DOMAIN list \union 0..i
         /\ DOMAIN With(list, i, c) \subseteq Connector
         /\ i \in DOMAIN With(list, i, c) /\ With(list, i, c)[i] = c
         /\ \A j \in DOMAIN list : j # i => With(list, i, c)[j] = list[j]
         /\ \A j \in DOMAIN With(list, i, c) :
              j # i /\ With(list, i, c)[j] # Null =>
                j \in DOMAIN list /\ With(list, i, c)[j] = list[j]
         /\ With(list, i, c) \in [DOMAIN With(list, i, c) -> S \union {c, Null}]
<1>1. 0..i \subseteq Connector /\ i \in 0..i
  BY BuildAssumption DEF Connector
<1> QED BY <1>1 DEF With

(* Connecting keeps the types of an end.                                   *)
LEMMA SideTypes ==
  ASSUME NEW m, NEW lists, NEW ends, NEW idx, SideOK(m, lists, ends, idx),
         NEW n \in Node, NEW i \in Connector, NEW ch \in Channel
  PROVE  SideOK(m \union {ch}, NewLists(lists, n, i, ch),
                NewEnds(lists, ends, idx, n, i, ch), NewIdx(idx, i, ch))
<1> DEFINE L == NewLists(lists, n, i, ch)
<1>1. /\ L = [k \in Node |-> L[k]]
      /\ L[n] = With(lists[n], i, ch)
      /\ \A k \in Node : k # n => L[k] = lists[k]
  BY DEF SideOK, NewLists
<1>2. ASSUME NEW k \in Node
      PROVE  /\ L[k] \in [DOMAIN L[k] -> (m \union {ch}) \union {Null}]
             /\ DOMAIN L[k] \subseteq Connector
  <2>1. CASE k = n
    <3>1. /\ DOMAIN With(lists[n], i, ch) \subseteq Connector
          /\ With(lists[n], i, ch) \in
               [DOMAIN With(lists[n], i, ch) -> m \union {ch, Null}]
      BY WithFacts DEF SideOK
    <3> QED BY <3>1, <2>1, <1>1
  <2>2. CASE k # n
    BY <2>2, <1>1 DEF SideOK
  <2> QED BY <2>1, <2>2
<1>3. NewEnds(lists, ends, idx, n, i, ch) \in [Channel -> Node \union {Null}]
  BY DEF SideOK, NewEnds
<1>4. NewIdx(idx, i, ch) \in [Channel -> Connector]
  BY DEF SideOK, NewIdx
<1>5. \A c \in Channel \ (m \union {ch}) : NewEnds(lists, ends, idx, n, i, ch)[c] = Null
  BY DEF SideOK, NewEnds
<1> QED BY <1>1, <1>2, <1>3, <1>4, <1>5 DEF SideOK

(* Connecting a channel that is not yet made keeps the connectors of an    *)
(* end and the channels in agreement.                                      *)
LEMMA SideAgrees ==
  ASSUME NEW m, NEW lists, NEW ends, NEW idx, m \subseteq Channel,
         SideOK(m, lists, ends, idx), Agree(lists, ends, idx),
         NEW n \in Node, NEW i \in Connector, NEW ch \in Channel, ch \notin m
  PROVE  Agree(NewLists(lists, n, i, ch), NewEnds(lists, ends, idx, n, i, ch),
               NewIdx(idx, i, ch))
<1> DEFINE L == NewLists(lists, n, i, ch)
           E == NewEnds(lists, ends, idx, n, i, ch)
           X == NewIdx(idx, i, ch)
<1>1. /\ L[n] = With(lists[n], i, ch)
      /\ \A k \in Node : k # n => L[k] = lists[k]
  BY DEF SideOK, NewLists
<1>2. /\ i \in DOMAIN L[n] /\ L[n][i] = ch
      /\ \A j \in DOMAIN lists[n] : j \in DOMAIN L[n] /\ (j # i => L[n][j] = lists[n][j])
      /\ \A j \in DOMAIN L[n] :
           j # i /\ L[n][j] # Null => j \in DOMAIN lists[n] /\ L[n][j] = lists[n][j]
  <2>1. lists[n] \in [DOMAIN lists[n] -> m \union {Null}] /\ DOMAIN lists[n] \subseteq Connector
    BY DEF SideOK
  <2>2. /\ DOMAIN With(lists[n], i, ch) = DOMAIN lists[n] \union 0..i
        /\ i \in DOMAIN With(lists[n], i, ch) /\ With(lists[n], i, ch)[i] = ch
        /\ \A j \in DOMAIN lists[n] : j # i => With(lists[n], i, ch)[j] = lists[n][j]
        /\ \A j \in DOMAIN With(lists[n], i, ch) :
             j # i /\ With(lists[n], i, ch)[j] # Null =>
               j \in DOMAIN lists[n] /\ With(lists[n], i, ch)[j] = lists[n][j]
    BY <2>1, WithFacts
  <2> HIDE DEF L
  <2> QED BY <2>2, <1>1
<1>3. /\ E[ch] = n /\ X[ch] = i
      /\ \A c \in Channel : c # ch => X[c] = idx[c]
      /\ \A c \in Channel : c # ch /\ E[c] # Null =>
           E[c] = ends[c] /\ c \notin Leaving(lists[n], ends, idx, n, i)
      /\ \A c \in Channel : c # ch /\ c \notin Leaving(lists[n], ends, idx, n, i) =>
           E[c] = ends[c]
  BY DEF SideOK, NewEnds, NewIdx
<1>4. ends[ch] = Null /\ Null \notin Node /\ Null \notin Channel
  BY BuildAssumption DEF SideOK
<1>5. ASSUME NEW c \in Channel, E[c] # Null
      PROVE  X[c] \in DOMAIN L[E[c]] /\ L[E[c]][X[c]] = c
  <2>1. CASE c = ch
    BY <2>1, <1>2, <1>3
  <2>2. CASE c # ch
    <3>1. /\ E[c] = ends[c] /\ ends[c] \in Node /\ X[c] = idx[c]
          /\ idx[c] \in DOMAIN lists[ends[c]] /\ lists[ends[c]][idx[c]] = c
      BY <2>2, <1>3, <1>5 DEF SideOK, Agree
    <3>2. CASE ends[c] = n
      <4>1. idx[c] # i
        BY <3>1, <3>2, <2>2, <1>3, <1>5 DEF Leaving
      <4> QED BY <4>1, <3>1, <3>2, <1>2
    <3>3. CASE ends[c] # n
      BY <3>1, <3>3, <1>1
    <3> QED BY <3>2, <3>3
  <2> QED BY <2>1, <2>2
<1>6. ASSUME NEW k \in Node, NEW j \in DOMAIN L[k], L[k][j] # Null
      PROVE  E[L[k][j]] = k /\ X[L[k][j]] = j
  <2>1. CASE k = n /\ j = i
    BY <2>1, <1>2, <1>3
  <2>2. CASE ~(k = n /\ j = i)
    <3> DEFINE c == lists[k][j]
    <3>1. j \in DOMAIN lists[k] /\ L[k][j] = c /\ c # Null
      BY <2>2, <1>1, <1>2, <1>6
    <3>2. c \in Channel /\ ends[c] = k /\ idx[c] = j
      <4>1. lists[k] \in [DOMAIN lists[k] -> m \union {Null}]
        BY DEF SideOK
      <4>2. c \in Channel
        BY <4>1, <3>1
      <4> QED BY <4>2, <3>1 DEF Agree
    <3>3. c # ch
      BY <3>2, <1>4
    <3>4. c \notin Leaving(lists[n], ends, idx, n, i)
      BY <3>2, <2>2 DEF Leaving
    <3> QED BY <3>1, <3>2, <3>3, <3>4, <1>3
  <2> QED BY <2>1, <2>2
<1> QED BY <1>5, <1>6 DEF Agree

(* graph_channel_init does to either end what the lemmas are about.        *)
LEMMA ConnectSides ==
  ASSUME NEW ch \in Channel, NEW s \in Node, NEW i \in Connector,
         NEW e \in Node, NEW j \in Connector, Connect(ch, s, i, e, j)
  PROVE  /\ outputs' = NewLists(outputs, s, i, ch)
         /\ start' = NewEnds(outputs, start, idxStart, s, i, ch)
         /\ idxStart' = NewIdx(idxStart, i, ch)
         /\ inputs' = NewLists(inputs, e, j, ch)
         /\ end' = NewEnds(inputs, end, idxEnd, e, j, ch)
         /\ idxEnd' = NewIdx(idxEnd, j, ch)
BY DEF Connect, NewLists, NewEnds, NewIdx

(* The inductive invariant.                                                *)
LEMMA SpecIInv == Spec => []IInv
<1>1. Init => IInv
  BY BuildAssumption DEF Init, IInv, SideOK, Agree, Connector
<1>2. IInv /\ [Next]_vars => IInv'
  <2> SUFFICES ASSUME IInv, [Next]_vars PROVE IInv'
    OBVIOUS
  <2>1. ASSUME NEW ch \in Channel, NEW s \in Node, NEW i \in Connector,
               NEW e \in Node, NEW j \in Connector, Connect(ch, s, i, e, j)
        PROVE  IInv'
    <3>1. ch \notin made /\ made' = made \union {ch}
      BY <2>1 DEF Connect
    <3>2. /\ SideOK(made', outputs', start', idxStart')
          /\ Agree(outputs', start', idxStart')
      BY <3>1, <2>1, ConnectSides, SideTypes, SideAgrees DEF IInv
    <3>3. /\ SideOK(made', inputs', end', idxEnd')
          /\ Agree(inputs', end', idxEnd')
      BY <3>1, <2>1, ConnectSides, SideTypes, SideAgrees DEF IInv
    <3>4. made' \subseteq Channel
      BY <3>1 DEF IInv
    <3> QED BY <3>2, <3>3, <3>4 DEF IInv
  <2>2. CASE UNCHANGED vars
    <3>1. /\ made' = made
          /\ outputs' = outputs /\ start' = start /\ idxStart' = idxStart
          /\ inputs' = inputs /\ end' = end /\ idxEnd' = idxEnd
      BY <2>2 DEF vars
    <3>2. /\ SideOK(made', outputs', start', idxStart')
          /\ Agree(outputs', start', idxStart')
          /\ SideOK(made', inputs', end', idxEnd')
          /\ Agree(inputs', end', idxEnd')
      BY <3>1 DEF IInv
    <3> QED BY <3>1, <3>2 DEF IInv
  <2> QED BY <2>1, <2>2 DEF Next
<1> QED BY <1>1, <1>2, PTL DEF Spec

-----------------------------------------------------------------------------
(* The lists hold channels that have been made, at indices in range, and   *)
(* every channel has the nodes and connectors it was made for or NULL.     *)
THEOREM TypeCorrect == Spec => []TypeOK
<1>1. IInv => TypeOK
  BY DEF IInv, SideOK, TypeOK
<1> QED BY <1>1, SpecIInv, PTL

(* A channel is at a connector exactly when the connector is at the        *)
(* channel, however many channels take the same connector.                 *)
THEOREM AlwaysConnected == Spec => []Connected
<1>1. IInv => Connected
  BY DEF IInv, Connected
<1> QED BY <1>1, SpecIInv, PTL

(* Only the channel that was at the connector loses its end.               *)
THEOREM OnlyReplaced == Spec => OthersStay
<1> DEFINE Stays ==
      \A ch \in made' \ made : \A c \in made :
        /\ start'[c] # start[c] =>
             /\ start'[c] = Null
             /\ start[c] = start'[ch] /\ idxStart[c] = idxStart'[ch]
        /\ end'[c] # end[c] =>
             /\ end'[c] = Null
             /\ end[c] = end'[ch] /\ idxEnd[c] = idxEnd'[ch]
<1>1. IInv /\ [Next]_vars => [Stays]_vars
  <2> SUFFICES ASSUME IInv, NEW ch \in Channel, NEW s \in Node, NEW i \in Connector,
                      NEW e \in Node, NEW j \in Connector, Connect(ch, s, i, e, j)
               PROVE  Stays
    BY DEF Next
  <2>1. made \subseteq Channel /\ ch \notin made /\ made' \ made = {ch}
    BY DEF IInv, Connect
  <2>2. start'[ch] = s /\ idxStart'[ch] = i /\ end'[ch] = e /\ idxEnd'[ch] = j
    BY DEF Connect, IInv, SideOK
  <2>3. ASSUME NEW c \in made, start'[c] # start[c]
        PROVE  start'[c] = Null /\ start[c] = s /\ idxStart[c] = i
    BY <2>1, <2>3 DEF Connect, Leaving
  <2>4. ASSUME NEW c \in made, end'[c] # end[c]
        PROVE  end'[c] = Null /\ end[c] = e /\ idxEnd[c] = j
    BY <2>1, <2>4 DEF Connect, Leaving
  <2> QED BY <2>1, <2>2, <2>3, <2>4
<1> QED BY <1>1, SpecIInv, PTL DEF Spec, OthersStay

(* A name that is known is the name of a node.                             *)
NamesNodes == \A name \in DOMAIN named : named[name] \in Node

(* No step but the creation of a node gives a name.                        *)
LEMMA NamedStays ==
  ASSUME StartNext,
         ~ \E name \in NodeName \union {Null}, type \in {"source", "other"} :
             CreateNode(name, type)
  PROVE  named' = named
BY Zenon DEF StartNext, LoadConstant, LoadEnum, LoadMember, EndSection, NoNode,
             NoChannel, Exits, MakeChannel, Register, NotRegistered, Run

LEMMA AlwaysNamesNodes == StartSpec => []NamesNodes
<1>1. StartInit => NamesNodes
  BY DEF StartInit, NamesNodes
<1>2. NamesNodes /\ [StartNext]_startVars => NamesNodes'
  <2> SUFFICES ASSUME NamesNodes, [StartNext]_startVars PROVE NamesNodes'
    OBVIOUS
  <2>1. CASE named' = named
    BY <2>1 DEF NamesNodes
  <2>2. ASSUME NEW name \in NodeName \union {Null},
               NEW type \in {"source", "other"}, CreateNode(name, type)
        PROVE  NamesNodes'
    <3>1. /\ Len(nodes) + 1 \in Node
          /\ named' = IF name = Null THEN named
                      ELSE Inserted(named, name, Len(nodes) + 1)
      BY <2>2, Zenon DEF CreateNode
    <3> QED BY <3>1 DEF NamesNodes, Inserted
  <2>3. CASE UNCHANGED startVars
    BY <2>1, <2>3 DEF startVars, config
  <2> QED BY <2>1, <2>2, <2>3, NamedStays
<1> QED BY <1>1, <1>2, PTL DEF StartSpec

(* Whatever the configuration says, the start of the program only connects *)
(* channels that are new, one at a time, and touches the graph nowhere     *)
(* else: so all that has been proved of the graph holds when the main loop *)
(* begins.                                                                 *)
THEOREM StartBuilds == StartSpec => Spec
<1>1. StartInit => Init
  BY DEF StartInit
<1>2. NamesNodes /\ [StartNext]_startVars => [Next]_vars
  <2> SUFFICES ASSUME NamesNodes, [StartNext]_startVars PROVE [Next]_vars
    OBVIOUS
  <2>1. CASE UNCHANGED vars
    BY <2>1
  <2>2. ASSUME NEW n \in ConstantName, NEW s \in Setting, NEW g \in BOOLEAN,
               LoadConstant(n, s, g)
        PROVE  UNCHANGED vars
    BY <2>2 DEF LoadConstant
  <2>3. ASSUME NEW e \in EnumName, LoadEnum(e) PROVE UNCHANGED vars
    BY <2>3 DEF LoadEnum
  <2>4. ASSUME NEW m \in MemberName, NEW s \in Setting, LoadMember(m, s)
        PROVE  UNCHANGED vars
    BY <2>4, Zenon DEF LoadMember
  <2>5. ASSUME NEW name \in NodeName \union {Null},
               NEW type \in {"source", "other"}, CreateNode(name, type)
        PROVE  UNCHANGED vars
    BY <2>5, Zenon DEF CreateNode
  <2>6. ASSUME EndSection \/ NoNode \/ NoChannel \/ Register \/ NotRegistered \/ Run
        PROVE  UNCHANGED vars
    BY <2>6, Zenon DEF EndSection, NoNode, NoChannel, Exits, Register,
                       NotRegistered, Run
  <2>7. ASSUME NEW k \in Keys, NEW item \in Ends(k[1]) \X Ends(k[2]),
               MakeChannel(item)
        PROVE  Next
    <3> DEFINE i == Len(channels) + 1
               from == FromTo(item)[1]
               to == FromTo(item)[2]
    <3>1. /\ i \in Channel
          /\ {Index(from), Index(to)} \subseteq Connector
          /\ {from.name, to.name} \subseteq DOMAIN named
          /\ Connect(i, named[from.name], Index(from), named[to.name], Index(to))
      BY <2>7, Zenon DEF MakeChannel
    <3>2. named[from.name] \in Node /\ named[to.name] \in Node
      BY <3>1 DEF NamesNodes
    <3> HIDE DEF i, from, to
    <3> QED BY <3>1, <3>2 DEF Next
  <2> QED
    BY <2>1, <2>2, <2>3, <2>4, <2>5, <2>6, <2>7 DEF StartNext, startVars
<1> QED BY <1>1, <1>2, AlwaysNamesNodes, PTL DEF StartSpec, Spec

-----------------------------------------------------------------------------
(* Constants and enums                                                     *)

ConstantNames == {<< >>} \union (EnumName \X MemberName)
Member == [name : ConstantNames, given : Int \union {Null}]

(* The j-th member counts on from the i-th.                                *)
CountsFrom(s, i, j) ==
  i \in 1..j /\ \A k \in i..j : (s[k].given = Null) = (k # i)
NamedAgain(s, j) == \E k \in 1..Len(s) : k > j /\ s[k].name = s[j].name
NumberIs(s, j, value) ==
  \E i \in 1..Len(s) : CountsFrom(s, i, j) /\ value = s[i].given + (j - i)

(* What every member of an enum stands for; and the last one has got the   *)
(* number that the next one counts on from.                                *)
EnumInv ==
  /\ constants \in [DOMAIN constants -> Int]
  /\ enum \in [name : EnumName \union {Null}, previous : Int]
  /\ members \in Seq(Member)
  /\ phase # "enums" => members = << >>
  /\ members = << >> => enum.name = Null
  /\ members # << >> => NumberIs(members, Len(members), enum.previous)
  /\ \A j \in 1..Len(members) :
       members[j].name # << >> /\ ~ NamedAgain(members, j) =>
         /\ members[j].name \in DOMAIN constants
         /\ NumberIs(members, j, constants[members[j].name])

LEMMA EnumInvSound == EnumInv => EnumsCount
<1> SUFFICES ASSUME EnumInv PROVE EnumsCount
  OBVIOUS
<1>1. PICK n \in Nat : n = Len(members) /\ DOMAIN members = 1..n
  BY LenProperties DEF EnumInv
<1>2. ASSUME NEW j \in 1..n, members[j].name # << >>,
             ~ \E k \in DOMAIN members : k > j /\ members[k].name = members[j].name
      PROVE  \E i \in 1..n :
               /\ i <= j /\ \A k \in i..j : (members[k].given = Null) = (k # i)
               /\ constants[members[j].name] = members[i].given + (j - i)
  <2>1. ~ NamedAgain(members, j)
    BY <1>1, <1>2 DEF NamedAgain
  <2>2. NumberIs(members, j, constants[members[j].name])
    BY <1>1, <1>2, <2>1 DEF EnumInv
  <2> QED BY <1>1, <2>2 DEF NumberIs, CountsFrom
<1> QED BY <1>1, <1>2 DEF EnumsCount

LEMMA BuiltinIs == Builtin \in [DOMAIN Builtin -> Int]
<1>1. PICK D : D = {<<"false">>, <<"true">>} \union UNION {NamesOf(c) : c \in Code}
  OBVIOUS
<1>2. ASSUME NEW k \in D
      PROVE  (IF \E c \in Code : k \in NamesOf(c)
                THEN (CHOOSE c \in Code : k \in NamesOf(c)).value
              ELSE IF k = <<"true">> THEN 1 ELSE 0) \in Int
  <2>1. CASE \E c \in Code : k \in NamesOf(c)
    <3>1. (CHOOSE c \in Code : k \in NamesOf(c)) \in Code
      BY <2>1
    <3> QED BY <2>1, <3>1, StartAssumption
  <2>2. CASE ~ \E c \in Code : k \in NamesOf(c)
    BY <2>2
  <2> QED BY <2>1, <2>2
<1> QED BY <1>1, <1>2 DEF Builtin

LEMMA InsertedIs ==
  ASSUME NEW table, table \in [DOMAIN table -> Int], NEW key, NEW value \in Int
  PROVE  LET after == Inserted(table, key, value)
         IN  /\ after \in [DOMAIN after -> Int]
             /\ DOMAIN after = DOMAIN table \union {key}
             /\ after[key] = value
             /\ \A k \in DOMAIN table \ {key} : after[k] = table[k]
BY DEF Inserted

LEMMA ResolvedIs ==
  ASSUME constants \in [DOMAIN constants -> Int], NEW s \in Setting, NEW default
  PROVE  /\ Resolves(s) => ResolvedOr(s, default) \in Int
         /\ ~ Resolves(s) => ResolvedOr(s, default) = default
BY StartAssumption DEF Resolves, ResolvedOr

(* What the members put in before stand for does not change when one is    *)
(* put in behind them.                                                     *)
LEMMA MemberCounts ==
  ASSUME NEW s \in Seq(Member), NEW m \in Member, NEW previous \in Int, NEW value \in Int,
         s # << >> => NumberIs(s, Len(s), previous),
         \/ m.given = value
         \/ m.given = Null /\ s # << >> /\ value = previous + 1
  PROVE  NumberIs(Append(s, m), Len(Append(s, m)), value)
<1>1. PICK n \in Nat : n = Len(s)
  BY LenProperties
<1>2. PICK t : t = Append(s, m)
  OBVIOUS
<1>3. /\ t \in Seq(Member) /\ Len(t) = n + 1 /\ t[n + 1] = m
      /\ \A k \in 1..n : t[k] = s[k]
  BY <1>1, <1>2, AppendProperties
<1>4. CASE m.given = value
  <2>1. n + 1 \in 1..Len(t) /\ value = t[n + 1].given + ((n + 1) - (n + 1))
    BY <1>3, <1>4
  <2>2. CountsFrom(t, n + 1, n + 1)
    <3>1. n + 1 \in 1..(n + 1) /\ \A k \in (n + 1)..(n + 1) : k = n + 1
      OBVIOUS
    <3>2. m.given # Null
      BY <1>4, StartAssumption
    <3> QED BY <1>3, <3>1, <3>2 DEF CountsFrom
  <2> QED BY <1>2, <1>3, <2>1, <2>2 DEF NumberIs
<1>5. CASE m.given = Null /\ s # << >> /\ value = previous + 1
  <2>1. PICK i \in 1..n : CountsFrom(s, i, n) /\ previous = s[i].given + (n - i)
    BY <1>1, <1>5 DEF NumberIs
  <2>2. s[i].given \in Int
    <3>1. s[i] \in Member
      BY <1>1, ElementOfSeq
    <3>2. (s[i].given = Null) = (i # i)
      BY <2>1 DEF CountsFrom
    <3> QED BY <3>1, <3>2 DEF Member
  <2>3. i \in 1..Len(t) /\ value = t[i].given + ((n + 1) - i)
    BY <1>3, <1>5, <2>1, <2>2
  <2>4. CountsFrom(t, i, n + 1)
    <3>1. ASSUME NEW k \in i..(n + 1) PROVE (t[k].given = Null) = (k # i)
      <4>1. CASE k = n + 1
        BY <1>3, <1>5, <4>1
      <4>2. CASE k # n + 1
        <5>1. k \in i..n /\ k \in 1..n
          BY <4>2
        <5> QED BY <1>3, <2>1, <5>1 DEF CountsFrom
      <4> QED BY <4>1, <4>2
    <3>2. i \in 1..(n + 1)
      OBVIOUS
    <3> QED BY <3>1, <3>2 DEF CountsFrom
  <2> QED BY <1>2, <1>3, <2>3, <2>4 DEF NumberIs
<1> QED BY <1>4, <1>5

LEMMA NumberStays ==
  ASSUME NEW s \in Seq(Member), NEW m \in Member, NEW j \in 1..Len(s), NEW value,
         NumberIs(s, j, value)
  PROVE  NumberIs(Append(s, m), j, value)
<1>1. PICK n \in Nat : n = Len(s)
  BY LenProperties
<1>2. PICK t : t = Append(s, m)
  OBVIOUS
<1>3. Len(t) = n + 1 /\ \A k \in 1..n : t[k] = s[k]
  BY <1>1, <1>2, AppendProperties
<1>4. PICK i \in 1..n : CountsFrom(s, i, j) /\ value = s[i].given + (j - i)
  BY <1>1 DEF NumberIs
<1>5. i \in 1..Len(t) /\ t[i] = s[i]
  BY <1>3
<1>6. \A k \in i..j : t[k] = s[k]
  <2>1. \A k \in i..j : k \in 1..n
    BY <1>1
  <2> QED BY <1>3, <2>1
<1>7. CountsFrom(t, i, j)
  BY <1>4, <1>6 DEF CountsFrom
<1> QED BY <1>2, <1>4, <1>5, <1>7 DEF NumberIs

(* A member, or the beginning of an enum, is put in.                       *)
LEMMA MemberJoins ==
  ASSUME EnumInv, NEW m \in Member, NEW value \in Int, NEW name \in EnumName,
         \/ m.given = value
         \/ m.given = Null /\ members # << >> /\ value = enum.previous + 1,
         phase = "enums", phase' = phase,
         members' = Append(members, m),
         enum' = [name |-> name, previous |-> value],
         constants' = IF m.name = << >> THEN constants
                      ELSE Inserted(constants, m.name, value)
  PROVE  EnumInv'
<1>1. PICK n \in Nat : n = Len(members) /\ members \in Seq(Member)
  BY LenProperties DEF EnumInv
<1>2. /\ members' \in Seq(Member) /\ Len(members') = n + 1 /\ members'[n + 1] = m
      /\ \A k \in 1..n : members'[k] = members[k]
      /\ members' # << >>
  <2>1. /\ members' \in Seq(Member) /\ Len(members') = n + 1 /\ members'[n + 1] = m
        /\ \A k \in 1..n : members'[k] = members[k]
    BY <1>1, AppendProperties
  <2> QED BY <2>1, EmptySeq
<1>3. /\ constants' \in [DOMAIN constants' -> Int]
      /\ \A k \in DOMAIN constants : k # m.name => constants'[k] = constants[k]
      /\ DOMAIN constants \subseteq DOMAIN constants'
      /\ m.name # << >> => m.name \in DOMAIN constants' /\ constants'[m.name] = value
  <2>1. constants \in [DOMAIN constants -> Int]
    BY DEF EnumInv
  <2>2. CASE m.name = << >>
    BY <2>1, <2>2
  <2>3. CASE m.name # << >>
    <3>1. PICK key : key = m.name
      OBVIOUS
    <3>2. PICK after : after = Inserted(constants, key, value)
      OBVIOUS
    <3>3. /\ after \in [DOMAIN after -> Int]
          /\ DOMAIN after = DOMAIN constants \union {key}
          /\ after[key] = value
          /\ \A k \in DOMAIN constants \ {key} : after[k] = constants[k]
      BY <2>1, <3>2 DEF Inserted
    <3>4. constants' = after
      BY <2>3, <3>1, <3>2
    <3> QED BY <3>1, <3>3, <3>4
  <2> QED BY <2>2, <2>3
<1>4. enum' \in [name : EnumName \union {Null}, previous : Int] /\ enum'.previous = value
  OBVIOUS
<1>5. NumberIs(members', Len(members'), value)
  <2>1. enum.previous \in Int /\ (members # << >> => NumberIs(members, Len(members), enum.previous))
    BY DEF EnumInv
  <2> QED BY <1>1, <2>1, MemberCounts
<1>6. ASSUME NEW j \in 1..(n + 1), members'[j].name # << >>, ~ NamedAgain(members', j)
      PROVE  /\ members'[j].name \in DOMAIN constants'
             /\ NumberIs(members', j, constants'[members'[j].name])
  <2>1. CASE j = n + 1
    BY <1>2, <1>3, <1>5, <1>6, <2>1
  <2>2. CASE j # n + 1
    <3>1. j \in 1..n /\ n + 1 > j /\ n + 1 \in 1..Len(members')
      BY <1>2, <2>2
    <3>2. PICK key : key = members[j].name
      OBVIOUS
    <3>3. members'[j].name = key /\ key # << >> /\ key # m.name
      BY <1>2, <1>6, <3>1, <3>2 DEF NamedAgain
    <3>4. ~ NamedAgain(members, j)
      <4>1. ASSUME NEW k \in 1..n, k > j, members[k].name = members[j].name
            PROVE  FALSE
        <5>1. k \in 1..(n + 1)
          OBVIOUS
        <5> QED BY <1>2, <1>6, <3>1, <4>1, <5>1 DEF NamedAgain
      <4> QED BY <1>1, <4>1 DEF NamedAgain
    <3>5. key \in DOMAIN constants /\ NumberIs(members, j, constants[key])
      BY <1>1, <3>1, <3>2, <3>3, <3>4 DEF EnumInv
    <3>6. constants'[key] = constants[key] /\ key \in DOMAIN constants'
      BY <1>3, <3>3, <3>5
    <3>7. NumberIs(members', j, constants[key])
      BY <1>1, <3>1, <3>5, NumberStays
    <3> QED BY <3>3, <3>6, <3>7
  <2> QED BY <2>1, <2>2
<1> QED BY <1>2, <1>3, <1>4, <1>5, <1>6 DEF EnumInv

LEMMA EnumKeeps == EnumInv /\ [StartNext]_startVars => EnumInv'
<1> SUFFICES ASSUME EnumInv, [StartNext]_startVars PROVE EnumInv'
  OBVIOUS
<1>1. ASSUME UNCHANGED <<constants, enum, members>>, phase # "enums", phase' # "constants"
      PROVE  EnumInv'
  BY <1>1 DEF EnumInv
<1>2. ASSUME UNCHANGED <<phase, constants, enum, members>>
      PROVE  EnumInv'
  BY <1>2 DEF EnumInv
<1>3. ASSUME NEW n \in ConstantName, NEW s \in Setting, NEW g \in BOOLEAN,
             LoadConstant(n, s, g)
      PROVE  EnumInv'
  <2>1. /\ phase = "constants" /\ phase' = phase /\ UNCHANGED <<enum, members>>
        /\ constants' = Inserted(constants, n, Number(s))
    BY <1>3 DEF LoadConstant, Reads
  <2>2. Number(s) \in Int
    BY StartAssumption DEF Number
  <2>3. constants' \in [DOMAIN constants' -> Int]
    BY <2>1, <2>2, InsertedIs DEF EnumInv
  <2>4. members = << >> /\ Len(members) = 0
    BY <2>1, EmptySeq DEF EnumInv
  <2> QED BY <2>1, <2>3, <2>4 DEF EnumInv
<1>4. ASSUME NEW e \in EnumName, LoadEnum(e)
      PROVE  EnumInv'
  <2>1. PICK m : m = [name |-> << >>, given |-> -1]
    OBVIOUS
  <2>2. m \in Member /\ m.given = -1 /\ m.name = << >> /\ -1 \in Int
    BY <2>1 DEF Member, ConstantNames
  <2>3. /\ phase = "enums" /\ phase' = phase /\ members' = Append(members, m)
        /\ enum' = [name |-> e, previous |-> -1] /\ constants' = constants
    BY <1>4, <2>1 DEF LoadEnum, Reads, EnumStarts
  <2> QED BY <2>2, <2>3, MemberJoins
<1>5. ASSUME NEW name \in MemberName, NEW s \in Setting, LoadMember(name, s)
      PROVE  EnumInv'
  <2>1. PICK value : value = ResolvedOr(s, enum.previous + 1)
    OBVIOUS
  <2>2. PICK m : m = [name |-> <<enum.name, name>>, given |-> ResolvedOr(s, Null)]
    OBVIOUS
  <2>3. /\ phase = "enums" /\ phase' = phase /\ enum.name # Null
        /\ members' = Append(members, m)
        /\ enum' = [enum EXCEPT !.previous = value]
        /\ constants' = Inserted(constants, m.name, value)
    BY <1>5, <2>1, <2>2 DEF LoadMember, Reads
  <2>4. enum.name \in EnumName /\ enum.previous \in Int
        /\ members # << >> /\ constants \in [DOMAIN constants -> Int]
    BY <2>3 DEF EnumInv
  <2>5. enum' = [name |-> enum.name, previous |-> value]
    BY <2>3 DEF EnumInv
  <2>6. /\ Resolves(s) => value \in Int /\ m.given = value
        /\ ~ Resolves(s) => m.given = Null /\ value = enum.previous + 1
    BY <2>1, <2>2, <2>4, ResolvedIs DEF ResolvedOr
  <2>7. value \in Int /\ m.given \in Int \union {Null}
    BY <2>4, <2>6
  <2>8. m \in Member /\ m.name # << >>
    <3>1. <<enum.name, name>> \in EnumName \X MemberName /\ <<enum.name, name>> # << >>
      BY <2>4
    <3> QED BY <2>2, <2>7, <3>1 DEF Member, ConstantNames
  <2> QED BY <2>3, <2>4, <2>5, <2>6, <2>7, <2>8, MemberJoins
<1>6. CASE EndSection
  <2>1. /\ phase' # "constants" /\ members' = << >> /\ constants' = constants
        /\ enum' = [name |-> Null, previous |-> -1]
    BY <1>6 DEF EndSection, Section
  <2>2. members' \in Seq(Member) /\ Len(members') = 0
    BY <2>1, EmptySeq
  <2> QED BY <2>1, <2>2 DEF EnumInv
<1>7. ASSUME NEW name \in NodeName \union {Null}, NEW type \in {"source", "other"},
             CreateNode(name, type)
      PROVE  EnumInv'
  BY <1>2, <1>7 DEF CreateNode
<1>8. CASE NoNode \/ NoChannel \/ NotRegistered
  BY <1>1, <1>8 DEF NoNode, NoChannel, NotRegistered, Reads, Exits
<1>9. ASSUME NEW k \in Keys, NEW item \in Ends(k[1]) \X Ends(k[2]), MakeChannel(item)
      PROVE  EnumInv'
  BY <1>2, <1>9 DEF MakeChannel
<1>10. CASE Register
  BY <1>2, <1>10 DEF Register
<1>11. CASE Run
  BY <1>1, <1>11 DEF Run
<1>12. CASE UNCHANGED startVars
  BY <1>2, <1>12 DEF startVars, config
<1> QED
  BY <1>3, <1>4, <1>5, <1>6, <1>7, <1>8, <1>9, <1>10, <1>11, <1>12 DEF StartNext

(* "enums create dot-separated name and automatically increments elements  *)
(* of the same enum": whatever the settings and however the names repeat.  *)
THEOREM EnumsAlwaysCount == StartSpec => []EnumsCount
<1>1. StartInit => EnumInv
  <2> SUFFICES ASSUME StartInit PROVE EnumInv
    OBVIOUS
  <2>1. /\ phase = "constants" /\ constants = Builtin /\ members = << >>
        /\ enum = [name |-> Null, previous |-> -1]
    BY DEF StartInit
  <2>2. members \in Seq(Member) /\ Len(members) = 0
    BY <2>1, EmptySeq
  <2> QED BY <2>1, <2>2, BuiltinIs DEF EnumInv
<1>2. EnumInv => EnumsCount
  BY EnumInvSound
<1> QED BY <1>1, <1>2, EnumKeeps, PTL DEF StartSpec

-----------------------------------------------------------------------------
(* Nodes and channels                                                      *)

Item == UNION {Ends(k[1]) \X Ends(k[2]) : k \in Keys}
End == UNION {Ends(k[1]) \union Ends(k[2]) : k \in Keys}

(* The code finds the ends that are written down.                          *)
LEMMA WrittenIs ==
  ASSUME NEW item \in Item
  PROVE  /\ FromTo(item)[1] \in End /\ FromTo(item)[2] \in End
         /\ Written(item, "from", 1) = FromTo(item)[1]
         /\ Written(item, "to", 2) = FromTo(item)[2]
<1>1. PICK k \in Keys : item \in Ends(k[1]) \X Ends(k[2])
  BY DEF Item
<1>2. PICK a \in Ends(k[1]) : a = item[1]
  BY <1>1
<1>3. PICK b \in Ends(k[2]) : b = item[2]
  BY <1>1
<1>4. a.key = k[1] /\ b.key = k[2] /\ a \in End /\ b \in End
  BY DEF Ends, End
<1>5. ToSet(item) = {a, b}
  <2>1. DOMAIN item = {1, 2}
    BY <1>1
  <2> QED BY <1>2, <1>3, <2>1 DEF ToSet
<1>6. ("from" \in {a.key, b.key}) = ("to" \in {a.key, b.key})
  BY <1>4, StartAssumption
<1>7. CASE a.key = "to" /\ b.key = "from"
  <2>1. FromTo(item)[1] = b /\ FromTo(item)[2] = a
    BY <1>2, <1>3, <1>7 DEF FromTo
  <2>2. (CHOOSE e \in ToSet(item) : e.key = "from") = b
    BY <1>5, <1>7
  <2>3. (CHOOSE e \in ToSet(item) : e.key = "to") = a
    BY <1>5, <1>7
  <2> QED BY <1>4, <1>5, <1>7, <2>1, <2>2, <2>3 DEF Written
<1>8. CASE ~ (a.key = "to" /\ b.key = "from")
  <2>1. FromTo(item)[1] = a /\ FromTo(item)[2] = b
    BY <1>2, <1>3, <1>8 DEF FromTo
  <2>2. CASE a.key = "from" /\ b.key = "to"
    <3>1. (CHOOSE e \in ToSet(item) : e.key = "from") = a
      BY <1>5, <2>2
    <3>2. (CHOOSE e \in ToSet(item) : e.key = "to") = b
      BY <1>5, <2>2
    <3> QED BY <1>4, <1>5, <2>1, <2>2, <3>1, <3>2 DEF Written
  <2>3. CASE ~ (a.key = "from" /\ b.key = "to")
    <3>1. "from" # "to"
      OBVIOUS
    <3>2. "from" \notin {a.key, b.key} /\ "to" \notin {a.key, b.key}
      BY <1>6, <1>8, <2>3, <3>1
    <3>3. Written(item, "from", 1) = item[1] /\ Written(item, "to", 2) = item[2]
      BY <1>5, <3>2 DEF Written
    <3> QED BY <1>2, <1>3, <1>4, <2>1, <3>3
  <2> QED BY <2>2, <2>3
<1> QED BY <1>7, <1>8

NodeItem == [name : NodeName \union {Null}, type : {"source", "other"}]

IsLast(i, name) ==
  /\ i \in 1..Len(nodes) /\ nodes[i].name = name
  /\ \A j \in 1..Len(nodes) : nodes[j].name = name => j <= i

LEMMA LastIs ==
  ASSUME NEW i, NEW name, IsLast(i, name), Len(nodes) \in Nat
  PROVE  LastNamed(name) = i
<1>1. PICK I : I = {j \in 1..Len(nodes) : nodes[j].name = name}
  OBVIOUS
<1>2. i \in I /\ \A j \in I : i >= j
  BY <1>1 DEF IsLast
<1>3. \A x \in I : (\A y \in I : x >= y) => x = i
  <2>1. \A x \in I : x \in Nat
    BY <1>1
  <2> QED BY <1>2, <2>1
<1>4. Max(I) = i
  BY <1>2, <1>3 DEF Max
<1> QED BY <1>1, <1>2, <1>4 DEF LastNamed, SelectLastInSeq

(* Where the channels of one side are when places[c] has been written for  *)
(* channel c.                                                              *)
Laid(places, n, ends, idx) ==
  \A c \in 1..n :
    /\ idx[c] = places[c][2]
    /\ ends[c] = IF \E d \in 1..n : d > c /\ places[d] = places[c] THEN Null
                 ELSE places[c][1]

LEMMA OneMoreIsLaid ==
  ASSUME NEW n \in Nat, 1..(n + 1) \subseteq Channel,
         NEW lists, NEW ends, NEW idx,
         SideOK(1..n, lists, ends, idx), Agree(lists, ends, idx),
         NEW s \in Node, NEW i \in Connector, NEW p, NEW q,
         \A c \in 1..n : p[c] \in Node \X Connector /\ q[c] = p[c],
         q[n + 1] = <<s, i>>, Laid(p, n, ends, idx)
  PROVE  Laid(q, n + 1, NewEnds(lists, ends, idx, s, i, n + 1), NewIdx(idx, i, n + 1))
<1>1. PICK ends2 : ends2 = NewEnds(lists, ends, idx, s, i, n + 1)
  OBVIOUS
<1>2. PICK idx2 : idx2 = NewIdx(idx, i, n + 1)
  OBVIOUS
<1>3. n + 1 \in Channel /\ ends \in [Channel -> Node \union {Null}] /\ idx \in [Channel -> Connector]
  BY DEF SideOK
<1>4. /\ idx2[n + 1] = i /\ ends2[n + 1] = s
      /\ \A c \in Channel \ {n + 1} :
           /\ idx2[c] = idx[c]
           /\ ends2[c] = IF c \in Leaving(lists[s], ends, idx, s, i) THEN Null ELSE ends[c]
  BY <1>1, <1>2, <1>3 DEF NewEnds, NewIdx
<1>5. Null \notin Node
  BY BuildAssumption
<1>6. ASSUME NEW c \in 1..n
      PROVE  /\ idx2[c] = q[c][2]
             /\ ends2[c] = IF \E d \in 1..(n + 1) : d > c /\ q[d] = q[c] THEN Null
                           ELSE q[c][1]
  <2>1. c \in Channel \ {n + 1} /\ c \in 1..n /\ n + 1 > c
    OBVIOUS
  <2>2. PICK k \in Node, j \in Connector : p[c] = <<k, j>>
    OBVIOUS
  <2>3. /\ q[c] = <<k, j>> /\ idx[c] = j
        /\ ends[c] = IF \E d \in 1..n : d > c /\ p[d] = p[c] THEN Null ELSE k
    BY <2>2 DEF Laid
  <2>4. c \in Leaving(lists[s], ends, idx, s, i) <=> ends[c] = s /\ idx[c] = i
    BY <1>5, <2>1 DEF Leaving, Agree
  <2>5. CASE k = s /\ j = i
    <3>1. ends2[c] = Null
      BY <1>4, <2>1, <2>3, <2>4, <2>5
    <3>2. n + 1 \in 1..(n + 1) /\ q[n + 1] = q[c]
      BY <2>3, <2>5
    <3> QED BY <1>4, <2>1, <2>3, <3>1, <3>2
  <2>6. CASE ~ (k = s /\ j = i)
    <3>1. ends2[c] = ends[c]
      BY <1>4, <1>5, <2>1, <2>3, <2>4, <2>6
    <3>2. q[n + 1] # q[c]
      BY <2>3, <2>6
    <3>3. (\E d \in 1..(n + 1) : d > c /\ q[d] = q[c]) <=> \E d \in 1..n : d > c /\ p[d] = p[c]
      <4>1. ASSUME NEW d \in 1..(n + 1), d > c, q[d] = q[c]
            PROVE  d \in 1..n /\ p[d] = p[c]
        BY <3>2, <4>1
      <4>2. ASSUME NEW d \in 1..n, d > c, p[d] = p[c]
            PROVE  d \in 1..(n + 1) /\ q[d] = q[c]
        BY <4>2
      <4> QED BY <4>1, <4>2
    <3> QED BY <1>4, <2>1, <2>3, <3>1, <3>3
  <2> QED BY <2>5, <2>6
<1>7. /\ idx2[n + 1] = q[n + 1][2]
      /\ ends2[n + 1] = IF \E d \in 1..(n + 1) : d > n + 1 /\ q[d] = q[n + 1] THEN Null
                        ELSE q[n + 1][1]
  BY <1>4
<1>8. \A c \in 1..(n + 1) : c \in 1..n \/ c = n + 1
  OBVIOUS
<1> QED BY <1>1, <1>2, <1>6, <1>7, <1>8 DEF Laid

(* The k-th end of a channel (the first is where it comes from), and the   *)
(* node and the connector it is at.                                        *)
EndOf(k, c) == FromTo(channels[c])[k]
Place(k, c) == <<named[EndOf(k, c).name], Index(EndOf(k, c))>>
Places(k) == [c \in 1..Len(channels) |-> Place(k, c)]

KnownEnd(k, c) ==
  EndOf(k, c).name \in DOMAIN named /\ Index(EndOf(k, c)) \in Connector

NodesInv ==
  /\ nodes \in Seq(NodeItem)
  /\ \A i \in 1..Len(nodes) : i \in Node
  /\ \A name \in DOMAIN named : name # Null /\ IsLast(named[name], name)

(* All nodes are there before there is a channel, and all channels before  *)
(* a node registers.                                                       *)
ChannelsInv ==
  /\ channels \in Seq(Item)
  /\ phase \in {"constants", "enums", "nodes"} => channels = << >>
  /\ made = 1..Len(channels)
  /\ \A k \in {1, 2} : \A c \in 1..Len(channels) : KnownEnd(k, c)
  /\ Laid(Places(1), Len(channels), start, idxStart)
  /\ Laid(Places(2), Len(channels), end, idxEnd)

RegisteredInv ==
  /\ registered \in 0..Len(nodes)
  /\ phase \in {"constants", "enums", "nodes", "channels"} => registered = 0
  /\ subscribed \in Seq(Nat) /\ capacity \in Nat /\ Len(subscribed) <= capacity
  /\ ToSet(subscribed) = {i \in 1..registered : nodes[i].type = "source"}
  /\ \A j, k \in 1..Len(subscribed) : j < k => subscribed[j] < subscribed[k]

LEMMA SideSound ==
  ASSUME NodesInv, ChannelsInv, NEW k \in {1, 2}, NEW ends, NEW idx,
         Laid(Places(k), Len(channels), ends, idx), NEW c \in 1..Len(channels)
  PROVE  /\ \A d \in 1..Len(channels) : Meant(EndOf(k, d)) = Place(k, d)
         /\ ends[c] = IF \E d \in {d \in DOMAIN channels : d > c} :
                           Meant(EndOf(k, d)) = Meant(EndOf(k, c))
                      THEN Null ELSE Meant(EndOf(k, c))[1]
<1>1. DOMAIN channels = 1..Len(channels) /\ Len(nodes) \in Nat
  BY LenProperties DEF ChannelsInv, NodesInv
<1>2. ASSUME NEW d \in 1..Len(channels) PROVE Meant(EndOf(k, d)) = Place(k, d)
  <2>1. PICK name : name = EndOf(k, d).name
    OBVIOUS
  <2>2. IsLast(named[name], name)
    BY <2>1 DEF ChannelsInv, KnownEnd, NodesInv
  <2>3. LastNamed(name) = named[name]
    BY <1>1, <2>2, LastIs
  <2> QED BY <2>1, <2>3 DEF Meant, Place, Index
<1>3. ends[c] = IF \E d \in 1..Len(channels) : d > c /\ Place(k, d) = Place(k, c) THEN Null
                ELSE Place(k, c)[1]
  BY DEF Laid, Places
<1> QED BY <1>1, <1>2, <1>3

LEMMA ConfigSound ==
  NodesInv /\ ChannelsInv /\ RegisteredInv => AsConfigured
<1> SUFFICES ASSUME NodesInv, ChannelsInv, RegisteredInv PROVE AsConfigured
  OBVIOUS
<1>1. PICK n \in Nat : n = Len(channels) /\ DOMAIN channels = 1..n
  BY LenProperties DEF ChannelsInv
<1>2. \A c \in 1..n : From(c) = EndOf(1, c) /\ To(c) = EndOf(2, c)
  <2>1. \A c \in 1..n : channels[c] \in Item
    BY <1>1, ElementOfSeq DEF ChannelsInv
  <2> QED BY <2>1, WrittenIs DEF From, To, EndOf
<1>3. ASSUME NEW c \in 1..n
      PROVE  start[c] = IF \E d \in {d \in DOMAIN channels : d > c} :
                             Meant(From(d)) = Meant(From(c))
                        THEN Null ELSE Meant(From(c))[1]
  <2>1. start[c] = IF \E d \in {d \in DOMAIN channels : d > c} :
                        Meant(EndOf(1, d)) = Meant(EndOf(1, c))
                   THEN Null ELSE Meant(EndOf(1, c))[1]
    BY <1>1, SideSound DEF ChannelsInv
  <2> QED BY <1>1, <1>2, <2>1
<1>4. ASSUME NEW c \in 1..n
      PROVE  end[c] = IF \E d \in {d \in DOMAIN channels : d > c} :
                           Meant(To(d)) = Meant(To(c))
                      THEN Null ELSE Meant(To(c))[1]
  <2>1. end[c] = IF \E d \in {d \in DOMAIN channels : d > c} :
                      Meant(EndOf(2, d)) = Meant(EndOf(2, c))
                 THEN Null ELSE Meant(EndOf(2, c))[1]
    BY <1>1, SideSound DEF ChannelsInv
  <2> QED BY <1>1, <1>2, <2>1
<1>5. DOMAIN subscribed = 1..Len(subscribed)
  BY LenProperties DEF RegisteredInv
<1>6. /\ Len(subscribed) <= capacity
      /\ ToSet(subscribed) = {i \in 1..registered : nodes[i].type = "source"}
      /\ \A j, k \in DOMAIN subscribed : j < k => subscribed[j] < subscribed[k]
  BY <1>5 DEF RegisteredInv
<1> QED BY <1>1, <1>3, <1>4, <1>6 DEF AsConfigured

LEMMA NodesKeep == NodesInv /\ [StartNext]_startVars => NodesInv'
<1> SUFFICES ASSUME NodesInv, [StartNext]_startVars PROVE NodesInv'
  OBVIOUS
<1>1. CASE UNCHANGED <<nodes, named>>
  BY <1>1 DEF NodesInv, IsLast
<1>2. ASSUME NEW name \in NodeName \union {Null}, NEW type \in {"source", "other"},
             CreateNode(name, type)
      PROVE  NodesInv'
  <2>1. PICK n \in Nat : n = Len(nodes) /\ nodes \in Seq(NodeItem)
    BY LenProperties DEF NodesInv
  <2>2. PICK item \in NodeItem : item = [name |-> name, type |-> type]
    BY DEF NodeItem
  <2>3. /\ n + 1 \in Node /\ nodes' = Append(nodes, item)
        /\ named' = IF name = Null THEN named ELSE Inserted(named, name, n + 1)
    BY <1>2, <2>1, <2>2 DEF CreateNode
  <2>4. /\ nodes' \in Seq(NodeItem) /\ Len(nodes') = n + 1 /\ nodes'[n + 1] = item
        /\ \A k \in 1..n : nodes'[k] = nodes[k]
    BY <2>1, <2>3, AppendProperties
  <2>5. \A i \in 1..(n + 1) : i \in Node
    BY <2>1, <2>3 DEF NodesInv
  <2>6. ASSUME NEW key \in DOMAIN named, key # name
        PROVE  key # Null /\ IsLast(named[key], key)'
    <3>1. PICK i : i = named[key]
      OBVIOUS
    <3>2. i \in 1..n /\ nodes[i].name = key /\ key # Null
          /\ \A j \in 1..n : nodes[j].name = key => j <= i
      BY <2>1, <3>1 DEF NodesInv, IsLast
    <3>3. i \in 1..(n + 1) /\ nodes'[i].name = key
      BY <2>4, <3>2
    <3>4. ASSUME NEW j \in 1..(n + 1), nodes'[j].name = key PROVE j <= i
      <4>1. j # n + 1
        BY <2>2, <2>4, <2>6, <3>4
      <4>2. j \in 1..n
        BY <4>1
      <4> QED BY <2>4, <3>2, <3>4, <4>2
    <3>5. named'[key] = i
      BY <2>3, <2>6, <3>1 DEF Inserted
    <3> QED BY <2>4, <3>2, <3>3, <3>4, <3>5 DEF IsLast
  <2>7. ASSUME name # Null
        PROVE  IsLast(named[name], name)'
    <3>1. named'[name] = n + 1
      BY <2>3, <2>7 DEF Inserted
    <3>2. n + 1 \in 1..(n + 1) /\ \A j \in 1..(n + 1) : j <= n + 1
      OBVIOUS
    <3> QED BY <2>2, <2>4, <3>1, <3>2 DEF IsLast
  <2>8. \A key \in DOMAIN named' : key \in DOMAIN named \/ (name # Null /\ key = name)
    BY <2>3 DEF Inserted
  <2>9. \A key \in DOMAIN named' : key # Null /\ IsLast(named[key], key)'
    <3>1. Null \notin DOMAIN named
      BY DEF NodesInv
    <3> QED BY <2>6, <2>7, <2>8, <3>1
  <2> QED BY <2>4, <2>5, <2>9 DEF NodesInv
<1>3. ASSUME ~ \E name \in NodeName \union {Null}, type \in {"source", "other"} :
                 CreateNode(name, type)
      PROVE  UNCHANGED <<nodes, named>>
  <2>1. CASE StartNext
    BY <1>3, <2>1, Zenon DEF StartNext, LoadConstant, LoadEnum, LoadMember, EndSection,
       NoNode, NoChannel, Exits, MakeChannel, Register, NotRegistered, Run
  <2>2. CASE UNCHANGED startVars
    BY <2>2 DEF startVars, config
  <2> QED BY <2>1, <2>2
<1> QED BY <1>1, <1>2, <1>3

LEMMA ChannelsStay ==
  ASSUME ChannelsInv, UNCHANGED <<vars, channels>>,
         channels = << >> \/ UNCHANGED <<constants, named>>,
         phase' \in {"constants", "enums", "nodes"} => channels = << >>
  PROVE  ChannelsInv'
<1>1. UNCHANGED <<made, start, idxStart, end, idxEnd, channels>>
  BY DEF vars
<1>2. CASE channels = << >>
  <2>1. Len(channels) = 0 /\ Len(channels') = 0
    BY <1>1, <1>2, EmptySeq
  <2> QED BY <1>1, <1>2, <2>1 DEF ChannelsInv, Laid
<1>3. CASE UNCHANGED <<constants, named>>
  <2>1. Places(1)' = Places(1) /\ Places(2)' = Places(2)
    BY <1>1, <1>3 DEF Places, Place, EndOf, Index, ResolvedOr, Resolves
  <2>2. \A k, c : KnownEnd(k, c)' = KnownEnd(k, c)
    BY <1>1, <1>3 DEF KnownEnd, EndOf, Index, ResolvedOr, Resolves
  <2> QED BY <1>1, <2>1, <2>2 DEF ChannelsInv
<1> QED BY <1>2, <1>3

LEMMA ChannelMade ==
  ASSUME NodesInv, ChannelsInv, IInv,
         NEW k \in Keys, NEW item \in Ends(k[1]) \X Ends(k[2]), MakeChannel(item)
  PROVE  ChannelsInv'
<1>1. PICK n \in Nat : n = Len(channels) /\ channels \in Seq(Item) /\ made = 1..n
  BY LenProperties DEF ChannelsInv
<1>2. PICK from : from = FromTo(item)[1]
  OBVIOUS
<1>3. PICK to : to = FromTo(item)[2]
  OBVIOUS
<1>4. /\ phase = "channels" /\ phase' = phase
      /\ n + 1 \in Channel
      /\ Index(from) \in Connector /\ Index(to) \in Connector
      /\ from.name \in DOMAIN named /\ to.name \in DOMAIN named
      /\ Connect(n + 1, named[from.name], Index(from), named[to.name], Index(to))
      /\ channels' = Append(channels, item)
      /\ UNCHANGED <<constants, named>>
  BY <1>1, <1>2, <1>3 DEF MakeChannel, Reads
<1>5. named[from.name] \in Node /\ named[to.name] \in Node
  BY <1>4 DEF NodesInv, IsLast
<1>6. item \in Item
  BY DEF Item
<1>7. /\ channels' \in Seq(Item) /\ Len(channels') = n + 1 /\ channels'[n + 1] = item
      /\ \A c \in 1..n : channels'[c] = channels[c]
  BY <1>1, <1>4, <1>6, AppendProperties
<1>8. \A z \in {1, 2} : /\ \A c \in 1..n : EndOf(z, c)' = EndOf(z, c)
                        /\ EndOf(z, n + 1)' = FromTo(item)[z]
  BY <1>7 DEF EndOf
<1>9. \A e : Index(e)' = Index(e)
  BY <1>4 DEF Index, ResolvedOr, Resolves
<1>10. ASSUME NEW z \in {1, 2}, NEW c \in 1..(n + 1) PROVE KnownEnd(z, c)'
  <2>1. CASE c = n + 1
    BY <1>2, <1>3, <1>4, <1>8, <1>9, <2>1 DEF KnownEnd
  <2>2. CASE c # n + 1
    <3>1. c \in 1..n
      BY <2>2
    <3>2. KnownEnd(z, c)
      BY <1>1, <3>1 DEF ChannelsInv
    <3> QED BY <1>4, <1>8, <1>9, <3>1, <3>2 DEF KnownEnd
  <2> QED BY <2>1, <2>2
<1>11. made' = 1..(n + 1)
  <2>1. made' = made \union {n + 1}
    BY <1>4 DEF Connect
  <2>2. (1..n) \union {n + 1} = 1..(n + 1)
    OBVIOUS
  <2> QED BY <1>1, <2>1, <2>2
<1>12. 1..(n + 1) \subseteq Channel
  BY <1>1, <1>4 DEF IInv
<1>13. ASSUME NEW z \in {1, 2}
       PROVE  /\ \A c \in 1..n : Places(z)[c] \in Node \X Connector /\ Places(z)'[c] = Places(z)[c]
              /\ Places(z)'[n + 1] = <<named[FromTo(item)[z].name], Index(FromTo(item)[z])>>
  <2>1. ASSUME NEW c \in 1..n
        PROVE  Places(z)[c] \in Node \X Connector /\ Places(z)'[c] = Places(z)[c]
    <3>1. Places(z)[c] = Place(z, c) /\ Places(z)'[c] = Place(z, c)'
      BY <1>1, <1>7 DEF Places
    <3>2. Place(z, c)' = Place(z, c)
      BY <1>4, <1>8, <1>9 DEF Place
    <3>3. KnownEnd(z, c)
      BY <1>1 DEF ChannelsInv
    <3>4. named[EndOf(z, c).name] \in Node /\ Index(EndOf(z, c)) \in Connector
      BY <3>3 DEF KnownEnd, NodesInv, IsLast
    <3> QED BY <3>1, <3>2, <3>4 DEF Place
  <2>2. Places(z)'[n + 1] = Place(z, n + 1)'
    BY <1>7 DEF Places
  <2>3. Place(z, n + 1)' = <<named[FromTo(item)[z].name], Index(FromTo(item)[z])>>
    BY <1>4, <1>8, <1>9 DEF Place
  <2> QED BY <2>1, <2>2, <2>3
<1>14. Laid(Places(1), Len(channels), start, idxStart)'
  <2>1. /\ start' = NewEnds(outputs, start, idxStart, named[from.name], Index(from), n + 1)
        /\ idxStart' = NewIdx(idxStart, Index(from), n + 1)
    BY <1>4, <1>5, ConnectSides
  <2>2. /\ SideOK(1..n, outputs, start, idxStart) /\ Agree(outputs, start, idxStart)
        /\ Laid(Places(1), n, start, idxStart)
    BY <1>1 DEF IInv, ChannelsInv
  <2>3. Places(1)'[n + 1] = <<named[from.name], Index(from)>>
    BY <1>2, <1>13
  <2>4. Laid(Places(1)', n + 1, start', idxStart')
    BY <1>4, <1>5, <1>12, <1>13, <2>1, <2>2, <2>3, OneMoreIsLaid
  <2> QED BY <1>7, <2>4
<1>15. Laid(Places(2), Len(channels), end, idxEnd)'
  <2>1. /\ end' = NewEnds(inputs, end, idxEnd, named[to.name], Index(to), n + 1)
        /\ idxEnd' = NewIdx(idxEnd, Index(to), n + 1)
    BY <1>4, <1>5, ConnectSides
  <2>2. /\ SideOK(1..n, inputs, end, idxEnd) /\ Agree(inputs, end, idxEnd)
        /\ Laid(Places(2), n, end, idxEnd)
    BY <1>1 DEF IInv, ChannelsInv
  <2>3. Places(2)'[n + 1] = <<named[to.name], Index(to)>>
    BY <1>3, <1>13
  <2>4. Laid(Places(2)', n + 1, end', idxEnd')
    BY <1>4, <1>5, <1>12, <1>13, <2>1, <2>2, <2>3, OneMoreIsLaid
  <2> QED BY <1>7, <2>4
<1>16. phase' \notin {"constants", "enums", "nodes"}
  BY <1>4
<1> QED BY <1>7, <1>10, <1>11, <1>14, <1>15, <1>16 DEF ChannelsInv

LEMMA ChannelsKeep ==
  NodesInv /\ ChannelsInv /\ IInv /\ [StartNext]_startVars => ChannelsInv'
<1> SUFFICES ASSUME NodesInv, ChannelsInv, IInv, [StartNext]_startVars PROVE ChannelsInv'
  OBVIOUS
<1>1. ASSUME phase \in {"constants", "enums", "nodes"} PROVE channels = << >>
  BY <1>1 DEF ChannelsInv
<1>2. ASSUME NEW n \in ConstantName, NEW s \in Setting, NEW g \in BOOLEAN,
             LoadConstant(n, s, g)
      PROVE  ChannelsInv'
  <2>1. phase = "constants" /\ UNCHANGED <<vars, channels>>
    BY <1>2 DEF LoadConstant, Reads
  <2> QED BY <1>1, <2>1, ChannelsStay
<1>3. ASSUME NEW e \in EnumName, LoadEnum(e)
      PROVE  ChannelsInv'
  <2>1. phase = "enums" /\ UNCHANGED <<vars, channels>>
    BY <1>3 DEF LoadEnum, Reads
  <2> QED BY <1>1, <2>1, ChannelsStay
<1>4. ASSUME NEW m \in MemberName, NEW s \in Setting, LoadMember(m, s)
      PROVE  ChannelsInv'
  <2>1. phase = "enums" /\ UNCHANGED <<vars, channels>>
    BY <1>4, Zenon DEF LoadMember, Reads
  <2> QED BY <1>1, <2>1, ChannelsStay
<1>5. ASSUME NEW name \in NodeName \union {Null}, NEW type \in {"source", "other"},
             CreateNode(name, type)
      PROVE  ChannelsInv'
  <2>1. phase = "nodes" /\ UNCHANGED <<vars, channels>>
    BY <1>5, Zenon DEF CreateNode, Reads
  <2> QED BY <1>1, <2>1, ChannelsStay
<1>6. CASE EndSection
  <2>1. /\ phase' \in {"constants", "enums", "nodes"} =>
             phase \in {"constants", "enums", "nodes"}
        /\ UNCHANGED <<vars, channels, constants, named>>
    BY <1>6 DEF EndSection, Section
  <2> QED BY <1>1, <2>1, ChannelsStay
<1>7. CASE NoNode \/ NoChannel \/ NotRegistered \/ Register \/ Run
  <2>1. /\ UNCHANGED <<vars, channels, constants, named>>
        /\ phase' = phase \/ phase' \notin {"constants", "enums", "nodes"}
    BY <1>7, Zenon DEF NoNode, NoChannel, NotRegistered, Register, Run, Exits
  <2> QED BY <1>1, <2>1, ChannelsStay
<1>8. CASE UNCHANGED startVars
  <2>1. UNCHANGED <<vars, channels, constants, named>> /\ phase' = phase
    BY <1>8 DEF startVars, config
  <2> QED BY <1>1, <2>1, ChannelsStay
<1>9. ASSUME NEW k \in Keys, NEW item \in Ends(k[1]) \X Ends(k[2]), MakeChannel(item)
      PROVE  ChannelsInv'
  BY <1>9, ChannelMade
<1> QED BY <1>2, <1>3, <1>4, <1>5, <1>6, <1>7, <1>8, <1>9 DEF StartNext

LEMMA GrownIs == ASSUME NEW n \in Nat PROVE Grown(n) \in Nat /\ n + 1 <= Grown(n)
BY DEF Grown

(* A node that has input is subscribed, whatever room there was.           *)
LEMMA RegisterKeeps ==
  ASSUME NodesInv, RegisteredInv, Register
  PROVE  RegisteredInv'
<1>1. PICK r \in Nat : r = registered
  BY DEF RegisteredInv
<1>2. PICK n \in Nat : n = Len(nodes) /\ DOMAIN nodes = 1..n
  BY LenProperties DEF NodesInv
<1>3. /\ phase = "io" /\ phase' = phase /\ r + 1 \in 1..n /\ registered' = r + 1
      /\ nodes' = nodes
  BY <1>1, <1>2 DEF Register
<1>4. PICK l \in Nat : l = Len(subscribed) /\ DOMAIN subscribed = 1..l
  BY LenProperties DEF RegisteredInv
<1>5. /\ subscribed \in Seq(Nat) /\ capacity \in Nat /\ l <= capacity
      /\ ToSet(subscribed) = {i \in 1..r : nodes[i].type = "source"}
      /\ \A j, k \in 1..l : j < k => subscribed[j] < subscribed[k]
  BY <1>1, <1>4 DEF RegisteredInv
<1>6. registered' \in 0..Len(nodes') /\ phase' \notin {"constants", "enums", "nodes", "channels"}
  BY <1>2, <1>3
<1>7. \A i : i \in 1..(r + 1) <=> i \in 1..r \/ i = r + 1
  OBVIOUS
<1>8. CASE nodes[r + 1].type = "source"
  <2>1. /\ subscribed' = Append(subscribed, r + 1)
        /\ capacity' = IF l >= capacity THEN Grown(capacity) ELSE capacity
    BY <1>1, <1>4, <1>8 DEF Register
  <2>2. /\ subscribed' \in Seq(Nat) /\ Len(subscribed') = l + 1
        /\ subscribed'[l + 1] = r + 1
        /\ \A k \in 1..l : subscribed'[k] = subscribed[k]
        /\ DOMAIN subscribed' = 1..(l + 1)
    <3>1. subscribed' \in Seq(Nat) /\ Len(subscribed') = l + 1
      BY <1>4, <1>5, <2>1, AppendProperties
    <3> QED BY <1>4, <1>5, <2>1, <3>1, AppendProperties, LenProperties
  <2>3. capacity' \in Nat /\ l + 1 <= capacity'
    <3>1. PICK cap \in Nat : cap = capacity
      BY <1>5
    <3>2. Grown(cap) \in Nat /\ cap + 1 <= Grown(cap)
      BY GrownIs
    <3> QED BY <1>5, <2>1, <3>1, <3>2
  <2>4. ToSet(subscribed') = {i \in 1..(r + 1) : nodes[i].type = "source"}
    <3>1. ToSet(subscribed') = ToSet(subscribed) \union {r + 1}
      <4>1. \A k \in 1..(l + 1) : k \in 1..l \/ k = l + 1
        OBVIOUS
      <4>2. \A k \in 1..l : k \in 1..(l + 1)
        OBVIOUS
      <4>3. l + 1 \in 1..(l + 1)
        OBVIOUS
      <4> QED BY <1>4, <2>2, <4>1, <4>2, <4>3 DEF ToSet
    <3> QED BY <1>5, <1>7, <1>8, <3>1
  <2>5. ASSUME NEW j \in 1..(l + 1), NEW k \in 1..(l + 1), j < k
        PROVE  subscribed'[j] < subscribed'[k]
    <3>1. j \in 1..l /\ subscribed'[j] = subscribed[j]
      BY <2>2, <2>5
    <3>2. CASE k = l + 1
      <4>1. subscribed[j] \in ToSet(subscribed)
        BY <1>4, <3>1 DEF ToSet
      <4>2. subscribed[j] \in 1..r
        BY <1>5, <4>1
      <4> QED BY <2>2, <3>1, <3>2, <4>2
    <3>3. CASE k # l + 1
      <4>1. k \in 1..l
        BY <3>3
      <4> QED BY <1>5, <2>2, <2>5, <3>1, <4>1
    <3> QED BY <3>2, <3>3
  <2> QED BY <1>3, <1>6, <2>2, <2>3, <2>4, <2>5 DEF RegisteredInv
<1>9. CASE nodes[r + 1].type # "source"
  <2>1. subscribed' = subscribed /\ capacity' = capacity
    BY <1>1, <1>9 DEF Register
  <2>2. {i \in 1..(r + 1) : nodes[i].type = "source"} = {i \in 1..r : nodes[i].type = "source"}
    BY <1>7, <1>9
  <2> QED BY <1>3, <1>4, <1>5, <1>6, <2>1, <2>2 DEF RegisteredInv
<1> QED BY <1>8, <1>9

LEMMA RegisteredKeeps ==
  NodesInv /\ RegisteredInv /\ [StartNext]_startVars => RegisteredInv'
<1> SUFFICES ASSUME NodesInv, RegisteredInv, [StartNext]_startVars PROVE RegisteredInv'
  OBVIOUS
<1>1. ASSUME UNCHANGED <<registered, subscribed, capacity>>, registered = 0 \/ UNCHANGED nodes,
             Len(nodes') \in Nat,
             phase' \in {"constants", "enums", "nodes", "channels"} =>
               phase \in {"constants", "enums", "nodes", "channels"}
      PROVE  RegisteredInv'
  <2>1. CASE registered = 0
    <3>1. \A i : i \notin 1..0
      OBVIOUS
    <3>2. {i \in 1..0 : nodes'[i].type = "source"} = {i \in 1..0 : nodes[i].type = "source"}
      BY <3>1
    <3>3. 0 \in 0..Len(nodes')
      BY <1>1
    <3> QED BY <1>1, <2>1, <3>2, <3>3 DEF RegisteredInv
  <2>2. CASE UNCHANGED nodes
    BY <1>1, <2>2 DEF RegisteredInv
  <2> QED BY <1>1, <2>1, <2>2
<1>2. Len(nodes) \in Nat
  BY LenProperties DEF NodesInv
<1>3. ASSUME NEW name \in NodeName \union {Null}, NEW type \in {"source", "other"},
             CreateNode(name, type)
      PROVE  RegisteredInv'
  <2>1. phase = "nodes" /\ phase' = phase /\ UNCHANGED <<registered, subscribed, capacity>>
    BY <1>3, Zenon DEF CreateNode, Reads
  <2>2. NodesInv'
    BY NodesKeep
  <2>3. Len(nodes') \in Nat
    BY <2>2, LenProperties DEF NodesInv
  <2>4. registered = 0
    BY <2>1 DEF RegisteredInv
  <2> QED BY <1>1, <2>1, <2>3, <2>4
<1>4. CASE Register
  BY <1>4, RegisterKeeps
<1>5. CASE EndSection
  <2>1. /\ phase' \in {"constants", "enums", "nodes", "channels"} =>
             phase \in {"constants", "enums", "nodes", "channels"}
        /\ UNCHANGED <<registered, subscribed, capacity, nodes>>
    BY <1>5 DEF EndSection, Section
  <2> QED BY <1>1, <1>2, <2>1
<1>6. ASSUME \/ \E n \in ConstantName, s \in Setting, g \in BOOLEAN : LoadConstant(n, s, g)
             \/ \E e \in EnumName : LoadEnum(e)
             \/ \E m \in MemberName, s \in Setting : LoadMember(m, s)
             \/ NoNode \/ NoChannel
             \/ \E k \in Keys : \E item \in Ends(k[1]) \X Ends(k[2]) : MakeChannel(item)
             \/ NotRegistered \/ Run \/ UNCHANGED startVars
      PROVE  RegisteredInv'
  <2>1. /\ UNCHANGED <<registered, subscribed, capacity, nodes>>
        /\ phase' = phase \/ phase' = "exit" \/ phase' = "run"
    BY <1>6, Zenon DEF LoadConstant, LoadEnum, LoadMember, NoNode, NoChannel, MakeChannel,
       NotRegistered, Run, Exits, startVars, config
  <2> QED BY <1>1, <1>2, <2>1
<1> QED BY <1>3, <1>4, <1>5, <1>6 DEF StartNext

(* The graph the main loop runs is the one that is written down: a channel *)
(* has the ends its item names, unless an item behind it names the same    *)
(* connector; and the nodes with input are asked in their order, each      *)
(* once, in a list that has room for them.                                 *)
THEOREM StartsAsConfigured == StartSpec => []AsConfigured
<1>1. StartInit => NodesInv /\ ChannelsInv /\ RegisteredInv
  <2> SUFFICES ASSUME StartInit PROVE NodesInv /\ ChannelsInv /\ RegisteredInv
    OBVIOUS
  <2>1. /\ nodes = << >> /\ named = << >> /\ channels = << >> /\ registered = 0
        /\ subscribed = << >> /\ capacity \in Nat /\ made = {}
    BY StartAssumption DEF StartInit, Init
  <2>2. << >> \in Seq(NodeItem) /\ << >> \in Seq(Item) /\ << >> \in Seq(Nat) /\ Len(<< >>) = 0
    BY EmptySeq
  <2>3. DOMAIN << >> = {} /\ ToSet(<< >>) = {} /\ 1..0 = {}
    BY DEF ToSet
  <2>4. NodesInv
    BY <2>1, <2>2, <2>3 DEF NodesInv
  <2>5. ChannelsInv
    BY <2>1, <2>2, <2>3 DEF ChannelsInv, Laid
  <2>6. RegisteredInv
    BY <2>1, <2>2, <2>3 DEF RegisteredInv
  <2> QED BY <2>4, <2>5, <2>6
<1>2. StartSpec => []IInv
  BY StartBuilds, SpecIInv, PTL
<1>3. NodesInv /\ ChannelsInv /\ RegisteredInv /\ IInv /\ [StartNext]_startVars
        => (NodesInv /\ ChannelsInv /\ RegisteredInv)'
  BY NodesKeep, ChannelsKeep, RegisteredKeeps
<1>4. NodesInv /\ ChannelsInv /\ RegisteredInv => AsConfigured
  BY ConfigSound
<1> QED BY <1>1, <1>2, <1>3, <1>4, PTL DEF StartSpec
=============================================================================
