-------------------------- MODULE EventLoopProofs --------------------------
(***************************************************************************)
(* What the main loop promises, on any graph, with any number of sources   *)
(* and any input: its state keeps its types, windows keep no event that is *)
(* gone, inputs of a source keep their order where no window makes events  *)
(* wait, every input is delivered as often as its code and the graph say,  *)
(* the graph works as if it were given one input at a time, the loop does  *)
(* not go to sleep on an event it could handle, and no window ends empty.  *)
(*                                                                         *)
(* The parts are: the steps of the loop; order; sums; what an input comes  *)
(* to; one input at a time; sleep; one window.                             *)
(***************************************************************************)
EXTENDS HandlerProofs, SerialLoop

-----------------------------------------------------------------------------
(***************************************************************************)
(* The main loop keeps all of this, whatever comes in.                     *)
(***************************************************************************)

(* The world: what waits to be read is stamped within the bounds.          *)
Outside ==
  /\ now \in 0..MaxTime
  /\ input \in [Source -> Inputs]
  /\ closed \in [Source -> BOOLEAN]

Control ==
  /\ pc \in {"top", "poll", "handle", "scan", "io", "hung", "astray"}
  /\ externTime \in 0..MaxTime /\ hasFuture \in BOOLEAN
  /\ ready \in Seq(Source) /\ (ready = << >> <=> pc # "handle")
  /\ failures \in 0..MaxFailures /\ lost \in [Both -> 0..MaxLost]
  /\ lost["members"] = 0 => pc # "astray"

(* A source that has made an event of the end of file is disabled then: it *)
(* makes no other one.                                                     *)
Counted ==
  /\ enabled \in [Source -> BOOLEAN] /\ read \in [Source -> Nat]
  /\ \A s \in Source :
       read[s] + Len(input[s]) <= MaxInputs[s] + (IF enabled[s] THEN 0 ELSE 1)

(* A handle_io that is still to be called is one of an enabled subscription *)
(* and is called once; no other handler has read what getchar was woken    *)
(* for.                                                                    *)
Called ==
  /\ IsInjective(ready)
  /\ \A k \in DOMAIN ready :
       /\ enabled[ready[k]]
       /\ Kind[ready[k]] = "getchar" => input[ready[k]] # << >> \/ closed[ready[k]]

LoopInv ==
  /\ Outside /\ Control /\ Counted /\ Called
  /\ machine \in Machine /\ WindowSound(machine, lost["members"] = 0)

LEMMA SameMachine ==
  ASSUME UNCHANGED graph
  PROVE  machine' = machine
BY DEF graph, machine

LEMMA LoopInvSound == LoopInv => TypeOK /\ BufferListed
<1> SUFFICES ASSUME LoopInv PROVE TypeOK /\ BufferListed
  OBVIOUS
<1>1. Outside /\ Control /\ Counted
  BY DEF LoopInv
<1>2. \A s \in Source : read[s] \in 0..(MaxInputs[s] + 1)
  <2>1. ASSUME NEW s \in Source PROVE read[s] \in 0..(MaxInputs[s] + 1)
    <3>1. PICK l \in Nat : l = Len(input[s])
      BY <1>1, LenProperties DEF Outside, Inputs
    <3>2. PICK r \in Nat : r = read[s]
      BY <1>1 DEF Counted
    <3>3. PICK x \in Nat : x = MaxInputs[s]
      BY LoopAssumption
    <3>4. r + l <= x + (IF enabled[s] THEN 0 ELSE 1)
      BY <1>1, <3>1, <3>2, <3>3 DEF Counted
    <3>5. r \in 0..(x + 1)
      BY <3>4
    <3> QED BY <3>2, <3>3, <3>5
  <2> QED BY <2>1
<1>3. /\ events \in Seq(Event) /\ waiting \in [Node -> BOOLEAN]
      /\ memory \in [ComputingNode -> Int64]
      /\ predicates \in [Predicate -> Switch]
      /\ buffer \in [WindowNode -> Seq(Event)]
      /\ members \in [WindowNode -> SUBSET Event]
      /\ skip \in [WindowNode -> Nat] /\ issued \in Nat
      /\ delivered \in Seq(Delivery)
  BY DEF LoopInv, machine, Machine
<1>r. (ready = << >>) = (pc # "handle")
  <2>1. ready = << >> <=> pc # "handle"
    BY <1>1 DEF Control
  <2> QED BY <2>1
<1>4. TypeOK
  BY <1>1, <1>2, <1>3, <1>r DEF TypeOK, Outside, Control, Counted, Inputs, Switch, Delivery
<1>5. BufferListed
  <2>1. machine.buffer = buffer /\ machine.members = members /\ machine.events = events
    BY DEF machine
  <2>2. lost["members"] = 0 => pc # "astray"
    BY <1>1 DEF Control
  <2>3. ASSUME NEW w \in WindowNode
        PROVE  /\ \A e \in ToSet(buffer[w]) \union members[w] :
                    e.pos = w /\ e \in ToSet(events)
               /\ lost["members"] = 0 => IsInjective(buffer[w])
    BY <2>1 DEF LoopInv, WindowSound
  <2> QED BY <2>2, <2>3 DEF BufferListed
<1> QED BY <1>4, <1>5

LEMMA InitIsSound == Init => LoopInv
<1> SUFFICES ASSUME Init PROVE LoopInv
  OBVIOUS
<1>1. MaxTime \in Nat /\ MaxFailures \in Nat /\ MaxLost \in Nat /\ MaxInputs \in [Source -> Nat]
  BY LoopAssumption
<1>e. << >> \in Seq(Source) /\ << >> \in Inputs /\ << >> \in Seq(Event) /\ << >> \in Seq(Delivery)
      /\ Len(<< >>) = 0
  BY EmptySeq DEF Inputs
<1>2. Outside
  BY <1>1, <1>e DEF Init, Outside
<1>3. Control
  <2>1. /\ pc = "top" /\ externTime = 0 /\ hasFuture = FALSE
        /\ ready = << >> /\ failures = 0
        /\ lost = [x \in Both |-> 0]
    BY DEF Init
  <2>2. 0 \in 0..MaxTime /\ 0 \in 0..MaxFailures /\ 0 \in 0..MaxLost
    BY <1>1
  <2>3. ready \in Seq(Source)
    BY <1>e, <2>1
  <2>4. /\ pc # "handle" /\ pc # "astray"
        /\ pc \in {"top", "poll", "handle", "scan", "io", "hung", "astray"}
    BY <2>1
  <2>5. ready = << >> <=> pc # "handle"
    BY <2>1, <2>4
  <2> QED BY <2>1, <2>2, <2>3, <2>4, <2>5 DEF Control
<1>4. Counted
  <2>1. \A s \in Source : input[s] = << >> /\ read[s] = 0 /\ MaxInputs[s] \in Nat
    BY <1>1 DEF Init
  <2>2. enabled \in [Source -> BOOLEAN] /\ read \in [Source -> Nat]
    BY DEF Init
  <2>3. ASSUME NEW s \in Source
        PROVE  read[s] + Len(input[s]) <= MaxInputs[s] + (IF enabled[s] THEN 0 ELSE 1)
    BY <1>e, <2>1
  <2> QED BY <2>2, <2>3 DEF Counted
<1>5. Called
  <2>1. DOMAIN ready = {}
    BY DEF Init
  <2> QED BY <2>1 DEF Called, IsInjective
<1>6. machine \in Machine /\ WindowSound(machine, lost["members"] = 0)
  <2>1. machine = Idle
    BY DEF Init, machine, Idle
  <2>2. \A n \in ComputingNode : Remembered(n) \in Int64
    BY OptionsAssumption, HalfAssumption DEF ComputingNode, Remembered, Int64
  <2>3. Preset \in [Predicate -> Switch]
    BY GraphAssumption DEF Switch
  <2>4. Idle \in Machine
    BY <1>e, <2>2, <2>3 DEF Idle, Machine
  <2>5. \A w \in WindowNode : Idle.buffer[w] = << >> /\ Idle.members[w] = {}
    BY DEF Idle
  <2>6. ToSet(<< >>) = {} /\ IsInjective(<< >>)
    BY DEF ToSet, IsInjective
  <2>7. Told(Idle.events, Idle.issued)
    BY <1>e DEF Idle, Told
  <2>8. WindowSound(Idle, lost["members"] = 0)
    BY <2>5, <2>6, <2>7 DEF WindowSound
  <2> QED BY <2>1, <2>4, <2>8
<1> QED BY <1>2, <1>3, <1>4, <1>5, <1>6 DEF LoopInv

(* The steps of the world, of the clock and of pselect leave the graph as  *)
(* it is.                                                                  *)
LEMMA WorldKeeps ==
  ASSUME LoopInv,
         \/ Tick \/ (\E s \in Source, p \in Payload : Arrive(s, p))
         \/ \E s \in Source : Close(s)
  PROVE  LoopInv'
<1>0. Outside /\ Control /\ Counted /\ Called
  BY DEF LoopInv
<1>1. /\ UNCHANGED <<pc, externTime, hasFuture, ready, enabled, read, failures, lost>>
      /\ UNCHANGED graph
  BY DEF Tick, Arrive, Close, sources, faults
<1>2. (machine \in Machine /\ WindowSound(machine, lost["members"] = 0))'
  BY <1>1, SameMachine DEF LoopInv
<1>3. Control'
  BY <1>0, <1>1 DEF Control
<1>4. CASE Tick
  <2>1. Outside' /\ UNCHANGED <<input, closed>>
    <3>1. now + 1 \in 0..MaxTime
      <4>1. MaxTime \in Nat
        BY LoopAssumption
      <4> QED BY <1>0, <1>4, <4>1 DEF Outside, Tick
    <3> QED BY <1>0, <1>4, <3>1 DEF Outside, Tick
  <2>2. Counted' /\ Called'
    BY <1>0, <1>1, <2>1 DEF Counted, Called
  <2> QED BY <1>2, <1>3, <2>1, <2>2 DEF LoopInv
<1>5. ASSUME NEW s \in Source, NEW p \in Payload, Arrive(s, p) PROVE LoopInv'
  <2>1. PICK x : x = [time |-> IF Kind[s] = "evdev" THEN now ELSE 0, payload |-> p]
    OBVIOUS
  <2>2. x \in [time : 0..MaxTime, payload : Payload]
    <3>1. now \in 0..MaxTime /\ 0 \in 0..MaxTime
      BY <1>0, LoopAssumption DEF Outside
    <3> QED BY <2>1, <3>1
  <2>3. PICK l : l = Append(input[s], x)
    OBVIOUS
  <2>4. input[s] \in Inputs
    BY <1>0 DEF Outside
  <2>5. l \in Inputs /\ Len(l) = Len(input[s]) + 1 /\ l # << >>
    BY <2>2, <2>3, <2>4, AppendProperties DEF Inputs
  <2>6. input' = [input EXCEPT ![s] = l] /\ UNCHANGED <<now, closed>>
    BY <1>5, <2>1, <2>3 DEF Arrive
  <2>7. Outside'
    BY <1>0, <2>5, <2>6 DEF Outside
  <2>8. Counted'
    <3>1. ASSUME NEW z \in Source
          PROVE  read'[z] + Len(input'[z]) <= MaxInputs[z] + (IF enabled'[z] THEN 0 ELSE 1)
      <4>1. CASE z # s
        BY <1>0, <1>1, <2>6, <4>1 DEF Outside, Counted
      <4>2. CASE z = s
        <5>1. input'[z] = l
          BY <1>0, <2>6, <4>2 DEF Outside
        <5>2. PICK k \in Nat : k = Len(input[s])
          BY <2>4, LenProperties DEF Inputs
        <5>3. PICK r \in Nat : r = read[s]
          BY <1>0 DEF Counted
        <5>4. PICK y \in Nat : y = MaxInputs[s]
          BY LoopAssumption
        <5>5. r + k < y
          BY <1>5, <5>2, <5>3, <5>4 DEF Arrive
        <5>6. r + (k + 1) <= y + (IF enabled[s] THEN 0 ELSE 1)
          BY <5>5
        <5> QED BY <1>1, <2>5, <4>2, <5>1, <5>2, <5>3, <5>4, <5>6
      <4> QED BY <4>1, <4>2
    <3> QED BY <1>0, <1>1, <3>1 DEF Counted
  <2>9. Called'
    <3>1. \A z \in Source : input'[z] = << >> => input[z] = << >>
      BY <1>0, <2>5, <2>6 DEF Outside
    <3>2. \A k \in DOMAIN ready : ready[k] \in Source
      BY <1>0, LenProperties, ElementOfSeq DEF Control
    <3> QED BY <1>0, <1>1, <2>6, <3>1, <3>2 DEF Called
  <2> QED BY <1>2, <1>3, <2>7, <2>8, <2>9 DEF LoopInv
<1>6. ASSUME NEW s \in Source, Close(s) PROVE LoopInv'
  <2>1. /\ closed' = [closed EXCEPT ![s] = TRUE] /\ UNCHANGED now
        /\ \/ UNCHANGED input
           \/ Kind[s] = "evdev" /\ input' = [input EXCEPT ![s] = << >>]
    BY <1>6 DEF Close
  <2>2. << >> \in Inputs /\ Len(<< >>) = 0
    BY EmptySeq DEF Inputs
  <2>3. Outside'
    BY <1>0, <2>1, <2>2 DEF Outside
  <2>4. \A z \in Source : /\ input[z] \in Inputs
                          /\ input'[z] = input[z] \/ (z = s /\ input'[z] = << >>)
                          /\ Kind[z] = "getchar" => input'[z] = input[z]
                          /\ closed[z] => closed'[z]
    BY <1>0, <2>1 DEF Outside
  <2>5. Counted'
    <3>1. ASSUME NEW z \in Source
          PROVE  read'[z] + Len(input'[z]) <= MaxInputs[z] + (IF enabled'[z] THEN 0 ELSE 1)
      <4>1. PICK k \in Nat : k = Len(input[z])
        BY <2>4, LenProperties DEF Inputs
      <4>2. PICK r \in Nat : r = read[z]
        BY <1>0 DEF Counted
      <4>3. PICK y \in Nat : y = MaxInputs[z] + (IF enabled[z] THEN 0 ELSE 1)
        BY LoopAssumption
      <4>4. r + k <= y
        BY <1>0, <4>1, <4>2, <4>3 DEF Counted
      <4>5. Len(input'[z]) = k \/ Len(input'[z]) = 0
        BY <2>2, <2>4, <4>1
      <4>6. r + Len(input'[z]) <= y
        BY <4>4, <4>5
      <4> QED BY <1>1, <4>2, <4>3, <4>6
    <3> QED BY <1>0, <1>1, <3>1 DEF Counted
  <2>6. Called'
    <3>1. \A k \in DOMAIN ready : ready[k] \in Source
      BY <1>0, LenProperties, ElementOfSeq DEF Control
    <3> QED BY <1>0, <1>1, <2>4, <3>1 DEF Called
  <2> QED BY <1>2, <1>3, <2>3, <2>5, <2>6 DEF LoopInv
<1> QED BY <1>4, <1>5, <1>6

(* What a step leaves alone when it does no more than go on in the loop.   *)
LEMMA GoesOn ==
  ASSUME LoopInv, UNCHANGED <<env, ready, enabled, read, lost, graph>>,
         pc # "handle", pc' \in {"top", "poll", "scan", "io", "hung"},
         externTime' \in 0..MaxTime, hasFuture' \in BOOLEAN,
         failures' \in 0..MaxFailures
  PROVE  LoopInv'
<1>0. Outside /\ Control /\ Counted /\ Called
  BY DEF LoopInv
<1>1. (machine \in Machine /\ WindowSound(machine, lost["members"] = 0))'
  BY SameMachine DEF LoopInv
<1>2. Outside' /\ Counted' /\ Called'
  BY <1>0 DEF Outside, Counted, Called, env
<1>3. Control'
  BY <1>0 DEF Control
<1> QED BY <1>1, <1>2, <1>3 DEF LoopInv

LEMMA PollKeeps ==
  ASSUME LoopInv, NEW r, PollReturns(r), failures' \in 0..MaxFailures,
         r \in Seq(Source), IsInjective(r), \A k \in DOMAIN r : IsReady(r[k])
  PROVE  LoopInv'
<1>0. Outside /\ Control /\ Counted
  BY DEF LoopInv
<1>1. /\ ready' = r /\ pc' = (IF r = << >> THEN "scan" ELSE "handle")
      /\ UNCHANGED <<now, input, closed, externTime, hasFuture, enabled, read, lost>>
      /\ UNCHANGED graph
  BY DEF PollReturns, env
<1>2. (machine \in Machine /\ WindowSound(machine, lost["members"] = 0))'
  BY <1>1, SameMachine DEF LoopInv
<1>3. Outside' /\ Counted'
  BY <1>0, <1>1 DEF Outside, Counted
<1>4. Control'
  <2>1. /\ pc' \in {"top", "poll", "handle", "scan", "io", "hung", "astray"}
        /\ ready' = << >> <=> pc' # "handle"
    BY <1>1
  <2> QED BY <1>0, <1>1, <2>1 DEF Control
<1>5. Called'
  BY <1>1 DEF Called, IsReady
<1> QED BY <1>2, <1>3, <1>4, <1>5 DEF LoopInv

LEMMA NextSourceIs ==
  ASSUME Control, pc = "handle", NextSource
  PROVE  /\ Head(ready) \in Source /\ ready' = Tail(ready)
         /\ ready' \in Seq(Source)
         /\ ready' = << >> <=> pc' # "handle"
         /\ pc' \in {"scan", "handle"}
         /\ 1 \in DOMAIN ready /\ Head(ready) = ready[1]
         /\ \A k \in DOMAIN ready' : k + 1 \in DOMAIN ready /\ ready'[k] = ready[k + 1]
<1>1. ready \in Seq(Source) /\ ready # << >>
  BY DEF Control
<1>2. PICK n \in Nat : n = Len(ready) /\ DOMAIN ready = 1..n
  BY <1>1, LenProperties
<1>3. n # 0
  BY <1>1, <1>2, EmptySeq
<1>4. PICK t : t = Tail(ready)
  OBVIOUS
<1>5. /\ Head(ready) \in Source /\ t \in Seq(Source) /\ Len(t) = n - 1
      /\ Head(ready) = ready[1]
  BY <1>1, <1>2, <1>4, HeadTailProperties
<1>6. \A k \in 1..(n - 1) : t[k] = ready[k + 1]
  BY <1>1, <1>2, <1>4, <1>5, HeadTailProperties
<1>7. DOMAIN t = 1..(n - 1)
  BY <1>5, LenProperties
<1>8. t = << >> <=> n = 1
  BY <1>2, <1>3, <1>5, EmptySeq
<1>9. ready' = t /\ pc' = (IF n = 1 THEN "scan" ELSE "handle")
  BY <1>2, <1>4 DEF NextSource
<1>10. 1 \in 1..n /\ \A k \in 1..(n - 1) : k + 1 \in 1..n
  BY <1>3
<1>11. /\ t = << >> <=> pc' # "handle"
       /\ pc' \in {"scan", "handle"}
  BY <1>8, <1>9
<1> QED BY <1>2, <1>4, <1>5, <1>6, <1>7, <1>9, <1>10, <1>11

(* The sources behind the first are as they were reported.                 *)
LEMMA OthersCalled ==
  ASSUME Control, Called, pc = "handle", NextSource,
         UNCHANGED closed,
         \A z \in Source \ {Head(ready)} : input'[z] = input[z] /\ enabled'[z] = enabled[z]
  PROVE  Called'
<1>1. /\ Head(ready) \in Source
      /\ 1 \in DOMAIN ready /\ Head(ready) = ready[1]
      /\ \A k \in DOMAIN ready' : k + 1 \in DOMAIN ready /\ ready'[k] = ready[k + 1]
  BY NextSourceIs
<1>2. ready \in Seq(Source)
  BY DEF Control
<1>3. DOMAIN ready \subseteq Nat /\ \A k \in DOMAIN ready : ready[k] \in Source
  BY <1>2, LenProperties, ElementOfSeq
<1>4. ready' \in Seq(Source)
  BY NextSourceIs
<1>5. DOMAIN ready' \subseteq Nat \ {0}
  BY <1>4, LenProperties
<1>6. ASSUME NEW k \in DOMAIN ready'
      PROVE  ready'[k] \in Source \ {Head(ready)}
  <2>1. k + 1 \in DOMAIN ready /\ k + 1 # 1 /\ ready'[k] = ready[k + 1]
    BY <1>1, <1>5
  <2> QED BY <1>1, <1>3, <2>1 DEF Called, IsInjective
<1>7. ASSUME NEW k \in DOMAIN ready', NEW l \in DOMAIN ready', ready'[k] = ready'[l]
      PROVE  k = l
  <2>1. k + 1 = l + 1
    BY <1>1, <1>7 DEF Called, IsInjective
  <2> QED BY <1>5, <2>1
<1>8. ASSUME NEW k \in DOMAIN ready'
      PROVE  /\ enabled'[ready'[k]]
             /\ Kind[ready'[k]] = "getchar" =>
                  input'[ready'[k]] # << >> \/ closed'[ready'[k]]
  <2>1. /\ enabled[ready'[k]]
        /\ Kind[ready'[k]] = "getchar" =>
             input[ready'[k]] # << >> \/ closed[ready'[k]]
    BY <1>1 DEF Called
  <2> QED BY <1>6, <2>1
<1> QED BY <1>7, <1>8 DEF Called, IsInjective

LEMMA FailingReadKeeps ==
  ASSUME LoopInv, HandleFails
  PROVE  LoopInv'
<1>0. Outside /\ Control /\ Counted /\ Called
  BY DEF LoopInv
<1>1. /\ pc = "handle" /\ NextSource /\ failures < MaxFailures
      /\ failures' = failures + 1
      /\ UNCHANGED <<now, input, closed, externTime, hasFuture, enabled, read, lost>>
      /\ UNCHANGED graph
  BY DEF HandleFails, env
<1>2. (machine \in Machine /\ WindowSound(machine, lost["members"] = 0))'
  BY <1>1, SameMachine DEF LoopInv
<1>3. Outside' /\ Counted'
  BY <1>0, <1>1 DEF Outside, Counted
<1>4. Called'
  BY <1>0, <1>1, OthersCalled
<1>5. failures' \in 0..MaxFailures
  BY <1>0, <1>1, LoopAssumption DEF Control
<1>6. /\ ready' \in Seq(Source) /\ (ready' = << >> <=> pc' # "handle")
      /\ pc' \in {"scan", "handle"}
  BY <1>0, <1>1, NextSourceIs
<1>7. Control'
  BY <1>0, <1>1, <1>5, <1>6 DEF Control
<1> QED BY <1>2, <1>3, <1>4, <1>7 DEF LoopInv

(* A handle_io that makes events of what was read.                         *)
LEMMA HandleIoKeeps ==
  ASSUME LoopInv, pc = "handle", NEW q \in Seq(Event), HandleIo(q),
         \A k \in 1..Len(q) : q[k].pos \notin WindowNode,
         Kind[Head(ready)] = "evdev" \/ Kind[Head(ready)] = "getchar"
  PROVE  LoopInv'
<1>0. Outside /\ Control /\ Counted /\ Called
  BY DEF LoopInv
<1>1. PICK s : s = Head(ready)
  OBVIOUS
<1>2. /\ NextSource
      /\ events' = FoldLeft(Created, events, q)
      /\ read' = [read EXCEPT ![s] = read[s] + InputsRead(s)]
      /\ input' = [input EXCEPT ![s] = InputLeft(s)]
      /\ enabled' = [enabled EXCEPT ![s] = StillEnabled(s)]
      /\ UNCHANGED <<now, closed, externTime, hasFuture, failures, lost, waiting,
                     memory, predicates, buffer, members, skip, issued, delivered>>
  BY <1>1 DEF HandleIo, faults
<1>3. /\ s \in Source /\ 1 \in DOMAIN ready /\ s = ready[1]
      /\ ready' \in Seq(Source) /\ (ready' = << >> <=> pc' # "handle")
      /\ pc' \in {"scan", "handle"}
  BY <1>0, <1>1, <1>2, NextSourceIs
<1>4. enabled[s] /\ (Kind[s] = "getchar" => input[s] # << >> \/ closed[s])
  BY <1>0, <1>3 DEF Called
<1>5. /\ input[s] \in Inputs
      /\ InputLeft(s) \in Inputs /\ InputsRead(s) \in Nat
      /\ StillEnabled(s) \in BOOLEAN
      /\ InputsRead(s) + Len(InputLeft(s))
           <= Len(input[s]) + (IF StillEnabled(s) THEN 0 ELSE 1)
  <2>1. input[s] \in Inputs
    BY <1>0, <1>3 DEF Outside
  <2>2. PICK n \in Nat : n = Len(input[s])
    BY <2>1, LenProperties DEF Inputs
  <2>3. << >> \in Inputs /\ Len(<< >>) = 0
    BY EmptySeq DEF Inputs
  <2>4. StillEnabled(s) \in BOOLEAN
    BY DEF StillEnabled
  <2>5. CASE Kind[s] = "evdev"
    <3>1. InputLeft(s) = << >> /\ InputsRead(s) = n
      BY <2>2, <2>5 DEF InputLeft, InputsRead
    <3>2. n + 0 <= n + (IF StillEnabled(s) THEN 0 ELSE 1)
      OBVIOUS
    <3> QED BY <2>1, <2>2, <2>3, <2>4, <3>1, <3>2
  <2>6. CASE Kind[s] = "getchar" /\ input[s] = << >>
    <3>1. InputLeft(s) = << >> /\ InputsRead(s) = 1 /\ n = 0 /\ ~ StillEnabled(s)
      BY <1>4, <2>2, <2>3, <2>6 DEF InputLeft, InputsRead, StillEnabled
    <3> QED BY <2>1, <2>2, <2>3, <2>4, <3>1
  <2>7. CASE Kind[s] = "getchar" /\ input[s] # << >>
    <3>1. PICK t : t = Tail(input[s])
      OBVIOUS
    <3>2. InputLeft(s) = t /\ InputsRead(s) = 1
      BY <2>7, <3>1 DEF InputLeft, InputsRead
    <3>3. t \in Inputs /\ Len(t) = n - 1
      BY <2>1, <2>2, <2>7, <3>1, HeadTailProperties DEF Inputs
    <3>4. InputsRead(s) + Len(InputLeft(s)) = n
      BY <3>2, <3>3
    <3>5. n <= n + (IF StillEnabled(s) THEN 0 ELSE 1)
      OBVIOUS
    <3>6. InputLeft(s) \in Inputs /\ InputsRead(s) \in Nat
      BY <3>2, <3>3
    <3>7. InputsRead(s) + Len(InputLeft(s))
            <= Len(input[s]) + (IF StillEnabled(s) THEN 0 ELSE 1)
      BY <2>2, <3>4, <3>5
    <3> QED BY <2>1, <2>4, <3>6, <3>7
  <2>8. Kind[s] = "evdev" \/ Kind[s] = "getchar"
    BY <1>1
  <2> QED BY <2>5, <2>6, <2>7, <2>8
<1>6. Outside'
  BY <1>0, <1>2, <1>5 DEF Outside
<1>7. Control'
  BY <1>0, <1>2, <1>3 DEF Control
<1>8. Called'
  <2>1. \A z \in Source \ {s} : input'[z] = input[z] /\ enabled'[z] = enabled[z]
    BY <1>0, <1>2 DEF Outside, Counted
  <2> QED BY <1>0, <1>1, <1>2, <2>1, OthersCalled
<1>9. Counted'
  <2>1. ASSUME NEW z \in Source
        PROVE  read'[z] + Len(input'[z]) <= MaxInputs[z] + (IF enabled'[z] THEN 0 ELSE 1)
    <3>1. CASE z # s
      BY <1>0, <1>2, <3>1 DEF Outside, Counted
    <3>2. CASE z = s
      <4>1. /\ read'[s] = read[s] + InputsRead(s) /\ input'[s] = InputLeft(s)
            /\ enabled'[s] = StillEnabled(s)
        BY <1>0, <1>2, <1>3 DEF Outside, Counted
      <4>2. PICK r \in Nat : r = read[s]
        BY <1>0, <1>3 DEF Counted
      <4>3. PICK y \in Nat : y = MaxInputs[s]
        BY <1>3, LoopAssumption
      <4>4. PICK n \in Nat : n = Len(input[s])
        BY <1>5, LenProperties DEF Inputs
      <4>5. PICK l \in Nat : l = Len(InputLeft(s))
        BY <1>5, LenProperties DEF Inputs
      <4>6. PICK k \in Nat : k = InputsRead(s)
        BY <1>5
      <4>7. r + n <= y
        BY <1>0, <1>3, <1>4, <4>2, <4>3, <4>4 DEF Counted
      <4>8. k + l <= n + (IF StillEnabled(s) THEN 0 ELSE 1)
        BY <1>5, <4>4, <4>5, <4>6
      <4>9. (r + k) + l <= y + (IF StillEnabled(s) THEN 0 ELSE 1)
        BY <4>7, <4>8
      <4> QED BY <3>2, <4>1, <4>2, <4>3, <4>5, <4>6, <4>9
    <3> QED BY <3>1, <3>2
  <2>2. read' \in [Source -> Nat] /\ enabled' \in [Source -> BOOLEAN]
    BY <1>0, <1>2, <1>3, <1>5 DEF Counted
  <2> QED BY <2>1, <2>2 DEF Counted
<1>10. (machine \in Machine /\ WindowSound(machine, lost["members"] = 0))'
  <2>1. PICK t : t = FoldLeft(Created, events, q)
    OBVIOUS
  <2>2. machine \in Machine /\ WindowSound(machine, lost["members"] = 0)
    BY DEF LoopInv
  <2>3. events \in Seq(Event)
    BY <2>2 DEF machine, Machine
  <2>4. t \in Seq(Event) /\ ToSet(events) \subseteq ToSet(t)
    BY <2>1, <2>3, CreatingKeeps
  <2>5. machine' = [machine EXCEPT !.events = t]
    BY <1>2, <2>1 DEF machine
  <2>6. PICK m : m = [machine EXCEPT !.events = t]
    OBVIOUS
  <2>7. /\ m \in Machine /\ m.events = t
        /\ m.buffer = machine.buffer /\ m.members = machine.members
        /\ m.issued = machine.issued /\ machine.events = events
    BY <2>2, <2>4, <2>6 DEF Machine, machine
  <2>10. Told(events, machine.issued)
    BY <2>2, <2>7 DEF WindowSound
  <2>11. PICK n : n = machine.issued
    OBVIOUS
  <2>12. Told(t, n)
    BY <2>1, <2>3, <2>10, <2>11, CreatingTold
  <2>8. WindowSound(m, lost["members"] = 0)
    BY <2>2, <2>4, <2>7, <2>11, <2>12 DEF WindowSound
  <2>9. lost' = lost
    BY <1>2
  <2> QED BY <2>5, <2>6, <2>7, <2>8, <2>9
<1> QED BY <1>6, <1>7, <1>8, <1>9, <1>10 DEF LoopInv

LEMMA Becoming ==
  ASSUME NEW m \in Machine, Becomes(m)
  PROVE  machine' = m
<1>1. machine' = [events |-> m.events, waiting |-> m.waiting, memory |-> m.memory,
                  predicates |-> m.predicates, buffer |-> m.buffer,
                  members |-> m.members, skip |-> m.skip,
                  issued |-> m.issued, delivered |-> m.delivered]
  BY DEF Becomes, machine
<1> QED BY <1>1 DEF Machine

(* A handler has been called: where the windows stay sound, everything     *)
(* does.                                                                   *)
LEMMA HandleKeeps ==
  ASSUME LoopInv, pc = "scan", NEW i, NEW m,
         NEW next \in {"io", "hung", "astray"}, Handle(i, m, next),
         lost' \in [Both -> 0..MaxLost], next = "astray" => lost'["members"] # 0,
         m \in Machine, WindowSound(m, lost'["members"] = 0)
  PROVE  LoopInv'
<1>0. Outside /\ Control /\ Counted /\ Called
  BY DEF LoopInv
<1>1. /\ UNCHANGED <<now, input, closed, externTime, ready, enabled, read, failures>>
      /\ pc' = next /\ pc' \in {"io", "hung", "astray"}
      /\ hasFuture' = SeesFuture /\ Becomes(m)
  BY DEF Handle, env, sources
<1>2. machine' = m
  BY <1>1, Becoming
<1>3. Outside' /\ Counted' /\ Called'
  BY <1>0, <1>1 DEF Outside, Counted, Called
<1>4. Control'
  <2>1. hasFuture' \in BOOLEAN
    BY <1>1 DEF SeesFuture
  <2>2. ready' = << >> <=> pc' # "handle"
    BY <1>0, <1>1 DEF Control
  <2>3. lost'["members"] = 0 => pc' # "astray"
    BY <1>1
  <2> QED BY <1>0, <1>1, <2>1, <2>2, <2>3 DEF Control
<1> QED BY <1>2, <1>3, <1>4 DEF LoopInv

LEMMA MovingKeeps ==
  ASSUME LoopInv, pc = "scan", NEW i \in DOMAIN events, NEW m,
         Moves(m, machine, i), events[i].pos \notin WindowNode,
         Handle(i, m, "io"), UNCHANGED lost
  PROVE  LoopInv'
<1>1. machine \in Machine /\ WindowSound(machine, lost["members"] = 0) /\ lost \in [Both -> 0..MaxLost]
  BY DEF LoopInv, Control
<1>2. machine.events = events
  BY DEF machine
<1>3. i \in 1..Len(machine.events)
  BY <1>1, <1>2, LenProperties DEF Machine
<1>4. m \in Machine
  BY DEF Moves
<1>5. WindowSound(m, lost["members"] = 0)
  BY <1>1, <1>2, <1>3, MovesKeepWindows
<1> QED BY <1>1, <1>4, <1>5, HandleKeeps

(* What a handler does that is not the one of a window.                    *)
Passing(i, m) ==
  /\ events[i].pos \notin WindowNode /\ HasHandler(events[i].pos)
  /\ Moves(m, machine, i)
  /\ Handle(i, m, "io") /\ UNCHANGED lost

LEMMA HandlerMoves ==
  ASSUME LoopInv, NEW i \in DOMAIN events, HandleAt(i)
  PROVE  \/ SkipAtWindow(i) \/ \E taken \in SUBSET Both : BufferAtWindow(i, taken)
         \/ GoAstrayAtWindow(i) \/ \E m : Passing(i, m)
<1>1. machine \in Machine /\ machine.events = events /\ i \in 1..Len(machine.events)
  <2>1. machine.events = events /\ machine \in Machine
    BY DEF machine, LoopInv
  <2> QED BY <2>1, LenProperties DEF Machine
<1>2. CASE HandleAtChannel(i)
  <2>1. events[i].pos \in Channel /\ events[i].pos \notin WindowNode
    BY <1>2, GraphAssumption DEF HandleAtChannel, WindowNode
  <2>2. PICK m : m = AtChannel(machine, i)
    OBVIOUS
  <2>3. Moves(m, machine, i)
    BY <1>1, <2>1, <2>2, ChannelMoves
  <2>4. HasHandler(events[i].pos)
    BY <1>2 DEF HandleAtChannel, HasHandler
  <2> QED BY <1>1, <1>2, <2>1, <2>2, <2>3, <2>4 DEF HandleAtChannel, Passing
<1>3. CASE HandleAtForward(i)
  <2>1. events[i].pos \in Node /\ events[i].pos \notin WindowNode
    BY <1>3 DEF HandleAtForward, AtKind, WindowNode
  <2>2. PICK m : m = AtForward(machine, i)
    OBVIOUS
  <2>3. Moves(m, machine, i)
    BY <1>1, <2>1, <2>2, ForwardMoves
  <2>4. HasHandler(events[i].pos)
    BY <1>3 DEF HandleAtForward, HasHandler, AtKind
  <2> QED BY <1>1, <1>3, <2>1, <2>2, <2>3, <2>4 DEF HandleAtForward, Passing
<1>4. CASE HandleAtAssign(i)
  <2>1. /\ events[i].pos \in Node /\ events[i].pos \notin WindowNode
        /\ Kind[events[i].pos] = "assign"
    BY <1>4 DEF HandleAtAssign, AtKind, WindowNode
  <2>2. PICK m : m = AtAssign(machine, i)
    OBVIOUS
  <2>3. Moves(m, machine, i)
    BY <1>1, <2>1, <2>2, AssignMoves
  <2>4. HasHandler(events[i].pos)
    BY <1>4 DEF HandleAtAssign, HasHandler, AtKind
  <2> QED BY <1>1, <1>4, <2>1, <2>2, <2>3, <2>4 DEF HandleAtAssign, Passing
<1>5. CASE HandleAtComputing(i)
  <2>1. events[i].pos \in ComputingNode /\ events[i].pos \notin WindowNode
    BY <1>5 DEF HandleAtComputing, AtKind, WindowNode, ComputingNode
  <2>2. PICK m : m = AtComputing(machine, i)
    OBVIOUS
  <2>3. Moves(m, machine, i)
    BY <1>1, <2>1, <2>2, ComputingMoves
  <2>4. HasHandler(events[i].pos)
    BY <1>5 DEF HandleAtComputing, HasHandler, AtKind
  <2> QED BY <1>1, <1>5, <2>1, <2>2, <2>3, <2>4 DEF HandleAtComputing, Passing
<1>6. CASE HandleAtModifyPredicate(i)
  <2>1. events[i].pos \notin WindowNode
    BY <1>6 DEF HandleAtModifyPredicate, AtKind, WindowNode
  <2>2. PICK m : m = AtModifyPredicate(machine, i)
    OBVIOUS
  <2>3. Moves(m, machine, i)
    BY <1>1, <2>2, ModifyPredicateMoves
  <2>4. HasHandler(events[i].pos)
    BY <1>6 DEF HandleAtModifyPredicate, HasHandler, AtKind
  <2> QED BY <1>1, <1>6, <2>1, <2>2, <2>3, <2>4 DEF HandleAtModifyPredicate, Passing
<1>7. CASE HandleAtSink(i)
  <2>1. events[i].pos \in Node /\ events[i].pos \notin WindowNode
    BY <1>7 DEF HandleAtSink, AtKind, WindowNode
  <2>2. PICK m : m = AtSink(machine, i)
    OBVIOUS
  <2>3. Moves(m, machine, i)
    BY <1>1, <2>1, <2>2, SinkMoves
  <2>4. HasHandler(events[i].pos)
    BY <1>7 DEF HandleAtSink, HasHandler, AtKind
  <2> QED BY <1>1, <1>7, <2>1, <2>2, <2>3, <2>4 DEF HandleAtSink, Passing
<1> QED BY <1>2, <1>3, <1>4, <1>5, <1>6, <1>7 DEF HandleAt

LEMMA HandleAtKeeps ==
  ASSUME LoopInv, pc = "scan", NEW i \in Stopping, HandleAt(i)
  PROVE  LoopInv'
<1>1. /\ machine \in Machine /\ WindowSound(machine, lost["members"] = 0)
      /\ lost \in [Both -> 0..MaxLost]
      /\ machine.events = events /\ i \in DOMAIN events /\ i \in 1..Len(machine.events)
  <2>1. i \in DOMAIN events
    BY DEF Stopping
  <2>2. machine.events = events /\ machine \in Machine
    BY DEF machine, LoopInv
  <2> QED BY <2>1, <2>2, LenProperties DEF LoopInv, Control, Machine
<1>2. ASSUME events[i].pos \in WindowNode, Due(events[i])
      PROVE  ~ Rejects(machine, i)
  <2>1. HasHandler(events[i].pos)
    BY <1>2 DEF HasHandler, WindowNode
  <2> QED BY <1>1, <1>2, <2>1 DEF Stopping, Buffered
<1>3. CASE SkipAtWindow(i)
  <2>1. events[i].pos \in WindowNode
    BY <1>3 DEF SkipAtWindow, AtKind, WindowNode
  <2>2. PICK m : m = AtWindowSkip(machine, i)
    OBVIOUS
  <2>3. /\ Skips(machine, i) /\ ~ Astray(machine, i)
        /\ Handle(i, m, "io") /\ UNCHANGED lost
    BY <1>3, <2>2 DEF SkipAtWindow
  <2>4. ~ Rejects(machine, i)
    BY <1>2, <2>1, <2>3 DEF Handle
  <2>5. m \in Machine /\ WindowSound(m, lost["members"] = 0)
    BY <1>1, <2>1, <2>2, <2>3, <2>4, SkipKeepsWindows
  <2> QED BY <1>1, <2>3, <2>5, HandleKeeps
<1>4. ASSUME NEW taken \in SUBSET Both, BufferAtWindow(i, taken)
      PROVE  LoopInv'
  <2>1. events[i].pos \in WindowNode
    BY <1>4 DEF BufferAtWindow, AtKind, WindowNode
  <2>2. PICK m : m = AtWindow(machine, i, taken)
    OBVIOUS
  <2>3. PICK next \in {"io", "hung"} : Handle(i, m, next)
    BY <1>4, <2>2 DEF BufferAtWindow
  <2>4. /\ taken # Both => lost["buffer"] + lost["members"] < MaxLost
        /\ lost' = [x \in Both |-> IF x \in taken THEN lost[x] ELSE lost[x] + 1]
        /\ ~ Astray(machine, i)
    BY <1>4 DEF BufferAtWindow
  <2>5. /\ lost' \in [Both -> 0..MaxLost]
        /\ lost'["members"] = 0 => lost["members"] = 0 /\ "members" \in taken
    <3>1. PICK b \in 0..MaxLost : b = lost["buffer"]
      BY <1>1 DEF Both
    <3>2. PICK d \in 0..MaxLost : d = lost["members"]
      BY <1>1 DEF Both
    <3>3. MaxLost \in Nat
      BY LoopAssumption
    <3>4. taken # Both => b + d < MaxLost
      BY <2>4, <3>1, <3>2
    <3>5. taken # Both => b + 1 \in 0..MaxLost /\ d + 1 \in 0..MaxLost
      BY <3>3, <3>4
    <3>6. d + 1 # 0
      BY <3>3
    <3>7. /\ lost'["buffer"] = (IF "buffer" \in taken THEN b ELSE b + 1)
          /\ lost'["members"] = (IF "members" \in taken THEN d ELSE d + 1)
      BY <2>4, <3>1, <3>2 DEF Both
    <3>8. \A x \in Both : lost'[x] \in 0..MaxLost
      BY <3>5, <3>7 DEF Both
    <3>9. lost' \in [Both -> 0..MaxLost]
      BY <2>4, <3>8
    <3> QED BY <3>2, <3>6, <3>7, <3>9
  <2>6. ~ Rejects(machine, i)
    BY <1>2, <2>1, <2>3 DEF Handle
  <2>7. m \in Machine /\ WindowSound(m, lost'["members"] = 0)
    BY <1>1, <2>1, <2>2, <2>4, <2>5, <2>6, BufferKeepsWindows
  <2> QED BY <2>3, <2>5, <2>7, HandleKeeps
<1>5. CASE GoAstrayAtWindow(i)
  <2>1. events[i].pos \in WindowNode
    BY <1>5 DEF GoAstrayAtWindow, AtKind, WindowNode
  <2>2. PICK m : m = machine
    OBVIOUS
  <2>3. Astray(machine, i) /\ Handle(i, m, "astray") /\ UNCHANGED lost
    BY <1>5, <2>2 DEF GoAstrayAtWindow
  <2>4. ~ Rejects(machine, i)
    BY <1>2, <2>1, <2>3 DEF Handle
  <2>5. lost["members"] # 0
    BY <1>1, <2>1, <2>3, <2>4, BeforeSkipIs
  <2> QED BY <1>1, <2>2, <2>3, <2>5, HandleKeeps
<1>6. ASSUME NEW m, Passing(i, m) PROVE LoopInv'
  BY <1>1, <1>6, MovingKeeps DEF Passing
<1> QED BY <1>1, <1>3, <1>4, <1>5, <1>6, HandlerMoves

(* What a handle_io makes: events of its own source, numbered behind those *)
(* of what it has read before.                                             *)
FromReading(q) ==
  LET s == Head(ready)
  IN  /\ q \in Seq(Event) /\ pc = "handle" /\ HandleIo(q)
      /\ s \in Source /\ InputsRead(s) \in Nat
      /\ Batch(q, s, read[s], read[s] + InputsRead(s))
      /\ \/ Kind[s] = "evdev" /\ \E skew \in 0..MaxSkew : q = EventsFromDevice(s, skew)
         \/ /\ Kind[s] = "getchar" /\ q = EventsFromStdin(s)
            /\ \A k \in 1..Len(q) : q[k].time = now

LEMMA ReadingMakes ==
  ASSUME LoopInv, HandleDevice \/ HandleStdin
  PROVE  \E q : FromReading(q)
<1>0. Outside /\ Control /\ Counted
  BY DEF LoopInv
<1>1. PICK s : s = Head(ready)
  OBVIOUS
<1>2. pc = "handle" /\ s \in Source /\ input[s] \in Inputs /\ read[s] \in Nat
  <2>1. pc = "handle" /\ NextSource
    BY DEF HandleDevice, HandleStdin, HandleIo
  <2>2. s \in Source
    BY <1>0, <1>1, <2>1, NextSourceIs
  <2> QED BY <1>0, <2>1, <2>2 DEF Outside, Counted
<1>3. CASE HandleDevice
  <2>1. PICK skew \in 0..MaxSkew :
          /\ \A k \in DOMAIN EventsFromDevice(s, skew) :
               EventsFromDevice(s, skew)[k].time <= MaxTime
          /\ HandleIo(EventsFromDevice(s, skew))
    BY <1>1, <1>3 DEF HandleDevice
  <2>2. PICK q : q = EventsFromDevice(s, skew)
    OBVIOUS
  <2>3. q \in Seq(Stamped) /\ Batch(q, s, read[s], read[s] + Len(input[s]))
    BY <1>2, <2>2, DeviceEvents
  <2>4. q \in Seq(Event)
    <3>1. \A k \in 1..Len(q) : q[k].time <= MaxTime
      BY <2>1, <2>2, <2>3, LenProperties
    <3> QED BY <2>3, <3>1, InTime
  <2>5. Kind[s] = "evdev"
    BY <1>1, <1>3 DEF HandleDevice
  <2>6. InputsRead(s) = Len(input[s]) /\ Len(input[s]) \in Nat
    BY <1>2, <2>5, LenProperties DEF InputsRead, Inputs
  <2>7. FromReading(q)
    BY <1>1, <1>2, <2>1, <2>2, <2>3, <2>4, <2>5, <2>6 DEF FromReading
  <2> QED BY <2>7
<1>4. CASE HandleStdin
  <2>1. PICK q : q = EventsFromStdin(s)
    OBVIOUS
  <2>2. Kind[s] = "getchar" /\ HandleIo(q)
    BY <1>1, <1>4, <2>1 DEF HandleStdin
  <2>3. /\ q \in Seq(Event) /\ Batch(q, s, read[s], read[s] + 1)
        /\ \A k \in 1..Len(q) : q[k].time = now
    BY <1>0, <1>2, <2>1, StdinEvents DEF Outside
  <2>4. InputsRead(s) = 1
    BY <2>2 DEF InputsRead
  <2>5. FromReading(q)
    BY <1>1, <1>2, <2>1, <2>2, <2>3, <2>4 DEF FromReading
  <2> QED BY <2>5
<1> QED BY <1>3, <1>4

LEMMA NextKeeps == LoopInv /\ [Next]_vars => LoopInv'
<1> SUFFICES ASSUME LoopInv, [Next]_vars PROVE LoopInv'
  OBVIOUS
<1>0. Outside /\ Control /\ Counted /\ Called
  BY DEF LoopInv
<1>1. /\ now \in 0..MaxTime /\ externTime \in 0..MaxTime /\ 0 \in 0..MaxTime
      /\ hasFuture \in BOOLEAN /\ failures \in 0..MaxFailures
  BY <1>0, LoopAssumption DEF Outside, Control
<1>2. CASE UNCHANGED vars
  <2>1. UNCHANGED <<now, input, closed, pc, externTime, hasFuture, ready, enabled,
                    read, failures, lost>>
    BY <1>2 DEF vars, env, sources, faults
  <2>2. (machine \in Machine /\ WindowSound(machine, lost["members"] = 0))'
    BY <1>2, <2>1, SameMachine DEF LoopInv, vars
  <2>3. Outside' /\ Control' /\ Counted' /\ Called'
    BY <1>0, <2>1 DEF Outside, Control, Counted, Called
  <2> QED BY <2>2, <2>3 DEF LoopInv
<1>3. CASE \/ Tick \/ (\E s \in Source, p \in Payload : Arrive(s, p))
           \/ \E s \in Source : Close(s)
  BY <1>3, WorldKeeps
<1>4. CASE BeginIteration
  <2>1. /\ UNCHANGED <<env, ready, enabled, read, lost, graph>>
        /\ pc # "handle" /\ pc' = "poll" /\ externTime' = now
        /\ hasFuture' = hasFuture /\ failures' = failures
    BY <1>4 DEF BeginIteration, sources, faults
  <2> QED BY <1>1, <2>1, GoesOn
<1>5. CASE BlockingIo \/ PendingIo
  BY <1>1, <1>5, ReadyIs, PollKeeps DEF BlockingIo, PendingIo
<1>6. CASE FailedIo
  <2>1. PICK r : r = << >>
    OBVIOUS
  <2>2. /\ r \in Seq(Source) /\ IsInjective(r) /\ \A k \in DOMAIN r : IsReady(r[k])
    <3>1. DOMAIN r = {}
      BY <2>1
    <3> QED BY <2>1, <3>1, EmptySeq DEF IsInjective
  <2>3. failures' \in 0..MaxFailures
    BY <1>1, <1>6, LoopAssumption DEF FailedIo
  <2> QED BY <1>6, <2>1, <2>2, <2>3, PollKeeps DEF FailedIo
<1>7. CASE HandleDevice \/ HandleStdin
  <2>1. PICK q : FromReading(q)
    BY <1>7, ReadingMakes
  <2> QED BY <2>1, HandleIoKeeps DEF FromReading, Batch
<1>8. CASE HandleFails
  BY <1>8, FailingReadKeeps
<1>9. CASE HandleEvent
  <2>1. PICK i \in Stopping : pc = "scan" /\ HandleAt(i)
    BY <1>9 DEF HandleEvent
  <2> QED BY <2>1, HandleAtKeeps
<1>10. CASE EndPass
  <2>1. /\ UNCHANGED <<env, ready, enabled, read, lost, graph>> /\ failures' = failures
        /\ pc # "handle" /\ pc' \in {"io", "top"}
        /\ externTime' = externTime \/ externTime' = 0
        /\ hasFuture' = SeesFuture
    BY <1>10 DEF EndPass, sources, faults
  <2>2. hasFuture' \in BOOLEAN
    BY <2>1 DEF SeesFuture
  <2> QED BY <1>1, <2>1, <2>2, GoesOn
<1> QED
  BY <1>2, <1>3, <1>4, <1>5, <1>6, <1>7, <1>8, <1>9, <1>10 DEF Next

(* Every variable keeps to its type: no list, table or counter leaves its  *)
(* bounds, whatever comes in and whatever fails.  A source makes at most   *)
(* one event more than it has inputs, the one for its end of file.         *)
THEOREM TypeCorrect == Spec => []TypeOK
<1>1. LoopInv => TypeOK
  BY LoopInvSound
<1> QED BY <1>1, InitIsSound, NextKeeps, PTL DEF Spec

(* What a window has in its buffer or its set stands in the event list at  *)
(* the window, on any graph, whatever copies of an event come to it on     *)
(* whatever ways: up to the moment at which its handler gives away an      *)
(* event that it keeps in its buffer.  Only a failed event_set_add brings  *)
(* that moment about: unless one has failed no pointer ever dangles, and   *)
(* the buffer holds no event twice.                                        *)
THEOREM NothingDangles == Spec => []BufferListed
<1>1. LoopInv => BufferListed
  BY LoopInvSound
<1> QED BY <1>1, InitIsSound, NextKeeps, PTL DEF Spec

-----------------------------------------------------------------------------
(***************************************************************************)
(* Where no node makes events wait, inputs do not overtake each other.     *)
(***************************************************************************)

(* x may come before y.                                                    *)
MayPrecede(x, y) ==
  x.src = y.src /\ x.n > y.n => x.time < y.time /\ Kind[x.src] = "evdev"

EachInOrder(s) == \A i, j \in 1..Len(s) : i < j => MayPrecede(s[i], s[j])

(* What has a handler still may come before a sink; what has none (an      *)
(* event for an unset connector, or at a source) stays where it is.  All   *)
(* there is has been read, and what getchar has read is stamped by then.   *)
InOrder(m, counted, t) ==
  /\ \A n \in Node : ~ m.waiting[n]
  /\ EachInOrder(m.events) /\ EachInOrder(m.delivered)
  /\ \A d \in ToSet(m.delivered) : \A e \in ToSet(m.events) :
       HasHandler(e.pos) => MayPrecede(d, e)
  /\ \A x \in ToSet(m.events) \union ToSet(m.delivered) :
       /\ x.n <= counted[x.src]
       /\ Kind[x.src] = "getchar" => x.time <= t

LEMMA CopiesPrecede ==
  ASSUME NEW x, NEW y, NEW x2, NEW y2, IsCopy(x2, x), IsCopy(y2, y), MayPrecede(x, y)
  PROVE  MayPrecede(x2, y2)
BY DEF IsCopy, MayPrecede

LEMMA EqualsPrecede ==
  ASSUME NEW x, NEW y, x.n \in Nat, x.n = y.n
  PROVE  MayPrecede(x, y)
BY DEF MayPrecede

(* Where the events of a list come from after one has been replaced: o[j]  *)
(* is the place that the j-th of them, or the event it is a copy of, had.  *)
ComesFrom(o, t, s, i) ==
  /\ o \in [1..Len(t) -> 1..Len(s)]
  /\ \A j \in 1..Len(t) : IsCopy(t[j], s[o[j]]) /\ (o[j] # i => t[j] = s[o[j]])
  /\ \A j, k \in 1..Len(t) : j < k => o[j] <= o[k]

LEMMA ReplacedComesFrom ==
  ASSUME NEW s \in Seq(Event), NEW i \in 1..Len(s), NEW r \in Seq(Event),
         AreCopies(r, s[i])
  PROVE  \E o : ComesFrom(o, Replaced(s, i, r), s, i)
<1>1. PICK t : t = Replaced(s, i, r)
  OBVIOUS
<1>2. t \in Seq(Event) /\ IsSpliced(t, s, i - 1, r, i)
  BY <1>1, ReplacedIs
<1>3. PICK n \in Nat : n = Len(s)
  BY LenProperties
<1>4. PICK k \in Nat : k = Len(r)
  BY LenProperties
<1>5. PICK z \in Nat : z = Len(t)
  BY <1>2, LenProperties
<1>6. i \in 1..n /\ z = (i - 1) + k + (n - i)
  BY <1>2, <1>3, <1>4, <1>5 DEF IsSpliced
<1>7. PICK o : o = [j \in 1..z |-> IF j <= i - 1 THEN j
                                   ELSE IF j <= (i - 1) + k THEN i
                                   ELSE (j - (i - 1) - k) + i]
  OBVIOUS
<1>8. ASSUME NEW j \in 1..z
      PROVE  /\ o[j] \in 1..n
             /\ IsCopy(t[j], s[o[j]]) /\ (o[j] # i => t[j] = s[o[j]])
  <2>1. CASE j <= i - 1
    <3>1. o[j] = j /\ j \in 1..n
      BY <1>6, <1>7, <2>1
    <3>2. t[j] = s[j]
      BY <1>2, <1>5, <2>1 DEF IsSpliced
    <3> QED BY <3>1, <3>2 DEF IsCopy
  <2>2. CASE i - 1 < j /\ j <= (i - 1) + k
    <3>1. o[j] = i
      BY <1>6, <1>7, <2>2
    <3>2. t[j] = r[j - (i - 1)] /\ j - (i - 1) \in 1..k
      BY <1>2, <1>4, <1>5, <2>2 DEF IsSpliced
    <3>3. IsCopy(t[j], s[i])
      BY <1>4, <3>2 DEF AreCopies
    <3> QED BY <1>6, <3>1, <3>3
  <2>3. CASE (i - 1) + k < j
    <3>1. o[j] = (j - (i - 1) - k) + i
      BY <1>6, <1>7, <2>3
    <3>2. /\ (j - (i - 1) - k) + i \in (i + 1)..n
          /\ t[j] = s[(j - (i - 1) - k) + i]
      BY <1>2, <1>3, <1>4, <1>5, <2>3 DEF IsSpliced
    <3>3. o[j] \in 1..n
      BY <1>6, <3>1, <3>2
    <3> QED BY <3>1, <3>2, <3>3 DEF IsCopy
  <2> QED BY <1>6, <2>1, <2>2, <2>3
<1>9. ASSUME NEW j \in 1..z, NEW l \in 1..z, j < l PROVE o[j] <= o[l]
  BY <1>6, <1>7, <1>9
<1>10. o \in [1..z -> 1..n]
  BY <1>7, <1>8
<1>11. ComesFrom(o, t, s, i)
  BY <1>3, <1>5, <1>8, <1>9, <1>10 DEF ComesFrom
<1> QED BY <1>1, <1>11

(* A handler is called for the first event that has one: nothing that may  *)
(* still come before a sink is ahead of it.                                *)
LEMMA MovesKeepOrder ==
  ASSUME NEW m \in Machine, NEW i \in 1..Len(m.events), NEW m2,
         NEW counted, NEW t, InOrder(m, counted, t), Moves(m2, m, i),
         HasHandler(m.events[i].pos),
         \A j \in 1..Len(m.events) : j < i => ~ HasHandler(m.events[j].pos)
  PROVE  InOrder(m2, counted, t)
<1>1. PICK e : e = m.events[i]
  OBVIOUS
<1>2. PICK s : s = m.events
  OBVIOUS
<1>3. s \in Seq(Event) /\ e \in Event /\ e \in ToSet(s) /\ i \in 1..Len(s) /\ e = s[i]
  BY <1>1, <1>2, EventAt
<1>4. PICK z : z = m2.events
  OBVIOUS
<1>5. PICK r \in Seq(Event) : AreCopies(r, s[i]) /\ z = Replaced(s, i, r)
  BY <1>1, <1>2, <1>4 DEF Moves
<1>6. PICK o : ComesFrom(o, z, s, i)
  BY <1>3, <1>5, ReplacedComesFrom
<1>7. /\ DOMAIN s = 1..Len(s) /\ Len(s) \in Nat
      /\ \A j \in 1..Len(s) : s[j] \in ToSet(s) /\ s[j].n \in Nat
  <2>1. /\ DOMAIN s = 1..Len(s) /\ Len(s) \in Nat
        /\ \A j \in 1..Len(s) : s[j] \in Event
    BY <1>3, LenProperties, ElementOfSeq
  <2>2. \A f \in Event : f.n \in Nat
    BY DEF Event
  <2> QED BY <2>1, <2>2 DEF ToSet
<1>8. m2 \in Machine /\ z \in Seq(Event) /\ DOMAIN z = 1..Len(z)
  <2>1. m2 \in Machine
    BY DEF Moves
  <2> QED BY <1>4, <2>1, LenProperties DEF Machine
<1>9. /\ \A j \in 1..Len(z) : /\ o[j] \in 1..Len(s)
                              /\ IsCopy(z[j], s[o[j]])
                              /\ o[j] # i => z[j] = s[o[j]]
      /\ \A j, k \in 1..Len(z) : j < k => o[j] <= o[k]
  BY <1>6 DEF ComesFrom
<1>10. /\ \A n \in Node : ~ m.waiting[n]
       /\ \A j, k \in 1..Len(s) : j < k => MayPrecede(s[j], s[k])
       /\ EachInOrder(m.delivered)
       /\ \A d \in ToSet(m.delivered) : \A f \in ToSet(s) :
            HasHandler(f.pos) => MayPrecede(d, f)
       /\ \A x \in ToSet(s) \union ToSet(m.delivered) :
            /\ x.n <= counted[x.src]
            /\ Kind[x.src] = "getchar" => x.time <= t
  BY <1>2 DEF InOrder, EachInOrder
<1>11. \A n \in Node : ~ m2.waiting[n]
  BY <1>10 DEF Moves
<1>12. EachInOrder(z)
  <2>1. ASSUME NEW j \in 1..Len(z), NEW k \in 1..Len(z), j < k
        PROVE  MayPrecede(z[j], z[k])
    <3>1. MayPrecede(s[o[j]], s[o[k]])
      <4>1. CASE o[j] = o[k]
        BY <1>7, <1>9, <4>1, EqualsPrecede
      <4>2. CASE o[j] # o[k]
        <5>1. o[j] < o[k]
          BY <1>7, <1>9, <2>1, <4>2
        <5> QED BY <1>9, <1>10, <5>1
      <4> QED BY <4>1, <4>2
    <3> QED BY <1>9, <3>1, CopiesPrecede
  <2> QED BY <2>1 DEF EachInOrder
<1>13. ASSUME NEW f \in ToSet(z), HasHandler(f.pos)
       PROVE  \E g \in ToSet(s) : /\ IsCopy(f, g) /\ HasHandler(g.pos)
                                  /\ MayPrecede(e, g)
  <2>1. PICK j \in 1..Len(z) : f = z[j]
    BY <1>8 DEF ToSet
  <2>2. PICK k \in 1..Len(s) : k = o[j]
    BY <1>9
  <2>3. IsCopy(f, s[k]) /\ (k # i => f = s[k])
    BY <1>9, <2>1, <2>2
  <2>4. CASE k = i
    BY <1>1, <1>2, <1>3, <1>7, <2>3, <2>4, EqualsPrecede
  <2>5. CASE k # i
    <3>1. ~ (k < i)
      BY <1>2, <1>13, <2>3, <2>5
    <3>2. i < k
      BY <1>3, <1>7, <2>5, <3>1
    <3>3. MayPrecede(e, s[k])
      BY <1>3, <1>10, <3>2
    <3> QED BY <1>7, <1>13, <2>3, <2>5, <3>3
  <2> QED BY <2>4, <2>5
<1>14. ASSUME NEW f \in ToSet(z)
       PROVE  /\ f.n <= counted[f.src]
              /\ Kind[f.src] = "getchar" => f.time <= t
  <2>1. PICK j \in 1..Len(z) : f = z[j]
    BY <1>8 DEF ToSet
  <2>2. PICK g \in ToSet(s) : IsCopy(f, g)
    BY <1>7, <1>9, <2>1
  <2> QED BY <1>10, <2>2 DEF IsCopy
<1>15. CASE m2.delivered = m.delivered
  <2>1. \A d \in ToSet(m.delivered) : \A f \in ToSet(z) :
          HasHandler(f.pos) => MayPrecede(d, f)
    <3>1. ASSUME NEW d \in ToSet(m.delivered), NEW f \in ToSet(z), HasHandler(f.pos)
          PROVE  MayPrecede(d, f)
      <4>1. PICK g \in ToSet(s) : IsCopy(f, g) /\ HasHandler(g.pos)
        BY <1>13, <3>1
      <4>2. MayPrecede(d, g) /\ IsCopy(d, d)
        BY <1>10, <4>1 DEF IsCopy
      <4> QED BY <4>1, <4>2, CopiesPrecede
    <3> QED BY <3>1
  <2> QED BY <1>4, <1>10, <1>11, <1>12, <1>14, <1>15, <2>1 DEF InOrder
<1>16. CASE \E d \in Delivery : IsCopy(d, e) /\ m2.delivered = Append(m.delivered, d)
  <2>1. PICK d \in Delivery : IsCopy(d, e) /\ m2.delivered = Append(m.delivered, d)
    BY <1>16
  <2>2. PICK y : y = Append(m.delivered, d)
    OBVIOUS
  <2>3. PICK n \in Nat : n = Len(m.delivered) /\ DOMAIN m.delivered = 1..n
    BY LenProperties DEF Machine
  <2>4. /\ m.delivered \in Seq(Delivery) /\ y \in Seq(Delivery)
        /\ Len(y) = n + 1 /\ y[n + 1] = d
        /\ \A k \in 1..n : y[k] = m.delivered[k]
        /\ ToSet(y) = ToSet(m.delivered) \union {d}
    <3>1. m.delivered \in Seq(Delivery)
      BY DEF Machine
    <3> QED BY <2>2, <2>3, <3>1, AppendProperties, AppendSet
  <2>5. \A k \in 1..n : m.delivered[k] \in ToSet(m.delivered)
    BY <2>3 DEF ToSet
  <2>6. \A x \in ToSet(m.delivered) : MayPrecede(x, d)
    <3>1. ASSUME NEW x \in ToSet(m.delivered) PROVE MayPrecede(x, d)
      <4>1. MayPrecede(x, e) /\ IsCopy(x, x)
        BY <1>1, <1>3, <1>10 DEF IsCopy
      <4> QED BY <2>1, <4>1, CopiesPrecede
    <3> QED BY <3>1
  <2>7. EachInOrder(y)
    <3>1. ASSUME NEW j \in 1..(n + 1), NEW k \in 1..(n + 1), j < k
          PROVE  MayPrecede(y[j], y[k])
      <4>1. j \in 1..n
        BY <3>1
      <4>2. CASE k = n + 1
        BY <2>4, <2>5, <2>6, <4>1, <4>2
      <4>3. CASE k # n + 1
        <5>1. k \in 1..n
          BY <4>3
        <5> QED BY <1>10, <2>3, <2>4, <3>1, <4>1, <5>1 DEF EachInOrder
      <4> QED BY <4>2, <4>3
    <3> QED BY <2>4, <3>1 DEF EachInOrder
  <2>8. ASSUME NEW x \in ToSet(y), NEW f \in ToSet(z), HasHandler(f.pos)
        PROVE  MayPrecede(x, f)
    <3>1. PICK g \in ToSet(s) : IsCopy(f, g) /\ HasHandler(g.pos) /\ MayPrecede(e, g)
      BY <1>13, <2>8
    <3>2. CASE x = d
      BY <2>1, <3>1, <3>2, CopiesPrecede
    <3>3. CASE x \in ToSet(m.delivered)
      <4>1. MayPrecede(x, g) /\ IsCopy(x, x)
        BY <1>10, <3>1, <3>3 DEF IsCopy
      <4> QED BY <3>1, <4>1, CopiesPrecede
    <3> QED BY <2>4, <3>2, <3>3
  <2>9. d.n <= counted[d.src] /\ (Kind[d.src] = "getchar" => d.time <= t)
    BY <1>3, <1>10, <2>1 DEF IsCopy
  <2>10. \A x \in ToSet(z) \union ToSet(y) :
           /\ x.n <= counted[x.src]
           /\ Kind[x.src] = "getchar" => x.time <= t
    BY <1>10, <1>14, <2>4, <2>9
  <2>11. m2.delivered = y
    BY <2>1, <2>2
  <2> QED BY <1>4, <1>11, <1>12, <2>7, <2>8, <2>10, <2>11 DEF InOrder
<1> QED BY <1>1, <1>15, <1>16 DEF Moves

(* An event that is not numbered below the listed ones of its source, and, *)
(* if getchar made it, not stamped before them, is created in order: what  *)
(* it is put ahead of is later.                                            *)
LEMMA CreatedInOrder ==
  ASSUME NEW s \in Seq(Event), NEW e \in Event, EachInOrder(s),
         \A x \in ToSet(s) : x.src = e.src =>
           x.n <= e.n /\ (Kind[e.src] # "evdev" => x.time <= e.time)
  PROVE  EachInOrder(Created(s, e))
<1>1. PICK n \in Nat : n = Len(s)
  BY LenProperties
<1>2. PICK a \in 0..n :
        a = Ahead(s, e.time) /\ \A j \in 1..n : s[j].time <= e.time => j <= a
  BY <1>1, AheadIs
<1>3. PICK t : t = Created(s, e)
  OBVIOUS
<1>4. IsInserted(t, s, e, a, n)
  BY <1>1, <1>2, <1>3, CreatedPlaces
<1>5. /\ Len(t) = n + 1
      /\ \A i \in 1..(n + 1) :
           /\ i <= a => t[i] = s[i] /\ i \in 1..n
           /\ i = a + 1 => t[i] = e
           /\ i > a + 1 => t[i] = s[i - 1] /\ i - 1 \in 1..n
  BY <1>4 DEF IsInserted
<1>6. \A j \in 1..n : s[j] \in Event /\ s[j] \in ToSet(s)
  BY <1>1, LenProperties, ElementOfSeq DEF ToSet
<1>7. \A f \in Event : f.n \in Nat /\ f.time \in Int
  BY LoopAssumption DEF Event
<1>8. ASSUME NEW j \in 1..n PROVE MayPrecede(s[j], e)
  <2>1. s[j].src = e.src => s[j].n <= e.n
    BY <1>6
  <2>2. ~ (s[j].src = e.src /\ s[j].n > e.n)
    BY <1>6, <1>7, <2>1
  <2> QED BY <2>2 DEF MayPrecede
<1>9. ASSUME NEW j \in 1..n, j > a PROVE MayPrecede(e, s[j])
  <2>1. ~ (s[j].time <= e.time)
    BY <1>2, <1>9
  <2>2. e.time < s[j].time
    BY <1>6, <1>7, <2>1
  <2>3. e.src = s[j].src => Kind[e.src] = "evdev"
    BY <1>6, <2>1
  <2> QED BY <2>2, <2>3 DEF MayPrecede
<1>10. ASSUME NEW j \in 1..(n + 1), NEW k \in 1..(n + 1), j < k
       PROVE  MayPrecede(t[j], t[k])
  <2>1. CASE k <= a
    <3>1. j <= a /\ t[j] = s[j] /\ t[k] = s[k] /\ j \in 1..n /\ k \in 1..n
      BY <1>5, <1>10, <2>1
    <3> QED BY <1>1, <1>10, <3>1 DEF EachInOrder
  <2>2. CASE k = a + 1
    <3>1. j <= a /\ t[j] = s[j] /\ t[k] = e /\ j \in 1..n
      BY <1>5, <1>10, <2>2
    <3> QED BY <1>8, <3>1
  <2>3. CASE k > a + 1 /\ j = a + 1
    <3>1. t[j] = e /\ t[k] = s[k - 1] /\ k - 1 \in 1..n /\ k - 1 > a
      BY <1>5, <2>3
    <3> QED BY <1>9, <3>1
  <2>4. CASE k > a + 1 /\ j <= a
    <3>1. /\ t[j] = s[j] /\ j \in 1..n
          /\ t[k] = s[k - 1] /\ k - 1 \in 1..n /\ j < k - 1
      BY <1>5, <2>4
    <3> QED BY <1>1, <3>1 DEF EachInOrder
  <2>5. CASE k > a + 1 /\ j > a + 1
    <3>1. /\ t[j] = s[j - 1] /\ j - 1 \in 1..n
          /\ t[k] = s[k - 1] /\ k - 1 \in 1..n /\ j - 1 < k - 1
      BY <1>5, <1>10, <2>5
    <3> QED BY <1>1, <3>1 DEF EachInOrder
  <2> QED BY <1>10, <2>1, <2>2, <2>3, <2>4, <2>5
<1> QED BY <1>3, <1>5, <1>10 DEF EachInOrder

(* A handle_io keeps the order.                                            *)
LEMMA CreatingKeepsOrder ==
  ASSUME NEW m \in Machine, NEW counted, NEW t, InOrder(m, counted, t), t \in Int,
         NEW src \in Source, NEW hi, NEW q \in Seq(Event),
         counted \in [Source -> Nat], hi \in Nat, counted[src] <= hi,
         Batch(q, src, counted[src], hi),
         \/ Kind[src] = "evdev"
         \/ Kind[src] = "getchar" /\ \A k \in 1..Len(q) : q[k].time = t
  PROVE  InOrder([m EXCEPT !.events = FoldLeft(Created, m.events, q)],
                 [counted EXCEPT ![src] = hi], t)
<1>1. PICK n \in Nat : n = Len(q) /\ DOMAIN q = 1..n /\ \A k \in 1..n : q[k] \in Event
  BY LenProperties, ElementOfSeq
<1>2. PICK s : s = m.events
  OBVIOUS
<1>3. /\ s \in Seq(Event) /\ EachInOrder(s)
      /\ \A n2 \in Node : ~ m.waiting[n2]
      /\ EachInOrder(m.delivered)
      /\ \A d \in ToSet(m.delivered) : \A e \in ToSet(s) :
           HasHandler(e.pos) => MayPrecede(d, e)
      /\ \A x \in ToSet(s) \union ToSet(m.delivered) :
           /\ x.n <= counted[x.src]
           /\ Kind[x.src] = "getchar" => x.time <= t
  BY <1>2 DEF InOrder, Machine
<1>4. \A k \in 1..n : q[k].src = src /\ q[k].n \in Nat /\ counted[src] < q[k].n /\ q[k].n <= hi
  BY <1>1 DEF Batch
<1>5. \A k, l \in 1..n : k < l => q[k].n <= q[l].n
  BY <1>1 DEF Batch
<1>6. PICK K : K = {z \in Seq(Event) : ToSet(s) \subseteq ToSet(z)}
  OBVIOUS
<1>7. ASSUME NEW k \in 1..n, NEW z \in K PROVE Created(z, q[k]) \in K
  <2>1. z \in Seq(Event) /\ ToSet(s) \subseteq ToSet(z) /\ q[k] \in Event
    BY <1>1, <1>6
  <2>2. Created(z, q[k]) \in Seq(Event)
    BY <2>1, CreatedIs
  <2>3. ToSet(Created(z, q[k])) = ToSet(z) \union {q[k]}
    BY <2>1, CreatedLists
  <2> QED BY <1>6, <2>1, <2>2, <2>3
<1>8. PICK v : v = FoldLeft(Created, s, q)
  OBVIOUS
<1>9. Creation(K, s, q, n, v)
  <2>1. s \in K
    BY <1>3, <1>6
  <2> QED BY <1>1, <1>7, <1>8, <2>1, CreatingAll
<1>10. PICK c \in [0..n -> K] :
         /\ c[0] = s
         /\ \A k \in 1..n : c[k] = Created(c[k - 1], q[k])
         /\ v = c[n]
  BY <1>9 DEF Creation
<1>11. PICK Q : Q = [k \in 0..n |->
                       {z \in K : /\ EachInOrder(z)
                                  /\ \A x \in ToSet(z) :
                                       x \in ToSet(s) \/ \E l \in 1..k : x = q[l]}]
  OBVIOUS
<1>12. c[0] \in Q[0]
  <2>1. 0 \in 0..n /\ c[0] \in K
    OBVIOUS
  <2> QED BY <1>3, <1>10, <1>11, <2>1
<1>13. ASSUME NEW k \in 1..n, c[k - 1] \in Q[k - 1] PROVE c[k] \in Q[k]
  <2>1. k - 1 \in 0..n /\ k \in 0..n
    OBVIOUS
  <2>2. PICK z \in K : z = c[k - 1]
    BY <2>1
  <2>3. /\ EachInOrder(z)
        /\ \A x \in ToSet(z) : x \in ToSet(s) \/ \E l \in 1..(k - 1) : x = q[l]
    BY <1>11, <1>13, <2>1, <2>2
  <2>4. PICK e \in Event : e = q[k]
    BY <1>1
  <2>5. ASSUME NEW x \in ToSet(z), x.src = e.src
        PROVE  x.n <= e.n /\ (Kind[e.src] # "evdev" => x.time <= e.time)
    <3>1. e.src = src /\ e.n \in Nat /\ counted[src] < e.n
      BY <1>4, <2>4
    <3>2. CASE x \in ToSet(s)
      <4>1. x.n <= counted[src] /\ (Kind[src] = "getchar" => x.time <= t)
        BY <1>3, <2>5, <3>1, <3>2
      <4>2. x.n \in Nat /\ counted[src] \in Nat
        <5>1. x \in Event
          BY <1>3, <3>2, LenProperties, ElementOfSeq DEF ToSet
        <5> QED BY <5>1 DEF Event
      <4>3. x.n <= e.n
        BY <3>1, <4>1, <4>2
      <4>4. Kind[src] # "evdev" => x.time <= e.time
        BY <1>1, <2>4, <4>1
      <4> QED BY <3>1, <4>3, <4>4
    <3>3. ASSUME NEW l \in 1..(k - 1), x = q[l]
          PROVE  x.n <= e.n /\ (Kind[e.src] # "evdev" => x.time <= e.time)
      <4>1. l \in 1..n /\ l < k
        BY <3>3
      <4>2. x.n <= e.n
        BY <1>5, <2>4, <3>3, <4>1
      <4>3. Kind[src] # "evdev" => x.time <= e.time
        BY <1>1, <2>4, <3>3, <4>1
      <4> QED BY <3>1, <4>2, <4>3
    <3> QED BY <2>3, <3>2, <3>3
  <2>6. z \in Seq(Event)
    BY <1>6
  <2>7. EachInOrder(Created(z, e))
    BY <2>3, <2>5, <2>6, CreatedInOrder
  <2>8. ToSet(Created(z, e)) = ToSet(z) \union {e}
    BY <2>6, CreatedLists
  <2>9. c[k] = Created(z, e) /\ c[k] \in K
    BY <1>10, <2>1, <2>2, <2>4
  <2>10. \A l \in 1..(k - 1) : l \in 1..k
    OBVIOUS
  <2>11. ASSUME NEW x \in ToSet(c[k])
         PROVE  x \in ToSet(s) \/ \E l \in 1..k : x = q[l]
    <3>1. CASE x = e
      <4>1. k \in 1..k
        OBVIOUS
      <4> QED BY <2>4, <3>1, <4>1
    <3>2. CASE x \in ToSet(z)
      BY <2>3, <2>10, <3>2
    <3> QED BY <2>8, <2>9, <3>1, <3>2
  <2> QED BY <1>11, <2>1, <2>7, <2>9, <2>11
<1>14. \A k \in 0..n : c[k] \in Q[k]
  BY <1>12, <1>13, Chain
<1>15. /\ v \in Seq(Event) /\ EachInOrder(v)
       /\ \A x \in ToSet(v) : x \in ToSet(s) \/ \E l \in 1..n : x = q[l]
  <2>1. n \in 0..n
    OBVIOUS
  <2>2. v \in Q[n]
    BY <1>10, <1>14, <2>1
  <2> QED BY <1>6, <1>11, <2>1, <2>2
<1>16. PICK now_counted : now_counted = [counted EXCEPT ![src] = hi]
  OBVIOUS
<1>17. /\ now_counted[src] = hi
       /\ \A z \in Source \ {src} : now_counted[z] = counted[z]
  BY <1>16
<1>18. \A x \in Event \union Delivery : x.src \in Source /\ x.n \in Nat
  BY DEF Event, Delivery
<1>19. ToSet(s) \subseteq Event /\ ToSet(m.delivered) \subseteq Delivery
  <2>1. m.delivered \in Seq(Delivery)
    BY DEF Machine
  <2> QED BY <1>3, <2>1, LenProperties, ElementOfSeq DEF ToSet
<1>20. ASSUME NEW x \in ToSet(s) \union ToSet(m.delivered)
       PROVE  x.n <= now_counted[x.src]
  <2>1. x.n <= counted[x.src] /\ x.src \in Source /\ x.n \in Nat
    BY <1>3, <1>18, <1>19
  <2>2. CASE x.src = src
    <3>1. counted[src] \in Nat
      OBVIOUS
    <3> QED BY <1>17, <2>1, <2>2, <3>1
  <2>3. CASE x.src # src
    BY <1>17, <2>1, <2>3
  <2> QED BY <2>2, <2>3
<1>21. ASSUME NEW l \in 1..n
       PROVE  /\ q[l].n <= now_counted[q[l].src]
              /\ Kind[q[l].src] = "getchar" => q[l].time <= t
  BY <1>1, <1>4, <1>17
<1>22. ASSUME NEW d \in ToSet(m.delivered), NEW e \in ToSet(v), HasHandler(e.pos)
       PROVE  MayPrecede(d, e)
  <2>1. CASE e \in ToSet(s)
    BY <1>3, <1>22, <2>1
  <2>2. ASSUME NEW l \in 1..n, e = q[l] PROVE MayPrecede(d, e)
    <3>1. d.src = src => d.n <= counted[src]
      BY <1>3
    <3>2. d.n \in Nat /\ counted[src] \in Nat
      BY <1>18, <1>19
    <3>3. ~ (d.src = e.src /\ d.n > e.n)
      BY <1>4, <2>2, <3>1, <3>2
    <3> QED BY <3>3 DEF MayPrecede
  <2> QED BY <1>15, <2>1, <2>2
<1>23. PICK m2 : m2 = [m EXCEPT !.events = v]
  OBVIOUS
<1>24. m2.events = v /\ m2.waiting = m.waiting /\ m2.delivered = m.delivered
  BY <1>23 DEF Machine
<1>25. InOrder(m2, now_counted, t)
  <2>1. \A x \in ToSet(v) \union ToSet(m.delivered) :
          /\ x.n <= now_counted[x.src]
          /\ Kind[x.src] = "getchar" => x.time <= t
    BY <1>3, <1>15, <1>20, <1>21
  <2> QED BY <1>3, <1>15, <1>22, <1>24, <2>1 DEF InOrder
<1> QED BY <1>2, <1>8, <1>16, <1>23, <1>25

OrderInv ==
  /\ WindowNode = {}
  /\ LoopInv /\ InOrder(machine, read, now)

LEMMA InOrderSound == OrderInv => DeliveredInOrder
<1> SUFFICES ASSUME OrderInv PROVE DeliveredInOrder
  OBVIOUS
<1>1. delivered \in Seq(Delivery) /\ EachInOrder(delivered)
  BY DEF OrderInv, LoopInv, InOrder, machine, Machine
<1>2. PICK n \in Nat : n = Len(delivered) /\ DOMAIN delivered = 1..n
  BY <1>1, LenProperties
<1>3. \A i, j \in 1..n : i < j => MayPrecede(delivered[i], delivered[j])
  BY <1>1, <1>2 DEF EachInOrder
<1> QED BY <1>2, <1>3 DEF DeliveredInOrder, MayPrecede

LEMMA InitInOrder == Init /\ WindowNode = {} => OrderInv
<1> SUFFICES ASSUME Init, WindowNode = {} PROVE OrderInv
  OBVIOUS
<1>1. machine = Idle
  BY DEF Init, machine, Idle
<1>2. /\ Idle.events = << >> /\ Idle.delivered = << >>
      /\ \A n \in Node : ~ Idle.waiting[n]
  BY DEF Idle
<1>3. ToSet(<< >>) = {} /\ EachInOrder(<< >>)
  BY DEF ToSet, EachInOrder
<1>4. InOrder(Idle, read, now)
  BY <1>2, <1>3 DEF InOrder
<1> QED BY <1>1, <1>4, InitIsSound DEF OrderInv

(* The clock only goes on.                                                 *)
LEMMA LaterInOrder ==
  ASSUME NEW m \in Machine, NEW counted, NEW t \in Int, NEW u \in Int,
         t <= u, InOrder(m, counted, t)
  PROVE  InOrder(m, counted, u)
<1>1. ASSUME NEW x \in ToSet(m.events) \union ToSet(m.delivered),
             Kind[x.src] = "getchar"
      PROVE  x.time <= u
  <2>1. m.events \in Seq(Event) /\ m.delivered \in Seq(Delivery)
    BY DEF Machine
  <2>2. x \in Event \union Delivery
    BY <2>1, LenProperties, ElementOfSeq DEF ToSet
  <2>3. x.time \in Int /\ x.time <= t
    BY <1>1, <2>2, LoopAssumption DEF InOrder, Event, Delivery
  <2> QED BY <2>3
<1> QED BY <1>1 DEF InOrder

(* Nothing waits, so the event a handler is called for is the first that   *)
(* has one.                                                                *)
LEMMA FirstIsHandled ==
  ASSUME OrderInv, NEW i \in Stopping, \A j \in Stopping : i <= j
  PROVE  \A j \in 1..Len(events) : j < i => ~ HasHandler(events[j].pos)
<1>1. events \in Seq(Event) /\ machine.events = events /\ machine.waiting = waiting
  BY DEF OrderInv, LoopInv, machine, Machine
<1>2. DOMAIN events = 1..Len(events) /\ Len(events) \in Nat
  BY <1>1, LenProperties
<1>3. i \in 1..Len(events)
  BY <1>2 DEF Stopping
<1>4. ASSUME NEW j \in 1..Len(events), j < i, HasHandler(events[j].pos)
      PROVE  FALSE
  <2>1. Actionable(j)
    BY <1>1, <1>4 DEF Actionable, Callable, OrderInv, InOrder
  <2>2. ~ Buffered(j)
    BY <1>1 DEF Buffered, Rejects, OrderInv
  <2>3. j \in Stopping
    BY <1>2, <2>1, <2>2 DEF Stopping
  <2>4. i <= j
    BY <2>3
  <2> QED BY <1>3, <1>4, <2>4
<1> QED BY <1>4

LEMMA HandlingKeepsOrder ==
  ASSUME OrderInv, HandleEvent
  PROVE  InOrder(machine, read, now)'
<1>1. PICK i \in Stopping : HandleAt(i) /\ \A j \in Stopping : i <= j
  BY DEF HandleEvent
<1>2. LoopInv /\ machine \in Machine /\ machine.events = events
      /\ InOrder(machine, read, now) /\ WindowNode = {}
  BY DEF OrderInv, LoopInv, machine
<1>3. i \in DOMAIN events /\ i \in 1..Len(machine.events)
  <2>1. i \in DOMAIN events
    BY DEF Stopping
  <2> QED BY <1>2, <2>1, LenProperties DEF Machine
<1>4. /\ ~ SkipAtWindow(i) /\ ~ GoAstrayAtWindow(i)
      /\ \A taken \in SUBSET Both : ~ BufferAtWindow(i, taken)
  BY <1>2 DEF SkipAtWindow, BufferAtWindow, GoAstrayAtWindow, AtKind, WindowNode
<1>5. PICK m : Passing(i, m)
  BY <1>1, <1>2, <1>3, <1>4, HandlerMoves
<1>6. m \in Machine /\ Moves(m, machine, i) /\ HasHandler(machine.events[i].pos)
  BY <1>2, <1>5 DEF Passing, Moves
<1>7. machine' = m /\ read' = read /\ now' = now
  <2>1. Becomes(m) /\ read' = read /\ now' = now
    BY <1>5 DEF Passing, Handle, env, sources
  <2> QED BY <1>6, <2>1, Becoming
<1>8. \A j \in 1..Len(machine.events) :
        j < i => ~ HasHandler(machine.events[j].pos)
  BY <1>1, <1>2, FirstIsHandled
<1>9. InOrder(m, read, now)
  BY <1>2, <1>3, <1>6, <1>8, MovesKeepOrder
<1> QED BY <1>7, <1>9

LEMMA ReadingKeepsOrder ==
  ASSUME OrderInv, HandleDevice \/ HandleStdin
  PROVE  InOrder(machine, read, now)'
<1>1. LoopInv /\ machine \in Machine /\ InOrder(machine, read, now)
      /\ now \in Int /\ read \in [Source -> Nat]
  BY LoopAssumption DEF OrderInv, LoopInv, Outside, Counted
<1>2. PICK q : FromReading(q)
  BY <1>1, ReadingMakes
<1>3. PICK s : s = Head(ready)
  OBVIOUS
<1>4. /\ q \in Seq(Event) /\ HandleIo(q) /\ s \in Source /\ InputsRead(s) \in Nat
      /\ Batch(q, s, read[s], read[s] + InputsRead(s))
      /\ \/ Kind[s] = "evdev"
         \/ Kind[s] = "getchar" /\ \A k \in 1..Len(q) : q[k].time = now
  BY <1>2, <1>3 DEF FromReading
<1>5. PICK hi \in Nat : hi = read[s] + InputsRead(s) /\ read[s] <= hi
  BY <1>1, <1>4
<1>6. InOrder([machine EXCEPT !.events = FoldLeft(Created, machine.events, q)],
              [read EXCEPT ![s] = hi], now)
  BY <1>1, <1>4, <1>5, CreatingKeepsOrder
<1>7. /\ machine' = [machine EXCEPT !.events = FoldLeft(Created, machine.events, q)]
      /\ read' = [read EXCEPT ![s] = hi] /\ now' = now
  <2>1. /\ events' = FoldLeft(Created, events, q) /\ read' = [read EXCEPT ![s] = hi]
        /\ now' = now
        /\ UNCHANGED <<waiting, memory, predicates, buffer, members, skip, issued, delivered>>
    BY <1>3, <1>4, <1>5 DEF HandleIo
  <2> QED BY <2>1 DEF machine
<1> QED BY <1>6, <1>7

LEMMA NextKeepsOrder == OrderInv /\ [Next]_vars => OrderInv'
<1> SUFFICES ASSUME OrderInv, [Next]_vars PROVE OrderInv'
  OBVIOUS
<1>1. LoopInv /\ machine \in Machine /\ InOrder(machine, read, now) /\ now \in Int
  BY LoopAssumption DEF OrderInv, LoopInv, Outside
<1>2. InOrder(machine, read, now)'
  <2>1. CASE HandleDevice \/ HandleStdin
    BY <2>1, ReadingKeepsOrder
  <2>2. CASE HandleEvent
    BY <2>2, HandlingKeepsOrder
  <2>3. CASE Tick
    <3>1. UNCHANGED graph /\ read' = read /\ now' = now + 1
      BY <2>3 DEF Tick, sources
    <3>2. now' \in Int /\ now <= now'
      BY <1>1, <3>1
    <3>3. InOrder(machine, read, now')
      BY <1>1, <3>2, LaterInOrder
    <3> QED BY <3>1, <3>3, SameMachine
  <2>4. CASE \/ UNCHANGED vars
             \/ (\E s \in Source, p \in Payload : Arrive(s, p))
             \/ (\E s \in Source : Close(s))
             \/ BeginIteration \/ BlockingIo \/ PendingIo \/ FailedIo
             \/ HandleFails \/ EndPass
    <3>1. UNCHANGED graph /\ read' = read /\ now' = now
      BY <2>4 DEF vars, env, sources, Arrive, Close, BeginIteration, BlockingIo,
         PendingIo, FailedIo, PollReturns, HandleFails, EndPass
    <3> QED BY <1>1, <3>1, SameMachine
  <2> QED BY <2>1, <2>2, <2>3, <2>4 DEF Next
<1> QED BY <1>1, <1>2, NextKeeps DEF OrderInv

(* On a graph without windows all copies of an input reach their sinks     *)
(* before any copy of a later input of that source does, unless the later  *)
(* input has got an earlier time stamp; whatever the nodes, the modifiers, *)
(* the cycles and the interleaving with other sources are.                 *)
THEOREM InputsKeepTheirOrder == WindowNode = {} => (Spec => []DeliveredInOrder)
<1>1. OrderInv => DeliveredInOrder
  BY InOrderSound
<1> QED BY <1>1, InitInOrder, NextKeepsOrder, PTL DEF Spec

-----------------------------------------------------------------------------
(***************************************************************************)
(* Sums.                                                                   *)
(***************************************************************************)

(* c[k] is the sum of the first k elements of s.                           *)
IsSum(c, s) ==
  /\ c \in [0..Len(s) -> Nat] /\ c[0] = 0
  /\ \A k \in 1..Len(s) : c[k] = c[k - 1] + s[k]
  /\ Total(s) = c[Len(s)]

LEMMA TotalIs ==
  ASSUME NEW q \in Seq(Nat)
  PROVE  \E c : IsSum(c, q)
<1>0. PICK n \in Nat : n = Len(q) /\ DOMAIN q = 1..n /\ \A k \in 1..n : q[k] \in Nat
  BY LenProperties, ElementOfSeq
<1> DEFINE G(a, k) == a + q[k]
           Is(g) == g = [s \in SUBSET (1..n) |->
                           IF s = {} THEN 0 ELSE G(g[s \ {Max(s)}], Max(s))]
<1>1. \A k \in 1..n : \A a \in Nat : G(a, k) \in Nat
  BY <1>0
<1>2. \E g : Is(g)
  <2> HIDE DEF G
  <2>1. PICK F : F = [k \in 1..n |-> [a \in Nat |-> G(a, k)]]
    OBVIOUS
  <2>2. Closed(F, n, Nat)
    BY <1>1, <2>1 DEF Closed
  <2>3. PICK f : IsTable(f, F, n, Nat, 0)
    BY <2>2, FoldTable
  <2>4. ASSUME NEW s \in SUBSET (1..n)
        PROVE  f[s] = IF s = {} THEN 0 ELSE G(f[s \ {Max(s)}], Max(s))
    <3>1. CASE s = {}
      BY <2>3, <3>1 DEF IsTable
    <3>2. CASE s # {}
      <4>1. Max(s) \in 1..n
        BY <3>2, LargestOf
      <4>2. f[s \ {Max(s)}] \in Nat
        BY <2>3 DEF IsTable
      <4>3. f[s] = F[Max(s)][f[s \ {Max(s)}]]
        BY <2>3, <3>2 DEF IsTable
      <4> QED BY <2>1, <3>2, <4>1, <4>2, <4>3
    <3> QED BY <3>1, <3>2
  <2>5. f = [s \in SUBSET (1..n) |-> f[s]]
    BY <2>3 DEF IsTable
  <2>6. Is(f)
    BY <2>4, <2>5
  <2> QED BY <2>6
<1>3. PICK it : it = CHOOSE g : g = [s \in SUBSET (1..n) |->
                           IF s = {} THEN 0 ELSE g[s \ {Max(s)}] + q[Max(s)]]
  OBVIOUS
<1>4. Is(it)
  BY <1>2, <1>3
<1>5. Total(q) = it[1..n]
  BY <1>0, <1>3 DEF Total, FoldLeft, MapThenFoldSet
<1> HIDE DEF G
<1>6. \A s \in SUBSET (1..n) : it[s] = IF s = {} THEN 0 ELSE G(it[s \ {Max(s)}], Max(s))
  BY ONLY <1>4
<1>7. PICK c : c = [k \in 0..n |-> it[1..k]]
  OBVIOUS
<1>8. c[0] = 0
  <2>1. 1..0 = {} /\ {} \in SUBSET (1..n) /\ 0 \in 0..n
    OBVIOUS
  <2>2. it[{}] = 0
    BY <1>6, <2>1
  <2> QED BY <1>7, <2>1, <2>2
<1>9. ASSUME NEW k \in 1..n PROVE c[k] = G(c[k - 1], k)
  <2>1. k \in Nat \ {0} /\ 1..k \in SUBSET (1..n) /\ k \in 0..n /\ k - 1 \in 0..n
    OBVIOUS
  <2>2. 1..k # {} /\ Max(1..k) = k /\ (1..k) \ {k} = 1..(k - 1)
    BY <2>1, InitialPart
  <2>3. it[1..k] = G(it[(1..k) \ {Max(1..k)}], Max(1..k))
    BY <1>6, <2>1, <2>2
  <2> QED BY <1>7, <2>1, <2>2, <2>3
<1>10. \A k \in 0..n : c[k] \in Nat
  <2>1. PICK Q : Q = [k \in 0..n |-> Nat]
    OBVIOUS
  <2>2. \A k \in 1..n : k - 1 \in 0..n /\ k \in 0..n
    OBVIOUS
  <2>3. c[0] \in Q[0] /\ \A k \in 1..n : c[k - 1] \in Q[k - 1] => c[k] \in Q[k]
    BY <1>1, <1>8, <1>9, <2>1, <2>2
  <2>4. \A k \in 0..n : c[k] \in Q[k]
    BY <2>3, Chain
  <2> QED BY <2>1, <2>4
<1>11. c \in [0..n -> Nat]
  BY <1>7, <1>10
<1>12. c[n] = it[1..n]
  BY <1>7
<1>13. IsSum(c, q)
  BY <1>0, <1>5, <1>8, <1>9, <1>11, <1>12 DEF G, IsSum
<1> QED BY <1>13

LEMMA TotalIsNat ==
  ASSUME NEW q \in Seq(Nat)
  PROVE  Total(q) \in Nat
<1>1. PICK c : IsSum(c, q)
  BY TotalIs
<1>2. Len(q) \in 0..Len(q)
  BY LenProperties
<1> QED BY <1>1, <1>2 DEF IsSum

(* A sum of one element, and of none.                                      *)
LEMMA SumOfOne ==
  ASSUME NEW q \in Seq(Nat)
  PROVE  /\ Len(q) = 0 => Total(q) = 0
         /\ Len(q) = 1 => Total(q) = q[1]
<1>1. PICK c : IsSum(c, q)
  BY TotalIs
<1>2. CASE Len(q) = 0
  BY <1>1, <1>2 DEF IsSum
<1>3. CASE Len(q) = 1
  <2>0. 1 \in 1..Len(q) /\ 1 - 1 = 0
    BY <1>3
  <2>1. 1 \in 1..Len(q) /\ 1 - 1 = 0 /\ q[1] \in Nat
    BY <2>0, ElementOfSeq
  <2>2. c[1] = c[1 - 1] + q[1]
    BY <1>1, <2>1 DEF IsSum
  <2>3. c[1] = q[1]
    BY <1>1, <2>1, <2>2 DEF IsSum
  <2> QED BY <1>1, <1>3, <2>3 DEF IsSum
<1> QED BY <1>2, <1>3

(* A part that is replaced takes its sum out, and its replacement brings   *)
(* its own in: of s, what stands between its first a and its last          *)
(* Len(s) - b elements has been replaced by m.                             *)
LEMMA SumSpliced ==
  ASSUME NEW s \in Seq(Nat), NEW m \in Seq(Nat), NEW t \in Seq(Nat),
         NEW a \in 0..Len(s), NEW b \in a..Len(s), IsSpliced(t, s, a, m, b),
         NEW c, IsSum(c, s)
  PROVE  Total(t) = c[a] + Total(m) + (Total(s) - c[b])
<1>1. PICK n \in Nat : n = Len(s) /\ \A k \in 1..n : s[k] \in Nat
  BY LenProperties, ElementOfSeq
<1>2. PICK l \in Nat : l = Len(m) /\ \A k \in 1..l : m[k] \in Nat
  BY LenProperties, ElementOfSeq
<1>3. PICK z \in Nat : z = Len(t)
  BY LenProperties
<1>4. a \in 0..n /\ b \in a..n /\ z = a + l + (n - b)
  BY <1>1, <1>2, <1>3 DEF IsSpliced
<1>5. PICK d : IsSum(d, t)
  BY TotalIs
<1>6. PICK e : IsSum(e, m)
  BY TotalIs
<1>7. /\ \A k \in 0..n : c[k] \in Nat
      /\ \A k \in 0..z : d[k] \in Nat
      /\ \A k \in 0..l : e[k] \in Nat
      /\ c[0] = 0 /\ d[0] = 0 /\ e[0] = 0
      /\ Total(s) = c[n] /\ Total(t) = d[z] /\ Total(m) = e[l]
  BY <1>1, <1>2, <1>3, <1>5, <1>6 DEF IsSum
<1>8. /\ \A k \in 1..n : c[k] = c[k - 1] + s[k]
      /\ \A k \in 1..z : d[k] = d[k - 1] + t[k]
      /\ \A k \in 1..l : e[k] = e[k - 1] + m[k]
  BY <1>1, <1>2, <1>3, <1>5, <1>6 DEF IsSum
<1>9. PICK Q : Q = [k \in 0..z |->
                      {IF k <= a THEN c[k]
                       ELSE IF k <= a + l THEN c[a] + e[k - a]
                       ELSE c[a] + e[l] + (c[(k - a - l) + b] - c[b])}]
  OBVIOUS
<1>10. d[0] \in Q[0]
  <2>1. 0 \in 0..z /\ 0 <= a
    BY <1>4
  <2> QED BY <1>7, <1>9, <2>1
<1>11. ASSUME NEW k \in 1..z, d[k - 1] \in Q[k - 1] PROVE d[k] \in Q[k]
  <2>1. k \in 0..z /\ k - 1 \in 0..z /\ k \in 1..Len(t)
    BY <1>3
  <2>2. d[k] = d[k - 1] + t[k]
    BY <1>8
  <2>3. CASE k <= a
    <3>1. t[k] = s[k] /\ k \in 1..n /\ k - 1 <= a
      BY <1>4, <2>1, <2>3 DEF IsSpliced
    <3>2. d[k - 1] = c[k - 1]
      BY <1>9, <1>11, <2>1, <3>1
    <3>3. d[k] = c[k]
      BY <1>8, <2>2, <3>1, <3>2
    <3> QED BY <1>9, <2>1, <2>3, <3>3
  <2>4. CASE a < k /\ k <= a + l
    <3>1. PICK j \in 1..l : j = k - a /\ t[k] = m[j] /\ (k - 1) - a = j - 1
      BY <1>2, <1>4, <2>1, <2>4 DEF IsSpliced
    <3>2. d[k - 1] = c[a] + e[j - 1]
      <4>1. CASE k - 1 <= a
        <5>1. k - 1 = a /\ j - 1 = 0 /\ c[a] \in Nat
          BY <1>4, <1>7, <2>4, <3>1, <4>1
        <5>2. d[k - 1] = c[a]
          BY <1>9, <1>11, <2>1, <4>1, <5>1
        <5> QED BY <1>7, <5>1, <5>2
      <4>2. CASE ~ (k - 1 <= a)
        <5>1. k - 1 <= a + l
          BY <1>4, <2>4
        <5>2. d[k - 1] = c[a] + e[(k - 1) - a]
          BY <1>9, <1>11, <2>1, <4>2, <5>1
        <5> QED BY <3>1, <5>2
      <4> QED BY <4>1, <4>2
    <3>3. e[j] = e[j - 1] + m[j] /\ e[j - 1] \in Nat /\ m[j] \in Nat /\ c[a] \in Nat
      <4>1. j - 1 \in 0..l /\ a \in 0..n
        BY <1>4
      <4> QED BY <1>2, <1>7, <1>8, <4>1
    <3>4. d[k] = c[a] + e[j]
      <4>1. PICK x \in Nat : x = c[a]
        BY <3>3
      <4>2. PICK y \in Nat : y = e[j - 1]
        BY <3>3
      <4>3. PICK v \in Nat : v = m[j]
        BY <3>3
      <4>4. d[k] = (x + y) + v /\ e[j] = y + v
        BY <2>2, <3>1, <3>2, <3>3, <4>1, <4>2, <4>3
      <4> QED BY <4>1, <4>4
    <3>5. ~ (k <= a)
      BY <1>4, <2>4
    <3> QED BY <1>9, <2>1, <2>4, <3>1, <3>4, <3>5
  <2>5. CASE a + l < k
    <3>1. PICK j \in (b + 1)..n : j = (k - a - l) + b /\ t[k] = s[j]
      BY <1>1, <1>2, <2>1, <2>5 DEF IsSpliced
    <3>2. j - 1 = ((k - 1) - a - l) + b /\ j \in 1..n /\ j - 1 \in 0..n
          /\ ~ (k <= a) /\ ~ (k <= a + l)
      <4>1. j = (k - a - l) + b
        BY <3>1
      <4>2. b \in Nat /\ a \in Nat
        BY <1>4
      <4> QED BY <1>4, <2>5, <4>1, <4>2
    <3>n. c[a] \in Nat /\ c[b] \in Nat /\ c[j - 1] \in Nat /\ e[l] \in Nat /\ s[j] \in Nat
      BY <1>1, <1>4, <1>7, <3>2
    <3>3. d[k - 1] = c[a] + e[l] + (c[j - 1] - c[b])
      <4>1. CASE k - 1 = a + l
        <5>1. j - 1 = b
          BY <1>4, <3>2, <4>1
        <5>2. d[k - 1] = c[a] + e[l]
          <6>1. CASE l = 0
            <7>1. k - 1 = a /\ k - 1 <= a
              BY <1>4, <4>1, <6>1
            <7>2. d[k - 1] = c[a]
              BY <1>9, <1>11, <2>1, <7>1
            <7> QED BY <1>7, <3>n, <6>1, <7>2
          <6>2. CASE l # 0
            <7>1. ~ (k - 1 <= a) /\ k - 1 <= a + l /\ (k - 1) - a = l
              BY <1>4, <4>1, <6>2
            <7> QED BY <1>9, <1>11, <2>1, <7>1
          <6> QED BY <6>1, <6>2
        <5>3. PICK y \in Nat : y = c[b] /\ y = c[j - 1]
          BY <3>n, <5>1
        <5>4. PICK x \in Nat : x = c[a] + e[l]
          BY <3>n
        <5>5. d[k - 1] = x /\ x = x + (y - y)
          BY <5>2, <5>4
        <5> QED BY <5>3, <5>4, <5>5
      <4>2. CASE k - 1 # a + l
        <5>1. ~ (k - 1 <= a) /\ ~ (k - 1 <= a + l)
          BY <1>4, <2>5, <4>2
        <5>2. d[k - 1] = c[a] + e[l] + (c[((k - 1) - a - l) + b] - c[b])
          BY <1>9, <1>11, <2>1, <5>1
        <5> QED BY <3>2, <5>2
      <4> QED BY <4>1, <4>2
    <3>4. c[j] = c[j - 1] + s[j]
      BY <1>8, <3>2
    <3>5. d[k] = c[a] + e[l] + (c[j] - c[b])
      <4>1. PICK x \in Nat : x = c[a] + e[l]
        BY <3>n
      <4>2. PICK y \in Nat : y = c[j - 1]
        BY <3>n
      <4>3. PICK v \in Nat : v = s[j]
        BY <3>n
      <4>4. PICK w \in Nat : w = c[b]
        BY <3>n
      <4>5. d[k] = (x + (y - w)) + v /\ c[j] = y + v
        BY <2>2, <3>1, <3>3, <3>4, <4>1, <4>2, <4>3, <4>4
      <4> QED BY <4>1, <4>4, <4>5
    <3> QED BY <1>9, <2>1, <3>1, <3>2, <3>5
  <2> QED BY <1>4, <2>3, <2>4, <2>5
<1>12. \A k \in 0..z : d[k] \in Q[k]
  BY <1>10, <1>11, Chain
<1>13. z \in 0..z /\ d[z] \in Q[z]
  BY <1>12
<1>n. c[a] \in Nat /\ c[b] \in Nat /\ c[n] \in Nat /\ e[l] \in Nat /\ c[a] = c[a]
  BY <1>4, <1>7
<1>14. CASE b < n
  <2>1. ~ (z <= a) /\ ~ (z <= a + l) /\ (z - a - l) + b = n
    BY <1>4, <1>14
  <2>2. d[z] = c[a] + e[l] + (c[(z - a - l) + b] - c[b])
    BY <1>9, <1>13, <2>1
  <2> QED BY <1>7, <2>1, <2>2
<1>15. CASE b = n /\ l # 0
  <2>1. ~ (z <= a) /\ z <= a + l /\ z - a = l
    BY <1>4, <1>15
  <2>2. d[z] = c[a] + e[l]
    BY <1>9, <1>13, <2>1
  <2> QED BY <1>7, <1>15, <1>n, <2>2
<1>16. CASE b = n /\ l = 0
  <2>1. z <= a /\ z = a
    BY <1>4, <1>16
  <2>2. d[z] = c[a]
    BY <1>9, <1>13, <2>1
  <2> QED BY <1>7, <1>16, <1>n, <2>2
<1> QED BY <1>4, <1>14, <1>15, <1>16

(* The sum of what w says the elements of q count.                         *)
SumOf(q, w) == Total([i \in DOMAIN q |-> w[q[i]]])

LEMMA WeightsAre ==
  ASSUME NEW S, NEW q \in Seq(S), NEW w \in [S -> Nat]
  PROVE  \E x \in Seq(Nat) : /\ Len(x) = Len(q) /\ SumOf(q, w) = Total(x)
                             /\ \A i \in 1..Len(q) : x[i] = w[q[i]]
<1>1. PICK n \in Nat : n = Len(q) /\ DOMAIN q = 1..n /\ \A i \in 1..n : q[i] \in S
  BY LenProperties, ElementOfSeq
<1>2. PICK x : x = [i \in DOMAIN q |-> w[q[i]]]
  OBVIOUS
<1>3. x \in [1..n -> Nat]
  BY <1>1, <1>2
<1>4. x \in Seq(Nat)
  BY <1>1, <1>2, <1>3, IsASeq
<1>5. DOMAIN x = 1..n /\ DOMAIN x = 1..Len(x) /\ Len(x) \in Nat
  BY <1>3, <1>4, LenProperties
<1>6. Len(x) = n
  BY <1>4, <1>5
<1> QED BY <1>1, <1>2, <1>4, <1>6 DEF SumOf

LEMMA SumIsNat ==
  ASSUME NEW S, NEW q \in Seq(S), NEW w \in [S -> Nat]
  PROVE  /\ SumOf(q, w) \in Nat
         /\ q = << >> => SumOf(q, w) = 0
         /\ Len(q) = 1 => SumOf(q, w) = w[q[1]]
<1>1. PICK x \in Seq(Nat) : /\ Len(x) = Len(q) /\ SumOf(q, w) = Total(x)
                            /\ \A i \in 1..Len(q) : x[i] = w[q[i]]
  BY WeightsAre
<1>2. Total(x) \in Nat /\ (Len(x) = 0 => Total(x) = 0) /\ (Len(x) = 1 => Total(x) = x[1])
  BY TotalIsNat, SumOfOne
<1>3. q = << >> => Len(q) = 0
  BY EmptySeq
<1>4. Len(q) = 1 => 1 \in 1..Len(q)
  OBVIOUS
<1> QED BY <1>1, <1>2, <1>3, <1>4

SumsMatch(t, s, a, m, b, w) ==
  SumOf(t, w) + (IF b = a THEN 0 ELSE w[s[b]]) = SumOf(s, w) + SumOf(m, w)

LEMMA WeightsSpliced ==
  ASSUME NEW S, NEW s \in Seq(S), NEW m \in Seq(S), NEW t \in Seq(S),
         NEW w \in [S -> Nat], NEW a \in 0..Len(s), NEW b \in a..Len(s),
         IsSpliced(t, s, a, m, b), b \in {a, a + 1}
  PROVE  SumsMatch(t, s, a, m, b, w)
<1>1. PICK x \in Seq(Nat) : /\ Len(x) = Len(s) /\ SumOf(s, w) = Total(x)
                            /\ \A i \in 1..Len(s) : x[i] = w[s[i]]
  BY WeightsAre
<1>2. PICK y \in Seq(Nat) : /\ Len(y) = Len(m) /\ SumOf(m, w) = Total(y)
                            /\ \A i \in 1..Len(m) : y[i] = w[m[i]]
  BY WeightsAre
<1>3. PICK z \in Seq(Nat) : /\ Len(z) = Len(t) /\ SumOf(t, w) = Total(z)
                            /\ \A i \in 1..Len(t) : z[i] = w[t[i]]
  BY WeightsAre
<1>4. PICK n \in Nat : n = Len(s) /\ a \in 0..n /\ b \in a..n
  BY LenProperties
<1>5. PICK l \in Nat : l = Len(m)
  BY LenProperties
<1>6. PICK k \in Nat : k = Len(t)
  BY LenProperties
<1>7. IsSpliced(z, x, a, y, b)
  <2>1. k = a + l + (n - b)
    BY <1>4, <1>5, <1>6 DEF IsSpliced
  <2>2. ASSUME NEW i \in 1..k
        PROVE  /\ i <= a => z[i] = x[i]
               /\ a < i /\ i <= a + l => i - a \in 1..l /\ z[i] = y[i - a]
               /\ a + l < i =>
                    /\ (i - a - l) + b \in (b + 1)..n
                    /\ z[i] = x[(i - a - l) + b]
    <3>1. CASE i <= a
      <4>1. t[i] = s[i] /\ i \in 1..n
        BY <1>4, <1>6, <3>1 DEF IsSpliced
      <4>2. ~ (a < i) /\ ~ (a + l < i)
        BY <1>4, <3>1
      <4> QED BY <1>1, <1>3, <1>4, <1>6, <4>1, <4>2
    <3>2. CASE a < i /\ i <= a + l
      <4>1. t[i] = m[i - a] /\ i - a \in 1..l
        BY <1>5, <1>6, <3>2 DEF IsSpliced
      <4>2. ~ (i <= a) /\ ~ (a + l < i)
        BY <1>4, <3>2
      <4> QED BY <1>2, <1>3, <1>5, <1>6, <4>1, <4>2
    <3>3. CASE a + l < i
      <4>1. PICK j \in (b + 1)..n : j = (i - a - l) + b /\ t[i] = s[j]
        BY <1>4, <1>5, <1>6, <3>3 DEF IsSpliced
      <4>2. ~ (i <= a) /\ ~ (i <= a + l) /\ j \in 1..n
        BY <1>4, <3>3
      <4>3. z[i] = x[j]
        BY <1>1, <1>3, <1>4, <1>6, <4>1, <4>2
      <4> QED BY <4>1, <4>2, <4>3
    <3> QED BY <1>4, <3>1, <3>2, <3>3
  <2> QED BY <1>1, <1>2, <1>3, <1>4, <1>5, <1>6, <2>1, <2>2 DEF IsSpliced
<1>8. PICK c : IsSum(c, x)
  BY TotalIs
<1>9. Total(z) = c[a] + Total(y) + (Total(x) - c[b])
  <2>1. a \in 0..Len(x) /\ b \in a..Len(x)
    BY <1>1, <1>4
  <2> QED BY <1>7, <1>8, <2>1, SumSpliced
<1>10. Total(x) \in Nat /\ Total(y) \in Nat
  BY TotalIsNat
<1>11. PICK p \in Nat : p = c[a]
  BY <1>1, <1>4, <1>8 DEF IsSum
<1>12. CASE b = a
  BY <1>1, <1>2, <1>3, <1>9, <1>10, <1>11, <1>12 DEF SumsMatch
<1>13. CASE b # a
  <2>1. b = a + 1 /\ b \in 1..n /\ b - 1 = a
    BY <1>4, <1>13
  <2>2. c[b] = c[b - 1] + x[b]
    BY <1>1, <1>4, <1>8, <2>1 DEF IsSum
  <2>3. PICK v \in Nat : v = x[b]
    BY <1>1, <1>4, <2>1, ElementOfSeq
  <2>4. w[s[b]] = v /\ c[b] = p + v
    BY <1>1, <1>4, <1>11, <2>1, <2>2, <2>3
  <2>5. Total(z) = p + Total(y) + (Total(x) - (p + v))
    BY <1>9, <1>11, <2>4
  <2>6. Total(z) + v = Total(x) + Total(y)
    BY <1>10, <2>5
  <2> QED BY <1>1, <1>2, <1>3, <1>13, <2>4, <2>6 DEF SumsMatch
<1> QED BY <1>12, <1>13 DEF SumsMatch

LEMMA SumReplaced ==
  ASSUME NEW S, NEW s \in Seq(S), NEW r \in Seq(S), NEW i \in 1..Len(s),
         NEW w \in [S -> Nat]
  PROVE  SumOf(Replaced(s, i, r), w) + w[s[i]] = SumOf(s, w) + SumOf(r, w)
<1>1. PICK t \in Seq(S) : t = Replaced(s, i, r) /\ IsSpliced(t, s, i - 1, r, i)
  BY ReplacedIs
<1>2. PICK a : a = i - 1
  OBVIOUS
<1>3. a \in 0..Len(s) /\ i \in a..Len(s) /\ i = a + 1 /\ i # a
  BY <1>2, LenProperties
<1>4. IsSpliced(t, s, a, r, i)
  BY <1>1, <1>2
<1>5. PICK b \in a..Len(s) : b = i
  BY <1>3
<1>6. SumsMatch(t, s, a, r, b, w)
  <2>1. IsSpliced(t, s, a, r, b) /\ b \in {a, a + 1} /\ a \in 0..Len(s)
    BY <1>3, <1>4, <1>5
  <2> QED BY <1>1, <2>1, WeightsSpliced
<1> QED BY <1>1, <1>3, <1>5, <1>6 DEF SumsMatch

LEMMA SumInserted ==
  ASSUME NEW S, NEW s \in Seq(S), NEW m \in Seq(S), NEW t \in Seq(S),
         NEW a \in 0..Len(s), IsSpliced(t, s, a, m, a), NEW w \in [S -> Nat]
  PROVE  SumOf(t, w) = SumOf(s, w) + SumOf(m, w)
<1>1. a \in a..Len(s)
  BY LenProperties
<1>2. SumsMatch(t, s, a, m, a, w)
  BY <1>1, WeightsSpliced
<1> QED BY <1>2, SumIsNat DEF SumsMatch

LEMMA SumJoined ==
  ASSUME NEW S, NEW s \in Seq(S), NEW m \in Seq(S), NEW w \in [S -> Nat]
  PROVE  SumOf(s \o m, w) = SumOf(s, w) + SumOf(m, w)
<1>1. PICK t : t = s \o m
  OBVIOUS
<1>2. PICK n \in Nat : n = Len(s)
  BY LenProperties
<1>3. PICK l \in Nat : l = Len(m)
  BY LenProperties
<1>4. /\ t \in Seq(S) /\ Len(t) = n + l
      /\ \A i \in 1..(n + l) : t[i] = IF i <= n THEN s[i] ELSE m[i - n]
  BY <1>1, <1>2, <1>3, ConcatProperties
<1>5. IsSpliced(t, s, n, m, n)
  <2>1. Len(t) = n + l + (n - n)
    BY <1>4
  <2>2. \A i \in 1..(n + l) :
          /\ i <= n => t[i] = s[i]
          /\ n < i /\ i <= n + l => i - n \in 1..l /\ t[i] = m[i - n]
          /\ ~ (n + l < i)
    BY <1>4
  <2> QED BY <1>2, <1>3, <1>4, <2>1, <2>2 DEF IsSpliced
<1>6. n \in 0..Len(s)
  BY <1>2
<1>7. SumOf(t, w) = SumOf(s, w) + SumOf(m, w)
  BY <1>4, <1>5, <1>6, SumInserted
<1> QED BY <1>1, <1>7

LEMMA SumAppended ==
  ASSUME NEW S, NEW s \in Seq(S), NEW e \in S, NEW w \in [S -> Nat]
  PROVE  SumOf(Append(s, e), w) = SumOf(s, w) + w[e]
<1>1. PICK m : m = <<e>>
  OBVIOUS
<1>2. m \in Seq(S) /\ Len(m) = 1 /\ m[1] = e
  BY <1>1
<1>3. Append(s, e) = s \o m
  BY <1>1, AppendIsConcat
<1> QED BY <1>2, <1>3, SumJoined, SumIsNat

-----------------------------------------------------------------------------
(***************************************************************************)
(* Where predicates look at codes only and nothing is kept back, what is   *)
(* delivered and what is to be delivered of an input do not change.        *)
(***************************************************************************)
CodesOnly ==
  \A p \in Predicate : \A c \in Code : \A a, b \in Int64 :
    <<c, a>> \in Accepts[p] => <<c, b>> \in Accepts[p]

Plain ==
  /\ CodesOnly /\ WindowNode = {}
  /\ \A n \in Node : Kind[n] # "modify_predicate"

Yields == [Code -> [Channel -> Nat]]

LEMMA CodeLeavingTyped ==
  ASSUME NEW m \in Node, NEW code \in Code
  PROVE  CodeLeaving(m, code) \in Code
BY OptionsAssumption DEF CodeLeaving

(* The copies of an event, counted.                                        *)
LEMMA OutsCount ==
  ASSUME NEW outs \in Seq(Channel), NEW y \in Yields, NEW code \in Code
  PROVE  Total([j \in DOMAIN outs |-> y[code][outs[j]]]) = SumOf(outs, y[code])
BY DEF SumOf

LEMMA YieldAtTyped ==
  ASSUME NEW m \in Node, NEW code \in Code, NEW y \in Yields
  PROVE  YieldAt(m, code, y) \in Nat
<1>1. PICK outs : outs = Outs(Probe(m, code), Preset)
  OBVIOUS
<1>2. outs \in Seq(Channel)
  BY <1>1, OutsAreChannels DEF Probe
<1>3. PICK left \in Code : left = CodeLeaving(m, code)
  BY CodeLeavingTyped
<1>4. y[left] \in [Channel -> Nat]
  BY DEF Yields
<1>5. SumOf(outs, y[left]) \in Nat
  BY <1>2, <1>4, SumIsNat
<1>6. Total([j \in DOMAIN outs |-> y[left][outs[j]]]) \in Nat
  BY <1>2, <1>5, OutsCount
<1> QED BY <1>1, <1>3, <1>6 DEF YieldAt

(* One step of Yield.                                                      *)
StepYield(t, y) ==
  [code \in Code |-> [c \in Channel |->
     IF t <= 1 \/ End[c] = Null THEN 0 ELSE YieldAt(End[c], code, y)]]

LEMMA YieldIs ==
  /\ DOMAIN Yield = 0..InitialTTL
  /\ \A t \in 0..InitialTTL : Yield[t] = StepYield(t, Yield[t - 1])
<1>0. PICK n \in Nat : n = InitialTTL
  BY LoopAssumption
<1> DEFINE Is(k, g) == g = [t \in 0..k |-> StepYield(t, g[t - 1])]
<1>1. PICK T : T = {k \in 0..n : ~ \E g : Is(k, g)}
  OBVIOUS
<1>2. T = {}
  <2> SUFFICES ASSUME T # {} PROVE FALSE
    OBVIOUS
  <2>1. T \subseteq Nat
    BY <1>1
  <2>2. PICK k \in T : \A j \in T : k <= j
    BY <2>1, LeastOf
  <2>3. k \in 0..n /\ ~ \E g : Is(k, g)
    BY <1>1
  <2>4. PICK f : k # 0 => Is(k - 1, f)
    <3>1. CASE k = 0
      BY <3>1
    <3>2. CASE k # 0
      <4>1. k - 1 \in 0..n /\ ~ (k <= k - 1)
        BY <2>3, <3>2
      <4> QED BY <1>1, <2>2, <4>1
    <3> QED BY <3>1, <3>2
  <2>5. PICK h : h = [t \in 0..k |-> IF t = k THEN StepYield(t, f[t - 1]) ELSE f[t]]
    OBVIOUS
  <2>6. CASE k = 0
    <3>1. PICK u : u = [t \in 0..0 |-> StepYield(0, 0)]
      OBVIOUS
    <3>2. ASSUME NEW y, NEW t \in 0..0 PROVE StepYield(t, y) = StepYield(0, 0)
      <4>1. t = 0 /\ 0 <= 1
        OBVIOUS
      <4> QED BY <4>1 DEF StepYield
    <3>3. \A t \in 0..0 : StepYield(t, u[t - 1]) = StepYield(0, 0)
      BY <3>2
    <3>4. u = [t \in 0..0 |-> StepYield(t, u[t - 1])]
      BY <3>1, <3>3
    <3>5. Is(k, u)
      BY <2>6, <3>4
    <3> QED BY <2>3, <3>5
  <2>7. CASE k # 0
    <3>1. f = [t \in 0..(k - 1) |-> StepYield(t, f[t - 1])]
      BY <2>4, <2>7
    <3>z. ASSUME NEW y, NEW x PROVE StepYield(0, y) = StepYield(0, x)
      <4>1. 0 <= 1
        OBVIOUS
      <4> QED BY <4>1 DEF StepYield
    <3>2. ASSUME NEW t \in 0..k PROVE h[t] = StepYield(t, h[t - 1])
      <4>1. CASE t = 0
        <5>1. h[t] = f[t] /\ f[t] = StepYield(t, f[t - 1])
          BY <2>3, <2>5, <2>7, <3>1, <4>1
        <5> QED BY <3>z, <4>1, <5>1
      <4>2. CASE t # 0
        <5>1. t - 1 \in 0..k /\ t - 1 # k /\ h[t - 1] = f[t - 1]
          BY <2>3, <2>5, <4>2
        <5>2. CASE t = k
          BY <2>5, <5>1, <5>2
        <5>3. CASE t # k
          <6>1. t \in 0..(k - 1)
            BY <2>3, <5>3
          <6>2. h[t] = f[t] /\ f[t] = StepYield(t, f[t - 1])
            BY <2>5, <3>1, <5>3, <6>1
          <6> QED BY <5>1, <6>2
        <5> QED BY <5>2, <5>3
      <4> QED BY <4>1, <4>2
    <3>3. h = [t \in 0..k |-> StepYield(t, h[t - 1])]
      BY <2>5, <3>2
    <3>4. Is(k, h)
      BY <3>3
    <3> QED BY <2>3, <3>4
  <2> QED BY <2>6, <2>7
<1>3. n \in 0..n
  OBVIOUS
<1>4. PICK g : Is(n, g)
  BY <1>1, <1>2, <1>3
<1>5. Yield = [t \in 0..n |-> StepYield(t, Yield[t - 1])]
  <2>1. Yield = CHOOSE f : f = [t \in 0..n |-> StepYield(t, f[t - 1])]
    BY <1>0 DEF Yield, StepYield
  <2>2. \E f : f = [t \in 0..n |-> StepYield(t, f[t - 1])]
    BY <1>4
  <2> HIDE DEF Is
  <2> QED BY <2>1, <2>2
<1> QED BY <1>0, <1>5

LEMMA YieldTyped ==
  \A t \in 0..InitialTTL : Yield[t] \in Yields
<1>0. PICK n \in Nat : n = InitialTTL
  BY LoopAssumption
<1>1. PICK Q : Q = [k \in 0..n |-> Yields]
  OBVIOUS
<1>2. Yield[0] \in Q[0]
  <2>1. 0 \in 0..n /\ 0 <= 1
    OBVIOUS
  <2>2. Yield[0] = StepYield(0, Yield[0 - 1])
    BY <1>0, <2>1, YieldIs
  <2> QED BY <1>1, <2>1, <2>2 DEF StepYield, Yields
<1>3. ASSUME NEW k \in 1..n, Yield[k - 1] \in Q[k - 1] PROVE Yield[k] \in Q[k]
  <2>1. k \in 0..n /\ k - 1 \in 0..n
    OBVIOUS
  <2>2. PICK y \in Yields : y = Yield[k - 1]
    BY <1>1, <1>3, <2>1
  <2>3. Yield[k] = StepYield(k, y)
    BY <1>0, <2>1, <2>2, YieldIs
  <2>4. ASSUME NEW code \in Code, NEW c \in Channel
        PROVE  (IF k <= 1 \/ End[c] = Null THEN 0 ELSE YieldAt(End[c], code, y)) \in Nat
    <3>1. End[c] # Null => End[c] \in Node
      BY GraphAssumption
    <3> QED BY <3>1, YieldAtTyped
  <2>5. StepYield(k, y) \in Yields
    BY <2>4 DEF StepYield, Yields
  <2> QED BY <1>1, <2>1, <2>3, <2>5
<1>4. \A k \in 0..n : Yield[k] \in Q[k]
  BY <1>2, <1>3, Chain
<1> QED BY <1>0, <1>1, <1>4

(* Where predicates look at codes only, an event's payload does not tell   *)
(* where it goes.                                                          *)
LEMMA SameOuts ==
  ASSUME CodesOnly, NEW e, NEW f, NEW state, e.pos \in Node, f.pos = e.pos,
         e.code \in Code, e.payload \in Int64, f.payload \in Int64,
         Kind[e.pos] = "router" => f.code = e.code
  PROVE  Outs(f, state) = Outs(e, state)
<1>1. PICK n \in Node : n = e.pos
  OBVIOUS
<1>2. Open(n, f, state) = Open(n, e, state)
  <2>1. ASSUME NEW k \in DOMAIN Guard[n], Kind[n] = "router"
        PROVE  Holds(Guard[n][k], f, state) <=> Holds(Guard[n][k], e, state)
    <3>1. PICK p : p = Guard[n][k]
      OBVIOUS
    <3>2. p \in Predicate \union {Null}
      <4>1. Guard[n] \in Seq(Predicate \union {Null})
        BY <2>1, GraphAssumption
      <4> QED BY <3>1, <4>1, LenProperties, ElementOfSeq
    <3>3. f.code = e.code
      BY <1>1, <2>1
    <3>4. CASE p = Null
      BY <3>1, <3>4 DEF Holds
    <3>5. CASE p \in Predicate
      <4>1. <<f.code, f.payload>> \in Accepts[p] <=> <<e.code, e.payload>> \in Accepts[p]
        BY <3>3, <3>5 DEF CodesOnly
      <4>2. (<<f.code, f.payload>> \in Accepts[p]) = (<<e.code, e.payload>> \in Accepts[p])
        BY <4>1
      <4> QED BY <3>1, <4>2 DEF Holds
    <3> QED BY <3>2, <3>4, <3>5
  <2> QED BY <2>1 DEF Open
<1> QED BY <1>1, <1>2, OutsAre

LEMMA NoOuts ==
  ASSUME NEW e, NEW state, Outputs[e.pos] = << >>
  PROVE  Copies(e, state) = << >>
<1>1. PICK n : n = e.pos
  OBVIOUS
<1>2. PICK P : P = Open(n, e, state)
  OBVIOUS
<1>3. PICK q : q = [k \in DOMAIN Outputs[n] |-> IF k \in P THEN <<k>> ELSE << >>]
  OBVIOUS
<1>4. q = << >> /\ q \in Seq(Seq(Nat)) /\ Len(q) = 0
  BY <1>1, <1>3, EmptySeq
<1>5. FlattenSeq(q) = << >>
  BY <1>4 DEF FlattenSeq
<1>6. Through(n, P) = << >>
  BY <1>3, <1>5 DEF Through
<1>7. Outs(e, state) = << >>
  BY <1>1, <1>2, <1>6, OutsAre
<1> QED BY <1>7 DEF Copies

(* What an event counts for the n-th input of s, and a delivery.           *)
Weight(s, n) ==
  [e \in Stamped |-> IF e.src = s /\ e.n = n THEN YieldOf(e) ELSE 0]
One(s, n) == [d \in Delivery |-> IF d.src = s /\ d.n = n THEN 1 ELSE 0]

LEMMA YieldOfTyped ==
  ASSUME NEW e \in Stamped
  PROVE  YieldOf(e) \in Nat
<1>1. /\ e.pos \in Node \union Channel \union {Null} /\ e.code \in Code
      /\ e.ttl \in 0..InitialTTL
  BY LoopAssumption DEF Stamped
<1>2. PICK y \in Yields : y = Yield[e.ttl]
  BY <1>1, YieldTyped
<1>3. y[e.code] \in [Channel -> Nat]
  BY <1>1 DEF Yields
<1>4. e.pos \in Node => YieldAt(e.pos, e.code, y) \in Nat
  BY <1>1, YieldAtTyped
<1> QED BY <1>1, <1>2, <1>3, <1>4 DEF YieldOf

LEMMA WeightTyped ==
  ASSUME NEW s, NEW n
  PROVE  Weight(s, n) \in [Stamped -> Nat] /\ One(s, n) \in [Delivery -> Nat]
BY YieldOfTyped DEF Weight, One

LEMMA EventsStamped ==
  /\ Event \subseteq Stamped
  /\ \A q \in Seq(Event) : q \in Seq(Stamped)
<1>1. Event \subseteq Stamped
  <2>1. \A t \in 0..MaxTime : t \in Nat
    OBVIOUS
  <2> QED BY <2>1 DEF Event, Stamped
<1>2. ASSUME NEW q \in Seq(Event) PROVE q \in Seq(Stamped)
  <2>1. PICK k \in Nat : k = Len(q) /\ q \in [1..k -> Event]
    BY LenProperties
  <2>2. q \in [1..k -> Stamped]
    BY <1>1, <2>1
  <2> QED BY <2>2
<1> QED BY <1>1, <1>2

LEMMA PendingIs ==
  ASSUME NEW q \in Seq(Stamped), NEW s, NEW n
  PROVE  Pending(q, s, n) = SumOf(q, Weight(s, n))
<1>1. \A i \in DOMAIN q : q[i] \in Stamped
  BY LenProperties, ElementOfSeq
<1>2. [i \in DOMAIN q |-> IF q[i].src = s /\ q[i].n = n THEN YieldOf(q[i]) ELSE 0]
        = [i \in DOMAIN q |-> Weight(s, n)[q[i]]]
  BY <1>1 DEF Weight
<1> QED BY <1>2 DEF Pending, SumOf

LEMMA ArrivedIs ==
  ASSUME NEW q \in Seq(Delivery), NEW s, NEW n
  PROVE  Arrived(q, s, n) = SumOf(q, One(s, n))
<1>1. \A i \in DOMAIN q : q[i] \in Delivery
  BY LenProperties, ElementOfSeq
<1>2. [i \in DOMAIN q |-> IF q[i].src = s /\ q[i].n = n THEN 1 ELSE 0]
        = [i \in DOMAIN q |-> One(s, n)[q[i]]]
  BY <1>1 DEF One
<1> QED BY <1>2 DEF Arrived, SumOf

LEMMA SumOfNothing ==
  ASSUME NEW S, NEW q \in Seq(S), NEW w \in [S -> Nat],
         \A i \in 1..Len(q) : w[q[i]] = 0
  PROVE  SumOf(q, w) = 0
<1>1. PICK x \in Seq(Nat) : /\ Len(x) = Len(q) /\ SumOf(q, w) = Total(x)
                            /\ \A i \in 1..Len(q) : x[i] = w[q[i]]
  BY WeightsAre
<1>2. PICK c : IsSum(c, x)
  BY TotalIs
<1>3. PICK n \in Nat : n = Len(q)
  BY LenProperties
<1>4. PICK Q : Q = [k \in 0..n |-> {0}]
  OBVIOUS
<1>5. c[0] \in Q[0] /\ \A k \in 1..n : c[k - 1] \in Q[k - 1] => c[k] \in Q[k]
  <2>1. \A k \in 1..n : k - 1 \in 0..n /\ k \in 0..n /\ c[k] = c[k - 1] + 0
    BY <1>1, <1>2, <1>3 DEF IsSum
  <2>2. c[0] = 0 /\ 0 \in 0..n
    BY <1>2 DEF IsSum
  <2> QED BY <1>4, <2>1, <2>2
<1>6. \A k \in 0..n : c[k] \in Q[k]
  BY <1>5, Chain
<1>7. c[n] = 0
  BY <1>4, <1>6
<1> QED BY <1>1, <1>2, <1>3, <1>7 DEF IsSum

(* f is what a node that passes events on makes of e before it copies it.  *)
LEMMA CopiesConserve ==
  ASSUME CodesOnly, NEW e \in Event, NEW f \in Event, e.pos \in Node,
         Kind[e.pos] \notin {"sink", "getchar", "evdev"},
         f.pos = e.pos, f.ttl = e.ttl, f.src = e.src, f.n = e.n,
         f.code = CodeLeaving(e.pos, e.code), NEW s, NEW n
  PROVE  SumOf(Copies(f, Preset), Weight(s, n)) = Weight(s, n)[e]
<1>1. PICK outs : outs = Outs(f, Preset)
  OBVIOUS
<1>2. /\ outs \in Seq(Channel) /\ DOMAIN outs = 1..Len(outs)
      /\ \A j \in DOMAIN outs : outs[j] \in Channel
  <2>1. outs \in Seq(Channel)
    BY <1>1, OutsAreChannels
  <2> QED BY <2>1, LenProperties, ElementOfSeq
<1>3. PICK r : r = Copies(f, Preset)
  OBVIOUS
<1>4. r = [j \in DOMAIN outs |-> [f EXCEPT !.pos = outs[j]]]
  BY <1>1, <1>3 DEF Copies
<1>5. r \in Seq(Event) /\ r \in Seq(Stamped) /\ e \in Stamped
  BY <1>3, CopiesAre, EventsStamped
<1>6. outs = Outs(Probe(e.pos, e.code), Preset)
  <2>1. PICK g : g = Probe(e.pos, e.code)
    OBVIOUS
  <2>2. /\ g.pos = e.pos /\ g.code = e.code /\ g.payload = 0 /\ 0 \in Int64
        /\ e.code \in Code /\ f.payload \in Int64
    BY <2>1, HalfAssumption DEF Probe, Event, Int64
  <2>3. Kind[g.pos] = "router" => f.code = g.code
    BY <2>2 DEF CodeLeaving
  <2>4. Outs(f, Preset) = Outs(g, Preset)
    BY <2>2, <2>3, SameOuts
  <2> QED BY <1>1, <2>1, <2>4
<1>7. PICK total : total = Total([j \in DOMAIN outs |-> Yield[f.ttl][f.code][outs[j]]])
  OBVIOUS
<1>8. YieldOf(e) = total
  <2>1. e.pos # Null /\ e.pos \notin Channel /\ e.pos \notin Source
    BY GraphAssumption DEF Source
  <2>2. YieldOf(e) = YieldAt(e.pos, e.code, Yield[e.ttl])
    BY <2>1 DEF YieldOf
  <2> QED BY <1>6, <1>7, <2>1, <2>2 DEF YieldAt
<1>9. Total([j \in DOMAIN r |-> YieldOf(r[j])]) = total
  <2>1. ASSUME NEW j \in DOMAIN outs
        PROVE  YieldOf(r[j]) = Yield[f.ttl][f.code][outs[j]]
    <3>1. r[j].pos = outs[j] /\ r[j].ttl = f.ttl /\ r[j].code = f.code
      BY <1>4 DEF Event
    <3>2. outs[j] \in Channel /\ outs[j] # Null
      BY <1>2, GraphAssumption
    <3> QED BY <3>1, <3>2 DEF YieldOf
  <2>2. DOMAIN r = DOMAIN outs
    BY <1>4
  <2>3. [j \in DOMAIN r |-> YieldOf(r[j])]
          = [j \in DOMAIN outs |-> Yield[f.ttl][f.code][outs[j]]]
    BY <2>1, <2>2
  <2> QED BY <1>7, <2>3
<1>10. \A j \in DOMAIN r : r[j].src = e.src /\ r[j].n = e.n /\ r[j] \in Stamped
  <2>1. \A j \in DOMAIN r : r[j].src = f.src /\ r[j].n = f.n
    BY <1>4 DEF Event
  <2> QED BY <1>5, <2>1, LenProperties, ElementOfSeq
<1>11. CASE e.src = s /\ e.n = n
  <2>1. [j \in DOMAIN r |-> Weight(s, n)[r[j]]] = [j \in DOMAIN r |-> YieldOf(r[j])]
    BY <1>10, <1>11 DEF Weight
  <2>2. Weight(s, n)[e] = YieldOf(e)
    BY <1>5, <1>11 DEF Weight
  <2> QED BY <1>3, <1>8, <1>9, <2>1, <2>2 DEF SumOf
<1>12. CASE ~ (e.src = s /\ e.n = n)
  <2>1. \A j \in DOMAIN r : Weight(s, n)[r[j]] = 0
    BY <1>10, <1>12 DEF Weight
  <2>2. Weight(s, n)[e] = 0
    BY <1>5, <1>12 DEF Weight
  <2>3. DOMAIN r = 1..Len(r)
    BY <1>5, LenProperties
  <2>4. PICK w \in [Stamped -> Nat] : w = Weight(s, n)
    BY WeightTyped
  <2>5. SumOf(r, w) = 0
    BY <1>5, <2>1, <2>3, <2>4, SumOfNothing
  <2> QED BY <1>3, <2>2, <2>4, <2>5
<1> QED BY <1>11, <1>12

LEMMA PassedConserves ==
  ASSUME NEW e \in Event, e.pos \in Channel, NEW s, NEW n
  PROVE  SumOf(Passed(e), Weight(s, n)) = Weight(s, n)[e]
<1>1. e \in Stamped /\ e.pos # Null /\ e.ttl \in 1..InitialTTL /\ e.code \in Code
      /\ e.ttl \in 0..InitialTTL /\ InitialTTL \in Nat
  BY EventsStamped, GraphAssumption, LoopAssumption DEF Event
<1>2. PICK w \in [Stamped -> Nat] : w = Weight(s, n)
  BY WeightTyped
<1>3. Yield[e.ttl] = StepYield(e.ttl, Yield[e.ttl - 1])
  BY <1>1, YieldIs
<1>4. YieldOf(e) = IF e.ttl <= 1 \/ End[e.pos] = Null THEN 0
                   ELSE YieldAt(End[e.pos], e.code, Yield[e.ttl - 1])
  BY <1>1, <1>3 DEF YieldOf, StepYield
<1>5. CASE e.ttl <= 1 \/ End[e.pos] = Null
  <2>1. Passed(e) = << >>
    BY <1>5 DEF Passed
  <2>2. SumOf(<< >>, w) = 0
    BY EmptySeq, SumIsNat
  <2>3. YieldOf(e) = 0
    BY <1>4, <1>5
  <2>4. w[e] = 0
    BY <1>1, <1>2, <2>3 DEF Weight
  <2> QED BY <1>2, <2>1, <2>2, <2>4
<1>6. CASE ~ (e.ttl <= 1 \/ End[e.pos] = Null)
  <2>1. PICK f : f = [e EXCEPT !.pos = End[e.pos], !.ttl = e.ttl - 1]
    OBVIOUS
  <2>2. /\ f.pos = End[e.pos] /\ f.ttl = e.ttl - 1 /\ f.code = e.code
        /\ f.src = e.src /\ f.n = e.n
    BY <2>1 DEF Event
  <2>3. End[e.pos] \in Node /\ End[e.pos] # Null /\ End[e.pos] \notin Channel
    BY <1>6, GraphAssumption
  <2>4. PICK r : r = <<f>>
    OBVIOUS
  <2>5. Passed(e) = r
    BY <1>6, <2>1, <2>4 DEF Passed
  <2>6. r \in Seq(Stamped) /\ Len(r) = 1 /\ r[1] = f /\ f \in Stamped
    <3>1. r \in Seq(Stamped)
      BY <2>5, PassedIs, EventsStamped
    <3>2. Len(r) = 1 /\ r[1] = f
      BY <2>4
    <3>3. 1 \in 1..Len(r)
      BY <3>2
    <3> QED BY <3>1, <3>2, <3>3, ElementOfSeq
  <2>7. SumOf(r, w) = w[f]
    BY <2>6, SumIsNat
  <2>8. YieldOf(f) = YieldOf(e)
    BY <1>4, <1>6, <2>2, <2>3 DEF YieldOf
  <2>9. w[f] = w[e]
    BY <1>1, <1>2, <2>2, <2>6, <2>8 DEF Weight
  <2> QED BY <1>2, <2>5, <2>7, <2>9
<1> QED BY <1>5, <1>6

(* What has come of an input and what is still to come of it.              *)
Balance(m, s, n) == Arrived(m.delivered, s, n) + Pending(m.events, s, n)

Conserves(m2, m) ==
  /\ m2.predicates = m.predicates
  /\ \A s, n : Balance(m2, s, n) = Balance(m, s, n)

(* r takes the place of the i-th event and counts as much as it.           *)
LEMMA ReplacingConserves ==
  ASSUME NEW m \in Machine, NEW i \in 1..Len(m.events), NEW r \in Seq(Event),
         \A s, n : SumOf(r, Weight(s, n)) = Weight(s, n)[m.events[i]],
         NEW m2, m2.events = Replaced(m.events, i, r),
         m2.delivered = m.delivered, m2.predicates = m.predicates
  PROVE  Conserves(m2, m)
<1>1. PICK q : q = m.events
  OBVIOUS
<1>2. q \in Seq(Stamped) /\ q \in Seq(Event) /\ r \in Seq(Stamped) /\ i \in 1..Len(q)
  BY <1>1, EventAt, EventsStamped
<1>3. PICK t : t = Replaced(q, i, r)
  OBVIOUS
<1>4. t \in Seq(Stamped) /\ m2.events = t
  BY <1>1, <1>2, <1>3, ReplacedIs
<1>5. ASSUME NEW s, NEW n PROVE Balance(m2, s, n) = Balance(m, s, n)
  <2>1. PICK w \in [Stamped -> Nat] : w = Weight(s, n)
    BY WeightTyped
  <2>2. SumOf(t, w) + w[q[i]] = SumOf(q, w) + SumOf(r, w)
    BY <1>2, <1>3, SumReplaced
  <2>3. SumOf(r, w) = w[q[i]]
    BY <1>1, <2>1
  <2>4. SumOf(t, w) \in Nat /\ SumOf(q, w) \in Nat /\ SumOf(r, w) \in Nat
    BY <1>2, <1>4, SumIsNat
  <2>5. SumOf(t, w) = SumOf(q, w)
    BY <2>2, <2>3, <2>4
  <2>6. Pending(t, s, n) = Pending(q, s, n)
    BY <1>2, <1>4, <2>1, <2>5, PendingIs
  <2> QED BY <1>1, <1>4, <2>6 DEF Balance
<1> QED BY <1>5 DEF Conserves

LEMMA ChannelConserves ==
  ASSUME NEW m \in Machine, NEW i \in 1..Len(m.events), m.events[i].pos \in Channel
  PROVE  Conserves(AtChannel(m, i), m)
<1>1. PICK e \in Event : e = m.events[i]
  BY EventAt
<1>n. PICK f \in Event : f = Entering(m, e) /\ f.pos = e.pos /\ f.ttl = e.ttl
                         /\ f.code = e.code /\ IsCopy(f, e)
  BY <1>1, EnteringIs
<1>2. PICK r \in Seq(Event) : r = Passed(f)
  BY <1>1, <1>n, PassedIs
<1>3. \A s, n : SumOf(r, Weight(s, n)) = Weight(s, n)[e]
  <2>1. \A s, n : SumOf(r, Weight(s, n)) = Weight(s, n)[f]
    BY <1>1, <1>n, <1>2, PassedConserves
  <2>2. \A s, n : Weight(s, n)[f] = Weight(s, n)[e]
    BY <1>n, EventsStamped DEF Weight, YieldOf, IsCopy
  <2> QED BY <2>1, <2>2
<1>4. PICK m2 : m2 = AtChannel(m, i)
  OBVIOUS
<1>5. /\ m2.events = Replaced(m.events, i, r)
      /\ m2.delivered = m.delivered /\ m2.predicates = m.predicates
  BY <1>1, <1>n, <1>2, <1>4 DEF AtChannel, Machine
<1>6. Conserves(m2, m)
  BY <1>1, <1>3, <1>5, ReplacingConserves
<1> QED BY <1>4, <1>6

(* The nodes that pass on what they make of an event.                      *)
LEMMA CopyingConserves ==
  ASSUME CodesOnly, NEW m \in Machine, m.predicates = Preset,
         NEW i \in 1..Len(m.events), m.events[i].pos \in Node,
         Kind[m.events[i].pos] \notin {"sink", "getchar", "evdev"},
         NEW f \in Event, f.pos = m.events[i].pos, f.ttl = m.events[i].ttl,
         f.src = m.events[i].src, f.n = m.events[i].n,
         f.code = CodeLeaving(m.events[i].pos, m.events[i].code),
         NEW m2, m2.events = Replaced(m.events, i, Copies(f, m.predicates)),
         m2.delivered = m.delivered, m2.predicates = m.predicates
  PROVE  Conserves(m2, m)
<1>1. PICK e \in Event : e = m.events[i]
  BY EventAt
<1>2. PICK r \in Seq(Event) : r = Copies(f, Preset)
  BY CopiesAre
<1>3. \A s, n : SumOf(r, Weight(s, n)) = Weight(s, n)[e]
  BY <1>1, <1>2, CopiesConserve
<1>4. m2.events = Replaced(m.events, i, r)
  BY <1>2
<1> QED BY <1>1, <1>3, <1>4, ReplacingConserves

LEMMA ForwardConserves ==
  ASSUME CodesOnly, NEW m \in Machine, m.predicates = Preset,
         NEW i \in 1..Len(m.events), m.events[i].pos \in Node,
         Kind[m.events[i].pos] \in {"forward", "router"}
  PROVE  Conserves(AtForward(m, i), m)
<1>1. PICK f \in Event : f = m.events[i]
  BY EventAt
<1>2. f.code = CodeLeaving(f.pos, f.code)
  BY <1>1 DEF CodeLeaving
<1>3. PICK m2 : m2 = AtForward(m, i)
  OBVIOUS
<1>4. /\ m2.events = Replaced(m.events, i, Copies(f, m.predicates))
      /\ m2.delivered = m.delivered /\ m2.predicates = m.predicates
  BY <1>1, <1>3 DEF AtForward, Machine
<1>5. Conserves(m2, m)
  BY <1>1, <1>2, <1>4, CopyingConserves
<1> QED BY <1>3, <1>5

LEMMA AssignConserves ==
  ASSUME CodesOnly, NEW m \in Machine, m.predicates = Preset,
         NEW i \in 1..Len(m.events), m.events[i].pos \in Node,
         Kind[m.events[i].pos] = "assign"
  PROVE  Conserves(AtAssign(m, i), m)
<1>1. PICK e \in Event : e = m.events[i]
  BY EventAt
<1>2. PICK f : f = Assigned(e)
  OBVIOUS
<1>3. /\ f \in Event /\ f.pos = e.pos /\ f.ttl = e.ttl /\ f.src = e.src /\ f.n = e.n
      /\ f.code = CodeLeaving(e.pos, e.code)
  <2>1. /\ Options[e.pos].recode \in [Code -> Code]
        /\ Options[e.pos].payload \in Int64 \union {Null}
        /\ e.code \in Code /\ e.payload \in Int64
    BY <1>1, OptionsAssumption DEF Event
  <2>2. PICK c \in Code : c = Options[e.pos].recode[e.code]
    BY <2>1
  <2>3. PICK p \in Int64 : p = IF Options[e.pos].payload = Null THEN e.payload
                               ELSE Options[e.pos].payload
    BY <2>1
  <2>4. f = [e EXCEPT !.code = c, !.payload = p]
    BY <1>2, <2>2, <2>3 DEF Assigned
  <2>5. CodeLeaving(e.pos, e.code) = c
    BY <1>1, <2>2 DEF CodeLeaving
  <2> QED BY <2>4, <2>5 DEF Event
<1>4. PICK m2 : m2 = AtAssign(m, i)
  OBVIOUS
<1>5. /\ m2.events = Replaced(m.events, i, Copies(f, m.predicates))
      /\ m2.delivered = m.delivered /\ m2.predicates = m.predicates
  BY <1>1, <1>2, <1>4 DEF AtAssign, Machine
<1>6. Conserves(m2, m)
  BY <1>1, <1>3, <1>5, CopyingConserves
<1> QED BY <1>4, <1>6

LEMMA ComputingConserves ==
  ASSUME CodesOnly, NEW m \in Machine, m.predicates = Preset,
         NEW i \in 1..Len(m.events), m.events[i].pos \in ComputingNode
  PROVE  Conserves(AtComputing(m, i), m)
<1>1. PICK e \in Event : e = m.events[i]
  BY EventAt
<1>2. /\ e.pos \in Node /\ Kind[e.pos] \notin {"sink", "getchar", "evdev"}
      /\ CodeLeaving(e.pos, e.code) = e.code
  BY <1>1 DEF ComputingNode, CodeLeaving
<1>3. PICK m2 : m2 = AtComputing(m, i)
  OBVIOUS
<1>4. CASE Outputs[e.pos] = << >>
  <2>1. Copies(e, m.predicates) = << >>
    BY <1>4, NoOuts
  <2>2. m.events \in Seq(Event)
    BY EventAt
  <2>3. /\ m2.events = DestroyedAt(m.events, i)
        /\ m2.delivered = m.delivered /\ m2.predicates = m.predicates
    BY <1>1, <1>3, <1>4 DEF AtComputing, Machine
  <2>4. m2.events = Replaced(m.events, i, Copies(e, m.predicates))
    BY <2>1, <2>2, <2>3, DestroyedReplaces
  <2>5. Conserves(m2, m)
    BY <1>1, <1>2, <2>3, <2>4, CopyingConserves
  <2> QED BY <1>3, <2>5
<1>5. CASE Outputs[e.pos] # << >>
  <2>1. PICK left : left = Computed(e, m.memory[e.pos])
    OBVIOUS
  <2>2. PICK f : f = [e EXCEPT !.payload = left.payload]
    OBVIOUS
  <2>3. left.payload \in Int64
    <3>1. m.memory[e.pos] \in Int64 /\ e.payload \in Int64
      BY <1>1 DEF Machine, Event
    <3> QED BY <1>1, <2>1, <3>1, ComputesInt64
  <2>4. /\ f \in Event /\ f.pos = e.pos /\ f.ttl = e.ttl /\ f.src = e.src /\ f.n = e.n
        /\ f.code = e.code
    BY <2>2, <2>3 DEF Event
  <2>5. /\ m2.events = Replaced(m.events, i, Copies(f, m.predicates))
        /\ m2.delivered = m.delivered /\ m2.predicates = m.predicates
    BY <1>1, <1>3, <1>5, <2>1, <2>2 DEF AtComputing, Machine
  <2>6. Conserves(m2, m)
    BY <1>1, <1>2, <2>4, <2>5, CopyingConserves
  <2> QED BY <1>3, <2>6
<1> QED BY <1>4, <1>5

LEMMA SumTakenOut ==
  ASSUME NEW S, NEW s \in Seq(S), NEW i \in 1..Len(s), NEW w \in [S -> Nat]
  PROVE  SumOf(Replaced(s, i, << >>), w) + w[s[i]] = SumOf(s, w)
<1>1. PICK r \in Seq(S) : r = << >>
  BY EmptySeq
<1>2. SumOf(Replaced(s, i, r), w) + w[s[i]] = SumOf(s, w) + SumOf(r, w)
  BY SumReplaced
<1>3. SumOf(r, w) = 0 /\ SumOf(s, w) \in Nat
  BY <1>1, SumIsNat
<1> QED BY <1>1, <1>2, <1>3

LEMMA SinkConserves ==
  ASSUME NEW m \in Machine, NEW i \in 1..Len(m.events), m.events[i].pos \in Node,
         Kind[m.events[i].pos] = "sink"
  PROVE  Conserves(AtSink(m, i), m)
<1>1. PICK e \in Event : e = m.events[i]
  BY EventAt
<1>2. PICK q \in Seq(Event) : q = m.events
  BY EventAt
<1>3. PICK o \in Seq(Delivery) : o = m.delivered
  BY DEF Machine
<1>4. PICK d : d = [sink |-> e.pos, src |-> e.src, n |-> e.n, time |-> e.time,
                    code |-> e.code, payload |-> e.payload]
  OBVIOUS
<1>5. d \in Delivery /\ d.src = e.src /\ d.n = e.n
  BY <1>1, <1>4 DEF Event, Delivery
<1>6. PICK m2 : m2 = AtSink(m, i)
  OBVIOUS
<1>7. /\ m2.events = Replaced(q, i, << >>) /\ m2.delivered = Append(o, d)
      /\ m2.predicates = m.predicates
  <2>1. /\ m2.events = DestroyedAt(q, i) /\ m2.delivered = Append(o, d)
        /\ m2.predicates = m.predicates
    BY <1>1, <1>2, <1>3, <1>4, <1>6 DEF AtSink, Machine
  <2> QED BY <1>2, <2>1, DestroyedReplaces
<1>8. YieldOf(e) = 1 /\ e \in Stamped
  <2>1. e.pos # Null /\ e.pos \notin Channel /\ e \in Stamped
    BY <1>1, GraphAssumption, EventsStamped
  <2> QED BY <1>1, <2>1 DEF YieldOf, YieldAt
<1>9. ASSUME NEW s, NEW n PROVE Balance(m2, s, n) = Balance(m, s, n)
  <2>1. PICK w \in [Stamped -> Nat] : w = Weight(s, n)
    BY WeightTyped
  <2>2. PICK one \in [Delivery -> Nat] : one = One(s, n)
    BY WeightTyped
  <2>4. q \in Seq(Stamped) /\ i \in 1..Len(q)
    BY <1>2, EventsStamped
  <2>5. PICK t \in Seq(Stamped) : t = Replaced(q, i, << >>)
    BY <2>4, EmptySeq, ReplacedIs
  <2>6. SumOf(t, w) + w[q[i]] = SumOf(q, w)
    BY <2>4, <2>5, SumTakenOut
  <2>7. PICK p \in Seq(Delivery) : p = Append(o, d)
    BY <1>5, AppendProperties
  <2>8. SumOf(p, one) = SumOf(o, one) + one[d]
    BY <1>5, <2>7, SumAppended
  <2>9. w[e] = one[d]
    BY <1>5, <1>8, <2>1, <2>2 DEF Weight, One
  <2>10. m2.events = t /\ m2.delivered = p
    BY <1>7, <2>5, <2>7
  <2>11. Pending(t, s, n) = SumOf(t, w) /\ Pending(q, s, n) = SumOf(q, w)
    BY <2>1, <2>4, PendingIs
  <2>12. Arrived(p, s, n) = SumOf(p, one) /\ Arrived(o, s, n) = SumOf(o, one)
    BY <2>2, ArrivedIs
  <2>13. /\ SumOf(t, w) \in Nat /\ SumOf(q, w) \in Nat
         /\ SumOf(o, one) \in Nat
    BY <2>4, SumIsNat
  <2>14. q[i] = e /\ w[e] \in Nat
    BY <1>1, <1>2, <1>8
  <2>15. SumOf(t, w) + w[e] = SumOf(q, w)
    BY <2>6, <2>13, <2>14
  <2>16. (SumOf(o, one) + w[e]) + SumOf(t, w) = SumOf(o, one) + SumOf(q, w)
    BY <2>13, <2>14, <2>15
  <2> QED BY <1>2, <1>3, <2>8, <2>9, <2>10, <2>11, <2>12, <2>16 DEF Balance
<1> QED BY <1>6, <1>7, <1>9 DEF Conserves

(* What handle_io creates comes on top of what is listed already.          *)
LEMMA CreatingAdds ==
  ASSUME NEW st \in Seq(Event), NEW q \in Seq(Event), NEW s, NEW n
  PROVE  Pending(FoldLeft(Created, st, q), s, n) = Pending(st, s, n) + Pending(q, s, n)
<1>1. PICK l \in Nat : l = Len(q) /\ DOMAIN q = 1..l /\ \A k \in 1..l : q[k] \in Event
  BY LenProperties, ElementOfSeq
<1>2. PICK t : t = FoldLeft(Created, st, q)
  OBVIOUS
<1>3. Creation(Seq(Event), st, q, l, t)
  <2>1. \A k \in 1..l : \A z \in Seq(Event) : Created(z, q[k]) \in Seq(Event)
    BY <1>1, CreatedIs
  <2> QED BY <1>1, <1>2, <2>1, CreatingAll
<1>4. PICK c \in [0..l -> Seq(Event)] :
        /\ c[0] = st
        /\ \A k \in 1..l : c[k] = Created(c[k - 1], q[k])
        /\ t = c[l]
  BY <1>3 DEF Creation
<1>5. PICK w \in [Stamped -> Nat] : w = Weight(s, n)
  BY WeightTyped
<1>6. st \in Seq(Stamped) /\ q \in Seq(Stamped)
  BY EventsStamped
<1>7. PICK x \in Seq(Nat) : /\ Len(x) = l /\ SumOf(q, w) = Total(x)
                            /\ \A i \in 1..l : x[i] = w[q[i]]
  BY <1>1, <1>6, WeightsAre
<1>8. PICK d : IsSum(d, x)
  BY TotalIs
<1>9. PICK Q : Q = [k \in 0..l |-> {z \in Seq(Event) : SumOf(z, w) = SumOf(st, w) + d[k]}]
  OBVIOUS
<1>10. c[0] \in Q[0]
  <2>1. d[0] = 0 /\ SumOf(st, w) \in Nat /\ 0 \in 0..l
    BY <1>6, <1>8, SumIsNat DEF IsSum
  <2>2. SumOf(st, w) = SumOf(st, w) + d[0]
    BY <2>1
  <2> QED BY <1>4, <1>9, <2>1, <2>2
<1>11. ASSUME NEW k \in 1..l, c[k - 1] \in Q[k - 1] PROVE c[k] \in Q[k]
  <2>1. k \in 0..l /\ k - 1 \in 0..l
    OBVIOUS
  <2>2. PICK z \in Seq(Event) : z = c[k - 1] /\ SumOf(z, w) = SumOf(st, w) + d[k - 1]
    BY <1>9, <1>11, <2>1
  <2>3. PICK e \in Event : e = q[k]
    BY <1>1
  <2>4. PICK y : y = Created(z, e)
    OBVIOUS
  <2>5. c[k] = y /\ y \in Seq(Event)
    BY <1>4, <2>1, <2>2, <2>3, <2>4
  <2>6. PICK m \in Seq(Stamped) : m = <<e>> /\ Len(m) = 1 /\ m[1] = e
    <3>1. PICK m : m = <<e>>
      OBVIOUS
    <3>2. m \in Seq(Stamped) /\ Len(m) = 1 /\ m[1] = e
      BY <3>1, EventsStamped
    <3> QED BY <3>1, <3>2
  <2>7. PICK a \in 0..Len(z) : a = Ahead(z, e.time)
    BY AheadIs
  <2>8. IsSpliced(y, z, a, m, a)
    BY <2>4, <2>6, <2>7, CreatedIs
  <2>9. z \in Seq(Stamped) /\ y \in Seq(Stamped)
    BY <2>5, EventsStamped
  <2>10. SumOf(y, w) = SumOf(z, w) + SumOf(m, w)
    BY <2>8, <2>9, SumInserted
  <2>11. SumOf(m, w) = w[e]
    BY <2>6, SumIsNat
  <2>12. d[k] = d[k - 1] + w[e] /\ d[k - 1] \in Nat /\ w[e] \in Nat
    <3>1. d[k] = d[k - 1] + x[k] /\ d[k - 1] \in Nat
      BY <1>7, <1>8, <2>1 DEF IsSum
    <3>2. e \in Stamped
      BY EventsStamped
    <3> QED BY <1>7, <2>3, <3>1, <3>2
  <2>13. SumOf(st, w) \in Nat
    BY <1>6, SumIsNat
  <2>14. SumOf(y, w) = SumOf(st, w) + d[k]
    BY <2>2, <2>10, <2>11, <2>12, <2>13
  <2> QED BY <1>9, <2>1, <2>5, <2>14
<1>12. \A k \in 0..l : c[k] \in Q[k]
  BY <1>10, <1>11, Chain
<1>13. l \in 0..l
  OBVIOUS
<1>14. t \in Seq(Event) /\ SumOf(t, w) = SumOf(st, w) + d[l]
  BY <1>4, <1>9, <1>12, <1>13
<1>15. d[l] = SumOf(q, w)
  BY <1>7, <1>8 DEF IsSum
<1>16. t \in Seq(Stamped)
  BY <1>14, EventsStamped
<1>17. /\ Pending(t, s, n) = SumOf(t, w) /\ Pending(st, s, n) = SumOf(st, w)
       /\ Pending(q, s, n) = SumOf(q, w)
  BY <1>5, <1>6, <1>16, PendingIs
<1> QED BY <1>2, <1>14, <1>15, <1>17

LEMMA NothingPending ==
  ASSUME NEW q \in Seq(Stamped), NEW s, NEW n,
         \A k \in 1..Len(q) : ~ (q[k].src = s /\ q[k].n = n)
  PROVE  Pending(q, s, n) = 0
<1>1. PICK w \in [Stamped -> Nat] : w = Weight(s, n)
  BY WeightTyped
<1>2. \A k \in 1..Len(q) : w[q[k]] = 0
  BY <1>1, ElementOfSeq DEF Weight
<1>3. SumOf(q, w) = 0
  BY <1>2, SumOfNothing
<1> QED BY <1>1, <1>3, PendingIs

(* What an input causes depends on its code and on where it comes in.      *)
LEMMA SourceCounts ==
  ASSUME NEW s \in Source, NEW n \in Nat \ {0}, NEW code \in Code,
         NEW t \in Nat, NEW p \in Int64
  PROVE  Pending(FromSource(s, n, code, t, p), s, n)
           = Pending(FromSource(s, n, code, 0, 0), s, n)
<1>1. PICK r : r = FromSource(s, n, code, t, p)
  OBVIOUS
<1>2. PICK o : o = FromSource(s, n, code, 0, 0)
  OBVIOUS
<1>3. /\ DOMAIN r = DOMAIN Outputs[s] /\ DOMAIN o = DOMAIN Outputs[s]
      /\ \A k \in DOMAIN Outputs[s] :
           /\ r[k].pos = Outputs[s][k] /\ o[k].pos = Outputs[s][k]
           /\ r[k].ttl = InitialTTL /\ o[k].ttl = InitialTTL
           /\ r[k].code = code /\ o[k].code = code
           /\ r[k].src = s /\ o[k].src = s /\ r[k].n = n /\ o[k].n = n
  BY <1>1, <1>2 DEF FromSource
<1>4. \A k \in DOMAIN Outputs[s] : YieldOf(r[k]) = YieldOf(o[k])
  BY <1>3 DEF YieldOf
<1>5. [k \in DOMAIN r |-> IF r[k].src = s /\ r[k].n = n THEN YieldOf(r[k]) ELSE 0]
        = [k \in DOMAIN o |-> IF o[k].src = s /\ o[k].n = n THEN YieldOf(o[k]) ELSE 0]
  BY <1>3, <1>4
<1> QED BY <1>1, <1>2, <1>5 DEF Pending

(* What the n-th input of s causes, when it is data and when it is the end *)
(* of file.                                                                *)
Owed(s, n, code) == Pending(FromSource(s, n, code, 0, 0), s, n)

LEMMA BeforeOrAt ==
  ASSUME NEW n \in Int, NEW from \in Int, NEW k \in Int
  PROVE  /\ n <= from + (k - 1) => n <= from + k /\ from + k # n
         /\ n <= from + (k - 1) \/ n = from + k \/ n > from + k
OBVIOUS

LEMMA DeviceCounts ==
  ASSUME NEW s \in Source, input[s] \in Inputs, read[s] \in Nat,
         NEW skew \in 0..MaxSkew,
         NEW n \in (read[s] + 1)..(read[s] + Len(input[s]))
  PROVE  Pending(EventsFromDevice(s, skew), s, n) = Owed(s, n, "data")
<1>1. PICK l \in Nat :
        /\ l = Len(input[s]) /\ DOMAIN input[s] = 1..l
        /\ \A i \in 1..l : input[s][i] \in [time : 0..MaxTime, payload : Payload]
  BY LenProperties, ElementOfSeq DEF Inputs
<1>2. PICK from \in Nat : from = read[s]
  OBVIOUS
<1>3. n \in Nat \ {0} /\ from < n /\ n <= from + l
  BY <1>1, <1>2
<1>4. PICK q : q = [i \in 1..l |->
                      FromSource(s, from + i, "data", input[s][i].time + skew,
                                 input[s][i].payload)]
  OBVIOUS
<1>5. PICK w \in [Stamped -> Nat] : w = Weight(s, n)
  BY WeightTyped
<1>6. PICK due : due = Owed(s, n, "data")
  OBVIOUS
<1>7. ASSUME NEW i \in 1..l
      PROVE  /\ q[i] \in Seq(Stamped)
             /\ from + i = n => SumOf(q[i], w) = due
             /\ from + i # n => SumOf(q[i], w) = 0
  <2>1. PICK m \in Nat \ {0} : m = from + i
    OBVIOUS
  <2>2. PICK code \in Code : code = "data"
    BY LoopAssumption
  <2>3. PICK t \in Nat : t = input[s][i].time + skew
    <3>1. skew \in Nat /\ input[s][i].time \in Nat
      BY <1>1, LoopAssumption
    <3> QED BY <3>1
  <2>4. PICK p \in Int64 : p = input[s][i].payload
    BY <1>1, LoopAssumption
  <2>5. PICK r : r = FromSource(s, m, code, t, p)
    OBVIOUS
  <2>6. q[i] = r
    BY <1>4, <2>1, <2>2, <2>3, <2>4, <2>5
  <2>7. r \in Seq(Stamped) /\ \A k \in 1..Len(r) : r[k].src = s /\ r[k].n = m
    <3>1. Made(r, s, m, t)
      BY <2>5, FromSourceIs
    <3> QED BY <3>1 DEF Made
  <2>8. SumOf(r, w) = Pending(r, s, n)
    BY <1>5, <2>7, PendingIs
  <2>9. m = n => Pending(r, s, n) = due
    <3>1. Pending(r, s, m) = Pending(FromSource(s, m, code, 0, 0), s, m)
      BY <2>5, SourceCounts
    <3> QED BY <1>6, <2>2, <3>1 DEF Owed
  <2>10. m # n => Pending(r, s, n) = 0
    BY <2>7, NothingPending
  <2> QED BY <2>1, <2>6, <2>7, <2>8, <2>9, <2>10
<1>8. q \in Seq(Seq(Stamped)) /\ Len(q) = l
  <2>1. q \in Seq(Seq(Stamped))
    BY <1>4, <1>7, IsASeq
  <2>2. DOMAIN q = 1..l /\ DOMAIN q = 1..Len(q) /\ Len(q) \in Nat
    BY <1>4, <2>1, LenProperties
  <2> QED BY <1>4, <2>1, <2>2
<1>9. PICK c \in [0..l -> Seq(Stamped)] :
        /\ c[0] = << >>
        /\ \A k \in 1..l : c[k] = c[k - 1] \o q[k]
        /\ FlattenSeq(q) = c[l]
  BY <1>8, FlattenIs
<1>10. due \in Nat
  <2>1. PICK i \in 1..l : from + i = n
    <3>1. n - from \in 1..l /\ from + (n - from) = n
      BY <1>3
    <3> QED BY <3>1
  <2>2. PICK r \in Seq(Stamped) : r = q[i]
    BY <1>7
  <2>3. SumOf(r, w) = due
    BY <1>7, <2>1, <2>2
  <2> QED BY <2>3, SumIsNat
<1>11. PICK Q : Q = [k \in 0..l |->
                       {r \in Seq(Stamped) :
                          SumOf(r, w) = IF n <= from + k THEN due ELSE 0}]
  OBVIOUS
<1>12. c[0] \in Q[0]
  <2>1. PICK r : r = c[0]
    OBVIOUS
  <2>2. r \in Seq(Stamped) /\ r = << >> /\ 0 \in 0..l /\ ~ (n <= from + 0)
    BY <1>3, <1>9, <2>1
  <2>3. SumOf(r, w) = 0
    BY <2>2, SumIsNat
  <2> QED BY <1>11, <2>1, <2>2, <2>3
<1>13. ASSUME NEW k \in 1..l, c[k - 1] \in Q[k - 1] PROVE c[k] \in Q[k]
  <2>1. k - 1 \in 0..l /\ k \in 0..l
    OBVIOUS
  <2>2. PICK r \in Seq(Stamped) :
          r = c[k - 1] /\ SumOf(r, w) = IF n <= from + (k - 1) THEN due ELSE 0
    BY <1>11, <1>13, <2>1
  <2>3. PICK x \in Seq(Stamped) : x = q[k]
    BY <1>7
  <2>4. PICK y : y = r \o x
    OBVIOUS
  <2>5. c[k] = y /\ y \in Seq(Stamped)
    BY <1>9, <2>1, <2>2, <2>3, <2>4
  <2>6. SumOf(y, w) = SumOf(r, w) + SumOf(x, w)
    BY <2>4, SumJoined
  <2>7. SumOf(x, w) = IF from + k = n THEN due ELSE 0
    BY <1>7, <2>3
  <2>8. /\ n <= from + (k - 1) => n <= from + k /\ from + k # n
        /\ n <= from + (k - 1) \/ n = from + k \/ n > from + k
    <3>1. n \in Int /\ k \in Int /\ from \in Int
      BY <1>3
    <3> QED BY <3>1, BeforeOrAt
  <2>9. SumOf(y, w) = IF n <= from + k THEN due ELSE 0
    <3>1. CASE n <= from + (k - 1)
      <4>1. n <= from + k /\ from + k # n
        BY <2>8, <3>1
      <4> QED BY <1>10, <2>2, <2>6, <2>7, <3>1, <4>1
    <3>2. CASE n = from + k
      <4>1. n <= from + k /\ ~ (n <= from + (k - 1))
        BY <1>3, <3>2
      <4> QED BY <1>10, <2>2, <2>6, <2>7, <3>2, <4>1
    <3>3. CASE n > from + k
      <4>1. ~ (n <= from + k) /\ ~ (n <= from + (k - 1)) /\ from + k # n
        BY <1>3, <3>3
      <4> QED BY <2>2, <2>6, <2>7, <4>1
    <3>4. n <= from + (k - 1) \/ n = from + k \/ n > from + k
      BY <2>8
    <3> QED BY <3>1, <3>2, <3>3, <3>4
  <2> QED BY <1>11, <2>1, <2>5, <2>9
<1>14. \A k \in 0..l : c[k] \in Q[k]
  BY <1>12, <1>13, Chain
<1>15. l \in 0..l
  OBVIOUS
<1>16. c[l] \in Seq(Stamped) /\ SumOf(c[l], w) = due
  BY <1>3, <1>11, <1>14, <1>15
<1>17. EventsFromDevice(s, skew) = c[l]
  BY <1>1, <1>2, <1>4, <1>9 DEF EventsFromDevice
<1> QED BY <1>5, <1>6, <1>16, <1>17, PendingIs

LEMMA StdinCounts ==
  ASSUME NEW s \in Source, input[s] \in Inputs, read[s] \in Nat, now \in 0..MaxTime
  PROVE  Pending(EventsFromStdin(s), s, read[s] + 1)
           = Owed(s, read[s] + 1, IF input[s] = << >> THEN "eof" ELSE "data")
<1>1. PICK m \in Nat \ {0} : m = read[s] + 1
  OBVIOUS
<1>2. now \in Nat
  BY LoopAssumption
<1>3. CASE input[s] = << >>
  <2>1. "eof" \in Code /\ 0 \in Int64
    BY LoopAssumption, HalfAssumption DEF Int64
  <2>2. PICK code \in Code : code = "eof"
    BY <2>1
  <2>3. Pending(FromSource(s, m, code, now, 0), s, m)
          = Pending(FromSource(s, m, code, 0, 0), s, m)
    BY <1>2, <2>1, SourceCounts
  <2> QED BY <1>1, <1>3, <2>2, <2>3 DEF EventsFromStdin, Owed
<1>4. CASE input[s] # << >>
  <2>1. "data" \in Code /\ Head(input[s]).payload \in Int64
    <3>1. Head(input[s]) \in [time : 0..MaxTime, payload : Payload]
      BY <1>4, HeadTailProperties DEF Inputs
    <3> QED BY <3>1, LoopAssumption
  <2>2. PICK code \in Code : code = "data"
    BY <2>1
  <2>3. PICK p \in Int64 : p = Head(input[s]).payload
    BY <2>1
  <2>4. Pending(FromSource(s, m, code, now, p), s, m)
          = Pending(FromSource(s, m, code, 0, 0), s, m)
    BY <1>2, SourceCounts
  <2> QED BY <1>1, <1>4, <2>2, <2>3, <2>4 DEF EventsFromStdin, Owed
<1> QED BY <1>3, <1>4

(* Conservation, with the machine in one piece.                            *)
ConservationInv ==
  /\ OrderInv /\ predicates = Preset
  /\ \A s \in Source : \A n \in 1..read[s] :
       Balance(machine, s, n) = Owed(s, n, CodeRead(s, n))

LEMMA ConservationSound == ConservationInv => Conservation
BY DEF ConservationInv, Conservation, Balance, Owed, machine

LEMMA InitConserves == Init /\ Plain => ConservationInv
<1> SUFFICES ASSUME Init, Plain PROVE ConservationInv
  OBVIOUS
<1>1. OrderInv
  BY InitInOrder DEF Plain
<1>2. predicates = Preset
  BY DEF Init, Idle
<1>3. \A s \in Source : 1..read[s] = {}
  BY DEF Init
<1> QED BY <1>1, <1>2, <1>3 DEF ConservationInv

LEMMA HandlerConserves ==
  ASSUME Plain, LoopInv, predicates = Preset, NEW i \in DOMAIN events, HandleAt(i)
  PROVE  \E m : Handle(i, m, "io") /\ Conserves(m, machine)
<1>1. /\ machine \in Machine /\ machine.events = events /\ machine.predicates = Preset
      /\ i \in 1..Len(machine.events) /\ CodesOnly
  <2>1. machine.events = events /\ machine.predicates = Preset /\ machine \in Machine
    BY DEF machine, LoopInv
  <2> QED BY <2>1, LenProperties DEF Machine, Plain
<1>2. CASE HandleAtChannel(i)
  <2>1. PICK m : m = AtChannel(machine, i)
    OBVIOUS
  <2>2. events[i].pos \in Channel /\ Handle(i, m, "io")
    BY <1>2, <2>1 DEF HandleAtChannel
  <2> QED BY <1>1, <2>1, <2>2, ChannelConserves
<1>3. CASE HandleAtForward(i)
  <2>1. PICK m : m = AtForward(machine, i)
    OBVIOUS
  <2>2. /\ events[i].pos \in Node /\ Kind[events[i].pos] \in {"forward", "router"}
        /\ Handle(i, m, "io")
    BY <1>3, <2>1 DEF HandleAtForward, AtKind
  <2> QED BY <1>1, <2>1, <2>2, ForwardConserves
<1>4. CASE HandleAtAssign(i)
  <2>1. PICK m : m = AtAssign(machine, i)
    OBVIOUS
  <2>2. /\ events[i].pos \in Node /\ Kind[events[i].pos] = "assign"
        /\ Handle(i, m, "io")
    BY <1>4, <2>1 DEF HandleAtAssign, AtKind
  <2> QED BY <1>1, <2>1, <2>2, AssignConserves
<1>5. CASE HandleAtComputing(i)
  <2>1. PICK m : m = AtComputing(machine, i)
    OBVIOUS
  <2>2. events[i].pos \in ComputingNode /\ Handle(i, m, "io")
    BY <1>5, <2>1 DEF HandleAtComputing, AtKind, ComputingNode
  <2> QED BY <1>1, <2>1, <2>2, ComputingConserves
<1>6. CASE HandleAtModifyPredicate(i)
  BY <1>6 DEF HandleAtModifyPredicate, AtKind, Plain
<1>7. CASE HandleAtSink(i)
  <2>1. PICK m : m = AtSink(machine, i)
    OBVIOUS
  <2>2. /\ events[i].pos \in Node /\ Kind[events[i].pos] = "sink"
        /\ Handle(i, m, "io")
    BY <1>7, <2>1 DEF HandleAtSink, AtKind
  <2> QED BY <1>1, <2>1, <2>2, SinkConserves
<1>8. /\ ~ SkipAtWindow(i) /\ ~ GoAstrayAtWindow(i)
      /\ \A taken \in SUBSET Both : ~ BufferAtWindow(i, taken)
  BY DEF SkipAtWindow, BufferAtWindow, GoAstrayAtWindow, AtKind, WindowNode, Plain
<1> QED BY <1>2, <1>3, <1>4, <1>5, <1>6, <1>7, <1>8 DEF HandleAt

LEMMA HandlingConserves ==
  ASSUME Plain, ConservationInv, HandleEvent, OrderInv'
  PROVE  ConservationInv'
<1>1. PICK i \in DOMAIN events : HandleAt(i)
  BY DEF HandleEvent, Stopping
<1>2. LoopInv /\ predicates = Preset
  BY DEF ConservationInv, OrderInv
<1>3. PICK m : Handle(i, m, "io") /\ Conserves(m, machine)
  BY <1>1, <1>2, HandlerConserves
<1>4. /\ events' = m.events /\ delivered' = m.delivered /\ predicates' = m.predicates
      /\ read' = read /\ enabled' = enabled
  BY <1>3 DEF Handle, Becomes, sources
<1>5. predicates' = Preset
  BY <1>2, <1>3, <1>4 DEF Conserves, machine
<1>6. ASSUME NEW s, NEW n
      PROVE  Balance(machine, s, n)' = Balance(machine, s, n)
  <2>1. Balance(machine, s, n)' = Balance(m, s, n)
    BY <1>4 DEF Balance, machine
  <2> QED BY <1>3, <2>1 DEF Conserves
<1>7. ASSUME NEW s, NEW n
      PROVE  CodeRead(s, n)' = CodeRead(s, n)
  BY <1>4 DEF CodeRead
<1> QED BY <1>4, <1>5, <1>6, <1>7 DEF ConservationInv

(* What a handle_io makes of each input it reads is what the input owes,   *)
(* and it is nothing of any other input.                                   *)
CodeMade(s) == IF Kind[s] = "getchar" /\ input[s] = << >> THEN "eof" ELSE "data"

LEMMA ReadingOwes ==
  ASSUME LoopInv, NEW q, FromReading(q), NEW s \in Source, NEW n \in Nat \ {0}
  PROVE  Pending(q, s, n) =
           IF s = Head(ready) /\ read[s] < n /\ n <= read[s] + InputsRead(s)
           THEN Owed(s, n, CodeMade(s)) ELSE 0
<1>1. /\ q \in Seq(Event) /\ q \in Seq(Stamped)
      /\ input[s] \in Inputs /\ read[s] \in Nat /\ now \in 0..MaxTime
  BY EventsStamped DEF FromReading, LoopInv, Outside, Counted
<1>2. CASE ~ (s = Head(ready) /\ read[s] < n /\ n <= read[s] + InputsRead(s))
  <2>1. PICK z : z = Head(ready)
    OBVIOUS
  <2>2. \A k \in 1..Len(q) :
          q[k].src = z /\ read[z] < q[k].n /\ q[k].n <= read[z] + InputsRead(z)
    BY <2>1 DEF FromReading, Batch
  <2>3. \A k \in 1..Len(q) : ~ (q[k].src = s /\ q[k].n = n)
    BY <1>2, <2>1, <2>2
  <2> QED BY <1>1, <1>2, <2>3, NothingPending
<1>3. CASE s = Head(ready) /\ read[s] < n /\ n <= read[s] + InputsRead(s)
  <2>1. CASE Kind[s] = "evdev"
    <3>1. PICK skew \in 0..MaxSkew : q = EventsFromDevice(s, skew)
      BY <1>3, <2>1 DEF FromReading
    <3>2. InputsRead(s) = Len(input[s]) /\ Len(input[s]) \in Nat
      BY <1>1, <2>1, LenProperties DEF InputsRead, Inputs
    <3>3. n \in (read[s] + 1)..(read[s] + Len(input[s]))
      BY <1>1, <1>3, <3>2
    <3>4. Pending(q, s, n) = Owed(s, n, "data")
      BY <1>1, <3>1, <3>3, DeviceCounts
    <3> QED BY <1>3, <2>1, <3>4 DEF CodeMade
  <2>2. CASE Kind[s] # "evdev"
    <3>1. Kind[s] = "getchar" /\ q = EventsFromStdin(s)
      BY <1>3, <2>2 DEF FromReading
    <3>2. InputsRead(s) = 1
      BY <3>1 DEF InputsRead
    <3>3. n = read[s] + 1
      BY <1>1, <1>3, <3>2
    <3>4. Pending(q, s, n) = Owed(s, n, IF input[s] = << >> THEN "eof" ELSE "data")
      BY <1>1, <3>1, <3>3, StdinCounts
    <3> QED BY <1>3, <3>1, <3>4 DEF CodeMade
  <2> QED BY <2>1, <2>2
<1> QED BY <1>2, <1>3

(* Nothing comes of an input before it is read.                            *)
LEMMA NothingYet ==
  ASSUME OrderInv, NEW s \in Source, NEW n \in Nat, n > read[s]
  PROVE  Balance(machine, s, n) = 0
<1>1. /\ events \in Seq(Event) /\ events \in Seq(Stamped) /\ delivered \in Seq(Delivery)
      /\ read[s] \in Nat
      /\ machine.events = events /\ machine.delivered = delivered
  <2>1. machine \in Machine /\ machine.events = events /\ machine.delivered = delivered
    BY DEF OrderInv, LoopInv, machine
  <2>2. events \in Seq(Event) /\ delivered \in Seq(Delivery)
    BY <2>1 DEF Machine
  <2> QED BY <2>1, <2>2, EventsStamped DEF OrderInv, LoopInv, Counted
<1>2. \A x \in ToSet(events) \union ToSet(delivered) : x.n <= read[x.src]
  BY <1>1 DEF OrderInv, InOrder
<1>3. \A k \in 1..Len(events) : ~ (events[k].src = s /\ events[k].n = n)
  <2>1. ASSUME NEW k \in 1..Len(events), events[k].src = s, events[k].n = n
        PROVE  FALSE
    <3>1. events[k] \in ToSet(events)
      BY <1>1, LenProperties DEF ToSet
    <3>2. n <= read[s]
      BY <1>2, <2>1, <3>1
    <3> QED BY <1>1, <3>2
  <2> QED BY <2>1
<1>4. Pending(events, s, n) = 0
  BY <1>1, <1>3, NothingPending
<1>5. PICK one \in [Delivery -> Nat] : one = One(s, n)
  BY WeightTyped
<1>6. \A k \in 1..Len(delivered) : one[delivered[k]] = 0
  <2>1. ASSUME NEW k \in 1..Len(delivered), delivered[k].src = s, delivered[k].n = n
        PROVE  FALSE
    <3>1. delivered[k] \in ToSet(delivered)
      BY <1>1, LenProperties DEF ToSet
    <3>2. n <= read[s]
      BY <1>2, <2>1, <3>1
    <3> QED BY <1>1, <3>2
  <2>2. \A k \in 1..Len(delivered) : delivered[k] \in Delivery
    BY <1>1, ElementOfSeq
  <2> QED BY <1>5, <2>1, <2>2 DEF One
<1>7. Arrived(delivered, s, n) = 0
  BY <1>1, <1>5, <1>6, SumOfNothing, ArrivedIs
<1> QED BY <1>1, <1>4, <1>7 DEF Balance

LEMMA BalanceTyped ==
  ASSUME OrderInv, NEW s, NEW n
  PROVE  Balance(machine, s, n) \in Nat
<1>1. machine \in Machine
  BY DEF OrderInv, LoopInv
<1>2. PICK q \in Seq(Stamped) : q = machine.events
  BY <1>1, EventsStamped DEF Machine
<1>3. PICK o \in Seq(Delivery) : o = machine.delivered
  BY <1>1 DEF Machine
<1>4. Pending(q, s, n) \in Nat
  BY PendingIs, WeightTyped, SumIsNat
<1>5. Arrived(o, s, n) \in Nat
  BY ArrivedIs, WeightTyped, SumIsNat
<1> QED BY <1>2, <1>3, <1>4, <1>5 DEF Balance

LEMMA ReadingConserves ==
  ASSUME ConservationInv, HandleDevice \/ HandleStdin, OrderInv'
  PROVE  ConservationInv'
<1>1. OrderInv /\ LoopInv /\ predicates = Preset /\ Counted /\ Called /\ Control
  BY DEF ConservationInv, OrderInv, LoopInv
<1>2. PICK q : FromReading(q)
  BY <1>1, ReadingMakes
<1>3. PICK z \in Source : z = Head(ready)
  BY <1>2 DEF FromReading
<1>4. /\ q \in Seq(Event) /\ HandleIo(q) /\ pc = "handle" /\ InputsRead(z) \in Nat
      /\ Kind[z] = "evdev" \/ (Kind[z] = "getchar")
  BY <1>2, <1>3 DEF FromReading
<1>5. /\ events' = FoldLeft(Created, events, q) /\ delivered' = delivered
      /\ read' = [read EXCEPT ![z] = read[z] + InputsRead(z)]
      /\ enabled' = [enabled EXCEPT ![z] = StillEnabled(z)]
      /\ predicates' = predicates
  BY <1>3, <1>4 DEF HandleIo
<1>6. enabled[z] /\ (Kind[z] = "getchar" => input[z] # << >> \/ closed[z])
  <2>1. NextSource
    BY <1>4 DEF HandleIo
  <2>2. 1 \in DOMAIN ready /\ z = ready[1]
    BY <1>1, <1>3, <1>4, <2>1, NextSourceIs
  <2> QED BY <1>1, <2>2 DEF Called
<1>7. events \in Seq(Event)
  BY <1>1 DEF LoopInv, machine, Machine
<1>8. ASSUME NEW s, NEW n
      PROVE  Balance(machine, s, n)' = Balance(machine, s, n) + Pending(q, s, n)
  <2>1. Pending(events', s, n) = Pending(events, s, n) + Pending(q, s, n)
    BY <1>4, <1>5, <1>7, CreatingAdds
  <2>2. PICK e \in Nat : e = Pending(events, s, n)
    BY <1>7, EventsStamped, PendingIs, WeightTyped, SumIsNat
  <2>3. PICK p \in Nat : p = Pending(q, s, n)
    BY <1>4, EventsStamped, PendingIs, WeightTyped, SumIsNat
  <2>4. PICK o \in Nat : o = Arrived(delivered, s, n)
    <3>1. delivered \in Seq(Delivery)
      BY <1>1 DEF LoopInv, machine, Machine
    <3> QED BY <3>1, ArrivedIs, WeightTyped, SumIsNat
  <2>5. Balance(machine, s, n) = o + e
    BY <2>2, <2>4 DEF Balance, machine
  <2>6. Balance(machine, s, n)' = o + (e + p)
    BY <1>5, <2>1, <2>2, <2>3, <2>4 DEF Balance, machine
  <2> QED BY <2>3, <2>5, <2>6
<1>9. ASSUME NEW s \in Source, NEW n \in 1..read'[s]
      PROVE  Balance(machine, s, n)' = Owed(s, n, CodeRead(s, n)')
  <2>1. PICK r \in Nat : r = read[s]
    BY <1>1 DEF Counted
  <2>2. n \in Nat \ {0}
    OBVIOUS
  <2>3. CASE s # z
    <3>1. read'[s] = r /\ enabled'[s] = enabled[s] /\ n \in 1..read[s]
      BY <1>1, <1>5, <2>1, <2>3 DEF Counted
    <3>2. Pending(q, s, n) = 0
      BY <1>1, <1>2, <1>3, <2>2, <2>3, ReadingOwes
    <3>3. CodeRead(s, n)' = CodeRead(s, n)
      BY <2>1, <3>1 DEF CodeRead
    <3>4. Balance(machine, s, n) = Owed(s, n, CodeRead(s, n))
      BY <3>1 DEF ConservationInv
    <3>5. Balance(machine, s, n) \in Nat
      BY <1>1, BalanceTyped
    <3> QED BY <1>8, <3>2, <3>3, <3>4, <3>5
  <2>4. CASE s = z
    <3>1. PICK k \in Nat : k = InputsRead(s)
      BY <1>4, <2>4
    <3>2. /\ read'[s] = r + k /\ n <= r + k
          /\ enabled'[s] = ~ (closed[s] /\ input[s] = << >>)
      <4>1. read'[s] = r + k
        BY <1>1, <1>5, <2>1, <2>4, <3>1 DEF Counted
      <4>2. enabled'[s] = ~ (closed[s] /\ input[s] = << >>)
        BY <1>1, <1>5, <2>4 DEF Counted, StillEnabled
      <4> QED BY <4>1, <4>2
    <3>3. Kind[s] = "getchar" => k = 1
      BY <3>1 DEF InputsRead
    <3>4. CASE n <= r
      <4>1. Pending(q, s, n) = 0
        BY <1>1, <1>2, <1>3, <2>1, <2>2, <3>4, ReadingOwes
      <4>2. CodeRead(s, n) = "data"
        BY <1>6, <2>4 DEF CodeRead
      <4>3. CodeRead(s, n)' = "data"
        <5>1. Kind[s] = "getchar" => n # read'[s]
          BY <3>2, <3>3, <3>4
        <5> QED BY <5>1 DEF CodeRead
      <4>4. Balance(machine, s, n) = Owed(s, n, CodeRead(s, n))
        <5>1. n \in 1..read[s]
          BY <2>1, <3>4
        <5> QED BY <5>1 DEF ConservationInv
      <4>5. Balance(machine, s, n) \in Nat
        BY <1>1, BalanceTyped
      <4> QED BY <1>8, <4>1, <4>2, <4>3, <4>4, <4>5
    <3>5. CASE n > r
      <4>1. Pending(q, s, n) = Owed(s, n, CodeMade(s))
        BY <1>1, <1>2, <1>3, <2>1, <2>2, <2>4, <3>1, <3>2, <3>5, ReadingOwes
      <4>2. Balance(machine, s, n) = 0
        BY <1>1, <2>1, <2>2, <3>5, NothingYet
      <4>3. CodeRead(s, n)' = CodeMade(s)
        <5>1. CASE Kind[s] = "getchar"
          <6>1. n = read'[s]
            BY <3>2, <3>3, <3>5, <5>1
          <6>2. ~ enabled'[s] <=> input[s] = << >>
            BY <1>6, <2>4, <3>2, <5>1
          <6> QED BY <5>1, <6>1, <6>2 DEF CodeRead, CodeMade
        <5>2. CASE Kind[s] # "getchar"
          BY <5>2 DEF CodeRead, CodeMade
        <5> QED BY <5>1, <5>2
      <4>4. Pending(q, s, n) \in Nat
        <5>1. q \in Seq(Stamped)
          BY <1>4, EventsStamped
        <5> QED BY <5>1, PendingIs, WeightTyped, SumIsNat
      <4> QED BY <1>8, <4>1, <4>2, <4>3, <4>4
    <3> QED BY <2>1, <2>2, <3>4, <3>5
  <2> QED BY <2>3, <2>4
<1> QED BY <1>1, <1>5, <1>9 DEF ConservationInv

LEMMA NextConserves == Plain /\ ConservationInv /\ [Next]_vars => ConservationInv'
<1> SUFFICES ASSUME Plain, ConservationInv, [Next]_vars PROVE ConservationInv'
  OBVIOUS
<1>1. OrderInv'
  BY NextKeepsOrder DEF ConservationInv
<1>2. CASE HandleDevice \/ HandleStdin
  BY <1>1, <1>2, ReadingConserves
<1>3. CASE HandleEvent
  BY <1>1, <1>3, HandlingConserves
<1>4. CASE \/ UNCHANGED vars
           \/ Tick
           \/ (\E s \in Source, p \in Payload : Arrive(s, p))
           \/ (\E s \in Source : Close(s))
           \/ BeginIteration \/ BlockingIo \/ PendingIo \/ FailedIo
           \/ HandleFails \/ EndPass
  <2>1. UNCHANGED graph /\ read' = read /\ enabled' = enabled
    BY <1>4 DEF vars, env, sources, Tick, Arrive, Close, BeginIteration, BlockingIo,
       PendingIo, FailedIo, PollReturns, HandleFails, EndPass
  <2>2. machine' = machine /\ predicates' = predicates
    BY <2>1, SameMachine DEF graph
  <2>3. ASSUME NEW s, NEW n
        PROVE  CodeRead(s, n)' = CodeRead(s, n) /\ Balance(machine, s, n)' = Balance(machine, s, n)
    BY <2>1, <2>2 DEF CodeRead, Balance
  <2> QED BY <1>1, <2>1, <2>2, <2>3 DEF ConservationInv
<1> QED BY <1>2, <1>3, <1>4 DEF Next

(* Plain is about constants and goes on holding.                           *)
PlainInv == Plain /\ ConservationInv

LEMMA NextKeepsPlain == PlainInv /\ [Next]_vars => PlainInv'
<1> SUFFICES ASSUME PlainInv, [Next]_vars PROVE PlainInv'
  OBVIOUS
<1>1. Plain'
  BY DEF PlainInv, Plain, CodesOnly, WindowNode
<1>2. ConservationInv'
  BY NextConserves DEF PlainInv
<1> QED BY <1>1, <1>2 DEF PlainInv

(* On a graph without windows whose predicates look at codes only and are  *)
(* not modified, every input is delivered once for each path to a sink     *)
(* that is no longer than the time to live, whatever the nodes make of its *)
(* payload and its code and in whatever order events are handled: at any   *)
(* moment what has been delivered and what the events in the list will     *)
(* cause add up to it.                                                     *)
THEOREM EachInputCounts == Plain => (Spec => []Conservation)
<1>1. PlainInv => Conservation
  BY ConservationSound DEF PlainInv
<1>2. Plain /\ Init => PlainInv
  BY InitConserves DEF PlainInv
<1> QED BY <1>1, <1>2, NextKeepsPlain, PTL DEF Spec

-----------------------------------------------------------------------------
(***************************************************************************)
(* One input at a time.                                                    *)
(***************************************************************************)

(* A handler does the same in front of more events.                        *)
LEMMA HandlesInFront ==
  ASSUME NEW t, NEW w, NEW m, NEW b, InFront(w, m, b, t),
         NEW strict, WindowSound(m, strict),
         NEW i \in 1..Len(w.events), ~ Rejects(m, i),
         NEW m2, Handles(m, i, m2)
  PROVE  \E w2 : Handles(w, i, w2) /\ InFront(w2, m2, b, t)
<1>1. PICK p : p = w.events[i].pos /\ p = m.events[i].pos
  BY PlaceInFront
<1>2. CASE p \in Channel /\ m2 = AtChannel(m, i)
  <2>1. InFront(AtChannel(w, i), m2, b, t)
    BY <1>1, <1>2, ChannelInFront
  <2> QED BY <1>1, <1>2, <2>1 DEF Handles
<1>3. CASE p \in ComputingNode /\ m2 = AtComputing(m, i)
  <2>1. InFront(AtComputing(w, i), m2, b, t)
    BY <1>1, <1>3, ComputingInFront
  <2> QED BY <1>1, <1>3, <2>1 DEF Handles
<1>4. CASE p \in WindowNode /\ ~ Astray(m, i) /\ Skips(m, i) /\ m2 = AtWindowSkip(m, i)
  <2>1. InFront(AtWindowSkip(w, i), m2, b, t)
    BY <1>1, <1>4, SkipInFront
  <2>2. Skips(w, i) /\ ~ Astray(w, i)
    BY <1>4, SameBeforeSkip
  <2> QED BY <1>1, <1>4, <2>1, <2>2 DEF Handles
<1>5. ASSUME NEW taken \in SUBSET Both, p \in WindowNode, ~ Astray(m, i),
             ~ Skips(m, i), m2 = AtWindow(m, i, taken)
      PROVE  \E w2 : Handles(w, i, w2) /\ InFront(w2, m2, b, t)
  <2>1. InFront(AtWindow(w, i, taken), m2, b, t)
    BY <1>1, <1>5, BufferInFront
  <2>2. ~ Skips(w, i) /\ ~ Astray(w, i)
    BY <1>5, SameBeforeSkip
  <2> QED BY <1>1, <1>5, <2>1, <2>2 DEF Handles
<1>6. CASE p \in Node /\ Kind[p] \in {"forward", "router"} /\ m2 = AtForward(m, i)
  <2>1. InFront(AtForward(w, i), m2, b, t)
    BY <1>1, <1>6, ForwardInFront
  <2> QED BY <1>1, <1>6, <2>1 DEF Handles
<1>7. CASE p \in Node /\ Kind[p] = "assign" /\ m2 = AtAssign(m, i)
  <2>1. InFront(AtAssign(w, i), m2, b, t)
    BY <1>1, <1>7, AssignInFront
  <2> QED BY <1>1, <1>7, <2>1 DEF Handles
<1>8. CASE /\ p \in Node /\ Kind[p] = "modify_predicate"
           /\ m2 = AtModifyPredicate(m, i)
  <2>1. InFront(AtModifyPredicate(w, i), m2, b, t)
    BY <1>1, <1>8, ModifyPredicateInFront
  <2> QED BY <1>1, <1>8, <2>1 DEF Handles
<1>9. CASE p \in Node /\ Kind[p] = "sink" /\ m2 = AtSink(m, i)
  <2>1. InFront(AtSink(w, i), m2, b, t)
    BY <1>1, <1>9, SinkInFront
  <2> QED BY <1>1, <1>9, <2>1 DEF Handles
<1> QED BY <1>1, <1>2, <1>3, <1>4, <1>5, <1>6, <1>7, <1>8, <1>9 DEF Handles

(* What could be handled in front of more events still can be.             *)
LEMMA AbleInFront ==
  ASSUME NEW t, NEW w, NEW m, NEW b, InFront(w, m, b, t),
         NEW i \in 1..Len(w.events)
  PROVE  i \in Able(w) <=> i \in Able(m)
<1>1. /\ i \in 1..Len(m.events) /\ m.events[i] = w.events[i]
      /\ w.events \in Seq(Event) /\ m.events \in Seq(Event)
  <2>1. m.events \in Seq(Event)
    BY DEF InFront, Machine
  <2> QED BY <2>1, FrontIs, PlaceInFront
<1>2. i \in DOMAIN w.events /\ i \in DOMAIN m.events
  BY <1>1, LenProperties
<1>3. w.waiting = m.waiting /\ w.members = m.members
  BY FrontIs
<1> QED BY <1>1, <1>2, <1>3 DEF Able, Callable, Rejects

(* A handler that is called is one that Handles speaks of, or goes astray  *)
(* and changes nothing.                                                    *)
Handled(i) == UNCHANGED graph \/ \E m : Handles(machine, i, m) /\ Becomes(m)

LEMMA HandleAtIs ==
  ASSUME NEW i \in DOMAIN events, HandleAt(i)
  PROVE  Due(events[i]) /\ now' = now /\ Handled(i)
<1>1. machine.events[i] = events[i]
  BY DEF machine
<1>2. CASE HandleAtChannel(i)
  BY <1>1, <1>2 DEF HandleAtChannel, Handle, Handles, Handled, env
<1>3. CASE HandleAtForward(i)
  BY <1>1, <1>3 DEF HandleAtForward, AtKind, Handle, Handles, Handled, env
<1>4. CASE HandleAtAssign(i)
  BY <1>1, <1>4 DEF HandleAtAssign, AtKind, Handle, Handles, Handled, env
<1>5. CASE HandleAtComputing(i)
  BY <1>1, <1>5 DEF HandleAtComputing, AtKind, ComputingNode, Handle, Handles, Handled, env
<1>6. CASE HandleAtModifyPredicate(i)
  BY <1>1, <1>6 DEF HandleAtModifyPredicate, AtKind, Handle, Handles, Handled, env
<1>7. CASE HandleAtSink(i)
  BY <1>1, <1>7 DEF HandleAtSink, AtKind, Handle, Handles, Handled, env
<1>8. CASE SkipAtWindow(i)
  <2>1. /\ events[i].pos \in WindowNode /\ ~ Astray(machine, i) /\ Skips(machine, i)
        /\ Due(events[i]) /\ now' = now /\ Becomes(AtWindowSkip(machine, i))
    BY <1>8 DEF SkipAtWindow, AtKind, WindowNode, Handle, env
  <2> QED BY <1>1, <2>1 DEF Handles, Handled
<1>9. ASSUME NEW taken \in SUBSET Both, BufferAtWindow(i, taken)
      PROVE  Due(events[i]) /\ now' = now /\ Handled(i)
  <2>1. /\ events[i].pos \in WindowNode /\ ~ Astray(machine, i) /\ ~ Skips(machine, i)
        /\ Due(events[i]) /\ now' = now /\ Becomes(AtWindow(machine, i, taken))
    BY <1>9 DEF BufferAtWindow, AtKind, WindowNode, Handle, env
  <2> QED BY <1>1, <2>1 DEF Handles, Handled
<1>10. CASE GoAstrayAtWindow(i)
  <2>1. Due(events[i]) /\ now' = now /\ Becomes(machine)
    BY <1>10 DEF GoAstrayAtWindow, Handle, env
  <2>2. UNCHANGED graph
    BY <2>1 DEF Becomes, machine, graph
  <2> QED BY <2>1, <2>2 DEF Handled
<1> QED BY <1>2, <1>3, <1>4, <1>5, <1>6, <1>7, <1>8, <1>9, <1>10 DEF HandleAt

(* The event is the first that has a handler which returns true: the pass  *)
(* would have ended at an earlier one.                                     *)
LEMMA FirstAbleIsHandled ==
  ASSUME LoopInv, HandleEvent
  PROVE  /\ now' = now
         /\ \E i \in 1..Len(events) : FirstAble(machine) = {i} /\ Handled(i)
<1>1. PICK i \in Stopping : HandleAt(i) /\ \A j \in Stopping : i <= j
  BY DEF HandleEvent
<1>2. machine.events = events /\ events \in Seq(Event)
  BY DEF LoopInv, machine, Machine
<1>3. PICK n \in Nat : n = Len(events) /\ DOMAIN events = 1..n
  BY <1>2, LenProperties
<1>4. i \in 1..n
  BY <1>3 DEF Stopping
<1>5. Due(events[i]) /\ now' = now /\ Handled(i)
  BY <1>1, <1>3, <1>4, HandleAtIs
<1>6. Able(machine) \subseteq Stopping
  <2>1. ASSUME NEW j \in Able(machine) PROVE j \in Stopping
    <3>1. j \in DOMAIN events /\ Actionable(j) /\ ~ Buffered(j)
      BY <1>2 DEF Able, Actionable, Buffered
    <3> QED BY <3>1 DEF Stopping
  <2> QED BY <2>1
<1>7. i \in Able(machine)
  <2>1. Actionable(i) /\ ~ Buffered(i)
    BY <1>5 DEF Stopping
  <2> QED BY <1>2, <1>3, <1>4, <2>1 DEF Able, Actionable, Buffered
<1>8. ASSUME NEW j \in FirstAble(machine) PROVE j = i
  <2>1. j \in Able(machine) /\ j <= i
    BY <1>7 DEF FirstAble
  <2>2. j \in Stopping
    BY <1>6, <2>1
  <2>3. i <= j /\ j \in 1..n
    BY <1>1, <1>3, <2>2 DEF Stopping
  <2> QED BY <1>4, <2>1, <2>3
<1>9. i \in FirstAble(machine)
  BY <1>1, <1>6, <1>7 DEF FirstAble
<1>10. FirstAble(machine) = {i}
  BY <1>8, <1>9
<1> QED BY <1>3, <1>4, <1>5, <1>10

(* A list that ends with the events of q, in front of which those of the   *)
(* first k of them are given.                                              *)
Divided(S, s, a, q, k) ==
  LET f == FlattenSeq(SubSeq(q, 1, k))
      r == FlattenSeq(SubSeq(q, k + 1, Len(q)))
  IN  /\ f \in Seq(S) /\ r \in Seq(S) /\ a \o f \in Seq(S)
      /\ s = (a \o f) \o r
      /\ Len(s) - Len(r) = Len(a \o f)
      /\ SubSeq(q, k + 1, Len(q)) \in Seq(Seq(S))

LEMMA DividedAt ==
  ASSUME NEW S, NEW a \in Seq(S), NEW q \in Seq(Seq(S)),
         NEW s, s = a \o FlattenSeq(q), NEW k \in 0..Len(q)
  PROVE  Divided(S, s, a, q, k)
<1>1. PICK n \in Nat : n = Len(q) /\ k \in 0..n /\ \A i \in 1..n : q[i] \in Seq(S)
  BY LenProperties, ElementOfSeq
<1>2. PICK x : x = SubSeq(q, 1, k)
  OBVIOUS
<1>3. PICK y : y = SubSeq(q, k + 1, n)
  OBVIOUS
<1>4. x \in Seq(Seq(S))
  <2>1. 1 \in Int /\ k \in Int /\ \A i \in 1..k : q[i] \in Seq(S)
    BY <1>1
  <2> QED BY <1>2, <2>1, SubSeqProperties
<1>5. y \in Seq(Seq(S))
  <2>1. k + 1 \in Int /\ n \in Int /\ \A i \in (k + 1)..n : q[i] \in Seq(S)
    BY <1>1
  <2> QED BY <1>3, <2>1, SubSeqProperties
<1>6. q = x \o y
  <2>1. 1 \in 1..(Len(q) + 1) /\ k \in (1 - 1)..Len(q) /\ n \in k..Len(q)
    BY <1>1
  <2>2. x \o y = SubSeq(q, 1, n)
    BY <1>2, <1>3, <2>1, ConcatAdjacentSubSeq
  <2> QED BY <1>1, <2>2, SubSeqFull
<1>7. PICK f : f = FlattenSeq(x)
  OBVIOUS
<1>8. PICK r : r = FlattenSeq(y)
  OBVIOUS
<1>9. f \in Seq(S) /\ r \in Seq(S)
  BY <1>4, <1>5, <1>7, <1>8, FlattenTyped
<1>10. FlattenSeq(q) = f \o r
  BY <1>4, <1>5, <1>6, <1>7, <1>8, FlattenConcat
<1>11. PICK g : g = a \o f
  OBVIOUS
<1>12. g \in Seq(S)
  BY <1>9, <1>11, ConcatProperties
<1>13. s = g \o r
  <2>1. JoinAlike(a, f, r)
    BY <1>9, AllJoinAlike
  <2> QED BY <1>10, <1>11, <2>1 DEF JoinAlike
<1>14. Len(s) = Len(g) + Len(r) /\ Len(g) \in Nat /\ Len(r) \in Nat
  BY <1>9, <1>12, <1>13, ConcatProperties, LenProperties
<1>15. Len(s) - Len(r) = Len(g)
  BY <1>14
<1> QED BY <1>1, <1>2, <1>3, <1>5, <1>7, <1>8, <1>9, <1>11, <1>12, <1>13, <1>15
        DEF Divided

(* Machine m without the events of the inputs q at the end of its list.    *)
Without(m, q) ==
  [m EXCEPT !.events =
     SubSeq(m.events, 1, Len(m.events) - Len(FlattenSeq(SubSeq(q, 1, Len(q)))))]

LEMMA WithoutIs ==
  ASSUME NEW S, NEW m, NEW a \in Seq(S), NEW q \in Seq(Seq(S)),
         m.events = a \o FlattenSeq(q)
  PROVE  Without(m, q) = WithEvents(m, a)
<1>1. SubSeq(q, 1, Len(q)) = q
  BY SubSeqFull
<1>2. PICK r : r = FlattenSeq(q)
  OBVIOUS
<1>3. r \in Seq(S)
  BY <1>2, FlattenTyped
<1>4. PICK s : s = a \o r
  OBVIOUS
<1>5. Len(s) - Len(r) = Len(a) /\ Len(a) \in 0..Len(a)
  <2>1. Len(s) = Len(a) + Len(r) /\ Len(a) \in Nat /\ Len(r) \in Nat
    BY <1>3, <1>4, ConcatProperties, LenProperties
  <2> QED BY <2>1
<1>6. SubSeq(s, 1, Len(a)) = a
  <2>1. SubSeq(s, 1, Len(a)) = SubSeq(a, 1, Len(a))
    BY <1>3, <1>4, <1>5, PrefixOfConcat
  <2> QED BY <2>1, SubSeqFull
<1>7. m.events = s
  BY <1>2, <1>4
<1>8. SubSeq(m.events, 1, Len(m.events) - Len(r)) = a
  BY <1>5, <1>6, <1>7
<1> QED BY <1>1, <1>2, <1>8 DEF Without, WithEvents

LEMMA ServedIs ==
  /\ served = Without(machine, unserved)
  /\ served' = Without(machine', unserved')
<1>1. 0 + 1 = 1
  OBVIOUS
<1>2. served = Without(machine, unserved)
  BY <1>1 DEF served, GivenUpTo, Without, machine
<1>3. served' = Without(machine', unserved')
  BY <1>1 DEF served, GivenUpTo, Without, machine
<1> QED BY <1>2, <1>3

(* On a graph fed by standard input, the list is that of a graph that is   *)
(* given one input at a time, and behind it stand the events of the inputs *)
(* that are unserved.                                                      *)
Splits(m, q, t) ==
  /\ m \in Machine /\ t \in Nat /\ q \in Seq(Seq(InPast(t)))
  /\ \E a \in Seq(InPast(t)) : m.events = a \o FlattenSeq(q)

SerialInv == OnlyStdin /\ LoopInv /\ Splits(machine, unserved, now)

(* The machine once the first k of its unserved inputs have been given.    *)
LEMMA GivenInFront ==
  ASSUME NEW m, NEW q, NEW t, Splits(m, q, t), NEW k \in 0..Len(q)
  PROVE  LET r == FlattenSeq(SubSeq(q, k + 1, Len(q)))
         IN  /\ InFront(Given(Without(m, q), q, k), m, r, t)
             /\ Len(Given(Without(m, q), q, k).events) = Len(m.events) - Len(r)
<1>1. PICK S : S = InPast(t)
  OBVIOUS
<1>2. PICK a \in Seq(S) :
        m.events = a \o FlattenSeq(q) /\ q \in Seq(Seq(S)) /\ m \in Machine
  BY <1>1 DEF Splits
<1>3. PICK s : s = m.events
  OBVIOUS
<1>4. Divided(S, s, a, q, k)
  BY <1>2, <1>3, DividedAt
<1>5. PICK f : f = FlattenSeq(SubSeq(q, 1, k))
  OBVIOUS
<1>6. PICK r : r = FlattenSeq(SubSeq(q, k + 1, Len(q)))
  OBVIOUS
<1>7. PICK g : g = a \o f
  OBVIOUS
<1>8. r \in Seq(S) /\ g \in Seq(S) /\ s = g \o r /\ Len(s) - Len(r) = Len(g)
  BY <1>4, <1>5, <1>6, <1>7 DEF Divided
<1>9. PICK w : w = Given(Without(m, q), q, k)
  OBVIOUS
<1>10. w = WithEvents(m, g) /\ w.events = g
  <2>1. Without(m, q) = WithEvents(m, a)
    BY <1>2, WithoutIs
  <2>2. Without(m, q).events = a
    BY <1>2, <2>1 DEF WithEvents, Machine
  <2>3. w = [WithEvents(m, a) EXCEPT !.events = g]
    BY <1>5, <1>7, <1>9, <2>1, <2>2 DEF Given
  <2> QED BY <1>2, <2>3 DEF WithEvents, Machine
<1>11. InFront(w, m, r, t)
  BY <1>1, <1>2, <1>3, <1>8, <1>10 DEF InFront
<1> QED BY <1>3, <1>6, <1>8, <1>9, <1>10, <1>11

(* The turn of an input comes with the first place that needs it.          *)
LEMMA TurnIs ==
  ASSUME Splits(machine, unserved, now), NEW i \in 1..Len(events),
         NEW k, k = TurnsCome(i)
  PROVE  /\ k \in 0..Len(unserved) /\ i <= GivenUpTo(k)
         /\ \A j \in 0..Len(unserved) : i <= GivenUpTo(j) => k <= j
<1>1. PICK n \in Nat : n = Len(unserved)
  BY LenProperties DEF Splits
<1>2. PICK T : T = {j \in 0..n : i <= GivenUpTo(j)}
  OBVIOUS
<1>3. n \in T
  <2>1. SubSeq(unserved, n + 1, n) = << >>
    <3>1. n + 1 \in Int /\ n \in Int /\ n < n + 1
      OBVIOUS
    <3> QED BY <3>1, SubSeqEmpty
  <2>2. FlattenSeq(<< >>) = << >> /\ Len(<< >>) = 0
    <3>1. << >> \in Seq({})
      BY EmptySeq
    <3> QED BY <3>1, FlattenOne
  <2>3. Len(events) \in Nat
    BY LenProperties DEF Splits, Machine, machine
  <2>4. Len(FlattenSeq(SubSeq(unserved, n + 1, n))) = 0
    BY <2>1, <2>2
  <2>5. GivenUpTo(n) = Len(events)
    BY <1>1, <2>3, <2>4 DEF GivenUpTo
  <2> QED BY <1>1, <1>2, <2>3, <2>5
<1>4. PICK j \in T : \A l \in T : j <= l
  <2>1. T \subseteq Nat
    BY <1>2
  <2> QED BY <1>3, <2>1, LeastOf
<1>5. /\ j \in 0..Len(unserved) /\ i <= GivenUpTo(j)
      /\ \A l \in 0..Len(unserved) : i <= GivenUpTo(l) => j <= l
  BY <1>1, <1>2, <1>4
<1> QED BY <1>5 DEF TurnsCome

LEMMA GivenUpToIs ==
  ASSUME Splits(machine, unserved, now), NEW k \in 0..Len(unserved)
  PROVE  /\ Len(Given(served, unserved, k).events) = GivenUpTo(k)
         /\ InFront(Given(served, unserved, k), machine,
                    FlattenSeq(SubSeq(unserved, k + 1, Len(unserved))), now)
         /\ DOMAIN Given(served, unserved, k).events = 1..GivenUpTo(k)
         /\ GivenUpTo(k) \in Nat
<1>1. PICK m : m = machine
  OBVIOUS
<1>2. PICK w : w = Given(served, unserved, k)
  OBVIOUS
<1>3. w = Given(Without(m, unserved), unserved, k)
  BY <1>1, <1>2, ServedIs
<1>4. PICK r : r = FlattenSeq(SubSeq(unserved, k + 1, Len(unserved)))
  OBVIOUS
<1>5. InFront(w, m, r, now) /\ Len(w.events) = Len(m.events) - Len(r)
  BY <1>1, <1>3, <1>4, GivenInFront
<1>6. Len(w.events) = GivenUpTo(k)
  BY <1>1, <1>4, <1>5 DEF GivenUpTo, machine
<1>7. w.events \in Seq(Event)
  BY <1>5, FrontIs
<1>8. DOMAIN w.events = 1..Len(w.events) /\ Len(w.events) \in Nat
  BY <1>7, LenProperties
<1> QED BY <1>1, <1>2, <1>4, <1>5, <1>6, <1>8

(* A call of a handler is one that the graph with the inputs whose turn    *)
(* has come would do next.                                                 *)
LEMMA CallServes ==
  ASSUME SerialInv, NEW i \in 1..Len(events), FirstAble(machine) = {i},
         NEW m, Handles(machine, i, m), NEW k, k = TurnsCome(i)
  PROVE  \E w \in Machine :
           LET q == SubSeq(unserved, k + 1, Len(unserved))
           IN  /\ Serves(served, unserved, w, q)
               /\ InFront(w, m, FlattenSeq(q), now)
<1>1. /\ LoopInv /\ Splits(machine, unserved, now) /\ machine.events = events
      /\ WindowSound(machine, lost["members"] = 0)
  BY DEF SerialInv, LoopInv, machine
<1>2. /\ k \in 0..Len(unserved) /\ i <= GivenUpTo(k)
      /\ \A j \in 0..Len(unserved) : i <= GivenUpTo(j) => k <= j
  BY <1>1, TurnIs
<1>3. PICK v : v = Given(served, unserved, k)
  OBVIOUS
<1>4. PICK r : r = FlattenSeq(SubSeq(unserved, k + 1, Len(unserved)))
  OBVIOUS
<1>5. InFront(v, machine, r, now) /\ i \in 1..Len(v.events)
      /\ DOMAIN v.events = 1..Len(v.events)
  <2>1. /\ InFront(v, machine, r, now) /\ Len(v.events) = GivenUpTo(k)
        /\ DOMAIN v.events = 1..GivenUpTo(k) /\ GivenUpTo(k) \in Nat
    BY <1>1, <1>2, <1>3, <1>4, GivenUpToIs
  <2> QED BY <1>2, <2>1
<1>6. i \in Able(machine) /\ \A j \in Able(machine) : i <= j
  BY DEF FirstAble
<1>7. PICK w : Handles(v, i, w) /\ InFront(w, m, r, now)
  <2>1. ~ Rejects(machine, i)
    BY <1>6 DEF Able
  <2> QED BY <1>1, <1>5, <2>1, HandlesInFront
<1>8. i \in FirstAble(v)
  <2>1. i \in Able(v)
    BY <1>5, <1>6, AbleInFront
  <2>2. ASSUME NEW j \in Able(v) PROVE i <= j
    <3>1. j \in 1..Len(v.events)
      BY <1>5 DEF Able
    <3>2. j \in Able(machine)
      BY <1>5, <3>1, AbleInFront
    <3> QED BY <1>6, <3>2
  <2> QED BY <2>1, <2>2 DEF FirstAble
<1>9. ASSUME k > 0 PROVE Able(Given(served, unserved, k - 1)) = {}
  <2>1. PICK l \in 0..Len(unserved) : l = k - 1 /\ ~ (k <= l)
    <3>1. PICK n \in Nat : n = Len(unserved)
      BY <1>1, LenProperties DEF Splits
    <3>2. k - 1 \in 0..n /\ ~ (k <= k - 1)
      BY <1>2, <1>9, <3>1
    <3> QED BY <3>1, <3>2
  <2>2. PICK u : u = Given(served, unserved, l)
    OBVIOUS
  <2>3. PICK c : c = FlattenSeq(SubSeq(unserved, l + 1, Len(unserved)))
    OBVIOUS
  <2>4. /\ InFront(u, machine, c, now) /\ Len(u.events) = GivenUpTo(l)
        /\ DOMAIN u.events = 1..GivenUpTo(l) /\ GivenUpTo(l) \in Nat
    BY <1>1, <2>1, <2>2, <2>3, GivenUpToIs
  <2>5. ASSUME NEW j \in Able(u) PROVE FALSE
    <3>1. j \in 1..Len(u.events) /\ j <= GivenUpTo(l) /\ j \in Int
      BY <2>4 DEF Able
    <3>2. j \in Able(machine)
      BY <2>4, <2>5, <3>1, AbleInFront
    <3>3. i <= GivenUpTo(l)
      BY <1>6, <2>4, <3>1, <3>2
    <3> QED BY <1>2, <2>1, <3>3
  <2> QED BY <2>1, <2>2, <2>5
<1>10. w \in Machine
  BY <1>7, FrontIs
<1>11. Serves(served, unserved, w, SubSeq(unserved, k + 1, Len(unserved)))
  BY <1>2, <1>3, <1>7, <1>8, <1>9 DEF Serves
<1> QED BY <1>4, <1>7, <1>10, <1>11

SerialStep ==
  \/ Serves(served, unserved, served', unserved')
  \/ /\ Reads /\ UNCHANGED served
     /\ unserved' = Append(unserved, EventsFromStdin(Head(ready)))

LEMMA FrontSplits ==
  ASSUME NEW w, NEW m, NEW t \in Nat, NEW q \in Seq(Seq(InPast(t))),
         InFront(w, m, FlattenSeq(q), t)
  PROVE  Splits(m, q, t) /\ Without(m, q) = w
<1>1. PICK S : S = InPast(t)
  OBVIOUS
<1>2. PICK a : a = w.events
  OBVIOUS
<1>3. /\ m \in Machine /\ a \in Seq(S) /\ m.events = a \o FlattenSeq(q)
      /\ w = WithEvents(m, a) /\ q \in Seq(Seq(S))
  BY <1>1, <1>2 DEF InFront
<1>4. Splits(m, q, t)
  BY <1>1, <1>3 DEF Splits
<1> QED BY <1>3, <1>4, WithoutIs

LEMMA HandlingServes ==
  ASSUME SerialInv, SerialNext, HandleEvent
  PROVE  /\ Splits(machine, unserved, now)'
         /\ SerialStep \/ UNCHANGED <<served, unserved>>
<1>1. LoopInv /\ Splits(machine, unserved, now)
  BY DEF SerialInv
<1>2. PICK i \in 1..Len(events) :
        FirstAble(machine) = {i} /\ Handled(i) /\ now' = now /\ pc = "scan"
  BY <1>1, FirstAbleIsHandled DEF HandleEvent
<1>0. CASE ~ Calls
  <2>1. UNCHANGED graph /\ unserved' = unserved
    BY <1>0, <1>2 DEF Calls, Reads, SerialNext
  <2>2. machine' = machine
    BY <2>1, SameMachine
  <2>3. served' = served
    BY <2>1, <2>2, ServedIs
  <2> QED BY <1>1, <1>2, <2>1, <2>2, <2>3
<1>c. SUFFICES ASSUME Calls
      PROVE  Splits(machine, unserved, now)' /\ SerialStep
  BY <1>0
<1>3. PICK m : Handles(machine, i, m) /\ Becomes(m)
  BY <1>2, <1>c DEF Handled, Calls
<1>4. PICK k : k = TurnsCome(i)
  OBVIOUS
<1>5. PICK q : q = SubSeq(unserved, k + 1, Len(unserved))
  OBVIOUS
<1>6. PICK w \in Machine :
        Serves(served, unserved, w, q) /\ InFront(w, m, FlattenSeq(q), now)
  BY <1>2, <1>3, <1>4, <1>5, CallServes
<1>7. m \in Machine
  BY <1>6 DEF InFront
<1>8. machine' = m /\ now' = now /\ pc = "scan"
  BY <1>2, <1>3, <1>7, Becoming
<1>9. unserved' = q
  <2>1. ~ Reads
    BY <1>8 DEF Reads
  <2>2. (CHOOSE j \in FirstAble(machine) : TRUE) = i
    BY <1>2
  <2> QED BY <1>4, <1>5, <1>c, <2>1, <2>2 DEF SerialNext
<1>10. q \in Seq(Seq(InPast(now))) /\ now \in Nat
  <2>1. PICK S : S = InPast(now)
    OBVIOUS
  <2>2. PICK a \in Seq(S) : machine.events = a \o FlattenSeq(unserved)
    BY <1>1, <2>1 DEF Splits
  <2>3. k \in 0..Len(unserved)
    BY <1>1, <1>4, TurnIs
  <2>4. Divided(S, machine.events, a, unserved, k)
    BY <1>1, <2>1, <2>2, <2>3, DividedAt DEF Splits
  <2> QED BY <1>1, <1>5, <2>1, <2>4 DEF Divided, Splits
<1>11. Splits(m, q, now) /\ Without(m, q) = w
  BY <1>6, <1>10, FrontSplits
<1>12. served' = w
  BY <1>8, <1>9, <1>11, ServedIs
<1> QED BY <1>6, <1>8, <1>9, <1>11, <1>12 DEF SerialStep

LEMMA ReadingGives ==
  ASSUME SerialInv, SerialNext, HandleDevice \/ HandleStdin
  PROVE  Splits(machine, unserved, now)' /\ SerialStep
<1>1. /\ LoopInv /\ Splits(machine, unserved, now) /\ machine.events = events
      /\ machine \in Machine /\ read \in [Source -> Nat] /\ now \in Nat
  BY DEF SerialInv, LoopInv, Counted, machine, Splits
<1>2. PICK q : FromReading(q)
  BY <1>1, ReadingMakes
<1>3. PICK s \in Source : s = Head(ready)
  BY <1>2 DEF FromReading
<1>4. /\ q \in Seq(Event) /\ HandleIo(q) /\ q = EventsFromStdin(s) /\ pc = "handle"
      /\ \A j \in 1..Len(q) : q[j].time = now
      /\ InputsRead(s) = 1
  <2>1. Kind[s] = "getchar" /\ Kind[s] # "evdev"
    BY DEF SerialInv, OnlyStdin
  <2> QED BY <1>2, <1>3, <2>1 DEF FromReading, InputsRead
<1>5. PICK S : S = InPast(now)
  OBVIOUS
<1>6. PICK a \in Seq(S) :
        machine.events = a \o FlattenSeq(unserved) /\ unserved \in Seq(Seq(S))
  BY <1>1, <1>5 DEF Splits
<1>7. PICK f : f = FlattenSeq(unserved)
  OBVIOUS
<1>8. PICK e : e = machine.events
  OBVIOUS
<1>9. f \in Seq(S) /\ e = a \o f /\ e \in Seq(S)
  BY <1>6, <1>7, <1>8, FlattenTyped, ConcatProperties
<1>10. FoldLeft(Created, e, q) = e \o q /\ q \in Seq(S) /\ e \o q \in Seq(S)
  BY <1>1, <1>4, <1>5, <1>9, CreatingLast
<1>11. PICK u : u = Append(unserved, q)
  OBVIOUS
<1>12. u \in Seq(Seq(S)) /\ FlattenSeq(u) = f \o q
  <2>1. PICK o : o = <<q>>
    OBVIOUS
  <2>2. o \in Seq(Seq(S)) /\ u = unserved \o o
    BY <1>6, <1>10, <1>11, <2>1, AppendIsConcat
  <2>3. FlattenSeq(o) = q
    BY <1>10, <2>1, FlattenOne
  <2>4. u \in Seq(Seq(S))
    BY <1>6, <1>10, <1>11, AppendProperties
  <2> QED BY <1>6, <1>7, <2>2, <2>3, <2>4, FlattenConcat
<1>13. PICK m : m = WithEvents(machine, e \o q)
  OBVIOUS
<1>14. m \in Machine /\ m.events = a \o FlattenSeq(u)
  <2>1. m.events = e \o q /\ m = [machine EXCEPT !.events = e \o q]
    BY <1>1, <1>13 DEF WithEvents, Machine
  <2>2. e \o q \in Seq(Event)
    BY <1>5, <1>10, PastIsTyped
  <2>3. m \in Machine
    BY <1>1, <2>1, <2>2 DEF Machine
  <2>4. JoinAlike(a, f, q)
    BY <1>9, <1>10, AllJoinAlike
  <2> QED BY <1>9, <1>12, <2>1, <2>3, <2>4 DEF JoinAlike
<1>15. /\ machine' = m /\ now' = now /\ read'[s] = read[s] + 1
  <2>1. /\ events' = e \o q /\ now' = now /\ read' = [read EXCEPT ![s] = read[s] + 1]
        /\ UNCHANGED <<waiting, memory, predicates, buffer, members, skip, issued, delivered>>
    BY <1>1, <1>3, <1>4, <1>8, <1>10 DEF HandleIo
  <2>2. read'[s] = read[s] + 1
    BY <1>1, <2>1
  <2>3. machine' = m
    BY <1>13, <2>1 DEF machine, WithEvents
  <2> QED BY <2>1, <2>2, <2>3
<1>16. Reads /\ unserved' = u
  <2>1. read[s] \in Nat
    BY <1>1
  <2>2. read' # read
    BY <1>15, <2>1
  <2>3. Reads
    BY <1>4, <2>2 DEF Reads
  <2> QED BY <1>3, <1>4, <1>11, <2>3 DEF SerialNext
<1>17. Splits(m, u, now)
  BY <1>1, <1>5, <1>12, <1>14 DEF Splits
<1>18. served' = served
  <2>1. served = WithEvents(machine, a)
    BY <1>6, ServedIs, WithoutIs
  <2>2. Without(m, u) = WithEvents(m, a)
    BY <1>12, <1>14, WithoutIs
  <2>3. WithEvents(m, a) = WithEvents(machine, a)
    BY <1>1, <1>13 DEF WithEvents, Machine
  <2> QED BY <1>15, <1>16, <2>1, <2>2, <2>3, ServedIs
<1> QED BY <1>3, <1>4, <1>11, <1>15, <1>16, <1>17, <1>18 DEF SerialStep

(* The clock only goes on.                                                 *)
LEMMA LaterSplits ==
  ASSUME NEW m, NEW q, NEW t \in Nat, Splits(m, q, t)
  PROVE  Splits(m, q, t + 1)
<1>1. PICK S : S = InPast(t)
  OBVIOUS
<1>2. PICK T : T = InPast(t + 1)
  OBVIOUS
<1>3. S \subseteq T
  <2>1. ASSUME NEW e \in S PROVE e \in T
    <3>1. e \in Event /\ e.time <= t
      BY <1>1 DEF InPast
    <3>2. e.time \in Int
      BY <3>1, LoopAssumption DEF Event
    <3>3. e.time <= t + 1
      BY <3>1, <3>2
    <3> QED BY <1>2, <3>1, <3>3 DEF InPast
  <2> QED BY <2>1
<1>4. \A x \in Seq(S) : x \in Seq(T)
  BY <1>3, SeqMonotonic
<1>5. q \in Seq(Seq(T))
  <2>1. q \in Seq(Seq(S))
    BY <1>1 DEF Splits
  <2>2. PICK A, B : A = Seq(S) /\ B = Seq(T)
    OBVIOUS
  <2>3. A \subseteq B
    BY <1>4, <2>2
  <2> QED BY <2>1, <2>2, <2>3, SeqMonotonic
<1>6. PICK a \in Seq(S) : m.events = a \o FlattenSeq(q) /\ m \in Machine
  BY <1>1 DEF Splits
<1>7. a \in Seq(T) /\ t + 1 \in Nat
  BY <1>4
<1>8. \E b \in Seq(T) : m.events = b \o FlattenSeq(q)
  BY <1>6, <1>7
<1> QED BY <1>2, <1>5, <1>6, <1>7, <1>8 DEF Splits

LEMMA NextServes ==
  SerialInv /\ [SerialNext]_serialVars
    => SerialInv' /\ [SerialStep]_<<served, unserved>>
<1> SUFFICES ASSUME SerialInv, [SerialNext]_serialVars
             PROVE  SerialInv' /\ (SerialStep \/ UNCHANGED <<served, unserved>>)
  OBVIOUS
<1>1. LoopInv /\ Splits(machine, unserved, now) /\ now \in Nat
  BY DEF SerialInv, Splits
<1>2. [Next]_vars
  BY DEF SerialNext, serialVars
<1>3. LoopInv' /\ OnlyStdin'
  BY <1>1, <1>2, NextKeeps DEF SerialInv, OnlyStdin
<1>4. ASSUME UNCHANGED graph, unserved' = unserved
      PROVE  UNCHANGED <<machine, served, unserved>>
  <2>1. machine' = machine
    BY <1>4, SameMachine
  <2> QED BY <1>4, <2>1, ServedIs
<1>5. /\ Splits(machine, unserved, now)'
      /\ SerialStep \/ UNCHANGED <<served, unserved>>
  <2>1. CASE UNCHANGED serialVars
    <3>1. UNCHANGED graph /\ unserved' = unserved /\ now' = now
      BY <2>1 DEF serialVars, vars, env
    <3> QED BY <1>1, <1>4, <3>1
  <2>2. CASE SerialNext
    <3>1. CASE HandleEvent
      BY <2>2, <3>1, HandlingServes
    <3>2. CASE HandleDevice \/ HandleStdin
      BY <2>2, <3>2, ReadingGives
    <3>3. CASE Tick
      <4>1. UNCHANGED graph /\ read' = read /\ now' = now + 1
        BY <3>3 DEF Tick, sources
      <4>2. unserved' = unserved
        BY <2>2, <4>1 DEF SerialNext, Reads, Calls
      <4>3. UNCHANGED <<machine, served, unserved>>
        BY <1>4, <4>1, <4>2
      <4>4. Splits(machine, unserved, now + 1)
        BY <1>1, LaterSplits
      <4> QED BY <4>1, <4>3, <4>4
    <3>4. CASE \/ (\E s \in Source, p \in Payload : Arrive(s, p))
               \/ (\E s \in Source : Close(s))
               \/ BeginIteration \/ BlockingIo \/ PendingIo \/ FailedIo
               \/ HandleFails \/ EndPass
      <4>1. UNCHANGED graph /\ read' = read /\ now' = now
        BY <3>4 DEF env, sources, Arrive, Close, BeginIteration, BlockingIo,
           PendingIo, FailedIo, PollReturns, HandleFails, EndPass
      <4>2. unserved' = unserved
        BY <2>2, <4>1 DEF SerialNext, Reads, Calls
      <4>3. UNCHANGED <<machine, served, unserved>>
        BY <1>4, <4>1, <4>2
      <4> QED BY <1>1, <4>1, <4>3
    <3> QED BY <2>2, <3>1, <3>2, <3>3, <3>4 DEF SerialNext, Next
  <2> QED BY <2>1, <2>2
<1> QED BY <1>3, <1>5 DEF SerialInv

LEMMA InitServes ==
  OnlyStdin /\ SerialInit => SerialInv /\ served = Idle /\ unserved = << >>
<1> SUFFICES ASSUME OnlyStdin, SerialInit
             PROVE  SerialInv /\ served = Idle /\ unserved = << >>
  OBVIOUS
<1>1. LoopInv /\ machine = Idle /\ now = 0 /\ unserved = << >>
  BY InitIsSound DEF SerialInit, Init, machine, Idle
<1>2. Idle \in Machine /\ Idle.events = << >>
  BY <1>1 DEF LoopInv, Idle
<1>3. PICK S : S = InPast(0)
  OBVIOUS
<1>4. PICK a : a = << >>
  OBVIOUS
<1>5. a \in Seq(S) /\ a \in Seq(Seq(S))
  BY <1>4, EmptySeq
<1>6. FlattenSeq(a) = a /\ a \o a = a
  BY <1>4, <1>5, FlattenOne, ConcatEmptySeq
<1>7. Idle.events = a \o FlattenSeq(a)
  BY <1>2, <1>4, <1>6
<1>8. Splits(Idle, a, 0)
  BY <1>2, <1>3, <1>5, <1>7 DEF Splits
<1>9. Without(Idle, a) = Idle
  <2>1. Without(Idle, a) = WithEvents(Idle, a)
    BY <1>5, <1>7, WithoutIs
  <2> QED BY <1>2, <1>4, <2>1 DEF WithEvents, Machine
<1> QED BY <1>1, <1>4, <1>8, <1>9, ServedIs DEF SerialInv

(* On a graph fed by standard input only, whatever its nodes are, windows  *)
(* and cycles included, and whenever inputs are read in between: each call *)
(* of a handler is what a graph would do next that is given its inputs one *)
(* by one, each when no event is left that a handler could be called for.  *)
(* A graph cannot tell that the next input was already in the list.  Once  *)
(* a window's handler goes astray, which it may do when an event_set_add   *)
(* has failed, no call is left to speak of.                                *)
THEOREM ServesOneByOne == OnlyStdin => (SerialSpec => ActsSerially)
<1>1. OnlyStdin /\ SerialInit => SerialInv /\ served = Idle /\ unserved = << >>
  BY InitServes
<1>2. SerialInv /\ [SerialNext]_serialVars
        => SerialInv' /\ [SerialStep]_<<served, unserved>>
  BY NextServes
<1> QED BY <1>1, <1>2, PTL DEF SerialSpec, ActsSerially, SerialStep

-----------------------------------------------------------------------------
(* What an event's being handled depends on.                               *)
list == <<events, waiting>>

LEMMA SameList ==
  ASSUME UNCHANGED list, NEW i
  PROVE  Actionable(i)' = Actionable(i)
BY DEF list, Actionable, Callable, machine

(* The step that decides it: the pass ends the iteration without having    *)
(* called a handler.  Without a future event in the list there is nothing  *)
(* but a handler that could have ended it earlier.                         *)
LEMMA EndPassLeavesNoWork ==
  ASSUME EndPass, pc' = "top", ~hasFuture'
  PROVE  \A i \in DOMAIN events' : ~Actionable(i)'
<1>1. /\ UNCHANGED list
      /\ \A i \in DOMAIN events : Due(events[i])
  BY DEF EndPass, SeesFuture, graph, list
<1>2. Stopping \subseteq DOMAIN events
  BY DEF Stopping
<1>3. \A i \in Stopping : \E j \in Stopping : j <= i /\ ~Due(events[j])
  BY DEF EndPass
<1>4. Stopping = {}
  BY <1>1, <1>2, <1>3
<1>5. ~ \E i \in DOMAIN events : Actionable(i) /\ \A j \in Stopping : i < j
  BY Zenon DEF EndPass
<1>6. \A i \in DOMAIN events : ~Actionable(i)
  BY <1>4, <1>5
<1> QED BY <1>1, <1>6, SameList DEF list

(* process_iteration never waits without a timeout while the list holds an *)
(* event a handler could be called for.                                    *)
THEOREM NoSleepOnWork == Spec => []NeverSleepsOnWork
<1>1. Init => NeverSleepsOnWork
  BY DEF Init, Idle, NeverSleepsOnWork
<1>2. NeverSleepsOnWork /\ [Next]_vars => NeverSleepsOnWork'
  <2> SUFFICES ASSUME NeverSleepsOnWork, [Next]_vars PROVE NeverSleepsOnWork'
    OBVIOUS
  <2>1. ASSUME UNCHANGED list, hasFuture' = hasFuture,
               pc \in {"top", "poll"} \/ pc' = pc
        PROVE  NeverSleepsOnWork'
    BY <2>1, SameList DEF NeverSleepsOnWork, list
  <2>2. ASSUME pc' \in {"handle", "scan", "io", "hung", "astray"} PROVE NeverSleepsOnWork'
    BY <2>2 DEF NeverSleepsOnWork
  <2>3. CASE Tick \/ UNCHANGED vars
    BY <2>1, <2>3 DEF Tick, vars, graph, list
  <2>4. ASSUME NEW s \in Source, NEW p \in Payload, Arrive(s, p) \/ Close(s)
        PROVE  NeverSleepsOnWork'
    BY <2>1, <2>4 DEF Arrive, Close, graph, list
  <2>5. ASSUME NEW s \in Source, Close(s) PROVE NeverSleepsOnWork'
    BY <2>1, <2>5 DEF Close, graph, list
  <2>6. CASE BeginIteration
    BY <2>1, <2>6 DEF BeginIteration, graph, list
  <2>7. CASE BlockingIo \/ PendingIo \/ FailedIo
    BY <2>2, <2>7 DEF BlockingIo, PendingIo, FailedIo, PollReturns
  <2>8. CASE HandleDevice \/ HandleStdin \/ HandleFails
    <3>1. NextSource
      BY <2>8 DEF HandleDevice, HandleStdin, HandleFails, HandleIo
    <3> QED BY <2>2, <3>1 DEF NextSource
  <2>9. ASSUME NEW i, HandleAt(i) PROVE NeverSleepsOnWork'
    <3>1. ASSUME NEW m, NEW next \in {"io", "hung", "astray"},
                 Handle(i, m, next)
          PROVE  NeverSleepsOnWork'
      BY <2>2, <3>1 DEF Handle
    <3>2. CASE HandleAtChannel(i)
      BY <3>1, <3>2 DEF HandleAtChannel
    <3>3. CASE HandleAtForward(i)
      BY <3>1, <3>3 DEF HandleAtForward
    <3>4. CASE HandleAtAssign(i)
      BY <3>1, <3>4 DEF HandleAtAssign
    <3>5. CASE HandleAtComputing(i)
      BY <3>1, <3>5 DEF HandleAtComputing
    <3>6. CASE HandleAtModifyPredicate(i)
      BY <3>1, <3>6 DEF HandleAtModifyPredicate
    <3>7. CASE HandleAtSink(i)
      BY <3>1, <3>7 DEF HandleAtSink
    <3>8. CASE SkipAtWindow(i)
      BY <3>1, <3>8 DEF SkipAtWindow
    <3>9. ASSUME NEW taken \in SUBSET Both, BufferAtWindow(i, taken)
          PROVE  NeverSleepsOnWork'
      BY <3>1, <3>9 DEF BufferAtWindow
    <3>10. CASE GoAstrayAtWindow(i)
      BY <3>1, <3>10 DEF GoAstrayAtWindow
    <3> QED BY <2>9, <3>2, <3>3, <3>4, <3>5, <3>6, <3>7, <3>8, <3>9, <3>10 DEF HandleAt
  <2>10. CASE HandleEvent
    BY <2>9, <2>10 DEF HandleEvent
  <2>11. CASE EndPass
    <3>1. pc' = "io" \/ pc' = "top"
      BY <2>11 DEF EndPass
    <3> QED
      BY <2>2, <2>11, <3>1, EndPassLeavesNoWork DEF NeverSleepsOnWork
  <2> QED
    BY <2>3, <2>4, <2>5, <2>6, <2>7, <2>8, <2>10, <2>11 DEF Next
<1> QED BY <1>1, <1>2, PTL DEF Spec

-----------------------------------------------------------------------------
(***************************************************************************)
(* No window ends empty.  This is about a graph with one window, and about *)
(* what is on its way to the window, in it, and on its way to its sink.    *)
(***************************************************************************)

(* What has come out of the window at its sink.                            *)
Behind == {d \in Delivery : BehindWindow(d.sink)}
Logged(m) == Among(Behind, m.delivered)

(* A window that has an event in its buffer is not full; only one that was *)
(* to drop more events than it had is to skip some.                        *)
Settled(g, m) ==
  LET o == Options[g.window]
      held == m.buffer[g.window]
  IN  /\ \A n \in Node : m.waiting[n] => n = g.window
      /\ o.maxLength # Null => Len(held) < o.maxLength
      /\ o.additionalStep = 0 => m.skip[g.window] = 0
      /\ m.skip[g.window] > 0 => held = << >>
      /\ \A k \in 1..Len(held) : held[k] \in EventsAt(g.window)

(* An event stands at the window that is new to it, and it comes in front  *)
(* of all that the window has sent.                                        *)
Unblocked(g, m) ==
  \E j \in 1..Len(m.events) :
    /\ m.events[j].pos = g.window /\ m.events[j] \notin m.members[g.window]
    /\ \A k \in 1..j : m.events[k].pos \notin Exit(g)

(* The window has ended and skipped the event that came.  An event that it *)
(* dropped is new to it and still stands in front of what it has sent: it  *)
(* is handled first, and sent again in front of the terminator.            *)
Loose(g, m) ==
  LET o == Options[g.window]
  IN  /\ m.buffer[g.window] = << >> /\ o.additionalStep > 0
      /\ o.maxLength # Null => o.maxLength > 1
      /\ Follows(Leaving(g, m.events), TRUE) /\ Unblocked(g, m)

(* What has come out of the window, followed by what is on its way from it *)
(* to its sink, has no two ends in a row.  Something is on its way only    *)
(* while the window waits, or behind an event it is to handle first; while *)
(* it holds events, something has come since the last end, unless it holds *)
(* one that its next step drops, to be sent again in front of the next end.*)
Flow(g, m) ==
  LET v == Leaving(g, m.events)
      o == Opens(Logged(m), FALSE)
      held == m.buffer[g.window]
  IN  /\ Follows(Logged(m), FALSE)
      /\ IF m.waiting[g.window] THEN Follows(v, o) ELSE v = << >> \/ Loose(g, m)
      /\ held # << >> =>
           Opens(v, o) \/ (Len(held) = 1 /\ Options[g.window].additionalStep > 0)

(* The inductive invariant: the list is in order, and so is what comes out *)
(* of the window.                                                          *)
Row(g, m, t) ==
  /\ m \in Machine /\ m.events \in Seq(Usual(g, t)) /\ Orderly(g, m.events)
  /\ Settled(g, m) /\ Flow(g, m)

(* What is in front of the first event that is handled.                    *)
LEMMA InFrontOfFirst ==
  ASSUME NEW g, LoneWindow(g), NEW m \in Machine, Settled(g, m),
         NEW i \in FirstAble(m)
  PROVE  /\ i \in 1..Len(m.events) /\ HasHandler(m.events[i].pos)
         /\ ~ (m.events[i].pos \in Node /\ m.waiting[m.events[i].pos])
         /\ ~ Rejects(m, i)
         /\ \A j \in 1..Len(m.events) : j < i =>
              m.events[j].pos \notin Exit(g) /\ ~ Upstream(g, m.events[j].pos)
         /\ ~ m.waiting[g.window] =>
              \A j \in 1..Len(m.events) :
                m.events[j].pos = g.window /\ m.events[j] \notin m.members[g.window] => i <= j
<1>1. m.events \in Seq(Event)
  BY DEF Machine
<1>2. PICK n \in Nat : n = Len(m.events) /\ DOMAIN m.events = 1..n
  BY <1>1, LenProperties
<1>3. i \in 1..n /\ Callable(m, i) /\ ~ Rejects(m, i) /\ \A j \in Able(m) : i <= j
  BY <1>2 DEF FirstAble, Able
<1>4. ASSUME NEW j \in 1..n, j < i PROVE ~ (Callable(m, j) /\ ~ Rejects(m, j))
  <2>1. j \notin Able(m)
    BY <1>3, <1>4
  <2> QED BY <1>2, <2>1 DEF Able
<1>5. ASSUME NEW p, p \in Exit(g) \/ Upstream(g, p)
      PROVE  HasHandler(p) /\ p # g.window /\ p \notin WindowNode
  <2>1. HasHandler(p) /\ p # g.window
    BY <1>5, WindowPlace DEF Upstream
  <2> QED BY <2>1 DEF LoneWindow
<1>6. ASSUME NEW j \in 1..n, j < i, m.events[j].pos \in Exit(g) \/ Upstream(g, m.events[j].pos)
      PROVE  FALSE
  <2>1. PICK p : p = m.events[j].pos
    OBVIOUS
  <2>2. HasHandler(p) /\ p # g.window /\ p \notin WindowNode
    BY <1>5, <1>6, <2>1
  <2>3. Callable(m, j) /\ ~ Rejects(m, j)
    BY <2>1, <2>2 DEF Callable, Rejects, Settled
  <2> QED BY <1>4, <1>6, <2>3
<1>7. ASSUME ~ m.waiting[g.window], NEW j \in 1..n,
             m.events[j].pos = g.window, m.events[j] \notin m.members[g.window]
      PROVE  i <= j
  <2>1. Callable(m, j) /\ ~ Rejects(m, j)
    BY <1>7, WindowPlace DEF Callable, Rejects
  <2> QED BY <1>2, <1>3, <2>1 DEF Able
<1> QED BY <1>2, <1>3, <1>6, <1>7 DEF Callable

(* Only what goes through the exit comes to a sink behind the window.      *)
LEMMA BehindIs ==
  ASSUME NEW g, LoneWindow(g), NEW k \in Node, Kind[k] = "sink"
  PROVE  BehindWindow(k) <=> k = End[g.exit]
<1>1. PICK x \in DOMAIN Outputs[g.window] : Outputs[g.window][x] = g.exit
  BY DEF LoneWindow
<1>2. /\ g.window \in WindowNode /\ WindowNode = {g.window} /\ g.window \in Node
      /\ g.exit \in Channel /\ g.exit # Null
  <2>1. g.exit # Null
    BY WindowPlace, GraphAssumption
  <2> QED BY <2>1, WindowPlace DEF LoneWindow
<1>3. g.exit \in ToSet(Outputs[g.window]) \ {Null}
  BY <1>1, <1>2 DEF ToSet
<1>4. k = End[g.exit] => BehindWindow(k)
  BY <1>2, <1>3 DEF BehindWindow
<1>5. ASSUME BehindWindow(k) PROVE k = End[g.exit]
  <2>1. PICK c \in ToSet(Outputs[g.window]) \ {Null} : End[c] = k
    BY <1>2, <1>5 DEF BehindWindow
  <2>2. PICK j \in DOMAIN Outputs[g.window] : c = Outputs[g.window][j]
    BY <2>1 DEF ToSet
  <2>3. k # Null
    BY GraphAssumption
  <2>4. c = g.exit
    BY <1>2, <2>1, <2>2, <2>3 DEF LoneWindow
  <2> QED BY <2>1, <2>4
<1> QED BY <1>4, <1>5
LEMMA LoggedAppended ==
  ASSUME NEW s \in Seq(Delivery), NEW d \in Delivery
  PROVE  /\ Among(Behind, s) \in Seq(Delivery)
         /\ d \in Behind => Among(Behind, Append(s, d)) = Among(Behind, s) \o <<d>>
         /\ d \notin Behind => Among(Behind, Append(s, d)) = Among(Behind, s)
<1>1. PICK q : q = <<d>>
  OBVIOUS
<1>2. q \in Seq(Delivery)
  BY <1>1
<1>3. Append(s, d) = s \o q
  BY <1>1, AppendIsConcat
<1>4. AmongJoins(Behind, s, q) /\ Among(Behind, s) \in Seq(Delivery)
  BY <1>2, AmongJoined
<1>5. PICK x : x = Among(Behind, s)
  OBVIOUS
<1>6. PICK y : y = Among(Behind, q)
  OBVIOUS
<1>7. Among(Behind, Append(s, d)) = x \o y
  BY <1>3, <1>4, <1>5, <1>6 DEF AmongJoins
<1>8. y = IF d \in Behind THEN <<d>> ELSE << >>
  BY <1>1, <1>6, AmongOne
<1>9. x \o << >> = x
  BY <1>4, <1>5, ConcatEmptySeq
<1> QED BY <1>4, <1>5, <1>7, <1>8, <1>9

(* Codes are all that matters.                                             *)
LEMMA SameCodeFollows ==
  ASSUME NEW e \in Event, NEW y \in Event, y.code = e.code,
         NEW v \in Seq(Event), NEW o \in BOOLEAN
  PROVE  /\ Follows(<<e>> \o v, o) <=> Follows(<<y>> \o v, o)
         /\ Opens(<<e>> \o v, o) <=> Opens(<<y>> \o v, o)
<1>1. <<e>> \in Seq(Event) /\ <<y>> \in Seq(Event)
  OBVIOUS
<1>2. PICK a, b : a = <<e>> /\ b = <<y>>
  OBVIOUS
<1>6. a \in Seq(Event) /\ b \in Seq(Event)
  BY <1>1, <1>2
<1>3. /\ Follows(a, o) <=> Follows(b, o)
      /\ Opens(a, o) = Opens(b, o)
  <2>1. /\ Follows(a, o) <=> (e.code = "end" => o)
        /\ Opens(a, o) <=> e.code # "end"
    BY <1>2, OneFollows
  <2>2. /\ Follows(b, o) <=> (y.code = "end" => o)
        /\ Opens(b, o) <=> y.code # "end"
    BY <1>2, OneFollows
  <2>3. a # << >> /\ b # << >>
    BY <1>2
  <2>4. Opens(a, o) \in BOOLEAN /\ Opens(b, o) \in BOOLEAN
    BY <2>3 DEF Opens
  <2> QED BY <2>1, <2>2, <2>4
<1>4. /\ Follows(a \o v, o) <=> Follows(a, o) /\ Follows(v, Opens(a, o))
      /\ Opens(a \o v, o) <=> Opens(v, Opens(a, o))
  BY <1>6, JoinedFollow
<1>5. /\ Follows(b \o v, o) <=> Follows(b, o) /\ Follows(v, Opens(b, o))
      /\ Opens(b \o v, o) <=> Opens(v, Opens(b, o))
  BY <1>6, JoinedFollow
<1> QED BY <1>2, <1>3, <1>4, <1>5

LEMMA DeliveredFollows ==
  ASSUME NEW e \in Event, NEW d \in Delivery, d.code = e.code,
         NEW v \in Seq(Event), NEW l \in Seq(Delivery), Follows(l, FALSE)
  PROVE  /\ Follows(<<e>> \o v, Opens(l, FALSE)) =>
              Follows(l \o <<d>>, FALSE) /\ Follows(v, Opens(l \o <<d>>, FALSE))
         /\ Opens(<<e>> \o v, Opens(l, FALSE)) <=> Opens(v, Opens(l \o <<d>>, FALSE))
<1>1. PICK a, b : a = <<e>> /\ b = <<d>>
  OBVIOUS
<1>2. a \in Seq(Event) /\ b \in Seq(Delivery) /\ a # << >> /\ b # << >>
  BY <1>1
<1>3. PICK o \in BOOLEAN : o = Opens(l, FALSE)
  BY DEF Opens
<1>4. /\ Follows(a \o v, o) <=> Follows(a, o) /\ Follows(v, Opens(a, o))
      /\ Opens(a \o v, o) <=> Opens(v, Opens(a, o))
  BY <1>2, JoinedFollow
<1>5. /\ Follows(l \o b, FALSE) <=> Follows(l, FALSE) /\ Follows(b, o)
      /\ Opens(l \o b, FALSE) <=> Opens(b, o)
  BY <1>2, <1>3, JoinedFollow
<1>6. /\ Follows(a, o) <=> (e.code = "end" => o)
      /\ Opens(a, o) <=> e.code # "end"
  BY <1>1, OneFollows
<1>7. /\ Follows(b, o) <=> (d.code = "end" => o)
      /\ Opens(b, o) <=> d.code # "end"
  BY <1>1, OneFollows
<1>8. PICK q : q = l \o b
  OBVIOUS
<1>9. Opens(a, o) = Opens(q, FALSE)
  <2>1. Opens(a, o) \in BOOLEAN /\ Opens(q, FALSE) \in BOOLEAN
    BY <1>2 DEF Opens
  <2> QED BY <1>5, <1>6, <1>7, <1>8, <2>1
<1> QED BY <1>1, <1>3, <1>4, <1>5, <1>6, <1>7, <1>8, <1>9
(* What the handler of a position that is not the window does.             *)
Passes(g, t, m2, m, i) ==
  LET e == m.events[i]
  IN  /\ m2 \in Machine
      /\ \E r \in Seq(Usual(g, t)) :
           /\ m2.events = Replaced(m.events, i, r) /\ Calm(g, r, e)
           /\ IF e.pos = g.exit THEN \E y \in Event : r = <<y>> /\ y.code = e.code /\ y.pos \in Exit(g)
              ELSE \A k \in 1..Len(r) : r[k].pos \notin Exit(g)
      /\ IF e.pos = End[g.exit]
         THEN \E d \in Delivery : m2.delivered = Append(m.delivered, d) /\ d \in Behind /\ d.code = e.code
         ELSE Logged(m2) = Logged(m)
      /\ \A n \in Node : m2.waiting[n] => m.waiting[n]
      /\ m.waiting[g.window] /\ ~ m2.waiting[g.window] => Upstream(g, e.pos)
      /\ m2.buffer = m.buffer /\ m2.members = m.members /\ m2.skip = m.skip

(* The event new to the window stays where it is.                          *)
LEMMA StaysUnblocked ==
  ASSUME NEW g, NEW m \in Machine, NEW i \in 1..Len(m.events), NEW r \in Seq(Event),
         m.events[i].pos # g.window, Unblocked(g, m),
         \A j \in 1..Len(m.events) :
           m.events[j].pos = g.window /\ m.events[j] \notin m.members[g.window] => i <= j,
         \A k \in 1..Len(r) : r[k].pos \notin Exit(g),
         NEW m2, m2.events = Replaced(m.events, i, r), m2.members = m.members
  PROVE  Unblocked(g, m2)
<1>1. PICK s, u : s = m.events /\ u = m2.events
  OBVIOUS
<1>2. s \in Seq(Event) /\ i \in 1..Len(s) /\ u = Replaced(s, i, r)
  BY <1>1 DEF Machine
<1>3. PICK l \in Nat : l = Len(s)
  BY <1>2, LenProperties
<1>4. PICK n \in Nat : n = Len(r)
  BY LenProperties
<1>5. Placed(u, s, i, r)
  BY <1>2, ReplacedPlaces
<1>6. /\ Len(u) = l - 1 + n
      /\ \A j \in 1..(l - 1 + n) :
           \/ j < i /\ j \in 1..l /\ u[j] = s[j]
           \/ i <= j /\ j < i + n /\ (j - i) + 1 \in 1..n /\ u[j] = r[(j - i) + 1]
           \/ i + n <= j /\ (j - n) + 1 \in (i + 1)..l /\ u[j] = s[(j - n) + 1]
  BY <1>3, <1>4, <1>5 DEF Placed
<1>7. PICK j \in 1..l : /\ s[j].pos = g.window /\ s[j] \notin m.members[g.window]
                        /\ \A k \in 1..j : s[k].pos \notin Exit(g)
  BY <1>1, <1>3 DEF Unblocked
<1>8. i \in 1..l /\ i < j
  <2>1. i <= j /\ i # j
    BY <1>1, <1>3, <1>7
  <2> QED BY <1>2, <1>3, <2>1
<1>9. PICK h \in 1..(l - 1 + n) : h = j - 1 + n /\ h >= i + n /\ (h - n) + 1 = j
  BY <1>8
<1>10. u[h] = s[j]
  <2>1. ~ (h < i) /\ ~ (h < i + n)
    BY <1>8, <1>9
  <2> QED BY <1>6, <1>9, <2>1
<1>11. ASSUME NEW k \in 1..h PROVE u[k].pos \notin Exit(g)
  <2>1. k \in 1..(l - 1 + n)
    OBVIOUS
  <2>2. CASE k < i /\ k \in 1..l /\ u[k] = s[k]
    <3>1. k \in 1..j
      BY <1>8, <2>2
    <3> QED BY <1>7, <2>2, <3>1
  <2>3. CASE (k - i) + 1 \in 1..n /\ u[k] = r[(k - i) + 1]
    BY <1>4, <2>3
  <2>4. CASE i + n <= k /\ (k - n) + 1 \in (i + 1)..l /\ u[k] = s[(k - n) + 1]
    <3>1. (k - n) + 1 \in 1..j
      <4>1. PICK q \in (i + 1)..l : q = (k - n) + 1
        BY <2>4
      <4>2. q <= j
        <5>1. k \in Int /\ k <= h /\ h \in Int /\ n \in Int
          OBVIOUS
        <5>2. (k - n) + 1 <= (h - n) + 1
          BY <5>1
        <5> QED BY <1>9, <4>1, <5>2
      <4>3. 1 <= q
        BY <1>8, <4>1
      <4> QED BY <4>1, <4>2, <4>3
    <3> QED BY <1>7, <2>4, <3>1
  <2> QED BY <1>6, <2>1, <2>2, <2>3, <2>4
<1> QED BY <1>1, <1>6, <1>7, <1>9, <1>10, <1>11 DEF Unblocked

LEMMA PassesKeepRow ==
  ASSUME NEW g, LoneWindow(g), NEW t, NEW m, Row(g, m, t),
         NEW i \in FirstAble(m), m.events[i].pos # g.window,
         NEW m2, Passes(g, t, m2, m, i)
  PROVE  Row(g, m2, t)
<1> DEFINE w == g.window
<1>1. m \in Machine /\ Settled(g, m) /\ Flow(g, m) /\ m2 \in Machine
  BY DEF Row, Passes
<1>2. PICK s, e : s = m.events /\ e = m.events[i]
  OBVIOUS
<1>3. /\ i \in 1..Len(m.events) /\ HasHandler(e.pos)
      /\ \A j \in 1..Len(m.events) : j < i => s[j].pos \notin Exit(g) /\ ~ Upstream(g, s[j].pos)
      /\ ~ m.waiting[w] =>
           \A j \in 1..Len(m.events) :
             m.events[j].pos = w /\ m.events[j] \notin m.members[w] => i <= j
  BY <1>1, <1>2, InFrontOfFirst
<1>4. s \in Seq(Usual(g, t)) /\ s \in Seq(Event) /\ i \in 1..Len(s) /\ Orderly(g, s)
  <2>1. s \in Seq(Usual(g, t)) /\ Orderly(g, s) /\ i \in 1..Len(s)
    BY <1>2, <1>3 DEF Row
  <2> QED BY <1>1, <1>2, <2>1 DEF Machine
<1>5. PICK r \in Seq(Usual(g, t)) :
        /\ m2.events = Replaced(s, i, r) /\ Calm(g, r, e)
        /\ IF e.pos = g.exit THEN \E y \in Event : r = <<y>> /\ y.code = e.code /\ y.pos \in Exit(g)
           ELSE \A k \in 1..Len(r) : r[k].pos \notin Exit(g)
  BY <1>2 DEF Passes
<1>6. /\ IF e.pos = End[g.exit]
         THEN \E d \in Delivery : m2.delivered = Append(m.delivered, d) /\ d \in Behind /\ d.code = e.code
         ELSE Logged(m2) = Logged(m)
      /\ \A n \in Node : m2.waiting[n] => m.waiting[n]
      /\ m.waiting[w] /\ ~ m2.waiting[w] => Upstream(g, e.pos)
      /\ m2.buffer = m.buffer /\ m2.members = m.members /\ m2.skip = m.skip
  BY <1>2 DEF Passes
<1>7. r \in Seq(Event)
  <2>1. Usual(g, t) \subseteq Event
    BY OthersAreTyped
  <2> QED BY <2>1, SeqMonotonic
<1>8. e \in Event /\ e = s[i]
  BY <1>2, <1>4, ElementOfSeq
<1>9. m2.events \in Seq(Usual(g, t))
  BY <1>4, <1>5, ReplacedPlaces
<1>10. Orderly(g, m2.events)
  <2>1. Calm(g, r, s[i])
    BY <1>5, <1>8
  <2> QED BY <1>2, <1>3, <1>4, <1>5, <1>7, <2>1, ReplacedOrderly
<1>11. Settled(g, m2)
  BY <1>1, <1>6 DEF Settled
<1>12. PICK v \in Seq(Event) : \A q \in Seq(Event) :
         /\ Leaving(g, Replaced(s, i, q)) = Leaving(g, q) \o v
         /\ Leaving(g, q) \in Seq(Event)
  BY <1>2, <1>3, <1>4, LeavingParts
<1>13. PICK a, b : a = Leaving(g, <<e>>) /\ b = Leaving(g, r)
  OBVIOUS
<1>14. PICK x, y : x = Leaving(g, s) /\ y = Leaving(g, m2.events)
  OBVIOUS
<1>15. x = a \o v /\ y = b \o v /\ x \in Seq(Event) /\ y \in Seq(Event)
  <2>1. <<e>> \in Seq(Event) /\ Replaced(s, i, <<e>>) = s
    BY <1>4, <1>8, ReplacedByItself
  <2>2. Leaving(g, s) = a \o v
    BY <1>12, <1>13, <2>1
  <2>3. Leaving(g, m2.events) = b \o v
    BY <1>5, <1>7, <1>12, <1>13
  <2>4. x \in Seq(Event)
    BY <1>4, <1>14, LeavingIs
  <2>5. y \in Seq(Event)
    BY <1>1, <1>14, LeavingIs DEF Machine
  <2> QED BY <1>14, <2>2, <2>3, <2>4, <2>5
<1>16. << >> \o v = v
  BY <1>12, ConcatEmptySeq
<1>17. PICK l, l2 : l = Logged(m) /\ l2 = Logged(m2)
  OBVIOUS
<1>18. l \in Seq(Delivery)
  <2>1. m.delivered \in Seq(Delivery)
    BY <1>1 DEF Machine
  <2> QED BY <1>17, <2>1, AmongIs DEF Logged
<1>19. PICK o, o2 : o = Opens(l, FALSE) /\ o2 = Opens(l2, FALSE)
  OBVIOUS
<1>20. o \in BOOLEAN /\ o2 \in BOOLEAN
  BY <1>19 DEF Opens
<1>21. PICK held : held = m.buffer[w] /\ held = m2.buffer[w]
  BY <1>6
<1>22. /\ Follows(l, FALSE)
       /\ IF m.waiting[w] THEN Follows(x, o) ELSE x = << >> \/ Loose(g, m)
       /\ held # << >> =>
            Opens(x, o) \/ (Len(held) = 1 /\ Options[w].additionalStep > 0)
  BY <1>1, <1>2, <1>14, <1>17, <1>19, <1>21 DEF Flow
<1>23. SUFFICES /\ Follows(l2, FALSE)
                /\ IF m2.waiting[w] THEN Follows(y, o2) ELSE y = << >> \/ Loose(g, m2)
                /\ Opens(x, o) => Opens(y, o2)
  <2>1. ASSUME /\ Follows(l2, FALSE)
               /\ IF m2.waiting[w] THEN Follows(y, o2) ELSE y = << >> \/ Loose(g, m2)
               /\ Opens(x, o) => Opens(y, o2)
        PROVE  Flow(g, m2)
    BY <1>14, <1>17, <1>19, <1>21, <1>22, <2>1 DEF Flow
  <2> QED BY <1>1, <1>9, <1>10, <1>11, <2>1 DEF Row
<1>24. w \in Node
  BY WindowPlace
<1>25. CASE e.pos \notin Exit(g)
  <2>1. a = << >> /\ b = << >>
    <3>1. \A k \in 1..Len(r) : r[k].pos \notin Exit(g)
      BY <1>5, <1>25 DEF Exit
    <3> QED BY <1>7, <1>8, <1>13, <1>25, <3>1, LeavingOne, LeavingIs
  <2>2. x = v /\ y = v /\ l2 = l /\ o2 = o
    BY <1>6, <1>15, <1>16, <1>17, <1>19, <1>25, <2>1 DEF Exit
  <2>3. CASE m2.waiting[w]
    BY <1>6, <1>22, <1>24, <2>2, <2>3
  <2>4. CASE ~ m2.waiting[w] /\ m.waiting[w]
    <3>1. Upstream(g, e.pos)
      BY <1>6, <2>4
    <3>2. ASSUME NEW k \in 1..Len(s) PROVE s[k].pos \notin Exit(g)
      <4>1. CASE k < i
        BY <1>2, <1>3, <4>1
      <4>2. CASE k = i
        BY <1>8, <1>25, <4>2
      <4>3. CASE i < k
        BY <1>4, <1>8, <3>1, <4>3 DEF Orderly, Precedes
      <4> QED BY <1>4, <4>1, <4>2, <4>3
    <3>3. x = << >>
      BY <1>4, <1>14, <3>2, LeavingIs
    <3> QED BY <1>22, <2>2, <2>4, <3>3
  <2>5. CASE ~ m2.waiting[w] /\ ~ m.waiting[w]
    <3>1. ASSUME Loose(g, m) PROVE Loose(g, m2)
      <4>1. Unblocked(g, m2)
        <5>1. Unblocked(g, m)
          BY <3>1 DEF Loose
        <5>2. \A k \in 1..Len(r) : r[k].pos \notin Exit(g)
          BY <1>5, <1>25 DEF Exit
        <5>3. m2.events = Replaced(m.events, i, r) /\ m2.members = m.members
          BY <1>2, <1>5, <1>6
        <5> QED BY <1>1, <1>3, <1>7, <2>5, <5>1, <5>2, <5>3, StaysUnblocked
      <4>2. Follows(y, TRUE)
        BY <1>2, <1>14, <2>2, <3>1 DEF Loose
      <4> QED BY <1>6, <1>14, <3>1, <4>1, <4>2 DEF Loose
    <3> QED BY <1>22, <2>2, <2>5, <3>1
  <2> QED BY <1>22, <2>2, <2>3, <2>4, <2>5
<1>26. CASE e.pos \in Exit(g)
  <2>1. a = <<e>> /\ x # << >>
    <3>1. a = <<e>>
      BY <1>8, <1>13, <1>26, LeavingOne
    <3>2. ~ \A k \in 1..Len(s) : s[k].pos \notin Exit(g)
      BY <1>4, <1>8, <1>26
    <3> QED BY <1>4, <1>14, <3>1, <3>2, LeavingIs
  <2>2. m.waiting[w] /\ Follows(x, o)
    <3>1. ~ m.waiting[w] => ~ Loose(g, m)
      <4> SUFFICES ASSUME ~ m.waiting[w], Loose(g, m) PROVE FALSE
        OBVIOUS
      <4>1. PICK j \in 1..Len(m.events) :
              /\ m.events[j].pos = w /\ m.events[j] \notin m.members[w]
              /\ \A k \in 1..j : m.events[k].pos \notin Exit(g)
        BY DEF Loose, Unblocked
      <4>2. i <= j
        BY <1>3, <4>1
      <4>3. i \in 1..j
        BY <1>3, <4>2
      <4> QED BY <1>2, <1>26, <4>1, <4>3
    <3> QED BY <1>22, <2>1, <3>1
  <2>3. m2.waiting[w]
    <3>1. ~ Upstream(g, e.pos)
      BY <1>26, WindowPlace DEF AtOrBefore
    <3> QED BY <1>6, <2>2, <3>1
  <2>4. CASE e.pos = g.exit
    <3>1. PICK f \in Event : r = <<f>> /\ f.code = e.code /\ f.pos \in Exit(g)
      BY <1>5, <2>4
    <3>2. b = <<f>>
      BY <1>13, <3>1, LeavingOne
    <3>3. e.pos # End[g.exit]
      BY <2>4, WindowPlace, GraphAssumption
    <3>4. l2 = l /\ o2 = o
      BY <1>6, <1>17, <1>19, <3>3
    <3>5. /\ Follows(x, o) <=> Follows(y, o)
          /\ Opens(x, o) <=> Opens(y, o)
      <4>1. x = <<e>> \o v /\ y = <<f>> \o v
        BY <1>15, <2>1, <3>2
      <4>2. /\ Follows(<<e>> \o v, o) <=> Follows(<<f>> \o v, o)
            /\ Opens(<<e>> \o v, o) <=> Opens(<<f>> \o v, o)
        BY <1>8, <1>20, <3>1, SameCodeFollows
      <4> QED BY <4>1, <4>2
    <3> QED BY <1>22, <2>2, <2>3, <3>4, <3>5
  <2>5. CASE e.pos # g.exit
    <3>1. e.pos = End[g.exit]
      BY <1>26, <2>5 DEF Exit
    <3>2. PICK d \in Delivery : m2.delivered = Append(m.delivered, d) /\ d \in Behind /\ d.code = e.code
      BY <1>6, <3>1
    <3>3. l2 = l \o <<d>>
      <4>1. m.delivered \in Seq(Delivery)
        BY <1>1 DEF Machine
      <4>2. Among(Behind, Append(m.delivered, d)) = Among(Behind, m.delivered) \o <<d>>
        BY <3>2, <4>1, LoggedAppended
      <4> QED BY <1>17, <3>2, <4>2 DEF Logged
    <3>4. b = << >>
      <4>1. \A k \in 1..Len(r) : r[k].pos \notin Exit(g)
        BY <1>5, <2>5
      <4> QED BY <1>7, <1>13, <4>1, LeavingIs
    <3>5. x = <<e>> \o v /\ y = v
      BY <1>15, <1>16, <2>1, <3>4
    <3>6. /\ Follows(<<e>> \o v, o) =>
               Follows(l \o <<d>>, FALSE) /\ Follows(v, Opens(l \o <<d>>, FALSE))
          /\ Opens(<<e>> \o v, o) <=> Opens(v, Opens(l \o <<d>>, FALSE))
      BY <1>8, <1>18, <1>19, <1>22, <3>2, DeliveredFollows
    <3> QED BY <1>19, <2>2, <2>3, <3>3, <3>5, <3>6
  <2> QED BY <2>4, <2>5
<1> QED BY <1>25, <1>26

-----------------------------------------------------------------------------
(***************************************************************************)
(* The handlers of the other positions.                                    *)
(***************************************************************************)

LEMMA SentIsCalm ==
  ASSUME NEW g, LoneWindow(g), NEW t, NEW e, NEW f, e.pos # g.window,
         f.pos = e.pos, f.time = e.time, NEW r \in Seq(Sent(g, t, f))
  PROVE  /\ r \in Seq(Usual(g, t)) /\ Calm(g, r, e)
         /\ \A k \in 1..Len(r) : r[k].pos \notin Exit(g)
<1>1. Sent(g, t, f) \subseteq Usual(g, t)
  BY DEF Sent
<1>2. r \in Seq(Usual(g, t))
  BY <1>1, SMT
<1>3. ASSUME NEW k \in 1..Len(r)
      PROVE  /\ r[k].time = e.time /\ r[k].pos \in Channel
             /\ AtOrBefore(g, r[k].pos) => Upstream(g, e.pos)
             /\ r[k].pos \notin Exit(g)
  <2>1. r[k] \in Sent(g, t, f)
    BY <1>3, ElementOfSeq
  <2> QED BY <2>1 DEF Sent, IsSent, IsCopy
<1>4. g.window \notin Channel
  BY WindowPlace, GraphAssumption
<1>5. Calm(g, r, e)
  BY <1>3, <1>4 DEF Calm, AtOrBefore
<1> QED BY <1>2, <1>3, <1>5

(* What a node that is neither the window nor a sink has to do for it.     *)
LEMMA NodePasses ==
  ASSUME NEW g, LoneWindow(g), NEW t, NEW m \in Machine,
         NEW i \in 1..Len(m.events), NEW e, e = m.events[i], e.pos \in Node,
         Kind[e.pos] # "sink",
         NEW r \in Seq(Usual(g, t)), Calm(g, r, e),
         \A k \in 1..Len(r) : r[k].pos \notin Exit(g),
         NEW m2 \in Machine, m2.events = Replaced(m.events, i, r),
         m2.delivered = m.delivered, m2.waiting = m.waiting,
         m2.buffer = m.buffer, m2.members = m.members, m2.skip = m.skip
  PROVE  Passes(g, t, m2, m, i)
<1>1. e.pos # g.exit /\ e.pos # End[g.exit]
  BY WindowPlace, GraphAssumption
<1>2. Logged(m2) = Logged(m)
  BY DEF Logged
<1> QED BY <1>1, <1>2 DEF Passes

LEMMA ForwardPasses ==
  ASSUME NEW g, LoneWindow(g), NEW t, NEW m \in Machine,
         NEW i \in 1..Len(m.events), NEW e, e = m.events[i], e.pos \in Node,
         e.pos # g.window, HasHandler(e.pos), Kind[e.pos] # "sink",
         e \in Usual(g, t)
  PROVE  Passes(g, t, AtForward(m, i), m, i)
<1>1. /\ e \in InPast(t) /\ e.ttl + g.depth[e.pos] >= InitialTTL
      /\ Upstream(g, e.pos) => e.code # "end"
  BY GraphAssumption DEF Usual, AtOrBefore
<1>2. PICK r : r = Copies(e, m.predicates)
  OBVIOUS
<1>3. r \in Seq(Sent(g, t, e))
  BY <1>1, <1>2, CopiesSent
<1>4. /\ r \in Seq(Usual(g, t)) /\ Calm(g, r, e)
      /\ \A k \in 1..Len(r) : r[k].pos \notin Exit(g)
  BY <1>3, SentIsCalm
<1>5. PICK s : s = Replaced(m.events, i, r)
  OBVIOUS
<1>6. PICK m2 : m2 = [m EXCEPT !.events = s]
  OBVIOUS
<1>7. m2 = AtForward(m, i)
  BY <1>2, <1>5, <1>6 DEF AtForward
<1>8. m2 \in Machine
  BY <1>7, ForwardMoves DEF Moves
<1>9. /\ m2.events = s /\ m2.waiting = m.waiting /\ m2.delivered = m.delivered
      /\ m2.buffer = m.buffer /\ m2.members = m.members /\ m2.skip = m.skip
  BY <1>6 DEF Machine
<1> QED BY <1>4, <1>5, <1>7, <1>8, <1>9, NodePasses

(* No assign in front of the window makes an event an end.                 *)
LEMMA AssignPasses ==
  ASSUME NEW g, LoneWindow(g), NEW t, NEW m \in Machine,
         NEW i \in 1..Len(m.events), NEW e, e = m.events[i], e.pos \in Node,
         Kind[e.pos] = "assign", e.pos # g.window, HasHandler(e.pos),
         e \in Usual(g, t)
  PROVE  Passes(g, t, AtAssign(m, i), m, i)
<1>1. /\ e \in InPast(t) /\ e.ttl + g.depth[e.pos] >= InitialTTL
      /\ e \in Event
  BY GraphAssumption DEF Usual, InPast
<1>2. PICK f : f = Assigned(e)
  OBVIOUS
<1>3. /\ f \in InPast(t) /\ f.pos = e.pos /\ f.time = e.time /\ f.ttl = e.ttl
      /\ f.code = Options[e.pos].recode[e.code]
  <2>1. /\ Options[e.pos].recode[e.code] \in Code
        /\ Options[e.pos].payload = Null \/ Options[e.pos].payload \in Int64
    BY <1>1, OptionsAssumption DEF Event
  <2> QED BY <1>1, <1>2, <2>1 DEF Assigned, Event, InPast
<1>4. Upstream(g, f.pos) => f.code # "end"
  BY <1>1, <1>3 DEF LoneWindow, Upstream, Event
<1>5. PICK r : r = Copies(f, m.predicates)
  OBVIOUS
<1>6. r \in Seq(Sent(g, t, f))
  BY <1>1, <1>3, <1>4, <1>5, CopiesSent
<1>7. /\ r \in Seq(Usual(g, t)) /\ Calm(g, r, e)
      /\ \A k \in 1..Len(r) : r[k].pos \notin Exit(g)
  BY <1>3, <1>6, SentIsCalm
<1>8. PICK s : s = Replaced(m.events, i, r)
  OBVIOUS
<1>9. PICK m2 : m2 = [m EXCEPT !.events = s]
  OBVIOUS
<1>10. m2 = AtAssign(m, i)
  BY <1>2, <1>5, <1>8, <1>9 DEF AtAssign
<1>11. m2 \in Machine
  BY <1>10, AssignMoves DEF Moves
<1>12. /\ m2.events = s /\ m2.waiting = m.waiting /\ m2.delivered = m.delivered
       /\ m2.buffer = m.buffer /\ m2.members = m.members /\ m2.skip = m.skip
  BY <1>9 DEF Machine
<1> QED BY <1>7, <1>8, <1>10, <1>11, <1>12, NodePasses

LEMMA NothingIsCalm ==
  ASSUME NEW g, NEW t, NEW e, NEW r, r = << >>
  PROVE  /\ r \in Seq(Usual(g, t)) /\ Calm(g, r, e)
         /\ \A k \in 1..Len(r) : r[k].pos \notin Exit(g)
BY EmptySeq DEF Calm

LEMMA ComputingPasses ==
  ASSUME NEW g, LoneWindow(g), NEW t, NEW m \in Machine,
         NEW i \in 1..Len(m.events), NEW e, e = m.events[i],
         e.pos \in ComputingNode, e.pos # g.window, e \in Usual(g, t)
  PROVE  Passes(g, t, AtComputing(m, i), m, i)
<1>1. /\ e \in InPast(t) /\ e.ttl + g.depth[e.pos] >= InitialTTL
      /\ Upstream(g, e.pos) => e.code # "end"
      /\ e.pos \in Node /\ HasHandler(e.pos) /\ Kind[e.pos] # "sink"
      /\ m.events \in Seq(Event) /\ e \in Event
  BY EventAt, GraphAssumption DEF Usual, AtOrBefore, ComputingNode, HasHandler
<1>2. PICK left : left = Computed(e, m.memory[e.pos])
  OBVIOUS
<1>3. AtComputing(m, i) \in Machine
  BY ComputingMoves DEF Moves
<1>4. CASE Outputs[e.pos] = << >>
  <2>1. PICK r : r = << >>
    OBVIOUS
  <2>2. PICK s : s = Replaced(m.events, i, r)
    OBVIOUS
  <2>3. PICK m2 : m2 = [m EXCEPT !.events = s]
    OBVIOUS
  <2>4. m2 = AtComputing(m, i)
    BY <1>1, <1>4, <2>1, <2>2, <2>3, DestroyedReplaces DEF AtComputing
  <2>5. /\ m2.events = s /\ m2.waiting = m.waiting /\ m2.delivered = m.delivered
        /\ m2.buffer = m.buffer /\ m2.members = m.members /\ m2.skip = m.skip
    BY <2>3 DEF Machine
  <2>6. /\ r \in Seq(Usual(g, t)) /\ Calm(g, r, e)
        /\ \A k \in 1..Len(r) : r[k].pos \notin Exit(g)
    BY <2>1, NothingIsCalm
  <2> QED BY <1>1, <1>3, <2>2, <2>4, <2>5, <2>6, NodePasses
<1>5. CASE Outputs[e.pos] # << >>
  <2>1. PICK f : f = [e EXCEPT !.payload = left.payload]
    OBVIOUS
  <2>2. left.payload \in Int64
    <3>1. m.memory[e.pos] \in Int64
      BY DEF Machine
    <3> QED BY <1>1, <1>2, <3>1, ComputesInt64
  <2>3. /\ f \in InPast(t) /\ f.pos = e.pos /\ f.time = e.time /\ f.ttl = e.ttl
        /\ f.code = e.code
    BY <1>1, <2>1, <2>2 DEF Event, InPast
  <2>4. PICK r : r = Copies(f, m.predicates)
    OBVIOUS
  <2>5. r \in Seq(Sent(g, t, f))
    BY <1>1, <2>3, <2>4, CopiesSent
  <2>6. /\ r \in Seq(Usual(g, t)) /\ Calm(g, r, e)
        /\ \A k \in 1..Len(r) : r[k].pos \notin Exit(g)
    BY <2>3, <2>5, SentIsCalm
  <2>7. PICK s : s = Replaced(m.events, i, r)
    OBVIOUS
  <2>8. PICK y : y = [m.memory EXCEPT ![e.pos] = left.memory]
    OBVIOUS
  <2>9. PICK m2 : m2 = [m EXCEPT !.events = s, !.memory = y]
    OBVIOUS
  <2>10. m2 = AtComputing(m, i)
    BY <1>2, <1>5, <2>1, <2>4, <2>7, <2>8, <2>9 DEF AtComputing
  <2>11. /\ m2.events = s /\ m2.waiting = m.waiting /\ m2.delivered = m.delivered
         /\ m2.buffer = m.buffer /\ m2.members = m.members /\ m2.skip = m.skip
    BY <2>9 DEF Machine
  <2> QED BY <1>1, <1>3, <2>6, <2>7, <2>10, <2>11, NodePasses
<1> QED BY <1>4, <1>5

LEMMA ModifyPredicatePasses ==
  ASSUME NEW g, LoneWindow(g), NEW t, NEW m \in Machine,
         NEW i \in 1..Len(m.events), NEW e, e = m.events[i], e.pos \in Node,
         Kind[e.pos] = "modify_predicate"
  PROVE  Passes(g, t, AtModifyPredicate(m, i), m, i)
<1>1. m.events \in Seq(Event) /\ e \in Event
  BY EventAt
<1>2. PICK r : r = << >>
  OBVIOUS
<1>3. PICK s : s = Replaced(m.events, i, r)
  OBVIOUS
<1>4. PICK p : p = Switched(e, m.predicates)
  OBVIOUS
<1>5. PICK m2 : m2 = [m EXCEPT !.events = s, !.predicates = p]
  OBVIOUS
<1>6. m2 = AtModifyPredicate(m, i)
  BY <1>1, <1>2, <1>3, <1>4, <1>5, DestroyedReplaces DEF AtModifyPredicate
<1>7. m2 \in Machine
  BY <1>6, ModifyPredicateMoves DEF Moves
<1>8. /\ m2.events = s /\ m2.waiting = m.waiting /\ m2.delivered = m.delivered
      /\ m2.buffer = m.buffer /\ m2.members = m.members /\ m2.skip = m.skip
  BY <1>5 DEF Machine
<1>9. /\ r \in Seq(Usual(g, t)) /\ Calm(g, r, e)
      /\ \A k \in 1..Len(r) : r[k].pos \notin Exit(g)
  BY <1>2, NothingIsCalm
<1> QED BY <1>3, <1>6, <1>7, <1>8, <1>9, NodePasses

LEMMA SinkPasses ==
  ASSUME NEW g, LoneWindow(g), NEW t, NEW m \in Machine,
         NEW i \in 1..Len(m.events), NEW e, e = m.events[i], e.pos \in Node,
         Kind[e.pos] = "sink"
  PROVE  Passes(g, t, AtSink(m, i), m, i)
<1>1. m.events \in Seq(Event) /\ e \in Event
  BY EventAt
<1>2. PICK r : r = << >>
  OBVIOUS
<1>3. PICK s : s = Replaced(m.events, i, r)
  OBVIOUS
<1>4. PICK d : d = [sink |-> e.pos, src |-> e.src, n |-> e.n, time |-> e.time,
                    code |-> e.code, payload |-> e.payload]
  OBVIOUS
<1>5. d \in Delivery /\ d.code = e.code /\ d.sink = e.pos
  BY <1>1, <1>4 DEF Delivery, Event
<1>6. PICK z : z = Append(m.delivered, d)
  OBVIOUS
<1>7. PICK m2 : m2 = [m EXCEPT !.events = s, !.delivered = z]
  OBVIOUS
<1>8. m2 = AtSink(m, i)
  BY <1>1, <1>2, <1>3, <1>4, <1>6, <1>7, DestroyedReplaces DEF AtSink
<1>9. m2 \in Machine
  BY <1>8, SinkMoves DEF Moves
<1>10. /\ m2.events = s /\ m2.waiting = m.waiting /\ m2.delivered = z
       /\ m2.buffer = m.buffer /\ m2.members = m.members /\ m2.skip = m.skip
  BY <1>7 DEF Machine
<1>11. /\ r \in Seq(Usual(g, t)) /\ Calm(g, r, e)
       /\ \A k \in 1..Len(r) : r[k].pos \notin Exit(g)
  BY <1>2, NothingIsCalm
<1>12. e.pos # g.exit
  BY WindowPlace, GraphAssumption
<1>13. d \in Behind <=> e.pos = End[g.exit]
  BY <1>5, BehindIs DEF Behind
<1>14. d \notin Behind => Logged(m2) = Logged(m)
  <2>1. m.delivered \in Seq(Delivery)
    BY DEF Machine
  <2>2. PICK q \in Seq(Delivery) : q = m.delivered
    BY <2>1
  <2>3. d \notin Behind => Among(Behind, Append(q, d)) = Among(Behind, q)
    BY <1>5, LoggedAppended
  <2> QED BY <1>6, <1>10, <2>2, <2>3 DEF Logged
<1>15. \A n \in Node : m2.waiting[n] => m.waiting[n]
  BY <1>10
<1> QED BY <1>3, <1>5, <1>6, <1>8, <1>9, <1>10, <1>11, <1>12, <1>13, <1>14, <1>15 DEF Passes


(* A channel sends an event on unless its time to live is over, and none   *)
(* comes to the window's exit with less than it needs.                     *)
LEMMA PassedOn ==
  ASSUME NEW g, LoneWindow(g), NEW t, NEW e \in Usual(g, t), e.pos \in Channel,
         NEW r, r = Passed(e)
  PROVE  /\ r \in Seq(Usual(g, t)) /\ Calm(g, r, e)
         /\ IF e.pos = g.exit
            THEN \E y \in Event : r = <<y>> /\ y.code = e.code /\ y.pos \in Exit(g)
            ELSE \A k \in 1..Len(r) : r[k].pos \notin Exit(g)
<1>1. PICK b \in Channel : b = e.pos
  OBVIOUS
<1>2. PICK l : l = e.ttl
  OBVIOUS
<1>3. /\ e \in Event /\ e \in InPast(t) /\ l \in 1..InitialTTL /\ l \in Nat
      /\ InitialTTL \in Nat
      /\ AtOrBefore(g, b) => e.code # "end"
      /\ l + g.depth[b] >= InitialTTL
      /\ g.depth[b] \in Nat
  BY <1>1, <1>2, GraphAssumption, LoopAssumption DEF Usual, InPast, Event, LoneWindow
<1>4. CASE l <= 1 \/ End[b] = Null
  <2>1. b # g.exit
    <3>1. End[g.exit] # Null /\ g.depth[g.exit] + 1 < InitialTTL
      BY GraphAssumption DEF LoneWindow
    <3>2. SUFFICES ASSUME b = g.exit PROVE FALSE
      OBVIOUS
    <3>3. l <= 1 /\ g.depth[b] + 1 < InitialTTL
      BY <1>4, <3>1, <3>2
    <3> QED BY <1>3, <3>3
  <2>2. r = << >>
    BY <1>1, <1>2, <1>4 DEF Passed
  <2> QED BY <1>1, <2>1, <2>2, NothingIsCalm
<1>5. CASE ~ (l <= 1 \/ End[b] = Null)
  <2>1. PICK n : n = End[b]
    OBVIOUS
  <2>2. /\ n \in Node
        /\ n \in Exit(g) <=> b = g.exit
        /\ AtOrBefore(g, n) => Upstream(g, b)
        /\ g.depth[n] \in Nat /\ g.depth[b] < g.depth[n]
    <3>1. End[b] # Null
      BY <1>5
    <3> QED BY <2>1, <3>1, ThroughChannel
  <2>3. PICK f : f = [e EXCEPT !.pos = n, !.ttl = l - 1]
    OBVIOUS
  <2>4. r = <<f>>
    BY <1>1, <1>2, <1>5, <2>1, <2>3 DEF Passed
  <2>5. l - 1 \in 1..InitialTTL /\ (l - 1) + g.depth[n] >= InitialTTL
    BY <1>3, <1>5, <2>2
  <2>6. /\ f \in Event /\ f \in InPast(t) /\ f.pos = n /\ f.ttl = l - 1
        /\ f.time = e.time /\ f.code = e.code
    BY <1>3, <2>2, <2>3, <2>5 DEF Event, InPast
  <2>7. f \in Usual(g, t)
    BY <1>3, <2>2, <2>5, <2>6 DEF Usual, AtOrBefore
  <2>8. r \in Seq(Usual(g, t)) /\ Len(r) = 1 /\ r[1] = f
    BY <2>4, <2>7
  <2>9. Calm(g, r, e)
    <3>1. AtOrBefore(g, n) => Upstream(g, b) /\ AtOrBefore(g, b)
      BY <2>2 DEF AtOrBefore
    <3>2. Upstream(g, n) => AtOrBefore(g, n) /\ n \notin {g.window} \union Exit(g)
      BY WindowPlace DEF AtOrBefore
    <3>3. \A k \in 1..Len(r) : k = 1
      BY <2>8
    <3> QED BY <1>1, <2>6, <2>8, <3>1, <3>2, <3>3 DEF Calm
  <2>10. b = g.exit => \E y \in Event : r = <<y>> /\ y.code = e.code /\ y.pos \in Exit(g)
    BY <2>2, <2>4, <2>6
  <2>11. b # g.exit => \A k \in 1..Len(r) : r[k].pos \notin Exit(g)
    BY <2>2, <2>6, <2>8
  <2> QED BY <1>1, <2>8, <2>9, <2>10, <2>11
<1> QED BY <1>4, <1>5

LEMMA ChannelPasses ==
  ASSUME NEW g, LoneWindow(g), NEW t, NEW m \in Machine,
         NEW i \in 1..Len(m.events), NEW e, e = m.events[i], e.pos \in Channel,
         e \in Usual(g, t)
  PROVE  Passes(g, t, AtChannel(m, i), m, i)
<1>1. e \in Event /\ m.events \in Seq(Event)
  BY EventAt
<1>2. PICK f : f = Entering(m, e)
  OBVIOUS
<1>3. /\ f \in Event /\ f.pos = e.pos /\ f.ttl = e.ttl /\ f.code = e.code
      /\ IsCopy(f, e)
  BY <1>1, <1>2, EnteringIs
<1>4. f \in Usual(g, t) /\ f.time = e.time
  BY <1>3 DEF Usual, InPast, IsCopy
<1>5. PICK r : r = Passed(f)
  OBVIOUS
<1>6. /\ r \in Seq(Usual(g, t)) /\ Calm(g, r, f)
      /\ IF f.pos = g.exit
         THEN \E y \in Event : r = <<y>> /\ y.code = f.code /\ y.pos \in Exit(g)
         ELSE \A k \in 1..Len(r) : r[k].pos \notin Exit(g)
  BY <1>3, <1>4, <1>5, PassedOn
<1>7. /\ r \in Seq(Usual(g, t)) /\ Calm(g, r, e)
      /\ IF e.pos = g.exit
         THEN \E y \in Event : r = <<y>> /\ y.code = e.code /\ y.pos \in Exit(g)
         ELSE \A k \in 1..Len(r) : r[k].pos \notin Exit(g)
  BY <1>3, <1>4, <1>6 DEF Calm
<1>8. PICK s : s = Replaced(m.events, i, r)
  OBVIOUS
<1>9. PICK w : w = Wake(m, e)
  OBVIOUS
<1>10. /\ \A n \in Node : w[n] => m.waiting[n]
       /\ m.waiting[g.window] /\ ~ w[g.window] => Upstream(g, e.pos)
  <2>1. m.waiting \in [Node -> BOOLEAN]
    BY DEF Machine
  <2>2. CASE Passed(e) = << >>
    BY <1>9, <2>2 DEF Wake
  <2>3. CASE Passed(e) # << >>
    <3>1. End[e.pos] # Null
      BY <2>3 DEF Passed
    <3>2. AtOrBefore(g, End[e.pos]) => Upstream(g, e.pos)
      BY <3>1, ThroughChannel
    <3>3. w = [m.waiting EXCEPT ![End[e.pos]] = FALSE]
      BY <1>9, <2>3 DEF Wake
    <3>4. g.window \in Node /\ End[e.pos] \in Node
      BY <3>1, WindowPlace, ThroughChannel
    <3>5. \A n \in Node : w[n] = IF n = End[e.pos] THEN FALSE ELSE m.waiting[n]
      BY <2>1, <3>3, <3>4
    <3> QED BY <3>2, <3>4, <3>5 DEF AtOrBefore
  <2> QED BY <2>2, <2>3
<1>11. PICK c : c = Issued(m, e)
  OBVIOUS
<1>12. PICK m2 : m2 = [m EXCEPT !.events = s, !.waiting = w, !.issued = c]
  OBVIOUS
<1>13. m2 = AtChannel(m, i)
  BY <1>2, <1>5, <1>8, <1>9, <1>11, <1>12 DEF AtChannel
<1>14. m2 \in Machine
  BY <1>13, ChannelMoves DEF Moves
<1>15. /\ m2.events = s /\ m2.waiting = w /\ m2.delivered = m.delivered
       /\ m2.buffer = m.buffer /\ m2.members = m.members /\ m2.skip = m.skip
  BY <1>12 DEF Machine
<1>16. e.pos # End[g.exit] /\ Logged(m2) = Logged(m)
  BY <1>15, WindowPlace, GraphAssumption DEF Logged
<1> QED BY <1>7, <1>8, <1>10, <1>13, <1>14, <1>15, <1>16 DEF Passes


(* The handler of any other position keeps the row.                        *)
LEMMA OthersKeepRow ==
  ASSUME NEW g, LoneWindow(g), NEW t, NEW m, Row(g, m, t), NEW i \in FirstAble(m),
         m.events[i].pos # g.window, NEW m2, Handles(m, i, m2)
  PROVE  Row(g, m2, t)
<1>1. PICK e : e = m.events[i]
  OBVIOUS
<1>2. m \in Machine /\ m.events \in Seq(Usual(g, t)) /\ Settled(g, m)
  BY DEF Row
<1>3. i \in 1..Len(m.events) /\ HasHandler(e.pos)
  BY <1>1, <1>2, InFrontOfFirst
<1>4. e \in Usual(g, t)
  BY <1>1, <1>2, <1>3, ElementOfSeq
<1>5. e.pos \notin WindowNode
  BY <1>1, WindowPlace DEF LoneWindow
<1>6. Passes(g, t, m2, m, i)
  <2>1. CASE e.pos \in Channel /\ m2 = AtChannel(m, i)
    BY <1>1, <1>2, <1>3, <1>4, <2>1, ChannelPasses
  <2>2. CASE e.pos \in ComputingNode /\ m2 = AtComputing(m, i)
    BY <1>1, <1>2, <1>3, <1>4, <2>2, ComputingPasses
  <2>3. CASE e.pos \in Node /\ Kind[e.pos] \in {"forward", "router"} /\ m2 = AtForward(m, i)
    BY <1>1, <1>2, <1>3, <1>4, <2>3, ForwardPasses
  <2>4. CASE e.pos \in Node /\ Kind[e.pos] = "assign" /\ m2 = AtAssign(m, i)
    BY <1>1, <1>2, <1>3, <1>4, <2>4, AssignPasses
  <2>5. CASE e.pos \in Node /\ Kind[e.pos] = "modify_predicate" /\ m2 = AtModifyPredicate(m, i)
    BY <1>1, <1>2, <1>3, <1>4, <2>5, ModifyPredicatePasses
  <2>6. CASE e.pos \in Node /\ Kind[e.pos] = "sink" /\ m2 = AtSink(m, i)
    BY <1>1, <1>2, <1>3, <1>4, <2>6, SinkPasses
  <2> QED BY <1>1, <1>5, <2>1, <2>2, <2>3, <2>4, <2>5, <2>6 DEF Handles
<1> QED BY <1>6, PassesKeepRow


-----------------------------------------------------------------------------
(***************************************************************************)
(* The handler of the window.                                              *)
(***************************************************************************)

LEMMA AtTheWindow ==
  ASSUME NEW g, LoneWindow(g), NEW t, NEW m, Row(g, m, t),
         NEW strict, WindowSound(m, strict), NEW i \in FirstAble(m),
         NEW e, e = m.events[i], e.pos = g.window,
         NEW st, st = State(m.buffer[g.window], m.members[g.window],
                            m.skip[g.window], << >>)
  PROVE  /\ i \in 1..Len(m.events) /\ e \in Held(g, t)
         /\ ~ m.waiting[g.window]
         /\ Leaving(g, m.events) = << >> \/ Loose(g, m)
         /\ ToSet(st.buffer) \subseteq ToSet(m.events)
         /\ \A f \in Held(g, t), o \in BOOLEAN :
              (st.buffer # << >> => o) => st \in Works(g, t, f, o)
<1> DEFINE w == g.window
<1>1. /\ m \in Machine /\ Settled(g, m) /\ Flow(g, m)
      /\ m.events \in Seq(Usual(g, t)) /\ w \in WindowNode /\ w \in Node
  BY WindowPlace DEF Row
<1>2. i \in 1..Len(m.events) /\ ~ m.waiting[w]
  BY <1>1, InFrontOfFirst
<1>3. e \in Held(g, t)
  BY <1>1, <1>2, ElementOfSeq DEF Held
<1>4. Leaving(g, m.events) = << >> \/ Loose(g, m)
  BY <1>1, <1>2 DEF Flow
<1>5. PICK b \in Seq(Event) : b = m.buffer[w]
  BY <1>1 DEF Machine
<1>6. st \in WindowState /\ st.buffer = b /\ st.skip = m.skip[w] /\ st.sent = << >>
  BY <1>1, <1>5, EmptySeq DEF State, WindowState, Machine
<1>7. ToSet(b) \subseteq ToSet(m.events) /\ \A x \in ToSet(b) : x.pos = w
  BY <1>1, <1>5 DEF WindowSound
<1>8. b \in Seq(Held(g, t))
  <2>1. PICK n \in Nat : n = Len(b) /\ b \in [1..n -> Event]
    BY <1>5, LenProperties
  <2>2. ASSUME NEW k \in 1..n PROVE b[k] \in Held(g, t)
    <3>1. b[k] \in ToSet(b)
      BY <2>1 DEF ToSet
    <3>2. b[k] \in Usual(g, t)
      BY <1>1, <1>7, <3>1, ElementOfSeq, LenProperties DEF ToSet
    <3> QED BY <1>7, <3>1, <3>2 DEF Held
  <2> QED BY <2>1, <2>2
<1>9. ASSUME NEW f \in Held(g, t), NEW o \in BOOLEAN, st.buffer # << >> => o
      PROVE  st \in Works(g, t, f, o)
  <2>1. PICK x : x = Leaving(g, << >>)
    OBVIOUS
  <2>2. x = << >>
    <3>1. PICK z \in Seq(Event) : z = << >> /\ Len(z) = 0
      BY EmptySeq
    <3>2. \A k \in 1..Len(z) : z[k].pos \notin Exit(g)
      BY <3>1
    <3>3. Leaving(g, z) = << >>
      BY <3>2, LeavingIs
    <3> QED BY <2>1, <3>1, <3>3
  <2>3. Follows(x, o) /\ (Opens(x, o) <=> o)
    BY <2>2, OneFollows
  <2>4. st.skip > 0 => st.buffer = << >>
    BY <1>1, <1>5, <1>6 DEF Settled
  <2>5. Options[w].additionalStep = 0 => st.skip = 0
    BY <1>1, <1>6 DEF Settled
  <2>6. st.sent \in Seq(Others(g, t) \union {f})
    BY <1>6, EmptySeq
  <2> QED BY <1>6, <1>8, <1>9, <2>1, <2>3, <2>4, <2>5, <2>6 DEF Works
<1> QED BY <1>2, <1>3, <1>4, <1>6, <1>7, <1>9

(* The event that stays at the window, or the replica in its place.        *)
LEMMA ResidentHeld ==
  ASSUME NEW g, LoneWindow(g), NEW t, NEW m \in Machine, NEW i \in 1..Len(m.events),
         m.events[i] \in Held(g, t)
  PROVE  /\ Resident(m, i) \in Held(g, t) /\ Resident(m, i).time = m.events[i].time
         /\ ~ Departs(m, i) => Resident(m, i) = m.events[i]
<1>1. PICK e, f : e = m.events[i] /\ f = Resident(m, i)
  OBVIOUS
<1>2. /\ e \in Event /\ e \in Usual(g, t) /\ e.pos = g.window
      /\ g.window \in WindowNode /\ m.issued \in Nat
  BY <1>1, HeldIs, WindowPlace DEF Held, Machine
<1>3. f = e \/ f = [e EXCEPT !.id = m.issued]
  BY <1>1 DEF Resident
<1>4. /\ f \in Event /\ f.pos = e.pos /\ f.time = e.time /\ f.code = e.code
      /\ f.ttl = e.ttl /\ f.src = e.src /\ f.n = e.n
  BY <1>2, <1>3 DEF Event
<1>5. f \in Usual(g, t)
  BY <1>2, <1>4 DEF Usual, InPast
<1>6. ~ Departs(m, i) => f = e
  BY <1>1 DEF Resident
<1> QED BY <1>1, <1>2, <1>4, <1>5, <1>6 DEF Held

(* What leaves the window goes behind what has left it.                    *)
GoesFirst(g, s, sent, q) ==
  \E a, u, v \in Seq(Event) :
    /\ a = Leaving(g, sent) /\ v = Leaving(g, q)
    /\ u = Leaving(g, s) /\ u = a \o v

(* What the window sends takes its event's place.                          *)
LEMMA WindowSends ==
  ASSUME NEW g, LoneWindow(g), NEW t, NEW m, Row(g, m, t), NEW i \in FirstAble(m),
         NEW e \in Held(g, t), e = m.events[i],
         NEW f \in Held(g, t), f.time = e.time,
         NEW sent \in Seq(Others(g, t) \union {f}),
         NEW s, s = Replaced(m.events, i, sent)
  PROVE  /\ s \in Seq(Usual(g, t)) /\ Orderly(g, s)
         /\ GoesFirst(g, s, sent, m.events)
<1>1. /\ m \in Machine /\ Settled(g, m) /\ Orderly(g, m.events)
      /\ m.events \in Seq(Usual(g, t))
  BY DEF Row
<1>2. /\ i \in 1..Len(m.events)
      /\ \A j \in 1..Len(m.events) : j < i =>
           m.events[j].pos \notin Exit(g) /\ ~ Upstream(g, m.events[j].pos)
  BY <1>1, InFrontOfFirst
<1>3. PICK q : q = m.events
  OBVIOUS
<1>4. q \in Seq(Usual(g, t)) /\ q \in Seq(Event) /\ i \in 1..Len(q) /\ q[i] = e
  BY <1>1, <1>2, <1>3 DEF Machine
<1>5. /\ e \in Event /\ e.pos = g.window /\ ~ Upstream(g, e.pos)
      /\ e.pos \notin Exit(g) /\ f \in Usual(g, t)
      /\ f \in Event /\ f.pos = g.window
  BY HeldIs, WindowPlace DEF Held
<1>6. sent \in Seq(Usual(g, t)) /\ sent \in Seq(Event)
  <2>1. /\ Others(g, t) \union {f} \subseteq Usual(g, t)
        /\ Others(g, t) \union {f} \subseteq Event
    BY <1>5, OthersAreTyped
  <2> QED BY <2>1, SeqMonotonic
<1>7. s \in Seq(Usual(g, t))
  BY <1>3, <1>4, <1>6, ReplacedPlaces
<1>8. Orderly(g, s)
  <2>1. ASSUME NEW k \in 1..Len(sent)
        PROVE  /\ AtOrBefore(g, sent[k].pos) => sent[k].time = e.time
               /\ ~ Upstream(g, sent[k].pos)
    <3>1. sent[k] \in Others(g, t) \union {f}
      BY <2>1, ElementOfSeq
    <3> QED BY <1>5, <3>1 DEF Others, AtOrBefore
  <2>2. AtOrBefore(g, e.pos)
    BY <1>5 DEF AtOrBefore
  <2>3. Calm(g, sent, q[i])
    BY <1>4, <2>1, <2>2 DEF Calm
  <2> QED BY <1>1, <1>2, <1>3, <1>4, <1>6, <2>3, ReplacedOrderly
<1>9. PICK v \in Seq(Event) : \A r \in Seq(Event) :
        /\ Leaving(g, Replaced(q, i, r)) = Leaving(g, r) \o v
        /\ Leaving(g, r) \in Seq(Event)
  BY <1>2, <1>3, <1>4, LeavingParts
<1>10. PICK a : a = Leaving(g, sent)
  OBVIOUS
<1>11. a \in Seq(Event) /\ Leaving(g, s) = a \o v
  BY <1>3, <1>6, <1>9, <1>10
<1>12. Leaving(g, q) = v
  <2>1. PICK z : z = <<e>>
    OBVIOUS
  <2>2. z \in Seq(Event) /\ Replaced(q, i, z) = q
    BY <1>4, <1>5, <2>1, ReplacedByItself
  <2>3. Leaving(g, z) = << >>
    BY <1>5, <2>1, LeavingOne
  <2>4. Leaving(g, q) = << >> \o v
    BY <1>9, <2>2, <2>3
  <2>5. << >> \o v = v
    BY ConcatEmptySeq
  <2> QED BY <2>4, <2>5
<1>13. PICK u : u = a \o v
  OBVIOUS
<1>14. u \in Seq(Event)
  BY <1>11, <1>13, ConcatProperties
<1> QED BY <1>3, <1>7, <1>8, <1>10, <1>11, <1>12, <1>13, <1>14 DEF GoesFirst

LEMMA WindowLeaves ==
  ASSUME NEW m \in Machine, NEW i, NEW w \in WindowNode, m.events[i].pos = w,
         NEW st, NEW sent, NEW m2, m2 = WindowLeft(m, i, st, sent)
  PROVE  /\ m2.events = Replaced(m.events, i, sent)
         /\ m2.buffer[w] = st.buffer /\ m2.members[w] = st.members
         /\ m2.skip[w] = st.skip
         /\ m2.waiting = m.waiting /\ m2.delivered = m.delivered
<1>1. PICK q : q = Replaced(m.events, i, sent)
  OBVIOUS
<1>2. PICK b : b = [m.buffer EXCEPT ![w] = st.buffer]
  OBVIOUS
<1>3. PICK s : s = [m.members EXCEPT ![w] = st.members]
  OBVIOUS
<1>4. PICK k : k = [m.skip EXCEPT ![w] = st.skip]
  OBVIOUS
<1>5. PICK c : c = (IF Departs(m, i) THEN m.issued + 1 ELSE m.issued)
  OBVIOUS
<1>6. m2 = [m EXCEPT !.events = q, !.buffer = b, !.members = s, !.skip = k,
                     !.issued = c]
  BY <1>1, <1>2, <1>3, <1>4, <1>5 DEF WindowLeft
<1>7. /\ m2.events = q /\ m2.buffer = b /\ m2.members = s /\ m2.skip = k
      /\ m2.waiting = m.waiting /\ m2.delivered = m.delivered
  BY <1>6 DEF Machine
<1>8. b[w] = st.buffer /\ s[w] = st.members /\ k[w] = st.skip
  BY <1>2, <1>3, <1>4 DEF Machine
<1> QED BY <1>1, <1>7, <1>8


(* An event that the window skips stays where it is.  If it has ended the  *)
(* window before, then the events it has ended it for are left behind      *)
(* before the window's exit, and the first of them is let through again.   *)
LEMMA SkipKeepsRow ==
  ASSUME NEW g, LoneWindow(g), NEW t, NEW m, Row(g, m, t),
         NEW strict, WindowSound(m, strict), NEW i \in FirstAble(m),
         m.events[i].pos = g.window, ~ Astray(m, i), Skips(m, i)
  PROVE  Row(g, AtWindowSkip(m, i), t)
<1> DEFINE w == g.window
           o == Options[w]
<1>1. PICK e, f, st : /\ e = m.events[i] /\ f = Resident(m, i)
                      /\ st = State(m.buffer[w], m.members[w], m.skip[w], << >>)
  OBVIOUS
<1>2. /\ i \in 1..Len(m.events) /\ e \in Held(g, t) /\ ~ m.waiting[w]
      /\ ~ Rejects(m, i)
      /\ f \in Held(g, t) /\ f.time = e.time /\ (~ Departs(m, i) => f = e)
      /\ Leaving(g, m.events) = << >> \/ Loose(g, m)
      /\ ToSet(st.buffer) \subseteq ToSet(m.events)
      /\ st \in Works(g, t, f, TRUE)
  <2>1. /\ i \in 1..Len(m.events) /\ e \in Held(g, t) /\ ~ m.waiting[w]
        /\ Leaving(g, m.events) = << >> \/ Loose(g, m)
        /\ ToSet(st.buffer) \subseteq ToSet(m.events)
        /\ \A y \in Held(g, t), l \in BOOLEAN :
             (st.buffer # << >> => l) => st \in Works(g, t, y, l)
    BY <1>1, AtTheWindow
  <2>2. m \in Machine /\ Settled(g, m)
    BY DEF Row
  <2>3. ~ Rejects(m, i)
    BY <2>2, InFrontOfFirst
  <2>4. f \in Held(g, t) /\ f.time = e.time /\ (~ Departs(m, i) => f = e)
    BY <1>1, <2>1, <2>2, ResidentHeld
  <2> QED BY <2>1, <2>3, <2>4
<1>3. PICK a : a = BeforeSkip(m, i)
  OBVIOUS
<1>4. a \in Works(g, t, f, TRUE) /\ Remains(g, a, st, e) /\ a.skip > 0
  <2>1. PICK p : p = m.predicates
    OBVIOUS
  <2>2. a = AfterTime(w, e, p, st)
    BY <1>1, <1>3, <2>1 DEF BeforeSkip
  <2>3. TRUE \in BOOLEAN
    OBVIOUS
  <2>4. a \in Works(g, t, f, TRUE) /\ Remains(g, a, st, e)
    BY <1>2, <2>2, <2>3, AfterTimeWorks
  <2> QED BY <1>3, <2>4 DEF Skips
<1>5. /\ w \in WindowNode /\ w \in Node /\ e.pos = w /\ e \in Event
      /\ AtOrBefore(g, e.pos) /\ f \in Event /\ f.pos = w
  BY <1>2, WindowPlace, HeldIs DEF AtOrBefore
<1>6. /\ m \in Machine /\ Settled(g, m) /\ Flow(g, m) /\ Orderly(g, m.events)
      /\ o.additionalStep \in Nat /\ (o.maxLength # Null => o.maxLength \in Nat \ {0})
  BY <1>5, WindowAssumption DEF Row, LoneWindow, LoopsForever
<1>7. /\ a.buffer = << >> /\ a.skip \in Nat /\ o.additionalStep > 0
      /\ a.sent \in Seq(Others(g, t) \union {f})
      /\ Follows(Leaving(g, a.sent), TRUE)
  <2>1. PICK d : d = o.additionalStep
    OBVIOUS
  <2>2. /\ a.skip \in Nat /\ a.sent \in Seq(Others(g, t) \union {f})
        /\ Follows(Leaving(g, a.sent), TRUE)
        /\ a.skip > 0 => a.buffer = << >>
        /\ d = 0 => a.skip = 0
    BY <1>4, <2>1 DEF Works, WindowState
  <2>3. d \in Nat /\ d # 0
    BY <1>4, <1>6, <2>1, <2>2
  <2>4. d > 0
    BY <2>3
  <2> QED BY <1>4, <2>1, <2>2, <2>4
<1>8. PICK sent : sent = Append(a.sent, f)
  OBVIOUS
<1>9. sent \in Seq(Others(g, t) \union {f}) /\ sent = a.sent \o <<f>>
  <2>1. PICK S : S = Others(g, t) \union {f}
    OBVIOUS
  <2>2. PICK q \in Seq(S) : q = a.sent
    BY <1>7, <2>1
  <2>3. f \in S
    BY <2>1
  <2>4. Append(q, f) \in Seq(S) /\ Append(q, f) = q \o <<f>>
    BY <2>3, AppendProperties, AppendIsConcat
  <2> QED BY <1>8, <2>1, <2>2, <2>4
<1>10. PICK m2 : m2 = AtWindowSkip(m, i)
  OBVIOUS
<1>11. m2 \in Machine
  BY <1>1, <1>2, <1>5, <1>6, <1>10, SkipKeepsWindows
<1>12. PICK s : s = Replaced(m.events, i, sent)
  OBVIOUS
<1>13. /\ m2.events = s /\ m2.buffer[w] = << >> /\ m2.members[w] = a.members
       /\ m2.skip[w] = a.skip - 1
       /\ m2.waiting = m.waiting /\ m2.delivered = m.delivered
  <2>1. PICK z : z = [a EXCEPT !.skip = a.skip - 1]
    OBVIOUS
  <2>2. z.buffer = a.buffer /\ z.members = a.members /\ z.skip = a.skip - 1
    BY <1>4, <2>1 DEF Works, WindowState
  <2>3. m2 = WindowLeft(m, i, z, sent)
    BY <1>1, <1>3, <1>8, <1>10, <2>1 DEF AtWindowSkip
  <2> QED BY <1>1, <1>5, <1>6, <1>7, <1>12, <2>2, <2>3, WindowLeaves
<1>14. s \in Seq(Usual(g, t)) /\ Orderly(g, s)
  BY <1>1, <1>2, <1>9, <1>12, WindowSends
<1>15. PICK b, u, v \in Seq(Event) :
         /\ b = Leaving(g, sent) /\ v = Leaving(g, m.events)
         /\ u = Leaving(g, s) /\ u = b \o v
  <2>1. GoesFirst(g, s, sent, m.events)
    BY <1>1, <1>2, <1>9, <1>12, WindowSends
  <2> QED BY <2>1 DEF GoesFirst
<1>16. Settled(g, m2)
  <2>1. m2.skip[w] \in Nat
    BY <1>4, <1>7, <1>13
  <2>2. Len(m2.buffer[w]) = 0
    BY <1>13, EmptySeq
  <2> QED BY <1>6, <1>7, <1>13, <2>1, <2>2 DEF Settled
<1>17. u = << >> \/ Loose(g, m2)
  <2>1. CASE a = st
    <3>1. sent = <<e>>
      <4>1. a.sent = << >> /\ a.buffer = m.buffer[w]
        BY <1>1, <2>1 DEF State
      <4>2. ~ Departs(m, i)
        BY <1>1, <1>3, <1>5, <4>1 DEF Departs
      <4> QED BY <1>2, <1>8, <4>1, <4>2
    <3>2. s = m.events
      BY <1>1, <1>2, <1>6, <1>12, <3>1, ReplacedByItself DEF Machine
    <3>3. a.members = m.members[w] /\ a.buffer = m.buffer[w]
      BY <1>1, <2>1 DEF State
    <3>4. CASE v = << >>
      BY <1>15, <3>2, <3>4
    <3>5. CASE Loose(g, m)
      BY <1>13, <3>2, <3>3, <3>5 DEF Loose, Unblocked
    <3> QED BY <1>2, <1>15, <3>4, <3>5
  <2>2. CASE a # st
    <3>1. PICK x : x = Head(st.buffer)
      OBVIOUS
    <3>2. st.buffer # << >> /\ e.time > x.time /\ x \notin a.members
      BY <1>4, <2>2, <3>1 DEF Remains
    <3>3. st.buffer \in Seq(Held(g, t)) /\ st.buffer = m.buffer[w]
      BY <1>1, <1>2 DEF Works, State
    <3>4. v = << >>
      BY <1>2, <1>15, <3>2, <3>3 DEF Loose
    <3>5. x \in Held(g, t) /\ x \in ToSet(st.buffer)
      BY <3>1, <3>2, <3>3, HeadTailProperties, LenProperties DEF ToSet
    <3>6. PICK l \in Nat : l = Len(m.events) /\ DOMAIN m.events = 1..l
      BY <1>6, LenProperties DEF Machine
    <3>7. PICK j \in 1..l : x = m.events[j]
      BY <1>2, <3>5, <3>6 DEF ToSet
    <3>8. j < i
      <4>1. x.time \in Nat /\ e.time \in Nat /\ x.pos = w
        BY <1>5, <3>5, HeldIs, LoopAssumption DEF Event
      <4>2. SUFFICES ASSUME i < j \/ i = j PROVE FALSE
        BY <1>2, <3>6
      <4>3. i # j
        BY <1>1, <3>2, <3>7, <4>1
      <4>4. AtOrBefore(g, x.pos)
        BY <4>1 DEF AtOrBefore
      <4>5. Precedes(g, e, x)
        BY <1>1, <1>2, <1>6, <3>6, <3>7, <4>2, <4>3 DEF Orderly
      <4> QED BY <1>5, <3>2, <4>1, <4>4, <4>5 DEF Precedes
    <3>9. \A k \in 1..Len(m.events) : k < i => m.events[k].pos \notin Exit(g)
      BY <1>6, InFrontOfFirst
    <3>10. /\ Len(s) \in Nat
           /\ \A k \in 1..j : k \in 1..Len(s) /\ s[k] = m.events[k] /\ k \in 1..l /\ k < i
      <4>1. /\ m.events \in Seq(Event) /\ sent \in Seq(Event)
        <5>1. Others(g, t) \union {f} \subseteq Event
          BY <1>5, OthersAreTyped
        <5> QED BY <1>6, <1>9, <5>1, SeqMonotonic DEF Machine
      <4>2. PICK n \in Nat : n = Len(sent)
        BY <4>1, LenProperties
      <4>3. Placed(s, m.events, i, sent)
        BY <1>2, <1>12, <4>1, ReplacedPlaces
      <4>4. /\ Len(s) = l - 1 + n
            /\ \A k \in 1..(l - 1 + n) : k < i => s[k] = m.events[k]
        BY <1>2, <3>6, <4>2, <4>3 DEF Placed
      <4>5. i \in 1..l
        BY <1>2, <3>6
      <4> QED BY <3>8, <4>4, <4>5
    <3>11. Unblocked(g, m2)
      <4>1. j \in 1..j
        OBVIOUS
      <4>2. s[j] = x /\ j \in 1..Len(s) /\ x.pos = w
        BY <3>5, <3>7, <3>10, <4>1, HeldIs
      <4>3. \A k \in 1..j : s[k].pos \notin Exit(g)
        BY <3>6, <3>9, <3>10
      <4> QED BY <1>13, <3>2, <4>2, <4>3 DEF Unblocked
    <3>12. o.maxLength # Null => o.maxLength > 1
      <4>1. PICK n \in Nat : n = Len(st.buffer)
        BY <3>3, LenProperties
      <4>2. n # 0
        BY <3>2, <3>3, <4>1, EmptySeq
      <4>3. o.maxLength # Null => n < o.maxLength
        BY <1>6, <3>3, <4>1 DEF Settled
      <4> QED BY <1>6, <4>1, <4>2, <4>3
    <3>13. Follows(Leaving(g, m2.events), TRUE)
      <4>1. PICK y : y = Leaving(g, a.sent)
        OBVIOUS
      <4>2. Leaving(g, sent) = y
        <5>1. a.sent \in Seq(Event) /\ <<f>> \in Seq(Event)
          <6>1. Others(g, t) \union {f} \subseteq Event
            BY <1>5, OthersAreTyped
          <6> QED BY <1>5, <1>7, <6>1, SeqMonotonic
        <5>2. PICK c, d : c = a.sent /\ d = <<f>>
          OBVIOUS
        <5>3. AmongJoins(ExitEvents(g), c, d)
          BY <5>1, <5>2, AmongJoined
        <5>4. Leaving(g, sent) = y \o Leaving(g, d)
          BY <1>9, <4>1, <5>2, <5>3 DEF AmongJoins, Leaving
        <5>5. Leaving(g, d) = << >>
          BY <1>5, <5>2, LeavingOne, WindowPlace
        <5>6. y \in Seq(Event)
          BY <4>1, <5>1, LeavingIs
        <5> QED BY <5>4, <5>5, <5>6, ConcatEmptySeq
      <4>3. u = y
        <5>1. b \o << >> = b
          BY ConcatEmptySeq
        <5> QED BY <1>15, <3>4, <4>2, <5>1
      <4> QED BY <1>7, <1>13, <1>15, <4>1, <4>3
    <3> QED BY <1>7, <1>13, <3>11, <3>12, <3>13 DEF Loose
  <2> QED BY <2>1, <2>2
<1>18. Flow(g, m2)
  <2>1. Logged(m2) = Logged(m)
    BY <1>13 DEF Logged
  <2> QED BY <1>2, <1>6, <1>13, <1>15, <1>17, <2>1 DEF Flow
<1> QED BY <1>10, <1>11, <1>13, <1>14, <1>16, <1>18 DEF Row


WaitsLeft(m, i, st, sent, wait) ==
  [WindowLeft(m, i, st, sent) EXCEPT !.waiting = wait]

LEMMA WindowWaits ==
  ASSUME NEW m \in Machine, NEW i, NEW w \in WindowNode, m.events[i].pos = w,
         NEW st, NEW sent, NEW wait, NEW m2, m2 = WaitsLeft(m, i, st, sent, wait)
  PROVE  /\ m2.events = Replaced(m.events, i, sent)
         /\ m2.buffer[w] = st.buffer /\ m2.members[w] = st.members
         /\ m2.skip[w] = st.skip
         /\ m2.waiting = wait /\ m2.delivered = m.delivered
<1>1. PICK q : q = Replaced(m.events, i, sent)
  OBVIOUS
<1>2. PICK b : b = [m.buffer EXCEPT ![w] = st.buffer]
  OBVIOUS
<1>3. PICK s : s = [m.members EXCEPT ![w] = st.members]
  OBVIOUS
<1>4. PICK k : k = [m.skip EXCEPT ![w] = st.skip]
  OBVIOUS
<1>5. PICK c : c = (IF Departs(m, i) THEN m.issued + 1 ELSE m.issued)
  OBVIOUS
<1>6. m2 = [[m EXCEPT !.events = q, !.buffer = b, !.members = s, !.skip = k,
                      !.issued = c]
              EXCEPT !.waiting = wait]
  BY <1>1, <1>2, <1>3, <1>4, <1>5 DEF WindowLeft, WaitsLeft
<1>7. /\ m2.events = q /\ m2.buffer = b /\ m2.members = s /\ m2.skip = k
      /\ m2.waiting = wait /\ m2.delivered = m.delivered
  BY <1>6 DEF Machine
<1>8. b[w] = st.buffer /\ s[w] = st.members /\ k[w] = st.skip
  BY <1>2, <1>3, <1>4 DEF Machine
<1> QED BY <1>1, <1>7, <1>8

(* A window that has sent its event, and has kept it or has failed to.     *)
Begun(z, a, e, p) ==
  \E b, s :
    /\ b = a.buffer \/ b = Append(a.buffer, e)
    /\ s = a.members \/ s = a.members \union {e}
    /\ z = State(b, s, a.skip, Stays(a, e, p))

(* A window that has not skipped its event sends it: with that, whatever   *)
(* it has sent before, the last to leave it is no end.                     *)
LEMMA BegunWorks ==
  ASSUME NEW g, LoneWindow(g), NEW t, NEW e \in Held(g, t), NEW p, NEW o \in BOOLEAN,
         NEW l \in BOOLEAN, NEW a \in Works(g, t, e, l),
         Follows(Leaving(g, a.sent), o), a.skip = 0,
         NEW z, Begun(z, a, e, p)
  PROVE  /\ z \in Works(g, t, e, o)
         /\ a.sent = << >> => \E y : Leaving(g, z.sent) = <<y>> /\ y.code # "end"
<1>0. PICK b, s : /\ b = a.buffer \/ b = Append(a.buffer, e)
                  /\ s = a.members \/ s = a.members \union {e}
                  /\ z = State(b, s, a.skip, Stays(a, e, p))
  BY DEF Begun
<1>1. /\ a.buffer \in Seq(Held(g, t)) /\ a.members \in SUBSET Event
      /\ e \in Event /\ e.pos = g.window /\ e.pos \notin Exit(g)
  BY HeldIs, WindowPlace DEF Works, WindowState
<1>2. PICK S : S = Others(g, t) \union {e}
  OBVIOUS
<1>3. S \subseteq Event /\ Data(g, t) \subseteq S /\ e \in S
  BY <1>1, <1>2, OthersAreTyped DEF Data
<1>4. PICK r \in Seq(S) : r = a.sent
  BY <1>2 DEF Works
<1>5. PICK h, c, d, q : h = <<e>> /\ c = r \o h /\ d = Copies(e, p) /\ q = c \o d
  OBVIOUS
<1>6. h \in Seq(S) /\ c \in Seq(S) /\ c = Append(r, e)
  BY <1>3, <1>5, ConcatProperties, AppendIsConcat
<1>7. PICK y : Leaving(g, d) = <<y>> /\ y.code # "end"
  BY <1>5, CopiesData
<1>8. d \in Seq(S) /\ q \in Seq(S)
  <2>1. d \in Seq(Data(g, t))
    BY <1>5, CopiesData
  <2>2. d \in Seq(S)
    BY <1>3, <2>1, SeqMonotonic
  <2> QED BY <1>5, <1>6, <2>2, ConcatProperties
<1>9. h \in Seq(Event) /\ c \in Seq(Event) /\ d \in Seq(Event) /\ r \in Seq(Event)
  BY <1>3, <1>6, <1>8, SeqMonotonic
<1>10. q = Stays(a, e, p)
  BY <1>4, <1>5, <1>6 DEF Stays
<1>11. PICK x, u : x = Leaving(g, r) /\ u = Leaving(g, q)
  OBVIOUS
<1>12. x \in Seq(Event) /\ <<y>> \in Seq(Event) /\ u = x \o <<y>>
  <2>1. AmongJoins(ExitEvents(g), r, h) /\ AmongJoins(ExitEvents(g), c, d)
    BY <1>9, AmongJoined
  <2>2. Leaving(g, c) = x \o Leaving(g, h)
    BY <1>5, <1>11, <2>1 DEF AmongJoins, Leaving
  <2>3. Leaving(g, h) = << >>
    BY <1>1, <1>5, LeavingOne
  <2>4. x \in Seq(Event) /\ <<y>> \in Seq(Event)
    BY <1>7, <1>9, <1>11, LeavingIs
  <2>5. Leaving(g, c) = x
    BY <2>2, <2>3, <2>4, ConcatEmptySeq
  <2>6. Leaving(g, q) = Leaving(g, c) \o Leaving(g, d)
    BY <1>5, <2>1 DEF AmongJoins, Leaving
  <2> QED BY <1>7, <1>11, <2>4, <2>5, <2>6
<1>13. Follows(u, o) /\ Opens(u, o)
  <2>1. PICK one \in Seq(Event) : one = <<y>>
    BY <1>12
  <2>2. Follows(x, o)
    BY <1>4, <1>11
  <2>3. Opens(x, o) \in BOOLEAN
    BY DEF Opens
  <2>4. \A k \in BOOLEAN : Follows(one, k) /\ Opens(one, k)
    BY <1>7, <2>1, OneFollows
  <2>5. /\ Follows(x \o one, o) <=> Follows(x, o) /\ Follows(one, Opens(x, o))
        /\ Opens(x \o one, o) <=> Opens(one, Opens(x, o))
    <3>1. x \in Seq(Event) /\ one \in Seq(Event)
      BY <1>12, <2>1
    <3> QED BY <3>1, JoinedFollow
  <2> QED BY <1>12, <2>1, <2>2, <2>3, <2>4, <2>5
<1>14. b \in Seq(Held(g, t)) /\ s \in SUBSET Event
  <2>1. PICK H : H = Held(g, t)
    OBVIOUS
  <2>2. PICK k \in Seq(H) : k = a.buffer
    BY <1>1, <2>1
  <2>3. Append(k, e) \in Seq(H)
    BY <2>1, AppendProperties
  <2> QED BY <1>0, <1>1, <2>1, <2>2, <2>3
<1>15. /\ z.buffer = b /\ z.members = s /\ z.skip = 0 /\ z.sent = q
  BY <1>0, <1>10 DEF State
<1>16. z \in WindowState
  <2>1. Held(g, t) \subseteq Event
    BY OthersAreTyped
  <2>2. b \in Seq(Event) /\ q \in Seq(Event)
    BY <1>3, <1>8, <1>14, <2>1, SeqMonotonic
  <2> QED BY <1>0, <1>10, <1>14, <2>2 DEF State, WindowState
<1>17. z \in Works(g, t, e, o)
  BY <1>2, <1>8, <1>11, <1>13, <1>14, <1>15, <1>16 DEF Works
<1>18. a.sent = << >> => u = <<y>>
  <2>1. SUFFICES ASSUME r = << >> PROVE u = <<y>>
    BY <1>4
  <2>2. x = << >>
    <3>1. \A k \in 1..Len(r) : r[k].pos \notin Exit(g)
      BY <2>1
    <3> QED BY <1>9, <1>11, <3>1, LeavingIs
  <2> QED BY <1>12, <2>2, ConcatEmptySeq
<1> QED BY <1>7, <1>11, <1>15, <1>17, <1>18


LEMMA BufferKeepsRow ==
  ASSUME NEW g, LoneWindow(g), NEW t, NEW m, Row(g, m, t),
         NEW strict, WindowSound(m, strict), NEW i \in FirstAble(m),
         m.events[i].pos = g.window, ~ Astray(m, i), ~ Skips(m, i),
         NEW taken
  PROVE  Row(g, AtWindow(m, i, taken), t)
<1> DEFINE w == g.window
           o == Options[w]
<1>1. PICK e, f, st : /\ e = m.events[i] /\ f = Resident(m, i)
                      /\ st = State(m.buffer[w], m.members[w], m.skip[w], << >>)
  OBVIOUS
<1>2. /\ i \in 1..Len(m.events) /\ e \in Held(g, t) /\ ~ m.waiting[w]
      /\ Leaving(g, m.events) = << >> \/ Loose(g, m)
      /\ f \in Held(g, t) /\ f.time = e.time
      /\ \A l \in BOOLEAN : (st.buffer # << >> => l) => st \in Works(g, t, f, l)
  <2>1. /\ i \in 1..Len(m.events) /\ e \in Held(g, t) /\ ~ m.waiting[w]
        /\ Leaving(g, m.events) = << >> \/ Loose(g, m)
        /\ \A y \in Held(g, t), l \in BOOLEAN :
             (st.buffer # << >> => l) => st \in Works(g, t, y, l)
    BY <1>1, AtTheWindow
  <2>2. m \in Machine
    BY DEF Row
  <2>3. f \in Held(g, t) /\ f.time = e.time
    BY <1>1, <2>1, <2>2, ResidentHeld
  <2> QED BY <2>1, <2>3
<1>3. /\ w \in WindowNode /\ w \in Node /\ e.pos = w /\ e \in Event
      /\ e \in EventsAt(w) /\ m \in Machine /\ Settled(g, m) /\ Flow(g, m)
      /\ ~ LoopsForever(w) /\ ~ Rejects(m, i)
      /\ f \in Event /\ f.pos = w
  <2>1. m \in Machine /\ Settled(g, m) /\ Flow(g, m) /\ ~ LoopsForever(w)
    BY DEF Row, LoneWindow
  <2> QED BY <1>2, <2>1, WindowPlace, HeldIs, InFrontOfFirst
<1>4. PICK p, a : p = m.predicates /\ a = BeforeSkip(m, i)
  OBVIOUS
<1>5. a = AfterTime(w, e, p, st)
  BY <1>1, <1>3, <1>4 DEF BeforeSkip
<1>6. st \in Works(g, t, f, TRUE) /\ a \in Works(g, t, f, TRUE) /\ Remains(g, a, st, e)
  <2>1. TRUE \in BOOLEAN
    OBVIOUS
  <2>2. st \in Works(g, t, f, TRUE)
    BY <1>2, <2>1
  <2> QED BY <1>2, <1>5, <2>1, <2>2, AfterTimeWorks
<1>7. a.skip = 0 /\ Follows(Leaving(g, a.sent), TRUE)
  <2>1. a.skip \in Nat /\ Follows(Leaving(g, a.sent), TRUE)
    BY <1>6 DEF Works, WindowState
  <2>2. ~ (a.skip > 0)
    BY <1>4 DEF Skips
  <2>3. \A k \in Nat : ~ (k > 0) => k = 0
    OBVIOUS
  <2> QED BY <2>1, <2>2, <2>3
<1>8. PICK b : b = IF "buffer" \in taken THEN Append(a.buffer, f) ELSE a.buffer
  OBVIOUS
<1>9. PICK s : s = IF "members" \in taken THEN a.members \union {f} ELSE a.members
  OBVIOUS
<1>10. /\ b = a.buffer \/ b = Append(a.buffer, f)
       /\ s = a.members \/ s = a.members \union {f}
  BY <1>8, <1>9
<1>11. PICK z : z = State(b, s, a.skip, Stays(a, f, p))
  OBVIOUS
<1>12. PICK full : full = AfterLength(w, f, p, z)
  OBVIOUS
<1>13. ASSUME NEW l \in BOOLEAN, Follows(Leaving(g, a.sent), l)
       PROVE  /\ z \in Works(g, t, f, l) /\ full \in Works(g, t, f, l)
              /\ a.sent = << >> => \E y : Leaving(g, z.sent) = <<y>> /\ y.code # "end"
  <2>1. /\ z \in Works(g, t, f, l)
        /\ a.sent = << >> => \E y : Leaving(g, z.sent) = <<y>> /\ y.code # "end"
    <3>1. PICK k \in BOOLEAN : a \in Works(g, t, f, k)
      BY <1>6
    <3>3. /\ f \in Held(g, t) /\ a.skip = 0 /\ Follows(Leaving(g, a.sent), l)
      BY <1>2, <1>7, <1>13
    <3>2. Begun(z, a, f, p)
      BY <1>10, <1>11 DEF Begun
    <3> QED BY <3>1, <3>2, <3>3, BegunWorks
  <2> QED BY <1>2, <1>12, <2>1, AfterLengthWorks
<1>14. z \in Works(g, t, f, TRUE) /\ full \in Works(g, t, f, TRUE)
  BY <1>7, <1>13
<1>15. PICK m2 : m2 = AtWindow(m, i, taken)
  OBVIOUS
<1>16. PICK wait : wait = [m.waiting EXCEPT ![w] = TRUE]
  OBVIOUS
<1>17. PICK q, sent : q = Replaced(m.events, i, sent) /\ sent = full.sent
  OBVIOUS
<1>18. m2 \in Machine
  <2>1. PICK no \in BOOLEAN : ~ no
    OBVIOUS
  <2> QED BY <1>1, <1>2, <1>3, <1>15, <2>1, BufferKeepsWindows
<1>19. /\ m2.events = q /\ m2.buffer[w] = full.buffer /\ m2.members[w] = full.members
       /\ m2.skip[w] = full.skip
       /\ m2.waiting = wait /\ m2.delivered = m.delivered
  <2>1. m2 = WaitsLeft(m, i, full, sent, wait)
    BY <1>1, <1>3, <1>4, <1>8, <1>9, <1>11, <1>12, <1>15, <1>16, <1>17 DEF AtWindow, WaitsLeft
  <2>2. m \in Machine /\ w \in WindowNode /\ m.events[i].pos = w
    BY <1>3
  <2>3. /\ m2.events = Replaced(m.events, i, sent)
        /\ m2.buffer[w] = full.buffer /\ m2.members[w] = full.members
        /\ m2.skip[w] = full.skip
        /\ m2.waiting = wait /\ m2.delivered = m.delivered
    BY <2>1, <2>2, WindowWaits
  <2> QED BY <1>17, <2>3
<1>20. \A n \in Node : wait[n] = (n = w \/ m.waiting[n])
  BY <1>3, <1>16 DEF Machine
<1>21. sent \in Seq(Others(g, t) \union {f})
  BY <1>14, <1>17 DEF Works
<1>22. q \in Seq(Usual(g, t)) /\ Orderly(g, q)
  BY <1>1, <1>2, <1>17, <1>21, WindowSends
<1>23. PICK c, u, v \in Seq(Event) :
         /\ c = Leaving(g, sent) /\ v = Leaving(g, m.events)
         /\ u = Leaving(g, q) /\ u = c \o v
  <2>1. GoesFirst(g, q, sent, m.events)
    BY <1>1, <1>2, <1>17, <1>21, WindowSends
  <2> QED BY <2>1 DEF GoesFirst
<1>24. Settled(g, m2)
  <2>1. /\ full.buffer \in Seq(Held(g, t)) /\ full.skip \in Nat
        /\ full.skip > 0 => full.buffer = << >>
        /\ o.additionalStep = 0 => full.skip = 0
    BY <1>14 DEF Works, WindowState
  <2>2. \A k \in 1..Len(full.buffer) : full.buffer[k] \in EventsAt(w)
    BY <2>1, HeldIs, ElementOfSeq
  <2>3. o.maxLength # Null => Len(full.buffer) < o.maxLength
    <3>1. ToSet(z.buffer) \subseteq EventsAt(w) /\ z \in WindowState /\ f \in EventsAt(w)
      <4>1. z.buffer \in Seq(Held(g, t)) /\ z \in WindowState
        BY <1>14 DEF Works
      <4> QED BY <1>2, <4>1, HeldIs, ElementOfSeq, LenProperties DEF ToSet
    <3>2. ~ EndsByLength(w, full)
      BY <1>3, <1>12, <3>1, WindowLoopsEnd
    <3>3. Len(full.buffer) \in Nat
      BY <2>1, LenProperties
    <3> QED BY <1>3, <3>2, <3>3, WindowAssumption DEF EndsByLength
  <2> QED BY <1>3, <1>19, <1>20, <2>1, <2>2, <2>3 DEF Settled
<1>25. PICK l \in BOOLEAN : l <=> Opens(Logged(m), FALSE)
  OBVIOUS
<1>26. Follows(Logged(m), FALSE) /\ Logged(m2) = Logged(m)
  BY <1>3, <1>19 DEF Flow, Logged
<1>27. /\ Follows(u, l)
       /\ full.buffer # << >> =>
            Opens(u, l) \/ (Len(full.buffer) = 1 /\ o.additionalStep > 0)
  <2>1. CASE v = << >>
    <3>1. u = c
      BY <1>23, <2>1, ConcatEmptySeq
    <3>2. Follows(Leaving(g, a.sent), l)
      <4>1. CASE st.buffer # << >> => l
        <5>1. st \in Works(g, t, f, l)
          BY <1>2, <4>1
        <5>2. a \in Works(g, t, f, l)
          BY <1>2, <1>5, <5>1, AfterTimeWorks
        <5> QED BY <5>2 DEF Works
      <4>2. CASE ~ (st.buffer # << >> => l)
        <5>1. Len(st.buffer) = 1 /\ o.additionalStep > 0
          <6>1. st.buffer = m.buffer[w]
            BY <1>1 DEF State
          <6>2. ~ Opens(v, l)
            BY <2>1, <4>2 DEF Opens
          <6>3. ~ Opens(v, Opens(Logged(m), FALSE))
            BY <1>25, <2>1, <6>2 DEF Opens
          <6> QED BY <1>3, <1>23, <4>2, <6>1, <6>3 DEF Flow
        <5>2. a = st
          BY <1>6, <1>7, <5>1 DEF Remains
        <5>3. a.sent = << >>
          BY <1>1, <5>2 DEF State
        <5>4. PICK x \in Seq(Event) : x = << >> /\ Len(x) = 0
          BY EmptySeq
        <5>5. Leaving(g, x) = << >>
          <6>1. \A k \in 1..Len(x) : x[k].pos \notin Exit(g)
            BY <5>4
          <6> QED BY <6>1, LeavingIs
        <5> QED BY <5>3, <5>4, <5>5, OneFollows
      <4> QED BY <4>1, <4>2
    <3>3. full \in Works(g, t, f, l)
      BY <1>13, <3>2
    <3> QED BY <1>17, <1>23, <3>1, <3>3 DEF Works
  <2>2. CASE Loose(g, m)
    <3>1. st.buffer = << >> /\ st.sent = << >> /\ o.additionalStep > 0
          /\ (o.maxLength # Null => o.maxLength > 1) /\ Follows(v, TRUE)
      BY <1>1, <1>23, <2>2 DEF Loose, State
    <3>2. a = st
      BY <1>6, <3>1 DEF Remains
    <3>3. z.buffer \in {<< >>, <<f>>}
      <4>1. Append(<< >>, f) = <<f>>
        OBVIOUS
      <4>2. z.buffer = b
        BY <1>11 DEF State
      <4> QED BY <1>10, <3>1, <3>2, <4>1, <4>2
    <3>4. PICK n \in 0..1 : DOMAIN z.buffer = 1..n /\ Len(z.buffer) = n
      <4>1. CASE z.buffer = << >>
        BY <4>1
      <4>2. CASE z.buffer = <<f>>
        BY <4>2
      <4> QED BY <3>3, <4>1, <4>2
    <3>5. full = z
      <4>1. n \in Nat
        OBVIOUS
      <4>2. ~ EndsByLength(w, z)
        BY <1>3, <3>1, <3>4, WindowAssumption DEF EndsByLength
      <4> QED BY <1>12, <3>4, <4>1, <4>2, NotFullStays
    <3>6. PICK y : c = <<y>> /\ y.code # "end"
      BY <1>7, <1>13, <1>17, <1>23, <3>1, <3>2, <3>5
    <3>7. Follows(u, l)
      <4>1. \A k \in BOOLEAN : Follows(c, k) /\ Opens(c, k)
        BY <3>6, OneFollows
      <4>2. c \in Seq(Event) /\ v \in Seq(Event)
        BY <1>23
      <4>3. Follows(c \o v, l) <=> Follows(c, l) /\ Follows(v, Opens(c, l))
        BY <4>2, JoinedFollow
      <4>4. Follows(v, Opens(c, l))
        BY <3>1, <4>1 DEF Follows
      <4> QED BY <1>23, <4>1, <4>3, <4>4
    <3>8. full.buffer # << >> => Len(full.buffer) = 1
      <4>1. CASE z.buffer = << >>
        BY <3>5, <4>1
      <4>2. CASE z.buffer = <<f>>
        BY <3>5, <4>2
      <4> QED BY <3>3, <4>1, <4>2
    <3> QED BY <3>1, <3>7, <3>8
  <2> QED BY <1>2, <1>23, <2>1, <2>2
<1>28. Flow(g, m2)
  <2>1. /\ Follows(u, Opens(Logged(m), FALSE))
        /\ full.buffer # << >> =>
             Opens(u, Opens(Logged(m), FALSE))
               \/ (Len(full.buffer) = 1 /\ o.additionalStep > 0)
    BY <1>25, <1>27 DEF Follows, Opens
  <2>2. m2.waiting[w]
    BY <1>3, <1>19, <1>20
  <2> QED BY <1>19, <1>23, <1>26, <2>1, <2>2 DEF Flow
<1> QED BY <1>15, <1>18, <1>19, <1>22, <1>24, <1>28 DEF Row

(* Every handler keeps the row.                                            *)
LEMMA HandlersKeepRow ==
  ASSUME NEW g, LoneWindow(g), NEW t, NEW m, Row(g, m, t),
         NEW strict, WindowSound(m, strict), NEW i \in FirstAble(m),
         NEW m2, Handles(m, i, m2)
  PROVE  Row(g, m2, t)
<1>1. CASE m.events[i].pos # g.window
  BY <1>1, OthersKeepRow
<1>2. CASE m.events[i].pos = g.window
  <2>1. /\ g.window \in WindowNode /\ g.window \notin Channel
        /\ g.window \notin ComputingNode /\ Kind[g.window] = "window"
    BY WindowPlace, GraphAssumption DEF WindowNode, ComputingNode
  <2>2. /\ ~ Astray(m, i)
        /\ IF Skips(m, i) THEN m2 = AtWindowSkip(m, i)
           ELSE \E taken \in SUBSET Both : m2 = AtWindow(m, i, taken)
    BY <1>2, <2>1 DEF Handles
  <2> QED BY <1>2, <2>2, SkipKeepsRow, BufferKeepsRow
<1> QED BY <1>1, <1>2


-----------------------------------------------------------------------------
(***************************************************************************)
(* The main loop.                                                          *)
(***************************************************************************)

(* What is read from standard input goes into the list where it disturbs   *)
(* nothing: behind all others, at places that are not behind the window.   *)
LEMMA StdinIsUsual ==
  ASSUME NEW g, LoneWindow(g), NEW s \in Source, input[s] \in Inputs,
         read[s] \in Nat, now \in 0..MaxTime, NEW q, q = EventsFromStdin(s)
  PROVE  /\ q \in Seq(Usual(g, now)) /\ q \in Seq(Event)
         /\ \A k \in 1..Len(q) : /\ q[k].time = now
                                 /\ q[k].pos \notin {g.window} \union Exit(g)
<1>1. q \in Seq(Event) /\ \A k \in 1..Len(q) : q[k].time = now
  BY StdinEvents
<1>2. PICK l \in Nat : l = Len(q) /\ q \in [1..l -> Event]
  BY <1>1, LenProperties
<1>3. PICK n, code, p : q = FromSource(s, n, code, now, p) /\ code \in {"eof", "data"}
  BY DEF EventsFromStdin
<1>4. DOMAIN q = DOMAIN Outputs[s] /\ DOMAIN q = 1..l
  BY <1>2, <1>3 DEF FromSource
<1>5. /\ s \in Node /\ s # g.window /\ InitialTTL \in Nat /\ now \in Nat
      /\ g.window \in Node /\ End[g.exit] \in Node
      /\ g.depth \in [Node \union Channel -> Nat]
  BY WindowPlace, LoopAssumption DEF Source, WindowNode, LoneWindow
<1>6. ASSUME NEW k \in 1..l
      PROVE  /\ q[k] \in Usual(g, now)
             /\ q[k].pos \notin {g.window} \union Exit(g)
  <2>1. /\ q[k].pos = Outputs[s][k] /\ q[k].ttl = InitialTTL /\ q[k].code = code
        /\ k \in DOMAIN Outputs[s]
    BY <1>3, <1>4 DEF FromSource
  <2>2. q[k] \in Event /\ q[k].time = now
    BY <1>1, <1>2
  <2>3. Outputs[s][k] \in Channel \union {Null}
    BY <1>5, <2>1, GraphAssumption, ElementOfSeq, LenProperties
  <2>4. Outputs[s][k] \notin Node
    BY <2>3, GraphAssumption
  <2>5. Outputs[s][k] # g.exit
    BY <1>5, <2>1 DEF LoneWindow
  <2>6. q[k].code # "end"
    BY <1>3, <2>1
  <2>7. q[k].pos # Null => q[k].ttl + g.depth[q[k].pos] >= InitialTTL
    <3>1. SUFFICES ASSUME q[k].pos # Null
                   PROVE  q[k].ttl + g.depth[q[k].pos] >= InitialTTL
      OBVIOUS
    <3>2. g.depth[q[k].pos] \in Nat
      BY <1>5, <2>1, <2>3, <3>1
    <3> QED BY <1>5, <2>1, <3>2
  <2>8. q[k].time <= now
    BY <1>5, <2>2
  <2>9. q[k] \in InPast(now)
    BY <2>2, <2>8 DEF InPast
  <2> QED BY <1>5, <2>1, <2>4, <2>5, <2>6, <2>7, <2>9 DEF Usual, Exit
<1>7. q \in Seq(Usual(g, now))
  <2>1. q \in [1..l -> Usual(g, now)]
    BY <1>2, <1>6
  <2> QED BY <2>1
<1> QED BY <1>1, <1>2, <1>6, <1>7

LEMMA AppendedOrderly ==
  ASSUME NEW g, NEW t \in Nat, NEW s \in Seq(Event), NEW q \in Seq(Event),
         Orderly(g, s), \A k \in 1..Len(s) : s[k].time \in Nat /\ s[k].time <= t,
         \A k \in 1..Len(q) : /\ q[k].time = t
                              /\ q[k].pos \notin {g.window} \union Exit(g),
         NEW u, u = s \o q
  PROVE  Orderly(g, u)
<1>1. PICK n \in Nat, l \in Nat : n = Len(s) /\ l = Len(q)
  BY LenProperties
<1>2. /\ Len(u) = n + l
      /\ \A k \in 1..(n + l) : u[k] = IF k <= n THEN s[k] ELSE q[k - n]
  BY <1>1, ConcatProperties
<1>3. ASSUME NEW i \in 1..(n + l), NEW j \in 1..(n + l), i < j
      PROVE  Precedes(g, u[i], u[j])
  <2>0. (i <= n \/ n < i) /\ (j <= n \/ n < j)
    BY <1>1, <1>3
  <2>1. CASE j <= n
    <3>1. i \in 1..n /\ j \in 1..n
      BY <1>3, <2>1
    <3>2. u[i] = s[i] /\ u[j] = s[j]
      BY <1>2, <3>1
    <3> QED BY <1>1, <1>3, <3>1, <3>2 DEF Orderly
  <2>2. CASE n < j
    <3>1. PICK k \in 1..l : k = j - n /\ u[j] = q[k]
      BY <1>2, <2>2
    <3>2. u[j].time = t /\ u[j].pos \notin {g.window} \union Exit(g)
      BY <1>1, <3>1
    <3>3. u[i].time <= t
      <4>1. CASE i <= n
        <5>1. i \in 1..n /\ u[i] = s[i]
          BY <1>2, <4>1
        <5> QED BY <1>1, <5>1
      <4>2. CASE n < i
        <5>1. PICK h \in 1..l : h = i - n /\ u[i] = q[h]
          BY <1>2, <4>2
        <5>2. u[i].time = t
          BY <1>1, <5>1
        <5>3. t <= t
          OBVIOUS
        <5> QED BY <5>2, <5>3
      <4> QED BY <2>0, <4>1, <4>2
    <3> QED BY <3>2, <3>3 DEF Precedes
  <2> QED BY <2>0, <2>1, <2>2
<1> QED BY <1>2, <1>3 DEF Orderly

LEMMA ReadingKeepsRow ==
  ASSUME NEW g, LoneWindow(g), NEW t \in Nat, NEW m, Row(g, m, t),
         NEW q \in Seq(Usual(g, t)), q \in Seq(Event),
         \A k \in 1..Len(q) : /\ q[k].time = t
                              /\ q[k].pos \notin {g.window} \union Exit(g),
         NEW u, u = m.events \o q, NEW m2, m2 = WithEvents(m, u)
  PROVE  Row(g, m2, t)
<1>1. /\ m \in Machine /\ m.events \in Seq(Usual(g, t)) /\ Orderly(g, m.events)
      /\ Settled(g, m) /\ Flow(g, m)
  BY DEF Row
<1>2. PICK s \in Seq(Event) : s = m.events
  BY <1>1 DEF Machine
<1>3. u \in Seq(Usual(g, t)) /\ u \in Seq(Event) /\ u = s \o q
  BY <1>1, <1>2, ConcatProperties
<1>4. /\ m2 \in Machine /\ m2.events = u
      /\ m2.waiting = m.waiting /\ m2.buffer = m.buffer /\ m2.members = m.members
      /\ m2.skip = m.skip /\ m2.delivered = m.delivered
  BY <1>1, <1>3 DEF WithEvents, Machine
<1>5. Orderly(g, u)
  <2>1. \A k \in 1..Len(s) : s[k].time \in Nat /\ s[k].time <= t
    <3>1. ASSUME NEW k \in 1..Len(s)
          PROVE  s[k].time \in Nat /\ s[k].time <= t
      <4>1. s[k] \in InPast(t) /\ s[k] \in Event
        BY <1>1, <1>2, <3>1, ElementOfSeq DEF Usual, InPast
      <4>2. s[k].time \in 0..MaxTime /\ s[k].time <= t
        BY <4>1 DEF InPast, Event
      <4>3. MaxTime \in Nat
        BY LoopAssumption
      <4> QED BY <4>2, <4>3
    <3> QED BY <3>1
  <2> QED BY <1>1, <1>2, <1>3, <2>1, AppendedOrderly
<1>6. Settled(g, m2)
  BY <1>1, <1>4 DEF Settled
<1>7. Leaving(g, u) = Leaving(g, s)
  <2>1. PICK x, y : x = Leaving(g, s) /\ y = Leaving(g, q)
    OBVIOUS
  <2>2. y = << >>
    BY <2>1, LeavingIs
  <2>3. x \in Seq(Event)
    BY <2>1, LeavingIs
  <2>4. AmongJoins(ExitEvents(g), s, q)
    BY AmongJoined
  <2>5. Leaving(g, u) = x \o y
    BY <1>3, <2>1, <2>4 DEF AmongJoins, Leaving
  <2> QED BY <2>1, <2>2, <2>3, <2>5, ConcatEmptySeq
<1>8. Unblocked(g, m) => Unblocked(g, m2)
  <2>1. PICK n \in Nat, l \in Nat : n = Len(s) /\ l = Len(q)
    BY LenProperties
  <2>2. Len(u) = n + l /\ \A k \in 1..n : u[k] = s[k]
    BY <1>3, <2>1, ConcatProperties
  <2>3. SUFFICES ASSUME Unblocked(g, m) PROVE Unblocked(g, m2)
    OBVIOUS
  <2>4. PICK j \in 1..n : /\ s[j].pos = g.window /\ s[j] \notin m.members[g.window]
                          /\ \A k \in 1..j : s[k].pos \notin Exit(g)
    BY <1>2, <2>1, <2>3 DEF Unblocked
  <2>5. \A k \in 1..j : k \in 1..n
    OBVIOUS
  <2>6. j \in 1..(n + l) /\ u[j] = s[j]
    BY <2>2
  <2>7. \A k \in 1..j : u[k].pos \notin Exit(g)
    BY <2>2, <2>4, <2>5
  <2>8. /\ j \in 1..Len(m2.events)
        /\ m2.events[j].pos = g.window
        /\ m2.events[j] \notin m2.members[g.window]
        /\ \A k \in 1..j : m2.events[k].pos \notin Exit(g)
    BY <1>4, <2>2, <2>4, <2>6, <2>7
  <2> QED BY <2>8 DEF Unblocked
<1>9. Flow(g, m2)
  <2>1. Logged(m2) = Logged(m) /\ Leaving(g, m2.events) = Leaving(g, m.events)
    BY <1>2, <1>4, <1>7 DEF Logged
  <2>2. Loose(g, m) => Loose(g, m2)
    BY <1>4, <1>8, <2>1 DEF Loose
  <2> QED BY <1>1, <1>4, <2>1, <2>2 DEF Flow
<1> QED BY <1>3, <1>4, <1>5, <1>6, <1>9 DEF Row

(* The clock only goes on.                                                 *)
LEMMA LaterRow ==
  ASSUME NEW g, NEW t \in Nat, NEW m, Row(g, m, t)
  PROVE  Row(g, m, t + 1)
<1>1. PICK S, T : S = Usual(g, t) /\ T = Usual(g, t + 1)
  OBVIOUS
<1>2. S \subseteq T
  <2>1. ASSUME NEW e \in S PROVE e \in T
    <3>1. e \in InPast(t) /\ e \in Event /\ e.time <= t
      BY <1>1 DEF Usual, InPast
    <3>2. e.time \in Nat
      BY <3>1, LoopAssumption DEF Event
    <3>3. e.time <= t + 1
      BY <3>1, <3>2
    <3>4. e \in InPast(t + 1)
      BY <3>1, <3>3 DEF InPast
    <3> QED BY <1>1, <3>4 DEF Usual
  <2> QED BY <2>1
<1>3. m.events \in Seq(T)
  BY <1>1, <1>2, SeqMonotonic DEF Row
<1> QED BY <1>1, <1>3 DEF Row

LEMMA FirstRow ==
  ASSUME NEW g, LoneWindow(g), NEW m \in Machine, m = Idle, NEW t
  PROVE  Row(g, m, t)
<1>1. /\ m.events = << >> /\ m.delivered = << >>
      /\ \A n \in Node : ~ m.waiting[n]
      /\ \A w \in WindowNode : m.buffer[w] = << >> /\ m.skip[w] = 0
  BY DEF Idle
<1>2. g.window \in WindowNode /\ g.window \in Node /\ Options[g.window].maxLength # 0
  BY WindowPlace DEF LoneWindow, LoopsForever
<1>3. m.events \in Seq(Usual(g, t)) /\ Orderly(g, m.events)
  BY <1>1, EmptySeq DEF Orderly
<1>4. Settled(g, m)
  <2>1. m.buffer[g.window] = << >> /\ m.skip[g.window] = 0
    BY <1>1, <1>2
  <2>2. Options[g.window].maxLength # Null => 0 < Options[g.window].maxLength
    BY <1>2, WindowAssumption
  <2> QED BY <1>1, <2>1, <2>2, EmptySeq DEF Settled
<1>5. Leaving(g, m.events) = << >>
  <2>1. PICK s \in Seq(Event) : s = m.events /\ Len(s) = 0
    BY <1>1, EmptySeq
  <2>2. \A k \in 1..Len(s) : s[k].pos \notin Exit(g)
    BY <2>1
  <2> QED BY <2>1, <2>2, LeavingIs
<1>6. Logged(m) = << >>
  <2>1. PICK s \in Seq(Delivery) : s = m.delivered /\ Len(s) = 0
    BY <1>1, EmptySeq
  <2>2. \A k \in 1..Len(s) : s[k] \notin Behind
    BY <2>1
  <2>3. Among(Behind, s) = << >>
    BY <2>2, NoneAmong
  <2> QED BY <2>1, <2>3 DEF Logged
<1>7. Flow(g, m)
  <2>1. Follows(Logged(m), FALSE)
    BY <1>6, OneFollows
  <2> QED BY <1>1, <1>2, <1>5, <2>1 DEF Flow
<1> QED BY <1>3, <1>4, <1>7 DEF Row

RowInv(g) == LoneWindow(g) /\ LoopInv /\ Row(g, machine, now)

LEMMA HandlingKeepsRow ==
  ASSUME NEW g, RowInv(g), HandleEvent
  PROVE  Row(g, machine, now)'
<1>1. /\ LoneWindow(g) /\ LoopInv /\ Row(g, machine, now)
      /\ WindowSound(machine, lost["members"] = 0)
  BY DEF RowInv, LoopInv
<1>2. PICK i \in 1..Len(events) :
        FirstAble(machine) = {i} /\ Handled(i) /\ now' = now
  BY <1>1, FirstAbleIsHandled
<1>0. CASE UNCHANGED graph
  BY <1>0, <1>1, <1>2, SameMachine
<1>c. SUFFICES ASSUME ~ UNCHANGED graph PROVE Row(g, machine, now)'
  BY <1>0
<1>3. PICK m : Handles(machine, i, m) /\ Becomes(m)
  BY <1>2, <1>c DEF Handled
<1>4. Row(g, m, now)
  BY <1>1, <1>2, <1>3, HandlersKeepRow
<1>5. machine' = m
  BY <1>3, <1>4, Becoming DEF Row
<1> QED BY <1>2, <1>4, <1>5

LEMMA ReadingRow ==
  ASSUME NEW g, RowInv(g), HandleDevice \/ HandleStdin
  PROVE  Row(g, machine, now)'
<1>1. /\ LoneWindow(g) /\ LoopInv /\ Row(g, machine, now)
      /\ machine.events = events /\ machine \in Machine
      /\ input \in [Source -> Inputs] /\ read \in [Source -> Nat]
      /\ now \in 0..MaxTime /\ now \in Nat
  BY LoopAssumption DEF RowInv, LoopInv, Outside, Counted, machine
<1>2. PICK q : FromReading(q)
  BY <1>1, ReadingMakes
<1>3. PICK s \in Source : s = Head(ready)
  BY <1>2 DEF FromReading
<1>4. /\ HandleIo(q) /\ q = EventsFromStdin(s)
  <2>1. Kind[s] = "getchar" /\ Kind[s] # "evdev"
    BY <1>1 DEF LoneWindow, OnlyStdin
  <2> QED BY <1>2, <1>3, <2>1 DEF FromReading
<1>5. /\ q \in Seq(Usual(g, now)) /\ q \in Seq(Event)
      /\ \A k \in 1..Len(q) : /\ q[k].time = now
                              /\ q[k].pos \notin {g.window} \union Exit(g)
  BY <1>1, <1>4, StdinIsUsual
<1>6. PICK e : e = machine.events
  OBVIOUS
<1>7. e \in Seq(InPast(now))
  <2>1. Usual(g, now) \subseteq InPast(now)
    BY OthersAreTyped
  <2>2. e \in Seq(Usual(g, now))
    BY <1>1, <1>6 DEF Row
  <2> QED BY <2>1, <2>2, SeqMonotonic
<1>8. FoldLeft(Created, e, q) = e \o q
  BY <1>1, <1>5, <1>7, CreatingLast
<1>9. PICK u : u = e \o q
  OBVIOUS
<1>10. PICK m : m = WithEvents(machine, u)
  OBVIOUS
<1>11. Row(g, m, now)
  BY <1>1, <1>5, <1>6, <1>9, <1>10, ReadingKeepsRow
<1>12. machine' = m /\ now' = now
  <2>1. /\ events' = u /\ now' = now
        /\ UNCHANGED <<waiting, memory, predicates, buffer, members, skip, issued, delivered>>
    BY <1>1, <1>4, <1>6, <1>8, <1>9 DEF HandleIo
  <2> QED BY <1>10, <2>1 DEF machine, WithEvents
<1> QED BY <1>11, <1>12

LEMMA NextKeepsRow ==
  ASSUME NEW g
  PROVE  RowInv(g) /\ [Next]_vars => RowInv(g)'
<1> SUFFICES ASSUME RowInv(g), [Next]_vars PROVE RowInv(g)'
  OBVIOUS
<1>1. LoneWindow(g) /\ LoopInv /\ Row(g, machine, now) /\ now \in Nat
  BY LoopAssumption DEF RowInv, LoopInv, Outside
<1>2. LoopInv'
  BY <1>1, NextKeeps
<1>3. ASSUME UNCHANGED graph
      PROVE  machine' = machine
  BY <1>3, SameMachine
<1>4. Row(g, machine, now)'
  <2>1. CASE UNCHANGED vars
    <3>1. UNCHANGED graph /\ now' = now
      BY <2>1 DEF vars, env
    <3> QED BY <1>1, <1>3, <3>1
  <2>2. CASE HandleEvent
    BY <2>2, HandlingKeepsRow
  <2>3. CASE HandleDevice \/ HandleStdin
    BY <2>3, ReadingRow
  <2>4. CASE Tick
    <3>1. UNCHANGED graph /\ now' = now + 1
      BY <2>4 DEF Tick
    <3>2. Row(g, machine, now + 1)
      BY <1>1, LaterRow
    <3> QED BY <1>3, <3>1, <3>2
  <2>5. CASE \/ (\E s \in Source, p \in Payload : Arrive(s, p))
             \/ (\E s \in Source : Close(s))
             \/ BeginIteration \/ BlockingIo \/ PendingIo \/ FailedIo
             \/ HandleFails \/ EndPass
    <3>1. UNCHANGED graph /\ now' = now
      BY <2>5 DEF env, Arrive, Close, BeginIteration, BlockingIo,
         PendingIo, FailedIo, PollReturns, HandleFails, EndPass
    <3> QED BY <1>1, <1>3, <3>1
  <2> QED BY <2>1, <2>2, <2>3, <2>4, <2>5 DEF Next
<1>5. LoneWindow(g)'
  BY <1>1 DEF LoneWindow, OnlyStdin, LoopsForever
<1> QED BY <1>2, <1>4, <1>5 DEF RowInv

LEMMA RowSound ==
  ASSUME NEW g
  PROVE  RowInv(g) => NoEmptyWindow
<1> SUFFICES ASSUME RowInv(g) PROVE NoEmptyWindow
  OBVIOUS
<1>1. /\ Follows(Logged(machine), FALSE) /\ delivered \in Seq(Delivery)
      /\ machine.delivered = delivered
  BY DEF RowInv, Row, Flow, Machine, machine
<1>2. PICK n \in Nat : DOMAIN delivered = 1..n /\ n = Len(delivered)
  BY <1>1, LenProperties
<1>3. \A k \in 1..n : delivered[k] \in Behind <=> BehindWindow(delivered[k].sink)
  BY <1>1, <1>2, ElementOfSeq DEF Behind
<1>4. PICK f : f = [k \in 1..n |-> IF delivered[k] \in Behind THEN <<delivered[k]>> ELSE << >>]
  OBVIOUS
<1>5. f = [k \in 1..n |-> IF BehindWindow(delivered[k].sink) THEN <<delivered[k]>> ELSE << >>]
  BY <1>3, <1>4
<1>6. Logged(machine) = FlattenSeq(f)
  BY <1>1, <1>2, <1>4 DEF Logged, Among
<1>7. FromWindow = FlattenSeq(f)
  BY <1>2, <1>5 DEF FromWindow, Those
<1>8. PICK s : s = FromWindow
  OBVIOUS
<1>9. Follows(s, FALSE) /\ s \in Seq(Delivery)
  <2>1. Among(Behind, delivered) \in Seq(Delivery)
    BY <1>1, AmongTyped, LoggedAppended, AmongIs
  <2> QED BY <1>1, <1>6, <1>7, <1>8, <2>1 DEF Logged
<1>10. DOMAIN s = 1..Len(s) /\ Len(s) \in Nat
  BY <1>9, LenProperties
<1> QED BY <1>8, <1>9, <1>10 DEF NoEmptyWindow, Follows

(* In a graph fed by standard input, with one window and no cycle, no      *)
(* terminator comes to a sink of the window's own without an event between *)
(* it and the terminator before it, whatever happens on the way: inputs    *)
(* that come while the window waits, events that time or length push out   *)
(* of the buffer, steps that go over its end and are made up for later, an *)
(* event the handler has skipped and gets again, copies of one event that  *)
(* come to the window on several ways, and allocations that fail, as long  *)
(* as the handler does not go astray for it.                               *)
THEOREM NoWindowIsEmpty ==
  ASSUME NEW g
  PROVE  LoneWindow(g) => (Spec => []NoEmptyWindow)
<1>1. LoneWindow(g) /\ Init => RowInv(g)
  <2>1. SUFFICES ASSUME LoneWindow(g), Init PROVE RowInv(g)
    OBVIOUS
  <2>2. LoopInv /\ machine = Idle
    BY <2>1, InitIsSound DEF Init, machine, Idle
  <2>3. machine \in Machine
    BY <2>2 DEF LoopInv
  <2>4. Row(g, machine, now)
    BY <2>1, <2>2, <2>3, FirstRow
  <2> QED BY <2>1, <2>2, <2>4 DEF RowInv
<1>2. RowInv(g) /\ [Next]_vars => RowInv(g)'
  BY NextKeepsRow
<1>3. RowInv(g) => NoEmptyWindow
  BY RowSound
<1> QED BY <1>1, <1>2, <1>3, PTL DEF Spec

=============================================================================
