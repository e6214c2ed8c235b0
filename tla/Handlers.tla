------------------------------ MODULE Handlers ------------------------------
(***************************************************************************)
(* The handle_event of every position, as a function of what handlers work *)
(* on.  A machine is a record of                                           *)
(*   events      the event list                                            *)
(*   waiting     waiting_new_event of each node                            *)
(*   memory      previous, total or defect of each node that computes      *)
(*   predicates  the state of the registered predicates                    *)
(*   buffer, members, skip                                                 *)
(*               buffer, buffered_set and skip_next of each window         *)
(*   issued      how many events windows have had, each of which has got   *)
(*               one of the numbers below as its id                        *)
(*   delivered   what reached sinks, in order                              *)
(* and At...(m, i) is what machine m is when the handler has been called   *)
(* for its i-th event.                                                     *)
(***************************************************************************)
EXTENDS Window

Idle ==
  [events |-> << >>,
   waiting |-> [n \in Node |-> FALSE],
   memory |-> [n \in ComputingNode |-> Remembered(n)],
   predicates |-> Preset,
   buffer |-> [w \in WindowNode |-> << >>],
   members |-> [w \in WindowNode |-> {}],
   skip |-> [w \in WindowNode |-> 0],
   issued |-> 0,
   delivered |-> << >>]

(* The main loop calls a handler only for an event whose position has one  *)
(* and is not waiting for another event.                                   *)
Callable(m, i) ==
  LET p == m.events[i].pos
  IN  HasHandler(p) /\ ~(p \in Node /\ m.waiting[p])

(* The handler of a window leaves an event it has buffered as it is and    *)
(* returns false; every other call returns true.                           *)
Rejects(m, i) ==
  LET e == m.events[i]
  IN  e.pos \in WindowNode /\ e \in m.members[e.pos]

(* A channel wakes the node the event enters.                              *)
WakeNever(m, e) == m.waiting
Wake(m, e) ==
  IF Passed(e) = << >> THEN m.waiting
  ELSE [m.waiting EXCEPT ![End[e.pos]] = FALSE]

(* An event that enters a window is told from all others at windows.       *)
Entering(m, e) ==
  IF End[e.pos] \in WindowNode THEN [e EXCEPT !.id = m.issued] ELSE e
Issued(m, e) ==
  IF Passed(e) # << >> /\ End[e.pos] \in WindowNode THEN m.issued + 1
  ELSE m.issued

AtChannel(m, i) ==
  LET e == m.events[i]
  IN  [m EXCEPT !.events = Replaced(m.events, i, Passed(Entering(m, e))),
                !.waiting = Wake(m, e),
                !.issued = Issued(m, e)]

(* tee, router and modifiers                                               *)
AtForward(m, i) ==
  [m EXCEPT !.events = Replaced(m.events, i, Copies(m.events[i], m.predicates))]

AtAssign(m, i) ==
  LET e == m.events[i]
  IN  [m EXCEPT !.events = Replaced(m.events, i, Copies(Assigned(e), m.predicates))]

(* A node without connectors destroys the event before it computes.        *)
AtComputing(m, i) ==
  LET e == m.events[i]
      left == Computed(e, m.memory[e.pos])
  IN  IF Outputs[e.pos] = << >>
      THEN [m EXCEPT !.events = DestroyedAt(m.events, i)]
      ELSE [m EXCEPT !.events = Replaced(m.events, i,
                         Copies([e EXCEPT !.payload = left.payload], m.predicates)),
                     !.memory = [m.memory EXCEPT ![e.pos] = left.memory]]

AtModifyPredicate(m, i) ==
  [m EXCEPT !.events = DestroyedAt(m.events, i),
            !.predicates = Switched(m.events[i], m.predicates)]

(* print and uinput                                                        *)
AtSink(m, i) ==
  LET e == m.events[i]
  IN  [m EXCEPT !.events = DestroyedAt(m.events, i),
                !.delivered = Append(m.delivered,
                   [sink |-> e.pos, src |-> e.src, n |-> e.n, time |-> e.time,
                    code |-> e.code, payload |-> e.payload])]

(* The handler of a window, up to where it looks at skip_next.             *)
BeforeSkip(m, i) ==
  LET e == m.events[i]
      w == e.pos
  IN  AfterTime(w, e, m.predicates,
                State(m.buffer[w], m.members[w], m.skip[w], << >>))

(* At every window that ends because of its time the event itself goes as  *)
(* the base, and a replica, at an address of its own, stays in its place.  *)
Departs(m, i) == BeforeSkip(m, i).buffer # m.buffer[m.events[i].pos]
Resident(m, i) ==
  IF Departs(m, i) THEN [m.events[i] EXCEPT !.id = m.issued] ELSE m.events[i]

(* The event that goes may be in the buffer all the same, if buffered_set  *)
(* had no memory for it when it was put there.  The first window to end    *)
(* may drop it from the buffer; if not, the buffer has got the address of  *)
(* an event that is gone, to be freed behind the window's back.            *)
Astray(m, i) ==
  LET e == m.events[i]
      w == e.pos
  IN  /\ Departs(m, i)
      /\ e \in ToSet(Trigger(w, e, m.predicates,
                     State(m.buffer[w], m.members[w], m.skip[w], << >>)).buffer)

WindowLeft(m, i, st, sent) ==
  LET w == m.events[i].pos
  IN  [m EXCEPT !.events = Replaced(m.events, i, sent),
                !.buffer = [m.buffer EXCEPT ![w] = st.buffer],
                !.members = [m.members EXCEPT ![w] = st.members],
                !.skip = [m.skip EXCEPT ![w] = st.skip],
                !.issued = IF Departs(m, i) THEN m.issued + 1 ELSE m.issued]

(* skip_next counts down, but the event stays where it is.                 *)
Skips(m, i) == BeforeSkip(m, i).skip > 0
AtWindowSkip(m, i) ==
  LET st == BeforeSkip(m, i)
  IN  WindowLeft(m, i, [st EXCEPT !.skip = st.skip - 1],
                 Append(st.sent, Resident(m, i)))

StaysNot(st, e, predicates) == st.sent \o Copies(e, predicates)
Stays(st, e, predicates) == Append(st.sent, e) \o Copies(e, predicates)

(* The results of queue_put and event_set_add are ignored: taken says      *)
(* which of the two had the memory it needed.                              *)
Both == {"buffer", "members"}
AtWindow(m, i, taken) ==
  LET e == Resident(m, i)
      st == BeforeSkip(m, i)
      full == AfterLength(e.pos, e, m.predicates,
                State(IF "buffer" \in taken THEN Append(st.buffer, e) ELSE st.buffer,
                      IF "members" \in taken THEN st.members \union {e}
                      ELSE st.members,
                      st.skip, Stays(st, e, m.predicates)))
  IN  [WindowLeft(m, i, full, full.sent) EXCEPT !.waiting = [m.waiting EXCEPT ![e.pos] = TRUE]]
=============================================================================
