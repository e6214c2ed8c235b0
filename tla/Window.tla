------------------------------- MODULE Window -------------------------------
(***************************************************************************)
(* The window node (nodes/window.c): it passes events on, keeps them in a  *)
(* buffer, and when the buffer is full, by length or by time, sends a      *)
(* terminator, drops the first events of the buffer and sends the others   *)
(* again.                                                                  *)
(*                                                                         *)
(* The buffer holds addresses of events that stay in the event list at the *)
(* window's position, and buffered_set says of which events it does; here  *)
(* both hold the events, which nothing changes while they are there.  An   *)
(* event's id stands for its address, so two events that are alike in      *)
(* everything else, copies of one input that came on two ways, stay apart. *)
(***************************************************************************)
EXTENDS EventGraph

WindowNode == {w \in Node : Kind[w] = "window"}

ASSUME WindowAssumption ==
  \A w \in WindowNode :
    /\ Options[w].jumping \in BOOLEAN /\ Options[w].terminator \in BOOLEAN
    /\ Options[w].additionalStep \in Nat
    /\ Options[w].maxTime \in Nat \union {Null}
    /\ Options[w].maxLength \in Nat \union {Null}
    /\ Options[w].terminator => "end" \in Code

(* A window at work: its buffer, its buffered_set, its skip_next and the   *)
(* events it has sent.                                                     *)
State(b, m, s, o) == [buffer |-> b, members |-> m, skip |-> s, sent |-> o]

(* The terminator, which has the ttl and the time of the event base that   *)
(* ends the window.                                                        *)
Terminator(w, base, predicates) ==
  IF Options[w].terminator
  THEN Copies([base EXCEPT !.code = "end", !.payload = 0], predicates)
  ELSE << >>

(* trigger_new_window: step events leave the buffer, and what step could   *)
(* not take is to be skipped later.                                        *)
TriggerEndsLast(w, base, predicates, st) ==
  LET kept == Tail(st.buffer)
  IN  State(kept, ToSet(kept), st.skip,
            st.sent \o FlattenSeq([k \in DOMAIN kept |-> Copies(kept[k], predicates)])
                    \o Terminator(w, base, predicates))
Trigger(w, base, predicates, st) ==
  LET o == Options[w]
      length == Len(st.buffer)
      wanted == (IF o.jumping THEN length ELSE 1) + o.additionalStep
      step == IF wanted < 1 THEN 1 ELSE wanted
      popped == IF step < length THEN step ELSE length
      kept == SubSeq(st.buffer, popped + 1, length)
  IN  State(kept,
            st.members \ ToSet(SubSeq(st.buffer, 1, popped)),
            st.skip + (step - popped),
            st.sent \o Terminator(w, base, predicates)
                    \o FlattenSeq([k \in DOMAIN kept |-> Copies(kept[k], predicates)]))

(* The loop in front: windows that end before e because of its time.  As   *)
(* in the loop at the end, every round takes an event out of the buffer,   *)
(* so its length bounds the number of rounds.                              *)
AfterTime(w, e, predicates, st) ==
  LET Full(s) == /\ Options[w].maxTime # Null
                 /\ s.buffer # << >>
                 /\ e.time > Head(s.buffer).time + Options[w].maxTime
      Round(s, x) == IF Full(s) THEN Trigger(w, e, predicates, s) ELSE s
  IN  FoldLeft(Round, st, st.buffer)

(* The loop at the end: windows that e fills.                              *)
AfterLength(w, e, predicates, st) ==
  LET Full(s) == /\ Options[w].maxLength # Null
                 /\ Len(s.buffer) >= Options[w].maxLength
      Round(s, x) == IF Full(s) THEN Trigger(w, e, predicates, s) ELSE s
  IN  FoldLeft(Round, st, st.buffer)

(* An empty buffer has reached a max_length of 0: that loop has no end.    *)
LoopsForever(w) == Options[w].maxLength = 0
=============================================================================
