------------------------------ MODULE TimeSpec ------------------------------
(***************************************************************************)
(* Times as the program keeps them (time.h): a struct timespec of seconds  *)
(* and nanoseconds, and what window.c and evdev.c compute with them.  The  *)
(* other modules take a time for a number; the theorems of HandlerProofs   *)
(* say that the number is Value.                                           *)
(***************************************************************************)
EXTENDS Integers

NanosecondsInSecond == 1000 * 1000 * 1000
MillisecondsInSecond == 1000

Time(s, ns) == [sec |-> s, nsec |-> ns]
TimeSpecs == [sec : Int, nsec : Int]
Normal(t) == t \in TimeSpecs /\ 0 <= t.nsec /\ t.nsec < NanosecondsInSecond

Value(t) == t.sec * NanosecondsInSecond + t.nsec

(* One round of the loop of timespec_add, and where the loop arrives;      *)
(* likewise for timespec_sub.                                              *)
CarryOne(t) == Time(t.sec + 1, t.nsec - NanosecondsInSecond)
BorrowOne(t) == Time(t.sec - 1, t.nsec + NanosecondsInSecond)

Whole(t) == Time(t.sec + t.nsec \div NanosecondsInSecond,
                 t.nsec % NanosecondsInSecond)
Carried(t) == IF t.nsec >= NanosecondsInSecond THEN Whole(t) ELSE t
Borrowed(t) == IF t.nsec < 0 THEN Whole(t) ELSE t

Added(a, b) == Carried(Time(a.sec + b.sec, a.nsec + b.nsec))
Subtracted(a, b) == Borrowed(Time(a.sec - b.sec, a.nsec - b.nsec))

Sign(x) == IF x > 0 THEN 1 ELSE IF x < 0 THEN -1 ELSE 0
Cmp(a, b) == IF a.sec = b.sec THEN Sign(a.nsec - b.nsec) ELSE Sign(a.sec - b.sec)

(* Division rounds towards zero, and a negative number takes one second    *)
(* more, also when it is a whole number of seconds.                        *)
SecondsIn(x, per) == IF x < 0 THEN -((-x) \div per) - 1 ELSE x \div per

FromNanosecond(ns) ==
  LET s == SecondsIn(ns, NanosecondsInSecond)
  IN  Time(s, ns - s * NanosecondsInSecond)

FromMillisecond(ms) ==
  LET s == SecondsIn(ms, MillisecondsInSecond)
  IN  Time(s, (ms - s * MillisecondsInSecond)
              * (NanosecondsInSecond \div MillisecondsInSecond))

(* The test in front of a window's handler: does the event at time new end *)
(* the window that begins with the event at time first?                    *)
EndsWindow(new, first, threshold) == Cmp(Subtracted(new, first), threshold) > 0

(* evdev: the kernel's time stamp, and that stamp on the monotonic clock,  *)
(* by the difference of the two clocks as handle_io read them.             *)
Stamp(s, usec) == Time(s, usec * 1000)
OnMonotonic(stamp, realtime, monotime) ==
  Subtracted(stamp, Subtracted(realtime, monotime))
=============================================================================
