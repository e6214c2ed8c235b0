---------------------------- MODULE HandlerProofs ----------------------------
(***************************************************************************)
(* What the handlers make of the event list and of what nodes remember, on *)
(* any graph, for payloads of any width: whatever a node computes fits and *)
(* loses nothing it should not, copies take the place of their event, and  *)
(* windows keep no event that is gone.                                     *)
(*                                                                         *)
(* The parts are: numbers, payloads and times; sequences; events on their  *)
(* way through the graph; the handlers, as functions on machines; the      *)
(* window; how sources create events; sequences put together; handlers in  *)
(* front of more events; what a window sends.                              *)
(***************************************************************************)
EXTENDS EventLoopProps, TimeSpec, SequenceTheorems, WellFoundedInduction, TLAPS

-----------------------------------------------------------------------------
(***************************************************************************)
(* Numbers, payloads and times.                                            *)
(***************************************************************************)

(* Division by a positive number.                                          *)
LEMMA QuotientAndRemainder ==
  ASSUME NEW x \in Int, NEW n \in Nat \ {0}
  PROVE  /\ x \div n \in Int /\ x % n \in Int
         /\ x = n * (x \div n) + (x % n)
         /\ 0 <= x % n /\ x % n < n
OBVIOUS

(* There is one quotient and one remainder.                                *)
LEMMA Unique ==
  ASSUME NEW n \in Nat \ {0}, NEW a \in Int, NEW b \in Int,
         NEW r \in 0..(n - 1), NEW s \in 0..(n - 1), n * a + r = n * b + s
  PROVE  a = b /\ r = s
<1>1. a = b
  OBVIOUS
<1> QED
  BY <1>1

(* Adding the divisor changes no remainder.                                *)
LEMMA Shift ==
  ASSUME NEW x \in Int, NEW n \in Nat \ {0}
  PROVE  (x + n) % n = x % n
<1> DEFINE a == (x + n) \div n
           r == (x + n) % n
           b == x \div n
           s == x % n
<1>1. /\ a \in Int /\ r \in 0..(n - 1) /\ x + n = n * a + r
      /\ b \in Int /\ s \in 0..(n - 1) /\ x = n * b + s
  <2>1. x + n \in Int
    OBVIOUS
  <2> QED
    BY <2>1, QuotientAndRemainder
<1>2. r = s
  <2> HIDE DEF a, r, b, s
  <2>1. n * (b + 1) = n * b + n
    BY <1>1
  <2>2. n * a + r = n * (b + 1) + s
    BY <1>1, <2>1
  <2>3. b + 1 \in Int
    BY <1>1
  <2> QED
    BY <1>1, <2>2, <2>3, Unique
<1> QED
  BY <1>2

(* An int64_t that goes over one end of its range comes in at the other.   *)
LEMMA WrappedIs ==
  ASSUME NEW x \in Int
  PROVE  /\ Wrapped(x) \in Int64
         /\ x \in Int64 => Wrapped(x) = x
         /\ Wrapped(x + 2 * Half) = Wrapped(x)
         /\ Wrapped(x - 2 * Half) = Wrapped(x)
<1> DEFINE n == 2 * Half
<1>1. Half \in Nat \ {0} /\ n \in Nat \ {0}
  BY HalfAssumption
<1>2. Wrapped(x) \in Int64
  <2>1. (x + Half) % n \in Int /\ 0 <= (x + Half) % n /\ (x + Half) % n < n
    BY <1>1, QuotientAndRemainder
  <2> QED
    BY <1>1, <2>1 DEF Wrapped, Int64
<1>3. x \in Int64 => Wrapped(x) = x
  <2> SUFFICES ASSUME x \in Int64 PROVE Wrapped(x) = x
    OBVIOUS
  <2>1. x + Half \in Int /\ 0 <= x + Half /\ x + Half < n
    BY <1>1 DEF Int64
  <2>2. (x + Half) % n = x + Half
    BY <1>1, <2>1
  <2> QED
    BY <1>1, <2>2 DEF Wrapped
<1>4. Wrapped(x + n) = Wrapped(x)
  <2>1. ((x + Half) + n) % n = (x + Half) % n
    <3> HIDE DEF n
    <3>1. x + Half \in Int
      BY <1>1
    <3> QED
      BY <1>1, <3>1, Shift
  <2>2. (x + n) + Half = (x + Half) + n
    BY <1>1
  <2> QED
    BY <2>1, <2>2 DEF Wrapped
<1>5. Wrapped(x - n) = Wrapped(x)
  <2>1. ((x - n + Half) + n) % n = (x - n + Half) % n
    <3> HIDE DEF n
    <3>1. x - n + Half \in Int
      BY <1>1
    <3> QED
      BY <1>1, <3>1, Shift
  <2>2. (x - n + Half) + n = x + Half
    BY <1>1
  <2> QED
    BY <2>1, <2>2 DEF Wrapped
<1> QED
  BY <1>2, <1>3, <1>4, <1>5

(* Wrapping a difference or a sum of payloads adds or takes 2^w once.      *)
LEMMA WrappedNear ==
  ASSUME NEW x \in Int, -(3 * Half) <= x, x < 3 * Half
  PROVE  Wrapped(x) \in {x, x + 2 * Half, x - 2 * Half}
<1>0. Half \in Nat \ {0}
  BY HalfAssumption
<1>1. CASE x \in Int64
  BY <1>1, WrappedIs
<1>2. CASE x < -Half
  <2>1. x + 2 * Half \in Int64
    BY <1>0, <1>2 DEF Int64
  <2> QED
    BY <1>0, <2>1, WrappedIs
<1>3. CASE x >= Half
  <2>1. x - 2 * Half \in Int64
    BY <1>0, <1>3 DEF Int64
  <2> QED
    BY <1>0, <2>1, WrappedIs
<1> QED
  BY <1>0, <1>1, <1>2, <1>3 DEF Int64

(* differentiate behind integrate gives back every payload, and integrate  *)
(* behind differentiate likewise, also where the sum or the difference is  *)
(* no int64_t: both nodes remember the same number afterwards, so this     *)
(* goes on from event to event, from equal options "initial" on.           *)
THEOREM DifferencesAndSumsCancel ==
  ASSUME NEW m \in Int64, NEW p \in Int64
  PROVE  /\ Differentiated(m, Integrated(m, p).payload)
              = Leaves(p, Integrated(m, p).memory)
         /\ Integrated(m, Differentiated(m, p).payload)
              = Leaves(p, Differentiated(m, p).memory)
<1>0. /\ Half \in Nat \ {0} /\ m \in Int /\ p \in Int
      /\ -Half <= m /\ m < Half /\ -Half <= p /\ p < Half
  BY HalfAssumption DEF Int64
<1>p. Wrapped(p) = p
  BY <1>0, WrappedIs
<1>1. Wrapped(Wrapped(m + p) - m) = p
  <2>1. Wrapped(m + p) \in {m + p, m + p + 2 * Half, m + p - 2 * Half}
    BY <1>0, WrappedNear
  <2>2. Wrapped(m + p) - m \in {p, p + 2 * Half, p - 2 * Half}
    BY <1>0, <2>1
  <2> QED
    BY <1>0, <1>p, <2>2, WrappedIs
<1>2. Wrapped(m + Wrapped(p - m)) = p
  <2>1. Wrapped(p - m) \in {p - m, p - m + 2 * Half, p - m - 2 * Half}
    BY <1>0, WrappedNear
  <2>2. m + Wrapped(p - m) \in {p, p + 2 * Half, p - 2 * Half}
    BY <1>0, <2>1
  <2> QED
    BY <1>0, <1>p, <2>2, WrappedIs
<1> QED
  BY <1>1, <1>2 DEF Differentiated, Integrated, Leaves

(* The quotient of C rounds towards zero: the remainder is smaller than    *)
(* the divisor, whatever the signs.                                        *)
LEMMA QuotientLeavesLess ==
  ASSUME NEW a \in Int, NEW b \in Int, b # 0
  PROVE  /\ Quotient(a, b) \in Int
         /\ a - Quotient(a, b) * b \in Int
         /\ Magnitude(a - Quotient(a, b) * b) < Magnitude(b)
<1> DEFINE x == Magnitude(a)
           n == Magnitude(b)
           q == x \div n
<1>1. x \in Nat /\ n \in Nat \ {0}
  BY DEF Magnitude
<1>2. q \in Int /\ 0 <= x - n * q /\ x - n * q < n
  <2> HIDE DEF x, n
  <2>1. /\ x \div n \in Int /\ x % n \in Int
        /\ x = n * (x \div n) + (x % n) /\ 0 <= x % n /\ x % n < n
    BY <1>1, QuotientAndRemainder
  <2> QED
    BY <1>1, <2>1
<1>r. Quotient(a, b) = IF (a < 0) = (b < 0) THEN q ELSE -q
  BY DEF Quotient
<1> HIDE DEF q
<1>3. CASE a >= 0 /\ b > 0
  BY <1>2, <1>r, <1>3 DEF Magnitude
<1>4. CASE a >= 0 /\ b < 0
  BY <1>2, <1>r, <1>4 DEF Magnitude
<1>5. CASE a < 0 /\ b > 0
  BY <1>2, <1>r, <1>5 DEF Magnitude
<1>6. CASE a < 0 /\ b < 0
  BY <1>2, <1>r, <1>6 DEF Magnitude
<1> QED
  BY <1>3, <1>4, <1>5, <1>6

(* scale with amortize_rounding_error loses nothing: where nothing         *)
(* overflows, the scaled payload is what was to be divided, short of a     *)
(* defect smaller than the denominator that goes into the next division.   *)
THEOREM ScaleKeepsTheRest ==
  ASSUME NEW o \in [numerator : Int, denominator : Int, center : Int,
                    amortize : BOOLEAN],
         NEW defect \in Int, NEW p \in Int,
         o.amortize, o.denominator # 0,
         p - o.center \in Int64, (p - o.center) * o.numerator \in Int64,
         (p - o.center) * o.numerator + defect \in Int64,
         Quotient((p - o.center) * o.numerator + defect, o.denominator)
           + o.center \in Int64
  PROVE  LET s == Scaled(o, defect, p)
         IN  /\ (s.payload - o.center) * o.denominator + s.memory
                  = (p - o.center) * o.numerator + defect
             /\ Magnitude(s.memory) < Magnitude(o.denominator)
<1> DEFINE v == (p - o.center) * o.numerator + defect
           q == Quotient(v, o.denominator)
<1>1. /\ v \in Int /\ p - o.center \in Int
      /\ (p - o.center) * o.numerator \in Int
      /\ o.center \in Int /\ o.denominator \in Int
  OBVIOUS
<1>2. Multiplied(o, defect, p) = v
  BY <1>1, WrappedIs DEF Multiplied
<1>3. /\ q \in Int /\ v - q * o.denominator \in Int
      /\ Magnitude(v - q * o.denominator) < Magnitude(o.denominator)
  BY <1>1, QuotientLeavesLess
<1>4. Wrapped(q + o.center) = q + o.center
  BY <1>1, <1>3, WrappedIs
<1>5. Scaled(o, defect, p) = [payload |-> q + o.center,
                              memory |-> v - q * o.denominator]
  BY <1>2, <1>4 DEF Scaled, Leaves
<1> HIDE DEF v, q
<1>6. ((q + o.center) - o.center) * o.denominator + (v - q * o.denominator) = v
  BY <1>1, <1>3
<1> QED
  BY <1>3, <1>5, <1>6 DEF v

-----------------------------------------------------------------------------
(***************************************************************************)
(* What the times of the program are worth: arithmetic on them is          *)
(* arithmetic on their values, and comparing them compares their values.   *)
(***************************************************************************)

(* Division by the two units: quotient, remainder, and their bounds.       *)
LEMMA Division ==
  ASSUME NEW x \in Int
  PROVE  /\ x \div NanosecondsInSecond \in Int
         /\ x % NanosecondsInSecond \in Int
         /\ x = NanosecondsInSecond * (x \div NanosecondsInSecond)
                + (x % NanosecondsInSecond)
         /\ 0 <= x % NanosecondsInSecond
         /\ x % NanosecondsInSecond < NanosecondsInSecond
         /\ 0 <= x - (x \div NanosecondsInSecond) * NanosecondsInSecond
         /\ x - (x \div NanosecondsInSecond) * NanosecondsInSecond
              < NanosecondsInSecond
         /\ x \div MillisecondsInSecond \in Int
         /\ 0 <= x - (x \div MillisecondsInSecond) * MillisecondsInSecond
         /\ x - (x \div MillisecondsInSecond) * MillisecondsInSecond
              < MillisecondsInSecond
BY DEF NanosecondsInSecond, MillisecondsInSecond

(* Whole has the value of its argument and is normal.                      *)
LEMMA WholeKeepsValue ==
  ASSUME NEW t \in TimeSpecs
  PROVE  Normal(Whole(t)) /\ Value(Whole(t)) = Value(t)
<1> DEFINE q == t.nsec \div NanosecondsInSecond
           r == t.nsec % NanosecondsInSecond
<1>1. /\ t.sec \in Int /\ t.nsec \in Int
      /\ q \in Int /\ r \in Int
      /\ t.nsec = NanosecondsInSecond * q + r
      /\ 0 <= r /\ r < NanosecondsInSecond
  BY Division DEF TimeSpecs
<1>2. Whole(t) = [sec |-> t.sec + q, nsec |-> r]
  BY DEF Whole, Time
<1> HIDE DEF q, r
<1> QED
  BY <1>1, <1>2 DEF TimeSpecs, Normal, Value, NanosecondsInSecond

(* A round of the loop in timespec_add leaves what the loop arrives at as  *)
(* it is, and so does a round of the loop in timespec_sub: Carried and     *)
(* Borrowed are where these loops end.                                     *)
THEOREM LoopsArrive ==
  ASSUME NEW t \in TimeSpecs
  PROVE  /\ t.nsec >= NanosecondsInSecond => Carried(CarryOne(t)) = Carried(t)
         /\ t.nsec < 0 => Borrowed(BorrowOne(t)) = Borrowed(t)
<1>1. ASSUME t.nsec >= NanosecondsInSecond
      PROVE  Carried(CarryOne(t)) = Carried(t)
  <2>1. /\ (t.nsec - NanosecondsInSecond) \div NanosecondsInSecond
           = t.nsec \div NanosecondsInSecond - 1
        /\ (t.nsec - NanosecondsInSecond) % NanosecondsInSecond
           = t.nsec % NanosecondsInSecond
    BY DEF TimeSpecs, NanosecondsInSecond
  <2>2. Whole(CarryOne(t)) = Whole(t)
    BY <2>1 DEF Whole, CarryOne, Time, TimeSpecs, NanosecondsInSecond
  <2>3. CASE t.nsec - NanosecondsInSecond >= NanosecondsInSecond
    BY <1>1, <2>2, <2>3 DEF Carried, CarryOne, Time
  <2>4. CASE t.nsec - NanosecondsInSecond < NanosecondsInSecond
    <3>1. /\ t.nsec \div NanosecondsInSecond = 1
          /\ t.nsec % NanosecondsInSecond = t.nsec - NanosecondsInSecond
      BY <1>1, <2>4 DEF TimeSpecs, NanosecondsInSecond
    <3>2. Carried(CarryOne(t)) = CarryOne(t)
      BY <2>4 DEF Carried, CarryOne, Time, TimeSpecs, NanosecondsInSecond
    <3>3. Carried(t) = Time(t.sec + 1, t.nsec - NanosecondsInSecond)
      BY <1>1, <3>1 DEF Carried, Whole
    <3> QED
      BY <3>2, <3>3 DEF CarryOne
  <2> QED
    BY <2>3, <2>4 DEF TimeSpecs, NanosecondsInSecond
<1>2. ASSUME t.nsec < 0
      PROVE  Borrowed(BorrowOne(t)) = Borrowed(t)
  <2>1. /\ (t.nsec + NanosecondsInSecond) \div NanosecondsInSecond
           = t.nsec \div NanosecondsInSecond + 1
        /\ (t.nsec + NanosecondsInSecond) % NanosecondsInSecond
           = t.nsec % NanosecondsInSecond
    BY DEF TimeSpecs, NanosecondsInSecond
  <2>2. Whole(BorrowOne(t)) = Whole(t)
    BY <2>1 DEF Whole, BorrowOne, Time, TimeSpecs, NanosecondsInSecond
  <2>3. CASE t.nsec + NanosecondsInSecond < 0
    BY <1>2, <2>2, <2>3 DEF Borrowed, BorrowOne, Time
  <2>4. CASE t.nsec + NanosecondsInSecond >= 0
    <3>1. /\ t.nsec \div NanosecondsInSecond = -1
          /\ t.nsec % NanosecondsInSecond = t.nsec + NanosecondsInSecond
      BY <1>2, <2>4 DEF TimeSpecs, NanosecondsInSecond
    <3>2. Borrowed(BorrowOne(t)) = BorrowOne(t)
      BY <2>4 DEF Borrowed, BorrowOne, Time, TimeSpecs, NanosecondsInSecond
    <3>3. Borrowed(t) = Time(t.sec - 1, t.nsec + NanosecondsInSecond)
      <4>1. t.sec + (-1) = t.sec - 1
        BY DEF TimeSpecs
      <4> QED
        BY <1>2, <3>1, <4>1 DEF Borrowed, Whole
    <3> QED
      BY <3>2, <3>3 DEF BorrowOne
  <2> QED
    BY <2>3, <2>4 DEF TimeSpecs, NanosecondsInSecond
<1> QED
  BY <1>1, <1>2

(* timespec_add and timespec_sub are exact, and their results are normal:  *)
(* two normal nanosecond fields add up to no negative one, and differ by   *)
(* less than a second.                                                     *)
THEOREM ArithmeticIsExact ==
  ASSUME NEW a, NEW b, Normal(a), Normal(b)
  PROVE  /\ Normal(Added(a, b)) /\ Value(Added(a, b)) = Value(a) + Value(b)
         /\ Normal(Subtracted(a, b))
         /\ Value(Subtracted(a, b)) = Value(a) - Value(b)
<1> DEFINE s == Time(a.sec + b.sec, a.nsec + b.nsec)
           d == Time(a.sec - b.sec, a.nsec - b.nsec)
<1>1. /\ s \in TimeSpecs /\ d \in TimeSpecs
      /\ s.nsec >= 0 /\ d.nsec < NanosecondsInSecond
      /\ Value(s) = Value(a) + Value(b) /\ Value(d) = Value(a) - Value(b)
  BY DEF Normal, Time, TimeSpecs, Value, NanosecondsInSecond
<1>2. Normal(Carried(s)) /\ Value(Carried(s)) = Value(s)
  BY <1>1, WholeKeepsValue DEF Carried, Normal, TimeSpecs, NanosecondsInSecond
<1>3. Normal(Borrowed(d)) /\ Value(Borrowed(d)) = Value(d)
  BY <1>1, WholeKeepsValue DEF Borrowed, Normal, TimeSpecs, NanosecondsInSecond
<1> QED
  BY <1>1, <1>2, <1>3 DEF Added, Subtracted

(* timespec_cmp orders normal times as their values.                       *)
THEOREM CmpComparesValues ==
  ASSUME NEW a, NEW b, Normal(a), Normal(b)
  PROVE  Cmp(a, b) = Sign(Value(a) - Value(b))
BY DEF Cmp, Sign, Normal, TimeSpecs, Value, NanosecondsInSecond

(* A period keeps its value as a timespec, and is normal unless negative.  *)
THEOREM PeriodKeepsValue ==
  ASSUME NEW x \in Int
  PROVE  /\ Value(FromNanosecond(x)) = x
         /\ Value(FromMillisecond(x)) = x * (1000 * 1000)
         /\ x >= 0 => Normal(FromNanosecond(x)) /\ Normal(FromMillisecond(x))
<1>1. /\ SecondsIn(x, NanosecondsInSecond) \in Int /\ SecondsIn(x, MillisecondsInSecond) \in Int
      /\ NanosecondsInSecond \div MillisecondsInSecond = (1000 * 1000)
  BY DEF SecondsIn, NanosecondsInSecond, MillisecondsInSecond
<1>2. /\ Value(FromNanosecond(x)) = x
      /\ Value(FromMillisecond(x)) = x * (1000 * 1000)
  BY <1>1 DEF FromNanosecond, FromMillisecond, Time, Value,
              NanosecondsInSecond, MillisecondsInSecond
<1>3. ASSUME x >= 0
      PROVE  Normal(FromNanosecond(x)) /\ Normal(FromMillisecond(x))
  <2> DEFINE s == x \div NanosecondsInSecond
             m == x \div MillisecondsInSecond
  <2>1. FromNanosecond(x) = [sec |-> s, nsec |-> x - s * NanosecondsInSecond]
    BY <1>3 DEF FromNanosecond, SecondsIn, Time
  <2>2. FromMillisecond(x)
          = [sec |-> m, nsec |-> (x - m * MillisecondsInSecond) * (1000 * 1000)]
    BY <1>1, <1>3 DEF FromMillisecond, SecondsIn, Time
  <2>3. /\ s \in Int /\ m \in Int
        /\ 0 <= x - s * NanosecondsInSecond
        /\ x - s * NanosecondsInSecond < NanosecondsInSecond
        /\ 0 <= x - m * MillisecondsInSecond
        /\ x - m * MillisecondsInSecond < MillisecondsInSecond
    BY Division
  <2> HIDE DEF s, m
  <2>4. Normal(FromNanosecond(x))
    BY <2>1, <2>3 DEF Normal, TimeSpecs, NanosecondsInSecond
  <2>5. Normal(FromMillisecond(x))
    BY <2>2, <2>3 DEF Normal, TimeSpecs, NanosecondsInSecond, MillisecondsInSecond
  <2> QED
    BY <2>4, <2>5
<1> QED
  BY <1>2, <1>3

(* The test of a window with max_milliseconds ms, also for an event older  *)
(* than the first of the buffer, is the comparison of numbers that module  *)
(* Window makes.                                                           *)
THEOREM WindowTestIsOnValues ==
  ASSUME NEW new, NEW first, Normal(new), Normal(first), NEW ms \in Nat
  PROVE  EndsWindow(new, first, FromMillisecond(ms))
           <=> Value(new) > Value(first) + ms * (1000 * 1000)
<1>1. /\ Normal(FromMillisecond(ms)) /\ Value(FromMillisecond(ms)) = ms * (1000 * 1000)
  BY PeriodKeepsValue
<1>2. /\ Normal(Subtracted(new, first))
      /\ Value(Subtracted(new, first)) = Value(new) - Value(first)
  BY ArithmeticIsExact
<1>3. Cmp(Subtracted(new, first), FromMillisecond(ms))
        = Sign(Value(Subtracted(new, first)) - Value(FromMillisecond(ms)))
  BY <1>1, <1>2, CmpComparesValues
<1>4. Value(new) \in Int /\ Value(first) \in Int
  BY DEF Normal, TimeSpecs, Value, NanosecondsInSecond
<1> QED
  BY <1>1, <1>2, <1>3, <1>4 DEF EndsWindow, Sign

(* The conversion of evdev moves a stamp by the difference of the clocks,  *)
(* so the stamps that one call converts keep their order; and a difference *)
(* that is skew too small makes the result skew too late.                  *)
THEOREM ConversionShifts ==
  ASSUME NEW a, NEW b, NEW r, NEW m, Normal(a), Normal(b), Normal(r), Normal(m)
  PROVE  /\ Normal(OnMonotonic(a, r, m))
         /\ Value(OnMonotonic(a, r, m)) = Value(a) - (Value(r) - Value(m))
         /\ Cmp(OnMonotonic(a, r, m), OnMonotonic(b, r, m)) = Cmp(a, b)
<1>1. Normal(Subtracted(r, m)) /\ Value(Subtracted(r, m)) = Value(r) - Value(m)
  BY ArithmeticIsExact
<1>2. ASSUME NEW t, Normal(t)
      PROVE  /\ Normal(OnMonotonic(t, r, m))
             /\ Value(OnMonotonic(t, r, m)) = Value(t) - (Value(r) - Value(m))
  BY <1>1, <1>2, ArithmeticIsExact DEF OnMonotonic
<1>3. /\ Value(a) \in Int /\ Value(b) \in Int
      /\ Value(r) \in Int /\ Value(m) \in Int
  BY DEF Normal, TimeSpecs, Value, NanosecondsInSecond
<1>4. Cmp(a, b) = Sign(Value(a) - Value(b))
  BY CmpComparesValues
<1>5. Cmp(OnMonotonic(a, r, m), OnMonotonic(b, r, m))
        = Sign((Value(a) - (Value(r) - Value(m))) - (Value(b) - (Value(r) - Value(m))))
  BY <1>2, CmpComparesValues
<1>6. (Value(a) - (Value(r) - Value(m))) - (Value(b) - (Value(r) - Value(m)))
        = Value(a) - Value(b)
  BY <1>3
<1> QED
  BY <1>2, <1>4, <1>5, <1>6

-----------------------------------------------------------------------------
(***************************************************************************)
(* Sequences.                                                              *)
(***************************************************************************)

(* A set of natural numbers has a least element.                           *)
LEMMA LeastOf ==
  ASSUME NEW T, T \subseteq Nat, T # {}
  PROVE  \E x \in T : \A y \in T : x <= y
<1>1. PICK x \in T : \A y \in T : ~ (<<y, x>> \in OpToRel(<, Nat))
  BY NatLessThanWellFounded, WFMin
<1>2. ASSUME NEW y \in T PROVE x <= y
  <2>1. y \in Nat /\ x \in Nat
    OBVIOUS
  <2>2. ~ (y < x)
    BY <1>1, <2>1 DEF OpToRel
  <2> QED BY <2>1, <2>2
<1> QED BY <1>2

(* Induction along a chain: c[k] stays in Q[k].                            *)
LEMMA Chain ==
  ASSUME NEW n \in Nat, NEW c, NEW Q, c[0] \in Q[0],
         \A k \in 1..n : c[k - 1] \in Q[k - 1] => c[k] \in Q[k]
  PROVE  \A k \in 0..n : c[k] \in Q[k]
<1> SUFFICES ASSUME NEW z \in 0..n, c[z] \notin Q[z] PROVE FALSE
  OBVIOUS
<1>1. PICK T : T = {k \in 0..n : c[k] \notin Q[k]}
  OBVIOUS
<1>2. T \subseteq Nat /\ T # {}
  BY <1>1
<1>3. PICK x \in T : \A y \in T : x <= y
  BY <1>2, LeastOf
<1>4. x \in 1..n /\ x - 1 \in 0..n /\ ~ (x <= x - 1)
  BY <1>1, <1>3
<1>5. c[x - 1] \in Q[x - 1]
  BY <1>1, <1>3, <1>4
<1> QED BY <1>1, <1>3, <1>4, <1>5

(* The table that a fold over n elements is computed by: F[k][a] is what   *)
(* the k-th element makes of a.                                            *)
Closed(F, n, S) == \A k \in 1..n : \A a \in S : F[k][a] \in S
IsTable(f, F, n, S, b) ==
  /\ f \in [SUBSET (1..n) -> S]
  /\ \A s \in SUBSET (1..n) :
       f[s] = IF s = {} THEN b ELSE F[Max(s)][f[s \ {Max(s)}]]

LEMMA FoldTable ==
  ASSUME NEW n \in Nat, NEW S, NEW b \in S, NEW F, Closed(F, n, S)
  PROVE  \E f : IsTable(f, F, n, S, b)
<1> DEFINE Table(k, f) == IsTable(f, F, k, S, b)
<1> HIDE DEF Table
<1>1. PICK T : T = {k \in 0..n : ~ \E f : Table(k, f)}
  OBVIOUS
<1>2. \E f : Table(0, f)
  <2>1. PICK f : f = [s \in SUBSET (1..0) |-> b]
    OBVIOUS
  <2>2. \A s \in SUBSET (1..0) : s = {}
    OBVIOUS
  <2>3. Table(0, f)
    BY <2>1, <2>2 DEF Table, IsTable
  <2> QED BY <2>3
<1>3. ASSUME NEW k \in 1..n, NEW f, Table(k - 1, f) PROVE \E g : Table(k, g)
  <2>0. k - 1 \in Nat /\ 1..k = (1..(k - 1)) \union {k} /\ k \notin 1..(k - 1)
    OBVIOUS
  <2>1. \A s \in SUBSET (1..k) : s \ {k} \in SUBSET (1..(k - 1))
    BY <2>0
  <2>2. PICK g : g = [s \in SUBSET (1..k) |->
                        IF k \in s THEN F[k][f[s \ {k}]] ELSE f[s]]
    OBVIOUS
  <2>3. \A s \in SUBSET (1..(k - 1)) :
          /\ f[s] \in S /\ s \in SUBSET (1..k) /\ k \notin s
          /\ f[s] = IF s = {} THEN b ELSE F[Max(s)][f[s \ {Max(s)}]]
    BY <1>3, <2>0 DEF Table, IsTable
  <2>4. ASSUME NEW s \in SUBSET (1..k)
        PROVE  /\ g[s] \in S
               /\ g[s] = IF s = {} THEN b ELSE F[Max(s)][g[s \ {Max(s)}]]
    <3>1. CASE k \in s
      <4>1. Max(s) = k
        <5>1. \A y \in s : k >= y
          OBVIOUS
        <5>2. Max(s) \in s /\ Max(s) >= k /\ k >= Max(s)
          BY <3>1, <5>1 DEF Max
        <5>3. PICK x \in 1..k : x = Max(s)
          BY <5>2
        <5> QED BY <5>2, <5>3
      <4>2. g[s] = F[k][f[s \ {k}]] /\ f[s \ {k}] \in S
        BY <2>1, <2>2, <2>3, <3>1
      <4>3. g[s \ {k}] = f[s \ {k}]
        BY <2>1, <2>2, <2>3
      <4> QED BY <3>1, <4>1, <4>2, <4>3 DEF Closed
    <3>2. CASE k \notin s
      <4>1. s \in SUBSET (1..(k - 1))
        BY <2>0, <3>2
      <4>2. g[s] = f[s]
        BY <2>2, <3>2
      <4>3. g[s \ {Max(s)}] = f[s \ {Max(s)}]
        BY <2>2, <3>2
      <4> QED BY <2>3, <4>1, <4>2, <4>3
    <3> QED BY <3>1, <3>2
  <2>5. g \in [SUBSET (1..k) -> S]
    BY <2>2, <2>4
  <2>6. Table(k, g)
    BY <2>4, <2>5 DEF Table, IsTable
  <2> QED BY <2>6
<1>4. T = {}
  <2> SUFFICES ASSUME T # {} PROVE FALSE
    OBVIOUS
  <2>1. T \subseteq Nat
    BY <1>1
  <2>2. PICK x \in T : \A y \in T : x <= y
    BY <2>1, LeastOf
  <2>3. x \in 0..n /\ ~ \E f : Table(x, f)
    BY <1>1
  <2>4. x # 0
    BY <1>2, <2>3
  <2>5. x \in 1..n /\ x - 1 \in 0..n /\ ~ (x <= x - 1)
    BY <2>3, <2>4
  <2>6. \E f : Table(x - 1, f)
    BY <1>1, <2>2, <2>5
  <2> QED BY <1>3, <2>3, <2>5, <2>6
<1>5. n \in 0..n
  OBVIOUS
<1>6. PICK f : Table(n, f)
  BY <1>1, <1>4, <1>5
<1> QED BY <1>6 DEF Table

(* A set of places in a sequence has a last one.                           *)
LEMMA LargestOf ==
  ASSUME NEW n \in Nat, NEW s \in SUBSET (1..n), s # {}
  PROVE  Max(s) \in s /\ Max(s) \in 1..n /\ \A y \in s : y <= Max(s)
<1>1. PICK T : T = {n - y : y \in s}
  OBVIOUS
<1>2. T \subseteq Nat /\ T # {}
  <2>1. \A y \in s : n - y \in Nat /\ n - y \in T
    BY <1>1
  <2>2. PICK y : y \in s
    OBVIOUS
  <2>3. \A x \in T : x \in Nat
    BY <1>1, <2>1
  <2> QED BY <2>1, <2>2, <2>3
<1>3. PICK x \in T : \A y \in T : x <= y
  BY <1>2, LeastOf
<1>4. PICK z \in s : x = n - z
  BY <1>1, <1>3
<1>5. ASSUME NEW y \in s PROVE z >= y
  <2>1. n - y \in T /\ y \in Int /\ z \in Int
    BY <1>1
  <2> QED BY <1>3, <1>4, <2>1
<1>6. \E v \in s : \A y \in s : v >= y
  BY <1>4, <1>5
<1>7. PICK v : v = Max(s)
  OBVIOUS
<1>8. v \in s /\ \A y \in s : v >= y
  BY <1>6, <1>7 DEF Max
<1> QED BY <1>7, <1>8

(* The first k elements make the table's chain.                            *)
LEMMA InitialPart ==
  ASSUME NEW k \in Nat \ {0}
  PROVE  /\ 1..k # {} /\ Max(1..k) = k /\ (1..k) \ {k} = 1..(k - 1)
<1>1. k \in 1..k /\ \A y \in 1..k : k >= y
  OBVIOUS
<1>2. Max(1..k) \in 1..k /\ Max(1..k) >= k
  BY <1>1 DEF Max
<1> QED BY <1>1, <1>2

(* FlattenSeq appends one sequence after the other.                        *)
LEMMA FlattenIs ==
  ASSUME NEW S, NEW q \in Seq(Seq(S))
  PROVE  \E c \in [0..Len(q) -> Seq(S)] :
           /\ c[0] = << >>
           /\ \A k \in 1..Len(q) : c[k] = c[k - 1] \o q[k]
           /\ FlattenSeq(q) = c[Len(q)]
<1>n. Len(q) \in Nat /\ DOMAIN q = 1..Len(q) /\ \A i \in 1..Len(q) : q[i] \in Seq(S)
  BY LenProperties, ElementOfSeq
<1>e. << >> \in Seq(S)
  BY EmptySeq
<1>1. CASE Len(q) = 0
  <2>1. q = << >>
    BY <1>1, EmptySeq
  <2>2. FlattenSeq(q) = << >>
    BY <1>1, <2>1 DEF FlattenSeq
  <2>3. PICK c : c = [k \in 0..Len(q) |-> << >>]
    OBVIOUS
  <2>4. /\ c \in [0..Len(q) -> Seq(S)] /\ c[0] = << >> /\ c[Len(q)] = << >>
        /\ 1..Len(q) = {}
    BY <1>1, <1>e, <2>3
  <2> QED BY <2>2, <2>4
<1>2. CASE Len(q) # 0
  <2> DEFINE Is(h) == h = [i \in 1..Len(q) |->
                             IF i = 1 THEN q[i] ELSE h[i - 1] \o q[i]]
  <2>1. \E h : Is(h)
    <3>1. PICK F : F = [k \in 1..Len(q) |-> [a \in Seq(S) |-> a \o q[k]]]
      OBVIOUS
    <3>2. \A k \in 1..Len(q) : \A a \in Seq(S) : F[k][a] = a \o q[k]
      BY <1>n, <3>1
    <3>3. PICK f \in [SUBSET (1..Len(q)) -> Seq(S)] :
            \A s \in SUBSET (1..Len(q)) :
              f[s] = IF s = {} THEN << >> ELSE F[Max(s)][f[s \ {Max(s)}]]
      <4>1. Closed(F, Len(q), Seq(S))
        BY <1>n, <3>2, ConcatProperties DEF Closed
      <4>2. \E f : IsTable(f, F, Len(q), Seq(S), << >>)
        BY <1>n, <1>e, <4>1, FoldTable
      <4> QED BY <4>2 DEF IsTable
    <3>4. PICK h : h = [i \in 1..Len(q) |-> f[1..i]]
      OBVIOUS
    <3>5. ASSUME NEW i \in 1..Len(q)
          PROVE  h[i] = IF i = 1 THEN q[i] ELSE h[i - 1] \o q[i]
      <4>1. /\ 1..i # {} /\ Max(1..i) = i /\ (1..i) \ {i} = 1..(i - 1)
            /\ 1..i \in SUBSET (1..Len(q)) /\ 1..(i - 1) \in SUBSET (1..Len(q))
        <5>1. i \in Nat \ {0} /\ 1..i \subseteq 1..Len(q) /\ 1..(i - 1) \subseteq 1..Len(q)
          BY <1>n
        <5> QED BY <5>1, InitialPart
      <4>2. f[1..(i - 1)] \in Seq(S)
        BY <4>1
      <4>3. h[i] = f[1..(i - 1)] \o q[i]
        <5>1. f[1..i] = F[Max(1..i)][f[(1..i) \ {Max(1..i)}]]
          BY <3>3, <4>1
        <5>2. f[1..i] = F[i][f[1..(i - 1)]]
          BY <4>1, <5>1
        <5> QED BY <3>2, <3>4, <4>2, <5>2
      <4>4. CASE i = 1
        <5>1. 1..(i - 1) = {} /\ {} \in SUBSET (1..Len(q))
          BY <4>4
        <5>2. f[1..(i - 1)] = << >>
          BY <3>3, <5>1
        <5> QED BY <1>n, <4>3, <4>4, <5>2, ConcatEmptySeq
      <4>5. CASE i # 1
        <5>1. i - 1 \in 1..Len(q)
          BY <1>n, <4>5
        <5>2. h[i - 1] = f[1..(i - 1)]
          BY <3>4, <5>1
        <5> QED BY <4>3, <4>5, <5>2
      <4> QED BY <4>4, <4>5
    <3>6. Is(h)
      BY <3>4, <3>5
    <3> QED BY <3>6
  <2>2. PICK h : h = CHOOSE f : f = [i \in 1..Len(q) |->
                             IF i = 1 THEN q[i] ELSE f[i - 1] \o q[i]]
    OBVIOUS
  <2>3. Is(h)
    BY <2>1, <2>2
  <2>4. FlattenSeq(q) = h[Len(q)]
    BY <1>2, <2>2 DEF FlattenSeq
  <2>5. \A i \in 1..Len(q) : h[i] = IF i = 1 THEN q[i] ELSE h[i - 1] \o q[i]
    BY ONLY <2>3
  <2>6. PICK c : c = [k \in 0..Len(q) |-> IF k = 0 THEN << >> ELSE h[k]]
    OBVIOUS
  <2>7. \A k \in 1..Len(q) : k - 1 \in 0..Len(q)
    BY <1>n
  <2>8. c[0] = << >> /\ \A k \in 1..Len(q) : c[k] = h[k]
    BY <1>n, <2>6
  <2>9. ASSUME NEW k \in 1..Len(q) PROVE c[k] = c[k - 1] \o q[k]
    <3>1. CASE k = 1
      <4>1. c[k] = q[k] /\ c[k - 1] = << >>
        BY <2>5, <2>8, <3>1
      <4> QED BY <1>n, <4>1, ConcatEmptySeq
    <3>2. CASE k # 1
      <4>1. k - 1 \in 1..Len(q)
        BY <1>n, <3>2
      <4> QED BY <2>5, <2>8, <3>2, <4>1
    <3> QED BY <3>1, <3>2
  <2>10. \A k \in 0..Len(q) : c[k] \in Seq(S)
    <3>1. PICK Q : Q = [k \in 0..Len(q) |-> Seq(S)]
      OBVIOUS
    <3>2. c[0] \in Q[0] /\ \A k \in 1..Len(q) : c[k - 1] \in Q[k - 1] => c[k] \in Q[k]
      <4>1. \A k \in 1..Len(q) : c[k - 1] \in Seq(S) => c[k] \in Seq(S)
        BY <1>n, <2>9, ConcatProperties
      <4> QED BY <1>n, <1>e, <2>7, <2>8, <3>1, <4>1
    <3>3. \A k \in 0..Len(q) : c[k] \in Q[k]
      BY <1>n, <3>2, Chain
    <3> QED BY <3>1, <3>3
  <2>11. c \in [0..Len(q) -> Seq(S)]
    BY <2>6, <2>10
  <2>12. FlattenSeq(q) = c[Len(q)]
    <3>1. Len(q) \in 1..Len(q)
      BY <1>n, <1>2
    <3> QED BY <2>4, <2>8, <3>1
  <2> QED BY <2>8, <2>9, <2>11, <2>12
<1> QED BY <1>1, <1>2

(* t is s with m in place of what stands between its first a and its last  *)
(* Len(s) - b elements.                                                    *)
IsSpliced(t, s, a, m, b) ==
  /\ Len(t) = a + Len(m) + (Len(s) - b)
  /\ \A i \in 1..Len(t) :
       /\ i <= a => t[i] = s[i]
       /\ a < i /\ i <= a + Len(m) => i - a \in 1..Len(m) /\ t[i] = m[i - a]
       /\ a + Len(m) < i =>
            /\ (i - a - Len(m)) + b \in (b + 1)..Len(s)
            /\ t[i] = s[(i - a - Len(m)) + b]

LEMMA SpliceIs ==
  ASSUME NEW S, NEW s \in Seq(S), NEW m \in Seq(S),
         NEW a \in 0..Len(s), NEW b \in a..Len(s)
  PROVE  /\ (SubSeq(s, 1, a) \o m) \o SubSeq(s, b + 1, Len(s)) \in Seq(S)
         /\ IsSpliced((SubSeq(s, 1, a) \o m) \o SubSeq(s, b + 1, Len(s)), s, a, m, b)
<1>n. /\ Len(s) \in Nat /\ \A i \in 1..Len(s) : s[i] \in S
      /\ Len(m) \in Nat /\ \A i \in 1..Len(m) : m[i] \in S
  BY LenProperties, ElementOfSeq
<1>1. PICK l : l = SubSeq(s, 1, a)
  OBVIOUS
<1>2. PICK r : r = SubSeq(s, b + 1, Len(s))
  OBVIOUS
<1>3. /\ l \in Seq(S) /\ Len(l) = a /\ \A i \in 1..a : l[i] = s[i]
  <2>1. 1 \in Int /\ a \in Int /\ \A i \in 1..a : s[i] \in S
    BY <1>n
  <2>2. /\ l \in Seq(S) /\ Len(l) = IF 1 <= a THEN a - 1 + 1 ELSE 0
        /\ \A i \in 1 .. a - 1 + 1 : l[i] = s[1 + i - 1]
    BY <1>1, <2>1, SubSeqProperties
  <2> QED BY <1>n, <2>2
<1>4. /\ r \in Seq(S) /\ Len(r) = Len(s) - b
      /\ \A i \in 1..(Len(s) - b) : r[i] = s[i + b]
  <2>1. /\ b + 1 \in Int /\ Len(s) \in Int
        /\ \A i \in (b + 1)..Len(s) : s[i] \in S
    BY <1>n
  <2>2. /\ r \in Seq(S)
        /\ Len(r) = IF b + 1 <= Len(s) THEN Len(s) - (b + 1) + 1 ELSE 0
        /\ \A i \in 1 .. Len(s) - (b + 1) + 1 : r[i] = s[(b + 1) + i - 1]
    BY <1>2, <2>1, SubSeqProperties
  <2> QED BY <1>n, <2>2
<1>5. PICK k : k = l \o m
  OBVIOUS
<1>6. /\ k \in Seq(S) /\ Len(k) = a + Len(m)
      /\ \A i \in 1..(a + Len(m)) : k[i] = IF i <= a THEN l[i] ELSE m[i - a]
  BY <1>3, <1>5, ConcatProperties
<1>7. PICK t : t = k \o r
  OBVIOUS
<1>8. /\ t \in Seq(S) /\ Len(t) = (a + Len(m)) + (Len(s) - b)
      /\ \A i \in 1..((a + Len(m)) + (Len(s) - b)) :
           t[i] = IF i <= a + Len(m) THEN k[i] ELSE r[i - (a + Len(m))]
  <2>1. /\ t \in Seq(S) /\ Len(t) = Len(k) + Len(r)
        /\ \A i \in 1..(Len(k) + Len(r)) :
             t[i] = IF i <= Len(k) THEN k[i] ELSE r[i - Len(k)]
    BY <1>4, <1>6, <1>7, ConcatProperties
  <2>2. Len(k) + Len(r) = (a + Len(m)) + (Len(s) - b)
    BY <1>4, <1>6
  <2> QED BY <1>6, <2>1, <2>2
<1>9. ASSUME NEW i \in 1..Len(t)
      PROVE  /\ i <= a => t[i] = s[i]
             /\ a < i /\ i <= a + Len(m) => i - a \in 1..Len(m) /\ t[i] = m[i - a]
             /\ a + Len(m) < i =>
                  /\ (i - a - Len(m)) + b \in (b + 1)..Len(s)
                  /\ t[i] = s[(i - a - Len(m)) + b]
  <2>1. CASE i <= a + Len(m)
    <3>1. t[i] = k[i] /\ k[i] = IF i <= a THEN l[i] ELSE m[i - a]
      BY <1>n, <1>6, <1>8, <2>1
    <3> QED BY <1>n, <1>3, <1>8, <2>1, <3>1
  <2>2. CASE i > a + Len(m)
    <3>1. PICK j : j = i - (a + Len(m))
      OBVIOUS
    <3>2. j \in 1..(Len(s) - b) /\ i - a - Len(m) = j
      BY <1>n, <1>8, <2>2, <3>1
    <3>3. t[i] = r[j] /\ r[j] = s[j + b] /\ j + b \in (b + 1)..Len(s)
      <4>1. i \in 1..((a + Len(m)) + (Len(s) - b)) /\ ~ (i <= a + Len(m))
        BY <1>n, <1>8, <2>2
      <4>2. t[i] = r[j]
        BY <1>8, <3>1, <4>1
      <4>3. r[j] = s[j + b]
        BY <1>4, <3>2
      <4>4. j + b \in (b + 1)..Len(s)
        BY <1>n, <3>2
      <4> QED BY <4>2, <4>3, <4>4
    <3> QED BY <1>n, <2>2, <3>2, <3>3
  <2> QED BY <1>n, <1>8, <2>1, <2>2
<1> QED BY <1>n, <1>1, <1>2, <1>5, <1>7, <1>8, <1>9 DEF IsSpliced

(* The elements of s at the places in P, in their order: o[k] is the place *)
(* the k-th of them comes from.                                            *)
IsChosen(r, s, P) ==
  \E o \in [1..Len(r) -> P] :
    /\ \A k \in 1..Len(r) : r[k] = s[o[k]]
    /\ \A k, l \in 1..Len(r) : k < l => o[k] < o[l]
    /\ \A i \in P : \E k \in 1..Len(r) : o[k] = i

LEMMA ChosenIs ==
  ASSUME NEW S, NEW s \in Seq(S), NEW P, P \subseteq 1..Len(s)
  PROVE  LET r == FlattenSeq([i \in DOMAIN s |-> IF i \in P THEN <<s[i]>> ELSE << >>])
         IN  r \in Seq(S) /\ IsChosen(r, s, P)
<1>n. Len(s) \in Nat /\ DOMAIN s = 1..Len(s) /\ \A i \in 1..Len(s) : s[i] \in S
  BY LenProperties, ElementOfSeq
<1>1. PICK q : q = [i \in DOMAIN s |-> IF i \in P THEN <<s[i]>> ELSE << >>]
  OBVIOUS
<1>2. /\ q \in Seq(Seq(S)) /\ Len(q) = Len(s)
      /\ \A i \in 1..Len(s) : q[i] = IF i \in P THEN <<s[i]>> ELSE << >>
  <2>1. \A i \in 1..Len(s) : (IF i \in P THEN <<s[i]>> ELSE << >>) \in Seq(S)
    BY <1>n, EmptySeq
  <2>2. q \in [1..Len(s) -> Seq(S)]
    BY <1>n, <1>1, <2>1
  <2> QED BY <1>n, <1>1, <2>2
<1>3. PICK c \in [0..Len(s) -> Seq(S)] :
        /\ c[0] = << >>
        /\ \A k \in 1..Len(s) : c[k] = c[k - 1] \o q[k]
        /\ FlattenSeq(q) = c[Len(s)]
  <2>1. \E c \in [0..Len(q) -> Seq(S)] :
          /\ c[0] = << >>
          /\ \A k \in 1..Len(q) : c[k] = c[k - 1] \o q[k]
          /\ FlattenSeq(q) = c[Len(q)]
    BY <1>2, FlattenIs
  <2> QED BY <1>2, <2>1
<1>4. PICK Q : Q = [k \in 0..Len(s) |-> {r \in Seq(S) : IsChosen(r, s, P \intersect 1..k)}]
  OBVIOUS
<1>5. c[0] \in Q[0]
  <2>1. P \intersect 1..0 = {} /\ 1..Len(<< >>) = {} /\ << >> \in Seq(S)
    BY EmptySeq
  <2>2. PICK o : o = [k \in {} |-> 0]
    OBVIOUS
  <2>3. o \in [1..Len(<< >>) -> P \intersect 1..0]
    BY <2>1, <2>2
  <2>4. IsChosen(<< >>, s, P \intersect 1..0)
    BY <2>1, <2>3 DEF IsChosen
  <2> QED BY <1>n, <1>3, <1>4, <2>1, <2>4
<1>6. ASSUME NEW k \in 1..Len(s), c[k - 1] \in Q[k - 1] PROVE c[k] \in Q[k]
  <2>0. k - 1 \in 0..Len(s) /\ k \in 0..Len(s) /\ 1..k = 1..(k - 1) \union {k}
    BY <1>n
  <2>1. PICK r : r = c[k - 1]
    OBVIOUS
  <2>2. r \in Seq(S) /\ IsChosen(r, s, P \intersect 1..(k - 1)) /\ Len(r) \in Nat
    BY <1>4, <1>6, <2>0, <2>1, LenProperties
  <2>3. PICK o \in [1..Len(r) -> P \intersect 1..(k - 1)] :
          /\ \A j \in 1..Len(r) : r[j] = s[o[j]]
          /\ \A j, l \in 1..Len(r) : j < l => o[j] < o[l]
          /\ \A i \in P \intersect 1..(k - 1) : \E j \in 1..Len(r) : o[j] = i
    BY <2>2 DEF IsChosen
  <2>4. c[k] = r \o q[k] /\ c[k] \in Seq(S)
    BY <1>3, <2>0, <2>1
  <2>5. CASE k \notin P
    <3>1. c[k] = r
      BY <1>2, <2>2, <2>4, <2>5, ConcatEmptySeq
    <3>2. P \intersect 1..k = P \intersect 1..(k - 1)
      BY <2>0, <2>5
    <3> QED BY <1>4, <2>0, <2>2, <3>1, <3>2
  <2>6. CASE k \in P
    <3>1. PICK t : t = c[k]
      OBVIOUS
    <3>2. /\ t \in Seq(S) /\ Len(t) = Len(r) + 1
          /\ \A j \in 1..Len(r) : t[j] = r[j]
          /\ t[Len(r) + 1] = s[k]
      <4>1. PICK m : m = <<s[k]>>
        OBVIOUS
      <4>2. m \in Seq(S) /\ Len(m) = 1 /\ m[1] = s[k]
        BY <1>n, <4>1
      <4>3. t = r \o m
        BY <1>2, <2>4, <2>6, <3>1, <4>1
      <4>4. /\ Len(t) = Len(r) + Len(m)
            /\ \A j \in 1..(Len(r) + Len(m)) :
                 t[j] = IF j <= Len(r) THEN r[j] ELSE m[j - Len(r)]
        BY <2>2, <4>2, <4>3, ConcatProperties
      <4>5. Len(r) + 1 \in 1..(Len(r) + Len(m)) /\ (Len(r) + 1) - Len(r) = 1
        BY <2>2, <4>2
      <4> QED BY <2>2, <2>4, <3>1, <4>2, <4>4, <4>5
    <3>3. PICK p : p = [j \in 1..(Len(r) + 1) |-> IF j <= Len(r) THEN o[j] ELSE k]
      OBVIOUS
    <3>4. /\ \A j \in 1..Len(r) : p[j] = o[j]
          /\ p[Len(r) + 1] = k
          /\ \A j \in 1..(Len(r) + 1) : j \in 1..Len(r) \/ j = Len(r) + 1
          /\ \A j \in 1..Len(r) : j \in 1..(Len(r) + 1)
          /\ Len(r) + 1 \in 1..(Len(r) + 1)
      BY <2>2, <3>3
    <3>5. p \in [1..Len(t) -> P \intersect 1..k]
      BY <2>0, <2>6, <3>2, <3>3, <3>4
    <3>6. \A j \in 1..Len(t) : t[j] = s[p[j]]
      BY <2>3, <3>2, <3>4
    <3>7. ASSUME NEW j \in 1..Len(t), NEW l \in 1..Len(t), j < l
          PROVE  p[j] < p[l]
      <4>1. j \in 1..Len(r)
        BY <2>2, <3>2, <3>7
      <4>2. p[j] = o[j] /\ o[j] \in 1..(k - 1)
        BY <3>4, <4>1
      <4>3. CASE l \in 1..Len(r)
        BY <2>3, <3>4, <3>7, <4>1, <4>3
      <4>4. CASE l = Len(r) + 1
        BY <3>4, <4>2, <4>4
      <4> QED BY <3>2, <3>4, <4>3, <4>4
    <3>8. ASSUME NEW i \in P \intersect 1..k PROVE \E j \in 1..Len(t) : p[j] = i
      <4>1. CASE i = k
        BY <3>2, <3>4, <4>1
      <4>2. CASE i # k
        <5>1. i \in P \intersect 1..(k - 1)
          BY <2>0, <4>2
        <5>2. PICK j \in 1..Len(r) : o[j] = i
          BY <2>3, <5>1
        <5> QED BY <3>2, <3>4, <5>2
      <4> QED BY <4>1, <4>2
    <3>9. IsChosen(t, s, P \intersect 1..k)
      BY <3>5, <3>6, <3>7, <3>8 DEF IsChosen
    <3> QED BY <1>4, <2>0, <3>1, <3>2, <3>9
  <2> QED BY <2>5, <2>6
<1>7. \A k \in 0..Len(s) : c[k] \in Q[k]
  BY <1>n, <1>5, <1>6, Chain
<1>8. Len(s) \in 0..Len(s) /\ P \intersect 1..Len(s) = P
  BY <1>n
<1> QED BY <1>1, <1>3, <1>4, <1>7, <1>8

-----------------------------------------------------------------------------
(***************************************************************************)
(* Events on their way through the graph.                                  *)
(***************************************************************************)

(* What a handler puts in the place of an event is the same input still.   *)
IsCopy(f, e) == f.src = e.src /\ f.n = e.n /\ f.time = e.time
AreCopies(r, e) == \A k \in 1..Len(r) : IsCopy(r[k], e)

LEMMA OutsAreChannels ==
  ASSUME NEW e, e.pos \in Node, NEW state
  PROVE  Outs(e, state) \in Seq(Channel)
<1>1. PICK n : n = e.pos
  OBVIOUS
<1>2. /\ Outputs[n] \in Seq(Channel \union {Null})
      /\ Len(Outputs[n]) \in Nat /\ DOMAIN Outputs[n] = 1..Len(Outputs[n])
      /\ \A k \in 1..Len(Outputs[n]) : Outputs[n][k] \in Channel \union {Null}
  <2>1. Outputs[n] \in Seq(Channel \union {Null})
    BY <1>1, GraphAssumption
  <2> QED BY <2>1, LenProperties, ElementOfSeq
<1>3. PICK P : P = {k \in 1..Len(Outputs[n]) :
                      /\ Outputs[n][k] # Null
                      /\ Kind[n] = "router" =>
                           k \in DOMAIN Guard[n] /\ Holds(Guard[n][k], e, state)}
  OBVIOUS
<1>4. PICK s : s = [k \in DOMAIN Outputs[n] |-> k]
  OBVIOUS
<1>5. /\ s \in Seq(Nat) /\ Len(s) = Len(Outputs[n]) /\ DOMAIN s = 1..Len(Outputs[n])
      /\ \A k \in 1..Len(Outputs[n]) : s[k] = k
  <2>1. s \in [1..Len(Outputs[n]) -> Nat]
    BY <1>2, <1>4
  <2> QED BY <1>2, <1>4, <2>1
<1>6. PICK q : q = [k \in DOMAIN s |-> IF k \in P THEN <<s[k]>> ELSE << >>]
  OBVIOUS
<1>7. PICK taken : taken = FlattenSeq(q)
  OBVIOUS
<1>8. taken \in Seq(Nat) /\ IsChosen(taken, s, P) /\ DOMAIN taken = 1..Len(taken)
  <2>1. P \subseteq 1..Len(s)
    BY <1>3, <1>5
  <2>2. taken \in Seq(Nat) /\ IsChosen(taken, s, P)
    BY <1>5, <1>6, <1>7, <2>1, ChosenIs
  <2> QED BY <2>2, LenProperties
<1>9. \A j \in 1..Len(taken) : taken[j] \in P
  BY <1>3, <1>5, <1>8 DEF IsChosen
<1>10. Outs(e, state) = [j \in DOMAIN taken |-> Outputs[n][taken[j]]]
  <2>1. q = [k \in DOMAIN s |->
               IF /\ Outputs[n][s[k]] # Null
                  /\ Kind[n] = "router" =>
                       s[k] \in DOMAIN Guard[n] /\ Holds(Guard[n][s[k]], e, state)
               THEN <<s[k]>> ELSE << >>]
    BY <1>3, <1>5, <1>6
  <2> QED BY <1>1, <1>4, <1>7, <2>1 DEF Outs, Those
<1>11. \A j \in 1..Len(taken) : Outputs[n][taken[j]] \in Channel
  BY <1>2, <1>3, <1>9
<1>12. Len(taken) \in Nat
  BY <1>8, LenProperties
<1> QED BY <1>8, <1>10, <1>11, <1>12, IsASeq

InChannels == {e \in Event : e.pos \in Channel}

(* A copy goes to a channel and is the event in everything else.           *)
LEMMA CopiesAre ==
  ASSUME NEW e \in Event, e.pos \in Node, NEW state
  PROVE  /\ Copies(e, state) \in Seq(Event) /\ AreCopies(Copies(e, state), e)
         /\ Copies(e, state) \in Seq(InChannels)
<1>1. PICK outs : outs = Outs(e, state)
  OBVIOUS
<1>2. /\ outs \in Seq(Channel) /\ Len(outs) \in Nat /\ DOMAIN outs = 1..Len(outs)
      /\ \A j \in 1..Len(outs) : outs[j] \in Channel
  <2>1. outs \in Seq(Channel)
    BY <1>1, OutsAreChannels
  <2> QED BY <2>1, LenProperties, ElementOfSeq
<1>3. \A j \in 1..Len(outs) :
        /\ [e EXCEPT !.pos = outs[j]] \in Event
        /\ [e EXCEPT !.pos = outs[j]] \in InChannels
        /\ IsCopy([e EXCEPT !.pos = outs[j]], e)
  BY <1>2 DEF Event, IsCopy, InChannels
<1>4. PICK r : r = [j \in 1..Len(outs) |-> [e EXCEPT !.pos = outs[j]]]
  OBVIOUS
<1>5. Copies(e, state) = r
  BY <1>1, <1>2, <1>4 DEF Copies
<1>6. r \in Seq(Event) /\ r \in Seq(InChannels)
  BY <1>2, <1>3, <1>4, IsASeq
<1>7. DOMAIN r = 1..Len(r)
  BY <1>6, LenProperties
<1>8. DOMAIN r = 1..Len(outs)
  BY <1>4
<1>9. \A j \in 1..Len(r) : IsCopy(r[j], e)
  BY <1>3, <1>4, <1>7, <1>8
<1> QED BY <1>5, <1>6, <1>9 DEF AreCopies

LEMMA PassedIs ==
  ASSUME NEW e \in Event, e.pos \in Channel
  PROVE  /\ Passed(e) \in Seq(Event) /\ AreCopies(Passed(e), e)
         /\ Passed(e) # << >> => End[e.pos] \in Node
         /\ \A k \in 1..Len(Passed(e)) :
              /\ Len(Passed(e)) = 1 /\ Passed(e)[k].id = e.id
              /\ Passed(e)[k].pos = End[e.pos]
<1>1. CASE e.ttl <= 1 \/ End[e.pos] = Null
  BY <1>1 DEF Passed, AreCopies
<1>2. CASE ~ (e.ttl <= 1 \/ End[e.pos] = Null)
  <2>1. End[e.pos] \in Node
    BY <1>2, GraphAssumption
  <2>2. PICK f : f = [e EXCEPT !.pos = End[e.pos], !.ttl = e.ttl - 1]
    OBVIOUS
  <2>3. e.ttl - 1 \in 1..InitialTTL
    <3>1. InitialTTL \in Nat /\ e.ttl \in 1..InitialTTL
      BY LoopAssumption DEF Event
    <3> QED BY <1>2, <3>1
  <2>4. f \in Event /\ IsCopy(f, e) /\ f.id = e.id /\ f.pos = End[e.pos]
    BY <2>1, <2>2, <2>3 DEF Event, IsCopy
  <2>5. Passed(e) = <<f>>
    BY <1>2, <2>2 DEF Passed
  <2>6. PICK r : r = <<f>>
    OBVIOUS
  <2>7. r \in Seq(Event) /\ Len(r) = 1 /\ r[1] = f
    BY <2>4, <2>6
  <2>8. AreCopies(r, e)
    BY <2>4, <2>7 DEF AreCopies
  <2> QED BY <2>1, <2>4, <2>5, <2>6, <2>7, <2>8
<1> QED BY <1>1, <1>2

LEMMA ReplacedIs ==
  ASSUME NEW S, NEW s \in Seq(S), NEW r \in Seq(S), NEW i \in 1..Len(s)
  PROVE  /\ Replaced(s, i, r) \in Seq(S)
         /\ IsSpliced(Replaced(s, i, r), s, i - 1, r, i)
<1>1. i - 1 \in 0..Len(s) /\ i \in (i - 1)..Len(s) /\ Len(s) \in Nat
  BY LenProperties
<1> QED BY <1>1, SpliceIs DEF Replaced

LEMMA DestroyedReplaces ==
  ASSUME NEW S, NEW s \in Seq(S), NEW i \in 1..Len(s)
  PROVE  DestroyedAt(s, i) = Replaced(s, i, << >>)
<1>1. /\ Len(s) \in Nat /\ 1 \in Int /\ i - 1 \in Int
      /\ \A k \in 1..(i - 1) : s[k] \in S
  BY LenProperties, ElementOfSeq
<1>2. SubSeq(s, 1, i - 1) \in Seq(S)
  BY <1>1, SubSeqProperties
<1>3. SubSeq(s, 1, i - 1) \o << >> = SubSeq(s, 1, i - 1)
  BY <1>2, ConcatEmptySeq
<1> QED BY <1>3 DEF DestroyedAt, RemoveAt, Replaced

(* Nothing but the replaced event leaves the list.                         *)
LEMMA OthersStayListed ==
  ASSUME NEW S, NEW s \in Seq(S), NEW r \in Seq(S), NEW i \in 1..Len(s),
         NEW x \in ToSet(s), x # s[i]
  PROVE  x \in ToSet(Replaced(s, i, r))
<1>1. PICK t : t = Replaced(s, i, r)
  OBVIOUS
<1>2. /\ t \in Seq(S) /\ IsSpliced(t, s, i - 1, r, i)
      /\ Len(s) \in Nat /\ Len(r) \in Nat /\ Len(t) \in Nat
      /\ DOMAIN s = 1..Len(s) /\ DOMAIN t = 1..Len(t)
  BY <1>1, ReplacedIs, LenProperties
<1>3. PICK k \in 1..Len(s) : x = s[k]
  BY <1>2 DEF ToSet
<1>4. CASE k < i
  <2>1. k \in 1..Len(t) /\ k <= i - 1
    BY <1>2, <1>4 DEF IsSpliced
  <2> QED BY <1>1, <1>2, <1>3, <2>1 DEF IsSpliced, ToSet
<1>5. CASE k > i
  <2>1. PICK j : j = k + Len(r) - 1
    OBVIOUS
  <2>2. /\ j \in 1..Len(t) /\ (i - 1) + Len(r) < j
        /\ (j - (i - 1) - Len(r)) + i = k
    <3>1. Len(t) = (i - 1) + Len(r) + (Len(s) - i)
      BY <1>2 DEF IsSpliced
    <3> QED BY <1>2, <1>5, <2>1, <3>1
  <2> QED BY <1>1, <1>2, <1>3, <2>2 DEF IsSpliced, ToSet
<1> QED BY <1>2, <1>3, <1>4, <1>5

LEMMA NewOnesListed ==
  ASSUME NEW S, NEW s \in Seq(S), NEW r \in Seq(S), NEW i \in 1..Len(s),
         NEW x \in ToSet(r)
  PROVE  x \in ToSet(Replaced(s, i, r))
<1>1. PICK t : t = Replaced(s, i, r)
  OBVIOUS
<1>2. /\ t \in Seq(S) /\ IsSpliced(t, s, i - 1, r, i)
      /\ Len(s) \in Nat /\ Len(r) \in Nat /\ Len(t) \in Nat
      /\ DOMAIN r = 1..Len(r) /\ DOMAIN t = 1..Len(t)
  BY <1>1, ReplacedIs, LenProperties
<1>3. PICK k \in 1..Len(r) : x = r[k]
  BY <1>2 DEF ToSet
<1>4. PICK j : j = (i - 1) + k
  OBVIOUS
<1>5. /\ j \in 1..Len(t) /\ i - 1 < j /\ j <= (i - 1) + Len(r)
      /\ j - (i - 1) = k
  BY <1>2, <1>4 DEF IsSpliced
<1> QED BY <1>1, <1>2, <1>3, <1>5 DEF IsSpliced, ToSet

(* Where the events of the list are when r has taken the place of the      *)
(* i-th.                                                                   *)
Placed(u, s, i, r) ==
  /\ Len(u) = Len(s) - 1 + Len(r)
  /\ \A j \in 1..Len(u) :
       \/ j < i /\ j \in 1..Len(s) /\ u[j] = s[j]
       \/ i <= j /\ j < i + Len(r) /\ (j - i) + 1 \in 1..Len(r) /\ u[j] = r[(j - i) + 1]
       \/ /\ i + Len(r) <= j /\ (j - Len(r)) + 1 \in (i + 1)..Len(s)
          /\ u[j] = s[(j - Len(r)) + 1]

LEMMA ReplacedPlaces ==
  ASSUME NEW S, NEW s \in Seq(S), NEW r \in Seq(S), NEW i \in 1..Len(s)
  PROVE  Replaced(s, i, r) \in Seq(S) /\ Placed(Replaced(s, i, r), s, i, r)
<1>1. PICK u : u = Replaced(s, i, r)
  OBVIOUS
<1>2. u \in Seq(S) /\ IsSpliced(u, s, i - 1, r, i)
  BY <1>1, ReplacedIs
<1>3. PICK n \in Nat : n = Len(r)
  BY LenProperties
<1>4. PICK m \in Nat : m = Len(s)
  BY LenProperties
<1>5. /\ Len(u) = (i - 1) + n + (m - i)
      /\ \A j \in 1..Len(u) :
           /\ j <= i - 1 => u[j] = s[j]
           /\ i - 1 < j /\ j <= (i - 1) + n => j - (i - 1) \in 1..n /\ u[j] = r[j - (i - 1)]
           /\ (i - 1) + n < j =>
                /\ (j - (i - 1) - n) + i \in (i + 1)..m
                /\ u[j] = s[(j - (i - 1) - n) + i]
  BY <1>2, <1>3, <1>4 DEF IsSpliced
<1>6. Len(u) = m - 1 + n
  BY <1>4, <1>5
<1>7. ASSUME NEW j \in 1..(m - 1 + n)
      PROVE  \/ j < i /\ j \in 1..m /\ u[j] = s[j]
             \/ i <= j /\ j < i + n /\ (j - i) + 1 \in 1..n /\ u[j] = r[(j - i) + 1]
             \/ i + n <= j /\ (j - n) + 1 \in (i + 1)..m /\ u[j] = s[(j - n) + 1]
  <2>1. j \in 1..Len(u)
    BY <1>6
  <2>2. CASE j <= i - 1
    <3>1. j < i /\ j \in 1..m
      BY <1>4, <2>2
    <3> QED BY <1>5, <2>1, <2>2, <3>1
  <2>3. CASE i - 1 < j /\ j <= (i - 1) + n
    <3>1. j - (i - 1) = (j - i) + 1 /\ i <= j /\ j < i + n
      BY <2>3
    <3> QED BY <1>5, <2>1, <2>3, <3>1
  <2>4. CASE (i - 1) + n < j
    <3>1. (j - (i - 1) - n) + i = (j - n) + 1 /\ i + n <= j
      BY <2>4
    <3> QED BY <1>5, <2>1, <2>4, <3>1
  <2> QED BY <2>2, <2>3, <2>4
<1>8. Placed(u, s, i, r)
  BY <1>3, <1>4, <1>6, <1>7 DEF Placed
<1> QED BY <1>1, <1>2, <1>8

-----------------------------------------------------------------------------
(***************************************************************************)
(* The handlers.                                                           *)
(***************************************************************************)

Delivery == [sink : Node, src : Source, n : Nat \ {0}, time : 0..MaxTime,
             code : Code, payload : Int64]
Switch == [enabled : BOOLEAN, inverted : BOOLEAN]
Machine ==
  [events : Seq(Event), waiting : [Node -> BOOLEAN],
   memory : [ComputingNode -> Int64], predicates : [Predicate -> Switch],
   buffer : [WindowNode -> Seq(Event)], members : [WindowNode -> SUBSET Event],
   skip : [WindowNode -> Nat], issued : Nat, delivered : Seq(Delivery)]

(* What every handler but that of a window does to a machine: copies of    *)
(* its event, or nothing, take the event's place; a sink's event is        *)
(* delivered; nodes are woken and none is made to wait; the windows are    *)
(* left alone.  An event that enters a window gets an id no other has.     *)
Numbered(r, a, b) ==
  /\ a <= b
  /\ \A k \in 1..Len(r) :
       r[k].pos \in WindowNode => Len(r) = 1 /\ r[k].id = a /\ b = a + 1
Moves(m2, m, i) ==
  LET e == m.events[i]
  IN  /\ m2 \in Machine
      /\ \E r \in Seq(Event) :
           /\ AreCopies(r, e) /\ m2.events = Replaced(m.events, i, r)
           /\ Numbered(r, m.issued, m2.issued)
      /\ \/ m2.delivered = m.delivered
         \/ \E d \in Delivery :
              IsCopy(d, e) /\ m2.delivered = Append(m.delivered, d)
      /\ \A n \in Node : m2.waiting[n] => m.waiting[n]
      /\ m2.buffer = m.buffer /\ m2.members = m.members

LEMMA EventAt ==
  ASSUME NEW m \in Machine, NEW i \in 1..Len(m.events)
  PROVE  /\ m.events \in Seq(Event) /\ m.events[i] \in Event
         /\ m.events[i] \in ToSet(m.events)
<1>1. m.events \in Seq(Event)
  BY DEF Machine
<1> QED BY <1>1, ElementOfSeq, LenProperties DEF ToSet

LEMMA NothingMoves ==
  ASSUME NEW e
  PROVE  /\ << >> \in Seq(Event) /\ AreCopies(<< >>, e)
         /\ \A a \in Nat : Numbered(<< >>, a, a)
BY EmptySeq DEF AreCopies, Numbered

(* What goes to a channel needs no id.                                     *)
LEMMA ChannelsNumbered ==
  ASSUME NEW r \in Seq(InChannels), NEW a \in Nat
  PROVE  Numbered(r, a, a)
<1>1. \A k \in 1..Len(r) : r[k] \in InChannels
  BY ElementOfSeq
<1>2. \A c \in Channel : c \notin WindowNode
  BY GraphAssumption DEF WindowNode
<1> QED BY <1>1, <1>2 DEF Numbered, InChannels

LEMMA EnteringIs ==
  ASSUME NEW m \in Machine, NEW e \in Event, e.pos \in Channel
  PROVE  /\ Entering(m, e) \in Event /\ Entering(m, e).pos = e.pos
         /\ Entering(m, e).ttl = e.ttl /\ Entering(m, e).code = e.code
         /\ IsCopy(Entering(m, e), e)
         /\ End[e.pos] \in WindowNode => Entering(m, e).id = m.issued
         /\ m.issued \in Nat
BY DEF Entering, Event, Machine, IsCopy

(* Whether a channel passes an event on does not depend on its id.         *)
LEMMA EnteringPasses ==
  ASSUME NEW m \in Machine, NEW e \in Event, e.pos \in Channel
  PROVE  Passed(Entering(m, e)) = << >> <=> Passed(e) = << >>
<1>1. Entering(m, e).pos = e.pos /\ Entering(m, e).ttl = e.ttl
  BY EnteringIs
<1> QED BY <1>1 DEF Passed

LEMMA ChannelMoves ==
  ASSUME NEW m \in Machine, NEW i \in 1..Len(m.events),
         m.events[i].pos \in Channel
  PROVE  Moves(AtChannel(m, i), m, i)
<1>1. PICK e : e = m.events[i]
  OBVIOUS
<1>2. e \in Event /\ m.events \in Seq(Event) /\ e.pos \in Channel
  BY <1>1, EventAt
<1>f. PICK f : f = Entering(m, e)
  OBVIOUS
<1>g. /\ f \in Event /\ f.pos = e.pos /\ IsCopy(f, e)
      /\ End[e.pos] \in WindowNode => f.id = m.issued
      /\ Passed(f) = << >> <=> Passed(e) = << >>
      /\ m.issued \in Nat
  BY <1>2, <1>f, EnteringIs, EnteringPasses
<1>3. PICK r : r = Passed(f)
  OBVIOUS
<1>h. /\ r \in Seq(Event) /\ AreCopies(r, f) /\ (r # << >> => End[e.pos] \in Node)
      /\ \A k \in 1..Len(r) : Len(r) = 1 /\ r[k].id = f.id /\ r[k].pos = End[e.pos]
  BY <1>2, <1>g, <1>3, PassedIs
<1>4. r \in Seq(Event) /\ AreCopies(r, e) /\ (r # << >> => End[e.pos] \in Node)
  BY <1>g, <1>h DEF AreCopies, IsCopy
<1>n. PICK c : c = Issued(m, e)
  OBVIOUS
<1>o. c \in Nat /\ Numbered(r, m.issued, c)
  <2>1. \A k \in 1..Len(r) : r # << >>
    BY EmptySeq
  <2> QED BY <1>g, <1>h, <1>3, <1>n, <2>1 DEF Issued, Numbered
<1>5. PICK s : s = Replaced(m.events, i, r)
  OBVIOUS
<1>6. s \in Seq(Event)
  BY <1>2, <1>4, <1>5, ReplacedIs
<1>7. PICK w : w = Wake(m, e)
  OBVIOUS
<1>8. w \in [Node -> BOOLEAN] /\ \A n \in Node : w[n] => m.waiting[n]
  BY <1>g, <1>3, <1>4, <1>7 DEF Wake, Machine
<1>9. AtChannel(m, i) = [m EXCEPT !.events = s, !.waiting = w, !.issued = c]
  BY <1>1, <1>f, <1>3, <1>n, <1>5, <1>7 DEF AtChannel
<1>10. PICK m2 : m2 = [m EXCEPT !.events = s, !.waiting = w, !.issued = c]
  OBVIOUS
<1>11. /\ m2 \in Machine /\ m2.events = s /\ m2.waiting = w
       /\ m2.delivered = m.delivered /\ m2.issued = c
       /\ m2.buffer = m.buffer /\ m2.members = m.members
  BY <1>6, <1>8, <1>o, <1>10 DEF Machine
<1> QED BY <1>1, <1>4, <1>o, <1>5, <1>8, <1>9, <1>10, <1>11 DEF Moves

LEMMA ForwardMoves ==
  ASSUME NEW m \in Machine, NEW i \in 1..Len(m.events),
         m.events[i].pos \in Node
  PROVE  Moves(AtForward(m, i), m, i)
<1>1. PICK e : e = m.events[i]
  OBVIOUS
<1>2. e \in Event /\ m.events \in Seq(Event) /\ e.pos \in Node
  BY <1>1, EventAt
<1>3. PICK r : r = Copies(e, m.predicates)
  OBVIOUS
<1>4. r \in Seq(Event) /\ AreCopies(r, e) /\ r \in Seq(InChannels)
  BY <1>2, <1>3, CopiesAre
<1>5. PICK s : s = Replaced(m.events, i, r)
  OBVIOUS
<1>6. s \in Seq(Event)
  BY <1>2, <1>4, <1>5, ReplacedIs
<1>7. PICK m2 : m2 = [m EXCEPT !.events = s]
  OBVIOUS
<1>8. /\ m2 \in Machine /\ m2.events = s /\ m2.waiting = m.waiting
      /\ m2.delivered = m.delivered
      /\ m2.buffer = m.buffer /\ m2.members = m.members
      /\ m2.issued = m.issued /\ m.issued \in Nat
  BY <1>6, <1>7 DEF Machine
<1>9. Numbered(r, m.issued, m2.issued)
  BY <1>4, <1>8, ChannelsNumbered
<1> QED BY <1>1, <1>3, <1>4, <1>5, <1>7, <1>8, <1>9 DEF Moves, AtForward

LEMMA AssignMoves ==
  ASSUME NEW m \in Machine, NEW i \in 1..Len(m.events),
         m.events[i].pos \in Node, Kind[m.events[i].pos] = "assign"
  PROVE  Moves(AtAssign(m, i), m, i)
<1>1. PICK e : e = m.events[i]
  OBVIOUS
<1>2. e \in Event /\ m.events \in Seq(Event) /\ e.pos \in Node
  BY <1>1, EventAt
<1>3. PICK f : f = Assigned(e)
  OBVIOUS
<1>4. f \in Event /\ f.pos = e.pos /\ IsCopy(f, e)
  <2>1. /\ Options[e.pos].recode[e.code] \in Code
        /\ Options[e.pos].payload = Null \/ Options[e.pos].payload \in Int64
    BY <1>1, <1>2, OptionsAssumption DEF Event
  <2> QED BY <1>2, <1>3, <2>1 DEF Assigned, Event, IsCopy
<1>5. PICK r : r = Copies(f, m.predicates)
  OBVIOUS
<1>6. r \in Seq(Event) /\ AreCopies(r, f) /\ r \in Seq(InChannels)
  BY <1>2, <1>4, <1>5, CopiesAre
<1>7. AreCopies(r, e)
  BY <1>4, <1>6 DEF AreCopies, IsCopy
<1>8. PICK s : s = Replaced(m.events, i, r)
  OBVIOUS
<1>9. s \in Seq(Event)
  BY <1>2, <1>6, <1>8, ReplacedIs
<1>10. PICK m2 : m2 = [m EXCEPT !.events = s]
  OBVIOUS
<1>11. /\ m2 \in Machine /\ m2.events = s /\ m2.waiting = m.waiting
       /\ m2.delivered = m.delivered
       /\ m2.buffer = m.buffer /\ m2.members = m.members
       /\ m2.issued = m.issued /\ m.issued \in Nat
  BY <1>9, <1>10 DEF Machine
<1>12. Numbered(r, m.issued, m2.issued)
  BY <1>6, <1>11, ChannelsNumbered
<1> QED BY <1>1, <1>3, <1>5, <1>6, <1>7, <1>8, <1>10, <1>11, <1>12 DEF Moves, AtAssign

(* The nodes that compute send and remember int64_t: what is computed      *)
(* wraps around, and a defect is smaller than the denominator.             *)
LEMMA ComputesInt64 ==
  ASSUME NEW e \in Event, e.pos \in ComputingNode, NEW x \in Int64
  PROVE  Computed(e, x).payload \in Int64 /\ Computed(e, x).memory \in Int64
<1>1. /\ Half \in Nat \ {0} /\ x \in Int /\ e.payload \in Int64 /\ e.payload \in Int
  BY HalfAssumption DEF Event, Int64
<1>w. \A y \in Int : Wrapped(y) \in Int64 /\ Wrapped(y) \in Int
  BY WrappedIs, HalfAssumption DEF Int64
<1>2. CASE Kind[e.pos] = "differentiate"
  BY <1>1, <1>w, <1>2 DEF Computed, Differentiated, Leaves
<1>3. CASE Kind[e.pos] = "integrate"
  BY <1>1, <1>w, <1>3 DEF Computed, Integrated, Leaves
<1>4. CASE Kind[e.pos] = "scale"
  <2>1. PICK o : o = Options[e.pos]
    OBVIOUS
  <2>2. /\ o.numerator \in Int64 /\ o.denominator \in Int64 /\ o.center \in Int64
    BY <1>4, <2>1, OptionsAssumption DEF ComputingNode
  <2>3. o.numerator \in Int /\ o.denominator \in Int /\ o.center \in Int
    BY <1>1, <2>2 DEF Int64
  <2>4. PICK v : v = Multiplied(o, x, e.payload)
    OBVIOUS
  <2>5. v \in Int64 /\ v \in Int
    <3>1. PICK d : d = Wrapped(e.payload - o.center)
      OBVIOUS
    <3>2. d \in Int
      BY <1>1, <1>w, <2>3, <3>1
    <3>3. PICK p : p = Wrapped(d * o.numerator)
      OBVIOUS
    <3>4. p \in Int64 /\ p \in Int
      <4>1. d * o.numerator \in Int
        BY <2>3, <3>2
      <4> QED BY <1>w, <3>3, <4>1
    <3>5. Wrapped(p + x) \in Int64 /\ Wrapped(p + x) \in Int
      BY <1>1, <1>w, <3>4
    <3>6. v = IF o.amortize THEN Wrapped(p + x) ELSE p
      BY <2>4, <3>1, <3>3 DEF Multiplied
    <3> QED BY <3>4, <3>5, <3>6
  <2>6. Computed(e, x) = Scaled(o, x, e.payload)
    BY <1>4, <2>1 DEF Computed
  <2>7. CASE o.denominator = 0
    <3>1. Scaled(o, x, e.payload) = Leaves(Wrapped(v + o.center), x)
      BY <2>4, <2>7 DEF Scaled
    <3> QED BY <1>w, <2>3, <2>5, <2>6, <3>1 DEF Leaves
  <2>8. CASE o.denominator # 0
    <3>1. PICK q : q = Quotient(v, o.denominator)
      OBVIOUS
    <3>2. PICK z : z = v - q * o.denominator
      OBVIOUS
    <3>3. q \in Int /\ z \in Int /\ Magnitude(z) < Magnitude(o.denominator)
      BY <2>3, <2>5, <2>8, <3>1, <3>2, QuotientLeavesLess
    <3>4. z \in Int64
      BY <1>1, <2>2, <2>3, <3>3 DEF Magnitude, Int64
    <3>5. Scaled(o, x, e.payload) = Leaves(Wrapped(q + o.center), z)
      BY <2>4, <2>8, <3>1, <3>2 DEF Scaled
    <3> QED BY <1>w, <2>3, <2>6, <3>3, <3>4, <3>5 DEF Leaves
  <2> QED BY <2>7, <2>8
<1> QED BY <1>2, <1>3, <1>4 DEF ComputingNode

LEMMA ComputingMoves ==
  ASSUME NEW m \in Machine, NEW i \in 1..Len(m.events),
         m.events[i].pos \in ComputingNode
  PROVE  Moves(AtComputing(m, i), m, i)
<1>1. PICK e : e = m.events[i]
  OBVIOUS
<1>2. /\ e \in Event /\ m.events \in Seq(Event)
      /\ e.pos \in ComputingNode /\ e.pos \in Node
  BY <1>1, EventAt DEF ComputingNode
<1>3. PICK left : left = Computed(e, m.memory[e.pos])
  OBVIOUS
<1>4. left.payload \in Int64 /\ left.memory \in Int64
  <2>1. m.memory[e.pos] \in Int64
    BY <1>2 DEF Machine
  <2> QED BY <1>2, <1>3, <2>1, ComputesInt64
<1>5. CASE Outputs[e.pos] = << >>
  <2>1. PICK s : s = Replaced(m.events, i, << >>)
    OBVIOUS
  <2>2. s \in Seq(Event)
    BY <1>2, <2>1, NothingMoves, ReplacedIs
  <2>3. PICK m2 : m2 = [m EXCEPT !.events = s]
    OBVIOUS
  <2>4. /\ m2 \in Machine /\ m2.events = s /\ m2.waiting = m.waiting
        /\ m2.delivered = m.delivered
        /\ m2.buffer = m.buffer /\ m2.members = m.members
        /\ m2.issued = m.issued /\ m.issued \in Nat
    BY <2>2, <2>3 DEF Machine
  <2>5. AtComputing(m, i) = m2
    BY <1>1, <1>2, <1>5, <2>1, <2>3, DestroyedReplaces DEF AtComputing
  <2> QED BY <1>1, <2>1, <2>4, <2>5, NothingMoves DEF Moves
<1>6. CASE Outputs[e.pos] # << >>
  <2>1. PICK f : f = [e EXCEPT !.payload = left.payload]
    OBVIOUS
  <2>2. f \in Event /\ f.pos = e.pos /\ IsCopy(f, e)
    BY <1>2, <1>4, <2>1 DEF Event, IsCopy
  <2>3. PICK r : r = Copies(f, m.predicates)
    OBVIOUS
  <2>4. r \in Seq(Event) /\ AreCopies(r, f) /\ r \in Seq(InChannels)
    BY <1>2, <2>2, <2>3, CopiesAre
  <2>5. AreCopies(r, e)
    BY <2>2, <2>4 DEF AreCopies, IsCopy
  <2>6. PICK s : s = Replaced(m.events, i, r)
    OBVIOUS
  <2>7. s \in Seq(Event)
    BY <1>2, <2>4, <2>6, ReplacedIs
  <2>8. PICK y : y = [m.memory EXCEPT ![e.pos] = left.memory]
    OBVIOUS
  <2>9. y \in [ComputingNode -> Int64]
    BY <1>4, <2>8 DEF Machine
  <2>10. PICK m2 : m2 = [m EXCEPT !.events = s, !.memory = y]
    OBVIOUS
  <2>11. /\ m2 \in Machine /\ m2.events = s /\ m2.waiting = m.waiting
         /\ m2.delivered = m.delivered
         /\ m2.buffer = m.buffer /\ m2.members = m.members
         /\ m2.issued = m.issued /\ m.issued \in Nat
    BY <2>7, <2>9, <2>10 DEF Machine
  <2>12. AtComputing(m, i) = m2
    BY <1>1, <1>3, <1>6, <2>1, <2>3, <2>6, <2>8, <2>10 DEF AtComputing
  <2>13. Numbered(r, m.issued, m2.issued)
    BY <2>4, <2>11, ChannelsNumbered
  <2> QED BY <1>1, <2>4, <2>5, <2>6, <2>11, <2>12, <2>13 DEF Moves
<1> QED BY <1>5, <1>6

LEMMA ModifyPredicateMoves ==
  ASSUME NEW m \in Machine, NEW i \in 1..Len(m.events)
  PROVE  Moves(AtModifyPredicate(m, i), m, i)
<1>1. PICK e : e = m.events[i]
  OBVIOUS
<1>2. e \in Event /\ m.events \in Seq(Event)
  BY <1>1, EventAt
<1>3. PICK s : s = Replaced(m.events, i, << >>)
  OBVIOUS
<1>4. s \in Seq(Event)
  BY <1>2, <1>3, NothingMoves, ReplacedIs
<1>5. PICK p : p = Switched(e, m.predicates)
  OBVIOUS
<1>6. p \in [Predicate -> Switch]
  <2>1. PICK o : o = Options[e.pos]
    OBVIOUS
  <2>2. PICK t : t = m.predicates[o.target]
    OBVIOUS
  <2>3. PICK x \in BOOLEAN : x = IF t.enabled THEN ~Holds(o.disableOn, e, m.predicates)
                                 ELSE Holds(o.enableOn, e, m.predicates)
    BY DEF Holds
  <2>4. PICK y \in BOOLEAN : y = IF t.inverted THEN ~Holds(o.uninvertOn, e, m.predicates)
                                 ELSE Holds(o.invertOn, e, m.predicates)
    BY DEF Holds
  <2>5. p = [m.predicates EXCEPT ![o.target] = [enabled |-> x, inverted |-> y]]
    BY <1>5, <2>1, <2>2, <2>3, <2>4 DEF Switched
  <2> QED BY <2>5 DEF Machine, Switch
<1>7. PICK m2 : m2 = [m EXCEPT !.events = s, !.predicates = p]
  OBVIOUS
<1>8. /\ m2 \in Machine /\ m2.events = s /\ m2.waiting = m.waiting
      /\ m2.delivered = m.delivered
      /\ m2.buffer = m.buffer /\ m2.members = m.members
      /\ m2.issued = m.issued /\ m.issued \in Nat
  BY <1>4, <1>6, <1>7 DEF Machine
<1>9. AtModifyPredicate(m, i) = m2
  BY <1>1, <1>2, <1>3, <1>5, <1>7, DestroyedReplaces DEF AtModifyPredicate
<1> QED BY <1>1, <1>3, <1>8, <1>9, NothingMoves DEF Moves

LEMMA SinkMoves ==
  ASSUME NEW m \in Machine, NEW i \in 1..Len(m.events),
         m.events[i].pos \in Node
  PROVE  Moves(AtSink(m, i), m, i)
<1>1. PICK e : e = m.events[i]
  OBVIOUS
<1>2. e \in Event /\ m.events \in Seq(Event) /\ e.pos \in Node
  BY <1>1, EventAt
<1>3. PICK s : s = Replaced(m.events, i, << >>)
  OBVIOUS
<1>4. s \in Seq(Event)
  BY <1>2, <1>3, NothingMoves, ReplacedIs
<1>5. PICK d : d = [sink |-> e.pos, src |-> e.src, n |-> e.n, time |-> e.time,
                    code |-> e.code, payload |-> e.payload]
  OBVIOUS
<1>6. d \in Delivery /\ IsCopy(d, e)
  BY <1>2, <1>5 DEF Delivery, IsCopy, Event
<1>7. PICK z : z = Append(m.delivered, d)
  OBVIOUS
<1>8. z \in Seq(Delivery)
  BY <1>6, <1>7, AppendProperties DEF Machine
<1>9. PICK m2 : m2 = [m EXCEPT !.events = s, !.delivered = z]
  OBVIOUS
<1>10. /\ m2 \in Machine /\ m2.events = s /\ m2.waiting = m.waiting
       /\ m2.delivered = z
       /\ m2.buffer = m.buffer /\ m2.members = m.members
       /\ m2.issued = m.issued /\ m.issued \in Nat
  BY <1>4, <1>8, <1>9 DEF Machine
<1>11. AtSink(m, i) = m2
  BY <1>1, <1>2, <1>3, <1>5, <1>7, <1>9, DestroyedReplaces DEF AtSink
<1> QED BY <1>1, <1>3, <1>6, <1>7, <1>10, <1>11, NothingMoves DEF Moves

(* No two events of the list that are at windows have one id, and none has *)
(* one of n and above: an id tells there what an address does.             *)
Told(s, n) ==
  /\ \A k \in 1..Len(s) : s[k].pos \in WindowNode => s[k].id < n
  /\ \A j, k \in 1..Len(s) :
       s[j].pos \in WindowNode /\ s[k].pos \in WindowNode /\ s[j].id = s[k].id
         => j = k

(* What may take the place of e as long as ids below a are given away: at  *)
(* most one event at a window, with the id of e or one from a on, below b. *)
Retold(r, e, a, b) ==
  /\ a <= b
  /\ \A k \in 1..Len(r) :
       r[k].pos \in WindowNode =>
         \/ e.pos \in WindowNode /\ r[k].id = e.id
         \/ a <= r[k].id /\ r[k].id < b
  /\ \A j, k \in 1..Len(r) :
       r[j].pos \in WindowNode /\ r[k].pos \in WindowNode => j = k

LEMMA IdsAreNumbers ==
  ASSUME NEW s \in Seq(Event)
  PROVE  \A k \in 1..Len(s) : s[k].id \in Nat
<1>1. \A k \in 1..Len(s) : s[k] \in Event
  BY ElementOfSeq
<1> QED BY <1>1 DEF Event

LEMMA IdsStayTold ==
  ASSUME NEW s \in Seq(Event), NEW i \in 1..Len(s), NEW r \in Seq(Event),
         NEW a \in Nat, NEW b \in Nat, Told(s, a), Retold(r, s[i], a, b)
  PROVE  Told(Replaced(s, i, r), b)
<1>1. PICK u : u = Replaced(s, i, r)
  OBVIOUS
<1>2. u \in Seq(Event) /\ Placed(u, s, i, r)
  BY <1>1, ReplacedPlaces
<1>3. PICK n \in Nat : n = Len(r)
  BY LenProperties
<1>4. PICK m \in Nat : m = Len(s)
  BY LenProperties
<1>5. Len(u) = m - 1 + n /\ i \in 1..m
  BY <1>2, <1>3, <1>4 DEF Placed
<1>6. \A j \in 1..(m - 1 + n) :
        \/ j < i /\ j \in 1..m /\ u[j] = s[j]
        \/ i <= j /\ j < i + n /\ (j - i) + 1 \in 1..n /\ u[j] = r[(j - i) + 1]
        \/ i + n <= j /\ (j - n) + 1 \in (i + 1)..m /\ u[j] = s[(j - n) + 1]
  BY <1>2, <1>3, <1>4, <1>5 DEF Placed
<1>7. /\ \A k \in 1..m : s[k].id \in Nat /\ (s[k].pos \in WindowNode => s[k].id < a)
      /\ \A j, k \in 1..m :
           s[j].pos \in WindowNode /\ s[k].pos \in WindowNode /\ s[j].id = s[k].id
             => j = k
  <2>1. \A k \in 1..m : s[k].id \in Nat
    BY <1>4, IdsAreNumbers
  <2> QED BY <1>4, <2>1 DEF Told
<1>8. /\ a <= b
      /\ \A k \in 1..n :
           r[k].pos \in WindowNode =>
             \/ s[i].pos \in WindowNode /\ r[k].id = s[i].id
             \/ a <= r[k].id /\ r[k].id < b
      /\ \A j, k \in 1..n :
           r[j].pos \in WindowNode /\ r[k].pos \in WindowNode => j = k
      /\ \A k \in 1..n : r[k].id \in Nat
  <2>1. \A k \in 1..n : r[k].id \in Nat
    BY <1>3, IdsAreNumbers
  <2> QED BY <1>3, <2>1 DEF Retold
(* Where the j-th event of u comes from: a place of s other than i, or r.  *)
<1>9. ASSUME NEW j \in 1..(m - 1 + n)
      PROVE  \/ \E k \in 1..m : /\ k # i /\ u[j] = s[k]
                                /\ j = IF k < i THEN k ELSE k + n - 1
             \/ \E k \in 1..n : u[j] = r[k] /\ j = (i - 1) + k
  <2>1. CASE j < i /\ j \in 1..m /\ u[j] = s[j]
    BY <2>1
  <2>2. CASE i <= j /\ j < i + n /\ (j - i) + 1 \in 1..n /\ u[j] = r[(j - i) + 1]
    <3>1. j = (i - 1) + ((j - i) + 1)
      OBVIOUS
    <3> QED BY <2>2, <3>1
  <2>3. CASE i + n <= j /\ (j - n) + 1 \in (i + 1)..m /\ u[j] = s[(j - n) + 1]
    <3>1. PICK k : k = (j - n) + 1
      OBVIOUS
    <3>2. k \in 1..m /\ k # i /\ ~ (k < i) /\ j = k + n - 1 /\ u[j] = s[k]
      BY <1>5, <2>3, <3>1
    <3> QED BY <3>2
  <2> QED BY <1>6, <2>1, <2>2, <2>3
<1>10. ASSUME NEW j \in 1..(m - 1 + n), u[j].pos \in WindowNode
       PROVE  u[j].id < b
  <2>1. CASE \E k \in 1..m : k # i /\ u[j] = s[k]
    <3>1. PICK k \in 1..m : u[j] = s[k]
      BY <2>1
    <3>2. s[k].id < a /\ s[k].id \in Nat
      BY <1>7, <1>10, <3>1
    <3> QED BY <1>8, <3>1, <3>2
  <2>2. CASE \E k \in 1..n : u[j] = r[k]
    <3>1. PICK k \in 1..n : u[j] = r[k]
      BY <2>2
    <3>2. CASE s[i].pos \in WindowNode /\ r[k].id = s[i].id
      <4>1. s[i].id < a /\ s[i].id \in Nat
        BY <1>5, <1>7, <3>2
      <4> QED BY <1>8, <3>1, <3>2, <4>1
    <3>3. CASE a <= r[k].id /\ r[k].id < b
      BY <3>1, <3>3
    <3> QED BY <1>8, <1>10, <3>1, <3>2, <3>3
  <2> QED BY <1>9, <2>1, <2>2
(* An event of s other than the replaced one has no id of an event of r.   *)
<1>11. ASSUME NEW k \in 1..m, k # i, NEW l \in 1..n,
              s[k].pos \in WindowNode, r[l].pos \in WindowNode
       PROVE  s[k].id # r[l].id
  <2>1. CASE s[i].pos \in WindowNode /\ r[l].id = s[i].id
    BY <1>5, <1>7, <1>11, <2>1
  <2>2. CASE a <= r[l].id /\ r[l].id < b
    <3>1. s[k].id < a /\ s[k].id \in Nat /\ r[l].id \in Nat
      BY <1>7, <1>8, <1>11
    <3> QED BY <2>2, <3>1
  <2> QED BY <1>8, <1>11, <2>1, <2>2
<1>12. ASSUME NEW x \in 1..(m - 1 + n), NEW y \in 1..(m - 1 + n),
              u[x].pos \in WindowNode, u[y].pos \in WindowNode, u[x].id = u[y].id
       PROVE  x = y
  <2> DEFINE Old(j, k) == k # i /\ u[j] = s[k] /\ j = IF k < i THEN k ELSE k + n - 1
             New(j, k) == u[j] = r[k] /\ j = (i - 1) + k
  <2>1. ASSUME NEW j \in 1..m, Old(x, j), NEW k \in 1..m, Old(y, k) PROVE x = y
    <3>1. j = k
      BY <1>7, <1>12, <2>1
    <3> QED BY <2>1, <3>1
  <2>2. ASSUME NEW j \in 1..m, Old(x, j), NEW k \in 1..n, New(y, k) PROVE x = y
    BY <1>11, <1>12, <2>2
  <2>3. ASSUME NEW j \in 1..n, New(x, j), NEW k \in 1..m, Old(y, k) PROVE x = y
    BY <1>11, <1>12, <2>3
  <2>4. ASSUME NEW j \in 1..n, New(x, j), NEW k \in 1..n, New(y, k) PROVE x = y
    <3>1. j = k
      BY <1>8, <1>12, <2>4
    <3> QED BY <2>4, <3>1
  <2>5. (\E j \in 1..m : Old(x, j)) \/ (\E j \in 1..n : New(x, j))
    BY <1>9
  <2>6. (\E k \in 1..m : Old(y, k)) \/ (\E k \in 1..n : New(y, k))
    BY <1>9
  <2> HIDE DEF Old, New
  <2> QED BY <2>1, <2>2, <2>3, <2>4, <2>5, <2>6
<1>13. Told(u, b)
  BY <1>5, <1>10, <1>12 DEF Told
<1> QED BY <1>1, <1>13

LEMMA NumberedRetold ==
  ASSUME NEW r \in Seq(Event), NEW e, NEW a \in Nat, NEW b \in Nat, Numbered(r, a, b)
  PROVE  Retold(r, e, a, b)
<1>1. /\ a <= b /\ \A k \in 1..Len(r) : r[k].id \in Nat
      /\ \A k \in 1..Len(r) :
           r[k].pos \in WindowNode => Len(r) = 1 /\ r[k].id = a /\ b = a + 1
  BY IdsAreNumbers DEF Numbered
<1>2. \A k \in 1..Len(r) :
        r[k].pos \in WindowNode => a <= r[k].id /\ r[k].id < b
  BY <1>1
<1>3. ASSUME NEW j \in 1..Len(r), NEW k \in 1..Len(r),
             r[j].pos \in WindowNode, r[k].pos \in WindowNode
      PROVE  j = k
  <2>1. Len(r) = 1
    BY <1>1, <1>3
  <2> QED BY <1>3, <2>1
<1> QED BY <1>1, <1>2, <1>3 DEF Retold

(* A window's buffer and its set hold events that are in the list, at the  *)
(* window, where their ids tell them from all others; unless an allocation *)
(* for the set has failed (strict says that none has), the buffer holds    *)
(* none twice and the set has all that are in the buffer.                  *)
WindowSound(m, strict) ==
  /\ Told(m.events, m.issued)
  /\ \A w \in WindowNode :
       /\ ToSet(m.buffer[w]) \union m.members[w] \subseteq ToSet(m.events)
       /\ \A e \in ToSet(m.buffer[w]) \union m.members[w] : e.pos = w
       /\ strict => /\ IsInjective(m.buffer[w])
                    /\ ToSet(m.buffer[w]) \subseteq m.members[w]

LEMMA MovesKeepWindows ==
  ASSUME NEW m \in Machine, NEW i \in 1..Len(m.events), NEW m2,
         NEW strict, WindowSound(m, strict),
         m.events[i].pos \notin WindowNode, Moves(m2, m, i)
  PROVE  WindowSound(m2, strict)
<1>1. PICK r \in Seq(Event) :
        /\ m2.events = Replaced(m.events, i, r)
        /\ Numbered(r, m.issued, m2.issued)
  BY DEF Moves
<1>2. m.events \in Seq(Event)
  BY EventAt
<1>3. ASSUME NEW w \in WindowNode, NEW e \in ToSet(m.buffer[w]) \union m.members[w]
      PROVE  e \in ToSet(m2.events)
  <2>1. e \in ToSet(m.events) /\ e.pos = w
    BY <1>3 DEF WindowSound
  <2>2. e # m.events[i]
    BY <2>1
  <2> QED BY <1>1, <1>2, <2>1, <2>2, OthersStayListed
<1>4. m2.buffer = m.buffer /\ m2.members = m.members
  BY DEF Moves
<1>5. ASSUME NEW w \in WindowNode
      PROVE  /\ ToSet(m.buffer[w]) \union m.members[w] \subseteq ToSet(m2.events)
             /\ \A e \in ToSet(m.buffer[w]) \union m.members[w] : e.pos = w
             /\ strict => /\ IsInjective(m.buffer[w])
                          /\ ToSet(m.buffer[w]) \subseteq m.members[w]
  BY <1>3 DEF WindowSound
<1>6. Told(m2.events, m2.issued)
  <2>1. PICK a \in Nat : a = m.issued
    BY DEF Machine
  <2>2. PICK b \in Nat : b = m2.issued
    BY DEF Moves, Machine
  <2>3. Told(m.events, a)
    BY <2>1 DEF WindowSound
  <2>4. Retold(r, m.events[i], a, b)
    BY <1>1, <2>1, <2>2, NumberedRetold
  <2> QED BY <1>1, <1>2, <2>2, <2>3, <2>4, IdsStayTold
<1> QED BY <1>4, <1>5, <1>6 DEF WindowSound

-----------------------------------------------------------------------------
(***************************************************************************)
(* The window.                                                             *)
(***************************************************************************)

WindowState ==
  [buffer : Seq(Event), members : SUBSET Event, skip : Nat, sent : Seq(Event)]

(* The states a window at work may come to: nothing gets into its buffer   *)
(* or its set beside B and M.                                              *)
Kept(B, M, strict) ==
  {st \in WindowState :
     /\ ToSet(st.buffer) \subseteq B /\ st.members \subseteq M
     /\ strict => IsInjective(st.buffer) /\ ToSet(st.buffer) \subseteq st.members}

(* Of what the window has sent all is on channels but the one event of O,  *)
(* or all if O is empty.                                                   *)
Carries(r, O) ==
  /\ O \subseteq ToSet(r)
  /\ \A k \in 1..Len(r) : r[k] \in InChannels \union O
  /\ \A j, k \in 1..Len(r) : r[j] \in O /\ r[k] \in O => j = k
Sending(O) == {st \in WindowState : Carries(st.sent, O)}

EventsAt(w) == {e \in Event : e.pos = w}

LEMMA FlattenTyped ==
  ASSUME NEW S, NEW q \in Seq(Seq(S))
  PROVE  FlattenSeq(q) \in Seq(S)
<1>1. PICK c \in [0..Len(q) -> Seq(S)] : FlattenSeq(q) = c[Len(q)]
  BY FlattenIs
<1>2. Len(q) \in 0..Len(q)
  BY LenProperties
<1> QED BY <1>1, <1>2

LEMMA ConcatSet ==
  ASSUME NEW S, NEW s \in Seq(S), NEW t \in Seq(S)
  PROVE  ToSet(s) \subseteq ToSet(s \o t) /\ ToSet(t) \subseteq ToSet(s \o t)
<1>1. PICK u : u = s \o t
  OBVIOUS
<1>2. /\ u \in Seq(S) /\ Len(u) = Len(s) + Len(t)
      /\ \A i \in 1..(Len(s) + Len(t)) :
           u[i] = IF i <= Len(s) THEN s[i] ELSE t[i - Len(s)]
  BY <1>1, ConcatProperties
<1>3. /\ DOMAIN u = 1..Len(u) /\ Len(s) \in Nat /\ Len(t) \in Nat
      /\ DOMAIN s = 1..Len(s) /\ DOMAIN t = 1..Len(t)
  BY <1>2, LenProperties
<1>4. ASSUME NEW i \in 1..Len(s) PROVE s[i] \in ToSet(u)
  <2>1. i \in 1..(Len(s) + Len(t)) /\ i <= Len(s)
    BY <1>3
  <2> QED BY <1>2, <1>3, <2>1 DEF ToSet
<1>5. ASSUME NEW i \in 1..Len(t) PROVE t[i] \in ToSet(u)
  <2>1. PICK j : j = i + Len(s)
    OBVIOUS
  <2>2. j \in 1..(Len(s) + Len(t)) /\ ~ (j <= Len(s)) /\ j - Len(s) = i
    BY <1>3, <2>1
  <2> QED BY <1>2, <1>3, <2>2 DEF ToSet
<1>6. \A x \in ToSet(s) : \E i \in 1..Len(s) : x = s[i]
  BY <1>3 DEF ToSet
<1>7. \A x \in ToSet(t) : \E i \in 1..Len(t) : x = t[i]
  BY <1>3 DEF ToSet
<1>8. ToSet(s) \subseteq ToSet(u)
  BY <1>4, <1>6
<1>9. ToSet(t) \subseteq ToSet(u)
  BY <1>5, <1>7
<1> QED BY <1>1, <1>8, <1>9

LEMMA CarriesOn ==
  ASSUME NEW r \in Seq(Event), NEW c \in Seq(InChannels), NEW O,
         O \intersect InChannels = {}, Carries(r, O)
  PROVE  r \o c \in Seq(Event) /\ Carries(r \o c, O)
<1>0. InChannels \subseteq Event
  BY DEF InChannels
<1>1. c \in Seq(Event)
  BY <1>0, SeqMonotonic
<1>2. PICK u : u = r \o c
  OBVIOUS
<1>3. /\ u \in Seq(Event) /\ Len(u) = Len(r) + Len(c)
      /\ \A i \in 1..(Len(r) + Len(c)) :
           u[i] = IF i <= Len(r) THEN r[i] ELSE c[i - Len(r)]
      /\ ToSet(r) \subseteq ToSet(u)
  BY <1>1, <1>2, ConcatProperties, ConcatSet
<1>4. PICK m \in Nat : m = Len(r)
  BY LenProperties
<1>5. PICK n \in Nat : n = Len(c)
  BY LenProperties
<1>6. \A k \in 1..n : c[k] \in InChannels
  BY <1>5, ElementOfSeq
<1>7. /\ O \subseteq ToSet(r)
      /\ \A k \in 1..m : r[k] \in InChannels \union O
      /\ \A j, k \in 1..m : r[j] \in O /\ r[k] \in O => j = k
  BY <1>4 DEF Carries
<1>8. ASSUME NEW k \in 1..(m + n)
      PROVE  /\ u[k] \in InChannels \union O
             /\ u[k] \in O => k \in 1..m /\ u[k] = r[k]
  <2>1. u[k] = IF k <= m THEN r[k] ELSE c[k - m]
    BY <1>3, <1>4, <1>5
  <2>2. CASE k <= m
    <3>1. k \in 1..m
      BY <2>2
    <3> QED BY <1>7, <2>1, <2>2, <3>1
  <2>3. CASE ~ (k <= m)
    <3>1. k - m \in 1..n
      BY <2>3
    <3>2. u[k] \in InChannels
      BY <1>6, <2>1, <2>3, <3>1
    <3> QED BY <3>2
  <2> QED BY <2>2, <2>3
<1>9. \A j, k \in 1..(m + n) : u[j] \in O /\ u[k] \in O => j = k
  BY <1>7, <1>8
<1>10. Len(u) = m + n
  BY <1>3, <1>4, <1>5
<1>11. Carries(u, O)
  BY <1>3, <1>7, <1>8, <1>9, <1>10 DEF Carries
<1> QED BY <1>2, <1>3, <1>11

LEMMA CarriesEvent ==
  ASSUME NEW r \in Seq(Event), NEW e \in Event, e \notin InChannels, Carries(r, {})
  PROVE  Append(r, e) \in Seq(Event) /\ Carries(Append(r, e), {e})
<1>1. PICK u : u = Append(r, e)
  OBVIOUS
<1>2. PICK m \in Nat : m = Len(r)
  BY LenProperties
<1>3. /\ u \in Seq(Event) /\ Len(u) = m + 1
      /\ \A i \in 1..m : u[i] = r[i]
      /\ u[m + 1] = e
  BY <1>1, <1>2, AppendProperties
<1>4. \A k \in 1..m : r[k] \in InChannels
  BY <1>2 DEF Carries
<1>5. \A k \in 1..(m + 1) : k \in 1..m \/ k = m + 1
  OBVIOUS
<1>6. /\ \A k \in 1..(m + 1) : u[k] \in InChannels \union {e}
      /\ \A k \in 1..(m + 1) : u[k] \in {e} => k = m + 1
  BY <1>3, <1>4, <1>5
<1>7. e \in ToSet(u)
  <2>1. DOMAIN u = 1..(m + 1) /\ m + 1 \in 1..(m + 1)
    BY <1>3, LenProperties
  <2> QED BY <1>3, <2>1 DEF ToSet
<1>8. Carries(u, {e})
  BY <1>3, <1>6, <1>7 DEF Carries
<1> QED BY <1>1, <1>3, <1>8

LEMMA NothingCarried ==
  << >> \in Seq(Event) /\ Carries(<< >>, {})
BY EmptySeq DEF Carries, ToSet

(* An event the window keeps in its place, among what it sends.            *)
LEMMA CarriedIsRetold ==
  ASSUME NEW r \in Seq(Event), NEW x, NEW e, NEW a \in Nat, NEW b \in Nat, a <= b,
         Carries(r, {x}),
         (e.pos \in WindowNode /\ x.id = e.id) \/ (a <= x.id /\ x.id < b)
  PROVE  Retold(r, e, a, b)
<1>1. \A c \in Channel : c \notin WindowNode
  BY GraphAssumption DEF WindowNode
<1>2. \A y \in InChannels : y.pos \notin WindowNode
  BY <1>1 DEF InChannels
<1>3. \A k \in 1..Len(r) : r[k].pos \in WindowNode => r[k] = x
  BY <1>2 DEF Carries
<1> QED BY <1>3 DEF Carries, Retold

LEMMA AppendSet ==
  ASSUME NEW S, NEW s \in Seq(S), NEW x \in S
  PROVE  /\ Append(s, x) \in Seq(S)
         /\ ToSet(Append(s, x)) = ToSet(s) \union {x}
         /\ IsInjective(s) /\ x \notin ToSet(s) => IsInjective(Append(s, x))
<1>1. PICK u : u = Append(s, x)
  OBVIOUS
<1>2. /\ u \in Seq(S) /\ Len(u) = Len(s) + 1 /\ Len(s) \in Nat
      /\ \A i \in 1..Len(s) : u[i] = s[i]
      /\ u[Len(s) + 1] = x
  BY <1>1, AppendProperties, LenProperties
<1>3. /\ DOMAIN s = 1..Len(s) /\ DOMAIN u = 1..(Len(s) + 1)
      /\ \A i \in 1..(Len(s) + 1) : i \in 1..Len(s) \/ i = Len(s) + 1
      /\ \A i \in 1..Len(s) : i \in 1..(Len(s) + 1)
      /\ Len(s) + 1 \in 1..(Len(s) + 1)
  BY <1>2, LenProperties
<1>4. ToSet(u) = ToSet(s) \union {x}
  <2>1. ToSet(u) \subseteq ToSet(s) \union {x}
    BY <1>2, <1>3 DEF ToSet
  <2>2. ToSet(s) \subseteq ToSet(u) /\ x \in ToSet(u)
    BY <1>2, <1>3 DEF ToSet
  <2> QED BY <2>1, <2>2
<1>5. ASSUME IsInjective(s), x \notin ToSet(s),
             NEW i \in DOMAIN u, NEW j \in DOMAIN u, u[i] = u[j]
      PROVE  i = j
  <2>1. \A k \in 1..Len(s) : s[k] # x
    BY <1>3, <1>5 DEF ToSet
  <2> QED BY <1>2, <1>3, <1>5, <2>1 DEF IsInjective
<1> QED BY <1>1, <1>2, <1>4, <1>5 DEF IsInjective

(* The events that leave a buffer and the ones that stay.                  *)
LEMMA Halves ==
  ASSUME NEW S, NEW s \in Seq(S), NEW k \in 0..Len(s)
  PROVE  LET head == SubSeq(s, 1, k)
             tail == SubSeq(s, k + 1, Len(s))
         IN  /\ tail \in Seq(S) /\ Len(tail) = Len(s) - k
             /\ ToSet(tail) \subseteq ToSet(s)
             /\ IsInjective(s) => /\ IsInjective(tail)
                                  /\ ToSet(s) \ ToSet(head) = ToSet(tail)
<1>n. Len(s) \in Nat /\ DOMAIN s = 1..Len(s) /\ \A i \in 1..Len(s) : s[i] \in S
  BY LenProperties, ElementOfSeq
<1>1. PICK h : h = SubSeq(s, 1, k)
  OBVIOUS
<1>2. PICK t : t = SubSeq(s, k + 1, Len(s))
  OBVIOUS
<1>3. /\ h \in Seq(S) /\ Len(h) = k /\ \A i \in 1..k : h[i] = s[i]
  <2>1. 1 \in Int /\ k \in Int /\ \A i \in 1..k : s[i] \in S
    BY <1>n
  <2>2. /\ h \in Seq(S) /\ Len(h) = IF 1 <= k THEN k - 1 + 1 ELSE 0
        /\ \A i \in 1 .. k - 1 + 1 : h[i] = s[1 + i - 1]
    BY <1>1, <2>1, SubSeqProperties
  <2> QED BY <1>n, <2>2
<1>4. /\ t \in Seq(S) /\ Len(t) = Len(s) - k
      /\ \A i \in 1..(Len(s) - k) : t[i] = s[i + k]
  <2>1. /\ k + 1 \in Int /\ Len(s) \in Int
        /\ \A i \in (k + 1)..Len(s) : s[i] \in S
    BY <1>n
  <2>2. /\ t \in Seq(S)
        /\ Len(t) = IF k + 1 <= Len(s) THEN Len(s) - (k + 1) + 1 ELSE 0
        /\ \A i \in 1 .. Len(s) - (k + 1) + 1 : t[i] = s[(k + 1) + i - 1]
    BY <1>2, <2>1, SubSeqProperties
  <2>3. PICK n \in Nat : n = Len(s)
    BY <1>n
  <2>4. k \in 0..n
    BY <2>3
  <2>5. n - (k + 1) + 1 = n - k
    BY <2>4
  <2>6. (IF k + 1 <= n THEN n - (k + 1) + 1 ELSE 0) = n - k
    BY <2>4
  <2>7. \A i \in 1..(n - k) : (k + 1) + i - 1 = i + k
    BY <2>4
  <2> QED BY <2>2, <2>3, <2>5, <2>6, <2>7
<1>5. DOMAIN h = 1..k /\ DOMAIN t = 1..(Len(s) - k)
  BY <1>3, <1>4, LenProperties
<1>6. \A i \in 1..(Len(s) - k) : i + k \in 1..Len(s) /\ i + k \notin 1..k
  BY <1>n
<1>7. ToSet(t) \subseteq ToSet(s)
  BY <1>n, <1>4, <1>5, <1>6 DEF ToSet
<1>8. ASSUME IsInjective(s) PROVE IsInjective(t) /\ ToSet(s) \ ToSet(h) = ToSet(t)
  <2>1. ASSUME NEW i \in DOMAIN t, NEW j \in DOMAIN t, t[i] = t[j] PROVE i = j
    <3>1. s[i + k] = s[j + k]
      BY <1>4, <1>5, <2>1
    <3>2. i + k = j + k
      BY <1>n, <1>5, <1>6, <1>8, <3>1 DEF IsInjective
    <3> QED BY <1>n, <1>5, <3>2
  <2>2. ASSUME NEW x \in ToSet(t) PROVE x \in ToSet(s) \ ToSet(h)
    <3>1. PICK i \in 1..(Len(s) - k) : x = s[i + k]
      BY <1>4, <1>5 DEF ToSet
    <3>2. ASSUME x \in ToSet(h) PROVE FALSE
      <4>1. PICK j \in 1..k : x = s[j]
        BY <1>3, <1>5, <3>2 DEF ToSet
      <4>2. j \in 1..Len(s)
        BY <1>n
      <4>3. j = i + k
        BY <1>n, <1>6, <1>8, <3>1, <4>1, <4>2 DEF IsInjective
      <4> QED BY <1>6, <4>3
    <3> QED BY <1>7, <3>2
  <2>3. ASSUME NEW x \in ToSet(s) \ ToSet(h) PROVE x \in ToSet(t)
    <3>1. PICK i \in 1..Len(s) : x = s[i]
      BY <1>n DEF ToSet
    <3>2. i \notin 1..k
      BY <1>3, <1>5, <2>3, <3>1 DEF ToSet
    <3>3. PICK j : j = i - k
      OBVIOUS
    <3>4. j \in 1..(Len(s) - k) /\ j + k = i
      BY <1>n, <3>2, <3>3
    <3> QED BY <1>4, <1>5, <3>1, <3>4 DEF ToSet
  <2> QED BY <2>1, <2>2, <2>3 DEF IsInjective
<1> QED BY <1>1, <1>2, <1>4, <1>7, <1>8

(* All events of a window sent again.                                      *)
LEMMA SentAgain ==
  ASSUME NEW w \in WindowNode, NEW p, NEW s \in Seq(Event),
         ToSet(s) \subseteq EventsAt(w)
  PROVE  FlattenSeq([k \in DOMAIN s |-> Copies(s[k], p)]) \in Seq(InChannels)
<1>1. Len(s) \in Nat /\ DOMAIN s = 1..Len(s)
  BY LenProperties
<1>2. \A k \in 1..Len(s) : s[k] \in EventsAt(w)
  BY <1>1 DEF ToSet
<1>3. w \in Node
  BY DEF WindowNode
<1>4. \A k \in 1..Len(s) : Copies(s[k], p) \in Seq(InChannels)
  BY <1>2, <1>3, CopiesAre DEF EventsAt
<1>5. [k \in 1..Len(s) |-> Copies(s[k], p)] \in Seq(Seq(InChannels))
  BY <1>1, <1>4, IsASeq
<1> QED BY <1>1, <1>5, FlattenTyped

LEMMA TerminatorTyped ==
  ASSUME NEW w \in WindowNode, NEW e \in EventsAt(w), NEW p
  PROVE  Terminator(w, e, p) \in Seq(InChannels)
<1>1. CASE Options[w].terminator
  <2>1. PICK f : f = [e EXCEPT !.code = "end", !.payload = 0]
    OBVIOUS
  <2>2. "end" \in Code /\ 0 \in Int64
    BY <1>1, WindowAssumption, HalfAssumption DEF Int64
  <2>3. f \in Event /\ f.pos \in Node
    BY <2>1, <2>2 DEF EventsAt, Event, WindowNode
  <2> QED BY <1>1, <2>1, <2>3, CopiesAre DEF Terminator
<1>2. CASE ~ Options[w].terminator
  BY <1>2, EmptySeq DEF Terminator
<1> QED BY <1>1, <1>2

LEMMA TriggerKeeps ==
  ASSUME NEW w \in WindowNode, NEW e \in EventsAt(w), NEW p,
         NEW B \in SUBSET EventsAt(w), NEW M, NEW strict,
         NEW st \in Kept(B, M, strict)
  PROVE  /\ Trigger(w, e, p, st) \in Kept(B, M, strict)
         /\ \A O : O \intersect InChannels = {} /\ st \in Sending(O)
                  => Trigger(w, e, p, st) \in Sending(O)
         /\ ToSet(Trigger(w, e, p, st).buffer) \subseteq ToSet(st.buffer)
         /\ Len(Trigger(w, e, p, st).buffer)
              <= IF Len(st.buffer) = 0 THEN 0 ELSE Len(st.buffer) - 1
<1>1. PICK o : o = Options[w]
  OBVIOUS
<1>2. o.jumping \in BOOLEAN /\ o.additionalStep \in Nat
  BY <1>1, WindowAssumption
<1>3. PICK length : length = Len(st.buffer)
  OBVIOUS
<1>4. /\ st \in WindowState /\ st.buffer \in Seq(Event) /\ st.sent \in Seq(Event)
      /\ st.skip \in Nat /\ ToSet(st.buffer) \subseteq B
      /\ length \in Nat
  BY <1>3, LenProperties DEF Kept, WindowState
<1>5. PICK wanted : wanted = (IF o.jumping THEN length ELSE 1) + o.additionalStep
  OBVIOUS
<1>6. PICK step : step = IF wanted < 1 THEN 1 ELSE wanted
  OBVIOUS
<1>7. PICK popped : popped = IF step < length THEN step ELSE length
  OBVIOUS
<1>8. /\ step \in Nat /\ popped \in 0..length /\ step - popped \in Nat
      /\ length # 0 => popped >= 1
  BY <1>2, <1>4, <1>5, <1>6, <1>7
<1>9. PICK kept : kept = SubSeq(st.buffer, popped + 1, length)
  OBVIOUS
<1>10. PICK gone : gone = SubSeq(st.buffer, 1, popped)
  OBVIOUS
<1>11. /\ kept \in Seq(Event) /\ Len(kept) = length - popped
       /\ ToSet(kept) \subseteq ToSet(st.buffer)
       /\ IsInjective(st.buffer) => /\ IsInjective(kept)
                                    /\ ToSet(st.buffer) \ ToSet(gone) = ToSet(kept)
  BY <1>3, <1>4, <1>8, <1>9, <1>10, Halves
<1>12. PICK last : last = Terminator(w, e, p)
  OBVIOUS
<1>13. PICK again : again = FlattenSeq([k \in DOMAIN kept |-> Copies(kept[k], p)])
  OBVIOUS
<1>14. PICK x : x = (st.sent \o last) \o again
  OBVIOUS
<1>15. /\ last \in Seq(InChannels) /\ again \in Seq(InChannels)
       /\ x \in Seq(Event)
  <2>1. last \in Seq(InChannels)
    BY <1>12, TerminatorTyped
  <2>2. again \in Seq(InChannels)
    BY <1>4, <1>11, <1>13, SentAgain
  <2>3. InChannels \subseteq Event
    BY DEF InChannels
  <2>4. last \in Seq(Event) /\ again \in Seq(Event)
    BY <2>1, <2>2, <2>3, SeqMonotonic
  <2>5. st.sent \o last \in Seq(Event)
    BY <1>4, <2>4, ConcatProperties
  <2> QED BY <1>14, <2>1, <2>2, <2>4, <2>5, ConcatProperties
<1>o. ASSUME NEW O, O \intersect InChannels = {}, Carries(st.sent, O)
      PROVE  Carries(x, O)
  <2>1. PICK y : y = st.sent \o last
    OBVIOUS
  <2>2. y \in Seq(Event) /\ Carries(y, O)
    BY <1>4, <1>15, <1>o, <2>1, CarriesOn
  <2> QED BY <1>14, <1>15, <1>o, <2>1, <2>2, CarriesOn
<1>16. PICK t : t = Trigger(w, e, p, st)
  OBVIOUS
<1>17. t = [buffer |-> kept, members |-> st.members \ ToSet(gone),
            skip |-> st.skip + (step - popped), sent |-> x]
  BY <1>1, <1>3, <1>5, <1>6, <1>7, <1>9, <1>10, <1>12, <1>13, <1>14, <1>16
     DEF Trigger, State
<1>18. t \in WindowState
  BY <1>4, <1>8, <1>11, <1>15, <1>17 DEF WindowState
<1>19. t \in Kept(B, M, strict)
  <2>1. ToSet(t.buffer) \subseteq B
    BY <1>4, <1>11, <1>17
  <2>2. t.members \subseteq M
    BY <1>17 DEF Kept
  <2>3. strict => IsInjective(t.buffer) /\ ToSet(t.buffer) \subseteq t.members
    <3>1. strict => IsInjective(st.buffer) /\ ToSet(st.buffer) \subseteq st.members
      BY DEF Kept
    <3> QED BY <1>11, <1>17, <3>1
  <2> QED BY <1>18, <2>1, <2>2, <2>3 DEF Kept
<1>20. Len(t.buffer) <= IF length = 0 THEN 0 ELSE length - 1
  BY <1>4, <1>8, <1>11, <1>17
<1>21. ASSUME NEW O, O \intersect InChannels = {}, st \in Sending(O)
       PROVE  t \in Sending(O)
  BY <1>17, <1>18, <1>21, <1>o DEF Sending
<1>22. ToSet(t.buffer) \subseteq ToSet(st.buffer)
  BY <1>11, <1>17
<1> QED BY <1>3, <1>16, <1>19, <1>20, <1>21, <1>22

(* A round of the loop in front, and of the loop at the end.               *)
EndsByTime(w, e, s) ==
  /\ Options[w].maxTime # Null
  /\ s.buffer # << >>
  /\ e.time > Head(s.buffer).time + Options[w].maxTime
EndsByLength(w, s) ==
  /\ Options[w].maxLength # Null
  /\ Len(s.buffer) >= Options[w].maxLength
Round(w, e, p, ends, s) == IF ends THEN Trigger(w, e, p, s) ELSE s

(* The states a loop goes through in n rounds, from st to a.               *)
RoundsByTime(w, e, p, K, st, n, a) ==
  \E c \in [0..n -> K] :
    /\ c[0] = st
    /\ \A k \in 1..n : c[k] = Round(w, e, p, EndsByTime(w, e, c[k - 1]), c[k - 1])
    /\ a = c[n]
RoundsByLength(w, e, p, K, st, n, a) ==
  \E c \in [0..n -> K] :
    /\ c[0] = st
    /\ \A k \in 1..n : c[k] = Round(w, e, p, EndsByLength(w, c[k - 1]), c[k - 1])
    /\ a = c[n]

(* Both loops make as many rounds as there are events in the buffer, and   *)
(* each round either leaves the state as it is or is a call of             *)
(* trigger_new_window.                                                     *)
LEMMA AfterTimeRounds ==
  ASSUME NEW w, NEW e, NEW p, NEW K, NEW st \in K, NEW n \in Nat,
         DOMAIN st.buffer = 1..n,
         \A s \in K : EndsByTime(w, e, s) => Trigger(w, e, p, s) \in K
  PROVE  /\ RoundsByTime(w, e, p, K, st, n, AfterTime(w, e, p, st))
         /\ AfterTime(w, e, p, st) \in K
<1> DEFINE G(s) == Round(w, e, p, EndsByTime(w, e, s), s)
           Is(g) == g = [s \in SUBSET (1..n) |->
                           IF s = {} THEN st ELSE G(g[s \ {Max(s)}])]
<1>1. \A s \in K : G(s) \in K
  BY DEF Round
<1>2. \E g : Is(g)
  <2> HIDE DEF G
  <2>1. PICK F : F = [k \in 1..n |-> [s \in K |-> G(s)]]
    OBVIOUS
  <2>2. Closed(F, n, K)
    BY <1>1, <2>1 DEF Closed
  <2>3. PICK f : IsTable(f, F, n, K, st)
    BY <2>2, FoldTable
  <2>4. ASSUME NEW s \in SUBSET (1..n)
        PROVE  f[s] = IF s = {} THEN st ELSE G(f[s \ {Max(s)}])
    <3>1. CASE s = {}
      BY <2>3, <3>1 DEF IsTable
    <3>2. CASE s # {}
      <4>1. Max(s) \in 1..n
        BY <3>2, LargestOf
      <4>2. f[s \ {Max(s)}] \in K
        BY <2>3 DEF IsTable
      <4>3. f[s] = F[Max(s)][f[s \ {Max(s)}]]
        BY <2>3, <3>2 DEF IsTable
      <4> QED BY <2>1, <3>2, <4>1, <4>2, <4>3
    <3> QED BY <3>1, <3>2
  <2>5. f = [s \in SUBSET (1..n) |-> f[s]]
    BY <2>3 DEF IsTable
  <2>6. Is(f)
    BY <2>4, <2>5
  <2> QED BY <2>6
<1>3. PICK it : it = CHOOSE g : g = [s \in SUBSET (1..n) |->
                           IF s = {} THEN st
                           ELSE IF EndsByTime(w, e, g[s \ {Max(s)}])
                                THEN Trigger(w, e, p, g[s \ {Max(s)}])
                                ELSE g[s \ {Max(s)}]]
  OBVIOUS
<1>4. Is(it)
  BY <1>2, <1>3 DEF Round
<1>5. AfterTime(w, e, p, st) = it[1..n]
  BY <1>3 DEF AfterTime, FoldLeft, MapThenFoldSet, EndsByTime
<1> HIDE DEF G
<1>6. \A s \in SUBSET (1..n) : it[s] = IF s = {} THEN st ELSE G(it[s \ {Max(s)}])
  BY ONLY <1>4
<1>7. PICK c : c = [k \in 0..n |-> it[1..k]]
  OBVIOUS
<1>8. c[0] = st
  <2>1. 1..0 = {} /\ {} \in SUBSET (1..n) /\ 0 \in 0..n
    OBVIOUS
  <2>2. it[{}] = st
    BY <1>6, <2>1
  <2>3. c[0] = it[1..0]
    BY <1>7, <2>1
  <2> QED BY <2>1, <2>2, <2>3
<1>9. ASSUME NEW k \in 1..n PROVE c[k] = G(c[k - 1])
  <2>1. k \in Nat \ {0} /\ 1..k \in SUBSET (1..n) /\ k \in 0..n /\ k - 1 \in 0..n
    OBVIOUS
  <2>2. 1..k # {} /\ Max(1..k) = k /\ (1..k) \ {k} = 1..(k - 1)
    BY <2>1, InitialPart
  <2>3. it[1..k] = G(it[(1..k) \ {Max(1..k)}])
    BY <1>6, <2>1, <2>2
  <2> QED BY <1>7, <2>1, <2>2, <2>3
<1>10. \A k \in 0..n : c[k] \in K
  <2>1. PICK Q : Q = [k \in 0..n |-> K]
    OBVIOUS
  <2>2. \A k \in 1..n : k - 1 \in 0..n /\ k \in 0..n
    OBVIOUS
  <2>3. c[0] \in Q[0] /\ \A k \in 1..n : c[k - 1] \in Q[k - 1] => c[k] \in Q[k]
    BY <1>1, <1>8, <1>9, <2>1, <2>2
  <2>4. \A k \in 0..n : c[k] \in Q[k]
    BY <2>3, Chain
  <2> QED BY <2>1, <2>4
<1>11. c \in [0..n -> K]
  BY <1>7, <1>10
<1>12. c[n] = it[1..n]
  BY <1>7
<1>13. AfterTime(w, e, p, st) \in K
  <2>1. n \in 0..n
    OBVIOUS
  <2> QED BY <1>5, <1>10, <1>12, <2>1
<1> QED BY <1>5, <1>8, <1>9, <1>11, <1>12, <1>13 DEF G, RoundsByTime

LEMMA AfterLengthRounds ==
  ASSUME NEW w, NEW e, NEW p, NEW K, NEW st \in K, NEW n \in Nat,
         DOMAIN st.buffer = 1..n,
         \A s \in K : EndsByLength(w, s) => Trigger(w, e, p, s) \in K
  PROVE  /\ RoundsByLength(w, e, p, K, st, n, AfterLength(w, e, p, st))
         /\ AfterLength(w, e, p, st) \in K
<1> DEFINE G(s) == Round(w, e, p, EndsByLength(w, s), s)
           Is(g) == g = [s \in SUBSET (1..n) |->
                           IF s = {} THEN st ELSE G(g[s \ {Max(s)}])]
<1>1. \A s \in K : G(s) \in K
  BY DEF Round
<1>2. \E g : Is(g)
  <2> HIDE DEF G
  <2>1. PICK F : F = [k \in 1..n |-> [s \in K |-> G(s)]]
    OBVIOUS
  <2>2. Closed(F, n, K)
    BY <1>1, <2>1 DEF Closed
  <2>3. PICK f : IsTable(f, F, n, K, st)
    BY <2>2, FoldTable
  <2>4. ASSUME NEW s \in SUBSET (1..n)
        PROVE  f[s] = IF s = {} THEN st ELSE G(f[s \ {Max(s)}])
    <3>1. CASE s = {}
      BY <2>3, <3>1 DEF IsTable
    <3>2. CASE s # {}
      <4>1. Max(s) \in 1..n
        BY <3>2, LargestOf
      <4>2. f[s \ {Max(s)}] \in K
        BY <2>3 DEF IsTable
      <4>3. f[s] = F[Max(s)][f[s \ {Max(s)}]]
        BY <2>3, <3>2 DEF IsTable
      <4> QED BY <2>1, <3>2, <4>1, <4>2, <4>3
    <3> QED BY <3>1, <3>2
  <2>5. f = [s \in SUBSET (1..n) |-> f[s]]
    BY <2>3 DEF IsTable
  <2>6. Is(f)
    BY <2>4, <2>5
  <2> QED BY <2>6
<1>3. PICK it : it = CHOOSE g : g = [s \in SUBSET (1..n) |->
                           IF s = {} THEN st
                           ELSE IF EndsByLength(w, g[s \ {Max(s)}])
                                THEN Trigger(w, e, p, g[s \ {Max(s)}])
                                ELSE g[s \ {Max(s)}]]
  OBVIOUS
<1>4. Is(it)
  BY <1>2, <1>3 DEF Round
<1>5. AfterLength(w, e, p, st) = it[1..n]
  BY <1>3 DEF AfterLength, FoldLeft, MapThenFoldSet, EndsByLength
<1> HIDE DEF G
<1>6. \A s \in SUBSET (1..n) : it[s] = IF s = {} THEN st ELSE G(it[s \ {Max(s)}])
  BY ONLY <1>4
<1>7. PICK c : c = [k \in 0..n |-> it[1..k]]
  OBVIOUS
<1>8. c[0] = st
  <2>1. 1..0 = {} /\ {} \in SUBSET (1..n) /\ 0 \in 0..n
    OBVIOUS
  <2>2. it[{}] = st
    BY <1>6, <2>1
  <2>3. c[0] = it[1..0]
    BY <1>7, <2>1
  <2> QED BY <2>1, <2>2, <2>3
<1>9. ASSUME NEW k \in 1..n PROVE c[k] = G(c[k - 1])
  <2>1. k \in Nat \ {0} /\ 1..k \in SUBSET (1..n) /\ k \in 0..n /\ k - 1 \in 0..n
    OBVIOUS
  <2>2. 1..k # {} /\ Max(1..k) = k /\ (1..k) \ {k} = 1..(k - 1)
    BY <2>1, InitialPart
  <2>3. it[1..k] = G(it[(1..k) \ {Max(1..k)}])
    BY <1>6, <2>1, <2>2
  <2> QED BY <1>7, <2>1, <2>2, <2>3
<1>10. \A k \in 0..n : c[k] \in K
  <2>1. PICK Q : Q = [k \in 0..n |-> K]
    OBVIOUS
  <2>2. \A k \in 1..n : k - 1 \in 0..n /\ k \in 0..n
    OBVIOUS
  <2>3. c[0] \in Q[0] /\ \A k \in 1..n : c[k - 1] \in Q[k - 1] => c[k] \in Q[k]
    BY <1>1, <1>8, <1>9, <2>1, <2>2
  <2>4. \A k \in 0..n : c[k] \in Q[k]
    BY <2>3, Chain
  <2> QED BY <2>1, <2>4
<1>11. c \in [0..n -> K]
  BY <1>7, <1>10
<1>12. c[n] = it[1..n]
  BY <1>7
<1>13. AfterLength(w, e, p, st) \in K
  <2>1. n \in 0..n
    OBVIOUS
  <2> QED BY <1>5, <1>10, <1>12, <2>1
<1> QED BY <1>5, <1>8, <1>9, <1>11, <1>12, <1>13 DEF G, RoundsByLength

LEMMA LoopsKeep ==
  ASSUME NEW w \in WindowNode, NEW e \in EventsAt(w), NEW p,
         NEW B \in SUBSET EventsAt(w), NEW M, NEW strict,
         NEW O, O \intersect InChannels = {},
         NEW st \in Kept(B, M, strict), st \in Sending(O)
  PROVE  /\ AfterTime(w, e, p, st) \in Kept(B, M, strict)
         /\ AfterTime(w, e, p, st) \in Sending(O)
         /\ AfterLength(w, e, p, st) \in Kept(B, M, strict)
         /\ AfterLength(w, e, p, st) \in Sending(O)
<1>0. PICK K : K = Kept(B, M, strict) \intersect Sending(O)
  OBVIOUS
<1>1. st \in K /\ \A s \in K : Trigger(w, e, p, s) \in K
  BY <1>0, TriggerKeeps
<1>2. st.buffer \in Seq(Event)
  BY DEF Kept, WindowState
<1>3. PICK n \in Nat : DOMAIN st.buffer = 1..n
  BY <1>2, LenProperties
<1>4. AfterTime(w, e, p, st) \in K
  BY <1>1, <1>3, AfterTimeRounds
<1>5. AfterLength(w, e, p, st) \in K
  BY <1>1, <1>3, AfterLengthRounds
<1> QED BY <1>0, <1>4, <1>5

(* The number of rounds is enough: where the model's loops stop, those of  *)
(* the program do, because no window ends by its time or its length any    *)
(* more.  Only a max_length of 0 is reached by an empty buffer as well.    *)
THEOREM WindowLoopsEnd ==
  ASSUME NEW w \in WindowNode, NEW e \in EventsAt(w), NEW p,
         NEW st \in WindowState, ToSet(st.buffer) \subseteq EventsAt(w)
  PROVE  /\ ~ EndsByTime(w, e, AfterTime(w, e, p, st))
         /\ ~ LoopsForever(w) => ~ EndsByLength(w, AfterLength(w, e, p, st))
<1>1. PICK K : K = Kept(EventsAt(w), st.members, FALSE)
  OBVIOUS
<1>0. st \in Kept(EventsAt(w), st.members, FALSE)
  BY DEF Kept
<1>2. st \in K /\ \A s \in K : Trigger(w, e, p, s) \in K
  BY <1>0, <1>1, TriggerKeeps
<1>3. PICK n \in Nat : DOMAIN st.buffer = 1..n /\ n = Len(st.buffer)
  BY LenProperties DEF WindowState
<1>4. /\ 0 \in 0..n /\ n \in 0..n
      /\ \A k \in 1..n : k - 1 \in 0..n /\ k \in 0..n
  OBVIOUS
<1>5. ASSUME NEW s \in K
      PROVE  /\ Len(s.buffer) \in Nat
             /\ Len(s.buffer) = 0 => s.buffer = << >>
             /\ Len(Trigger(w, e, p, s).buffer)
                  <= IF Len(s.buffer) = 0 THEN 0 ELSE Len(s.buffer) - 1
             /\ Len(Trigger(w, e, p, s).buffer) \in Nat
  <2>1. \A x \in K : x.buffer \in Seq(Event)
    BY <1>1 DEF Kept, WindowState
  <2>2. Trigger(w, e, p, s) \in K
    BY <1>2
  <2>3. s \in Kept(EventsAt(w), st.members, FALSE)
    BY <1>1
  <2>4. Len(Trigger(w, e, p, s).buffer)
          <= IF Len(s.buffer) = 0 THEN 0 ELSE Len(s.buffer) - 1
    BY <2>3, TriggerKeeps
  <2> QED BY <2>1, <2>2, <2>4, LenProperties, EmptySeq
<1>6. ~ EndsByTime(w, e, AfterTime(w, e, p, st))
  <2>0. PICK a : a = AfterTime(w, e, p, st)
    OBVIOUS
  <2>r. RoundsByTime(w, e, p, K, st, n, a)
    BY <1>2, <1>3, <2>0, AfterTimeRounds
  <2>1. PICK c \in [0..n -> K] :
          /\ c[0] = st
          /\ \A k \in 1..n :
               c[k] = Round(w, e, p, EndsByTime(w, e, c[k - 1]), c[k - 1])
          /\ a = c[n]
    BY <2>r DEF RoundsByTime
  <2>2. PICK Q : Q = [k \in 0..n |->
                        {s \in K : Len(s.buffer) <= n - k \/ ~ EndsByTime(w, e, s)}]
    OBVIOUS
  <2>3. c[0] \in Q[0]
    <3>1. Len(c[0].buffer) <= n - 0
      BY <1>3, <2>1
    <3> QED BY <1>2, <1>4, <2>1, <2>2, <3>1
  <2>4. ASSUME NEW k \in 1..n, c[k - 1] \in Q[k - 1] PROVE c[k] \in Q[k]
    <3>1. PICK s \in K : s = c[k - 1]
      BY <1>4, <2>1
    <3>2. Len(s.buffer) <= n - (k - 1) \/ ~ EndsByTime(w, e, s)
      BY <1>4, <2>2, <2>4, <3>1
    <3>3. CASE EndsByTime(w, e, s)
      <4>1. c[k] = Trigger(w, e, p, s)
        BY <2>1, <3>1, <3>3 DEF Round
      <4>2. Len(c[k].buffer) <= n - k
        BY <1>5, <3>2, <3>3, <4>1
      <4> QED BY <1>4, <2>1, <2>2, <4>2
    <3>4. CASE ~ EndsByTime(w, e, s)
      <4>1. c[k] = s
        BY <2>1, <3>1, <3>4 DEF Round
      <4> QED BY <1>4, <2>1, <2>2, <3>4, <4>1
    <3> QED BY <3>3, <3>4
  <2>5. \A k \in 0..n : c[k] \in Q[k]
    BY <2>3, <2>4, Chain
  <2>6. PICK s \in K : s = c[n] /\ (Len(s.buffer) <= n - n \/ ~ EndsByTime(w, e, s))
    BY <1>4, <2>2, <2>5
  <2>7. Len(s.buffer) <= n - n => s.buffer = << >>
    BY <1>5
  <2> QED BY <2>0, <2>1, <2>6, <2>7 DEF EndsByTime
<1>7. ASSUME ~ LoopsForever(w)
      PROVE  ~ EndsByLength(w, AfterLength(w, e, p, st))
  <2>0. PICK a : a = AfterLength(w, e, p, st)
    OBVIOUS
  <2>r. RoundsByLength(w, e, p, K, st, n, a)
    BY <1>2, <1>3, <2>0, AfterLengthRounds
  <2>1. PICK c \in [0..n -> K] :
          /\ c[0] = st
          /\ \A k \in 1..n :
               c[k] = Round(w, e, p, EndsByLength(w, c[k - 1]), c[k - 1])
          /\ a = c[n]
    BY <2>r DEF RoundsByLength
  <2>2. PICK Q : Q = [k \in 0..n |->
                        {s \in K : Len(s.buffer) <= n - k \/ ~ EndsByLength(w, s)}]
    OBVIOUS
  <2>3. c[0] \in Q[0]
    <3>1. Len(c[0].buffer) <= n - 0
      BY <1>3, <2>1
    <3> QED BY <1>2, <1>4, <2>1, <2>2, <3>1
  <2>4. ASSUME NEW k \in 1..n, c[k - 1] \in Q[k - 1] PROVE c[k] \in Q[k]
    <3>1. PICK s \in K : s = c[k - 1]
      BY <1>4, <2>1
    <3>2. Len(s.buffer) <= n - (k - 1) \/ ~ EndsByLength(w, s)
      BY <1>4, <2>2, <2>4, <3>1
    <3>3. CASE EndsByLength(w, s)
      <4>1. c[k] = Trigger(w, e, p, s)
        BY <2>1, <3>1, <3>3 DEF Round
      <4>2. Len(c[k].buffer) <= n - k
        BY <1>5, <3>2, <3>3, <4>1
      <4> QED BY <1>4, <2>1, <2>2, <4>2
    <3>4. CASE ~ EndsByLength(w, s)
      <4>1. c[k] = s
        BY <2>1, <3>1, <3>4 DEF Round
      <4> QED BY <1>4, <2>1, <2>2, <3>4, <4>1
    <3> QED BY <3>3, <3>4
  <2>5. \A k \in 0..n : c[k] \in Q[k]
    BY <2>3, <2>4, Chain
  <2>6. PICK s \in K : s = c[n] /\ (Len(s.buffer) <= n - n \/ ~ EndsByLength(w, s))
    BY <1>4, <2>2, <2>5
  <2>7. Options[w].maxLength = Null \/ Options[w].maxLength \in Nat \ {0}
    BY <1>7, WindowAssumption DEF LoopsForever
  <2>8. ASSUME Len(s.buffer) <= n - n, Options[w].maxLength \in Nat \ {0}
        PROVE  ~ (Len(s.buffer) >= Options[w].maxLength)
    BY <1>5, <2>8
  <2> QED BY <2>0, <2>1, <2>6, <2>7, <2>8 DEF EndsByLength
<1> QED BY <1>6, <1>7

(* If windows end because of e's time, all that stays in the buffer has    *)
(* stayed when the first of them ended.                                    *)
LEMMA FirstEndedKeeps ==
  ASSUME NEW w \in WindowNode, NEW e \in EventsAt(w), NEW p,
         NEW st \in WindowState, ToSet(st.buffer) \subseteq EventsAt(w),
         AfterTime(w, e, p, st).buffer # st.buffer
  PROVE  ToSet(AfterTime(w, e, p, st).buffer) \subseteq ToSet(Trigger(w, e, p, st).buffer)
<1>1. PICK K : K = Kept(EventsAt(w), st.members, FALSE)
  OBVIOUS
<1>2. st \in Kept(EventsAt(w), st.members, FALSE)
  BY DEF Kept
<1>3. /\ st \in K
      /\ \A s \in K : /\ Trigger(w, e, p, s) \in K
                      /\ ToSet(Trigger(w, e, p, s).buffer) \subseteq ToSet(s.buffer)
  BY <1>1, <1>2, TriggerKeeps
<1>4. PICK n \in Nat : DOMAIN st.buffer = 1..n /\ n = Len(st.buffer)
  BY LenProperties DEF WindowState
<1>5. PICK a : a = AfterTime(w, e, p, st)
  OBVIOUS
<1>6. RoundsByTime(w, e, p, K, st, n, a)
  BY <1>3, <1>4, <1>5, AfterTimeRounds
<1>7. PICK c \in [0..n -> K] :
        /\ c[0] = st
        /\ \A k \in 1..n : c[k] = Round(w, e, p, EndsByTime(w, e, c[k - 1]), c[k - 1])
        /\ a = c[n]
  BY <1>6 DEF RoundsByTime
<1>8. PICK first : first = Trigger(w, e, p, st)
  OBVIOUS
<1>9. n \in 0..n /\ \A k \in 1..n : k - 1 \in 0..n /\ k \in 0..n
  OBVIOUS
<1>10. CASE EndsByTime(w, e, st)
  <2>1. n # 0
    <3>1. st.buffer \in Seq(Event) /\ st.buffer # << >>
      BY <1>10 DEF EndsByTime, WindowState
    <3> QED BY <1>4, <3>1, EmptySeq
  <2>2. PICK Q : Q = [k \in 0..n |->
                        IF k = 0 THEN {st}
                        ELSE {s \in K : ToSet(s.buffer) \subseteq ToSet(first.buffer)}]
    OBVIOUS
  <2>3. ASSUME NEW k \in 1..n, c[k - 1] \in Q[k - 1] PROVE c[k] \in Q[k]
    <3>0. Q[k] = {s \in K : ToSet(s.buffer) \subseteq ToSet(first.buffer)}
      BY <2>2
    <3>1. CASE k = 1
      <4>1. c[k - 1] = st
        BY <1>7, <3>1
      <4>2. c[k] = first
        BY <1>7, <1>8, <1>10, <4>1 DEF Round
      <4> QED BY <1>3, <1>8, <3>0, <4>2
    <3>2. CASE k # 1
      <4>0. k - 1 # 0 /\ k - 1 \in 0..n
        BY <3>2
      <4>1. c[k - 1] \in K /\ ToSet(c[k - 1].buffer) \subseteq ToSet(first.buffer)
        BY <2>2, <2>3, <4>0
      <4>2. /\ c[k] \in K
            /\ c[k] = c[k - 1] \/ c[k] = Trigger(w, e, p, c[k - 1])
        BY <1>7, <1>9 DEF Round
      <4> QED BY <1>3, <3>0, <4>1, <4>2
    <3> QED BY <3>1, <3>2
  <2>4. c[0] \in Q[0]
    BY <1>7, <2>2
  <2>5. \A k \in 0..n : c[k] \in Q[k]
    BY <2>3, <2>4, Chain
  <2>6. ToSet(a.buffer) \subseteq ToSet(first.buffer)
    BY <1>7, <1>9, <2>1, <2>2, <2>5
  <2> QED BY <1>5, <1>8, <2>6
<1>11. CASE ~ EndsByTime(w, e, st)
  <2>1. PICK Q : Q = [k \in 0..n |-> {st}]
    OBVIOUS
  <2>2. c[0] \in Q[0]
    BY <1>7, <2>1
  <2>3. ASSUME NEW k \in 1..n, c[k - 1] \in Q[k - 1] PROVE c[k] \in Q[k]
    <3>1. c[k - 1] = st
      BY <1>9, <2>1, <2>3
    <3> QED BY <1>7, <1>9, <1>11, <2>1, <3>1 DEF Round
  <2>4. \A k \in 0..n : c[k] \in Q[k]
    BY <2>2, <2>3, Chain
  <2>5. a = st
    BY <1>7, <1>9, <2>1, <2>4
  <2> QED BY <1>5, <2>5
<1> QED BY <1>10, <1>11

(* What a call of a window's handler starts from and works on.             *)
LEMMA BeforeSkipIs ==
  ASSUME NEW m \in Machine, NEW strict, WindowSound(m, strict),
         NEW i \in 1..Len(m.events), NEW w \in WindowNode, m.events[i].pos = w
  PROVE  /\ m.events[i] \in EventsAt(w)
         /\ ToSet(m.buffer[w]) \subseteq ToSet(m.events) \intersect EventsAt(w)
         /\ m.members[w] \subseteq ToSet(m.events) \intersect EventsAt(w)
         /\ BeforeSkip(m, i) \in Kept(ToSet(m.buffer[w]), m.members[w], strict)
         /\ BeforeSkip(m, i) \in Sending({})
         /\ Departs(m, i) /\ ~ Astray(m, i)
              => m.events[i] \notin ToSet(BeforeSkip(m, i).buffer)
         /\ strict /\ ~ Rejects(m, i) => ~ Astray(m, i)
<1>0. PICK e : e = m.events[i]
  OBVIOUS
<1>1. e \in EventsAt(w)
  BY <1>0, EventAt DEF EventsAt
<1>2. /\ m.buffer[w] \in Seq(Event) /\ m.members[w] \subseteq Event
      /\ m.skip[w] \in Nat
  BY DEF Machine
<1>3. ToSet(m.buffer[w]) \subseteq Event
  <2>1. /\ DOMAIN m.buffer[w] = 1..Len(m.buffer[w])
        /\ \A k \in 1..Len(m.buffer[w]) : m.buffer[w][k] \in Event
    BY <1>2, LenProperties, ElementOfSeq
  <2> QED BY <2>1 DEF ToSet
<1>4. /\ ToSet(m.buffer[w]) \subseteq ToSet(m.events) \intersect EventsAt(w)
      /\ m.members[w] \subseteq ToSet(m.events) \intersect EventsAt(w)
  BY <1>2, <1>3 DEF WindowSound, EventsAt
<1>5. PICK st : st = State(m.buffer[w], m.members[w], m.skip[w], << >>)
  OBVIOUS
<1>6. /\ st \in Kept(ToSet(m.buffer[w]), m.members[w], strict)
      /\ st \in WindowState /\ st.buffer = m.buffer[w] /\ st \in Sending({})
  <2>1. /\ st \in WindowState /\ st.buffer = m.buffer[w] /\ st.members = m.members[w]
        /\ st.sent = << >>
    BY <1>2, <1>5, EmptySeq DEF State, WindowState
  <2>2. strict => IsInjective(st.buffer) /\ ToSet(st.buffer) \subseteq st.members
    BY <2>1 DEF WindowSound
  <2>3. st \in Kept(ToSet(m.buffer[w]), m.members[w], strict)
    BY <2>1, <2>2 DEF Kept
  <2>4. st \in Sending({})
    BY <2>1, NothingCarried DEF Sending
  <2> QED BY <2>1, <2>3, <2>4
<1>7. BeforeSkip(m, i) = AfterTime(w, e, m.predicates, st)
  BY <1>0, <1>5 DEF BeforeSkip
<1>8. ToSet(m.buffer[w]) \in SUBSET EventsAt(w)
  BY <1>4
<1>9. /\ BeforeSkip(m, i) \in Kept(ToSet(m.buffer[w]), m.members[w], strict)
      /\ BeforeSkip(m, i) \in Sending({})
  <2>1. PICK B : B = ToSet(m.buffer[w])
    OBVIOUS
  <2>2. PICK M : M = m.members[w]
    OBVIOUS
  <2>3. PICK O : O = {}
    OBVIOUS
  <2>4. PICK p : p = m.predicates
    OBVIOUS
  <2>5. /\ B \in SUBSET EventsAt(w) /\ O \intersect InChannels = {}
        /\ st \in Kept(B, M, strict) /\ st \in Sending(O)
    BY <1>6, <1>8, <2>1, <2>2, <2>3
  <2>6. /\ AfterTime(w, e, p, st) \in Kept(B, M, strict)
        /\ AfterTime(w, e, p, st) \in Sending(O)
    BY <1>1, <2>5, LoopsKeep
  <2> QED BY <1>7, <2>1, <2>2, <2>3, <2>4, <2>6
<1>10. PICK first : first = Trigger(w, e, m.predicates, st)
  OBVIOUS
<1>11. Astray(m, i) <=> Departs(m, i) /\ e \in ToSet(first.buffer)
  BY <1>0, <1>5, <1>10 DEF Astray
<1>12. ASSUME Departs(m, i), ~ Astray(m, i)
       PROVE  e \notin ToSet(BeforeSkip(m, i).buffer)
  <2>1. AfterTime(w, e, m.predicates, st).buffer # st.buffer
    BY <1>6, <1>7, <1>12 DEF Departs
  <2>2. ToSet(AfterTime(w, e, m.predicates, st).buffer) \subseteq ToSet(first.buffer)
    BY <1>1, <1>6, <1>8, <1>10, <2>1, FirstEndedKeeps
  <2> QED BY <1>7, <1>11, <1>12, <2>2
<1>13. ASSUME strict, ~ Rejects(m, i) PROVE ~ Astray(m, i)
  <2>1. ToSet(first.buffer) \subseteq ToSet(st.buffer)
    BY <1>1, <1>6, <1>8, <1>10, TriggerKeeps
  <2>2. ToSet(st.buffer) \subseteq m.members[w]
    BY <1>6, <1>13 DEF WindowSound
  <2>3. e \notin m.members[w]
    BY <1>0, <1>13 DEF Rejects
  <2> QED BY <1>11, <2>1, <2>2, <2>3
<1> QED BY <1>0, <1>1, <1>4, <1>9, <1>12, <1>13

(* The event that stays in place.                                          *)
LEMMA ResidentIs ==
  ASSUME NEW m \in Machine, NEW i \in 1..Len(m.events),
         NEW w \in WindowNode, m.events[i].pos = w
  PROVE  /\ Resident(m, i) \in EventsAt(w) /\ Resident(m, i) \notin InChannels
         /\ IsCopy(Resident(m, i), m.events[i])
         /\ Resident(m, i).code = m.events[i].code
         /\ Departs(m, i) => Resident(m, i).id = m.issued
         /\ ~ Departs(m, i) => Resident(m, i) = m.events[i]
<1>1. m.events[i] \in Event /\ m.issued \in Nat
  BY EventAt DEF Machine
<1>2. \A c \in Channel : c \notin WindowNode
  BY GraphAssumption DEF WindowNode
<1> QED BY <1>1, <1>2 DEF Resident, EventsAt, InChannels, Event, IsCopy

(* What it leaves: the event that stays in place is among what takes the   *)
(* place, so all that the buffer and the set hold stay in the list.        *)
LEMMA WindowLeftIs ==
  ASSUME NEW m \in Machine, NEW strict, WindowSound(m, strict),
         NEW i \in 1..Len(m.events), NEW w \in WindowNode, m.events[i].pos = w,
         NEW x, x = Resident(m, i),
         NEW B \in SUBSET EventsAt(w), NEW M \in SUBSET EventsAt(w),
         B \union M \subseteq ToSet(m.events) \union {x},
         Departs(m, i) => m.events[i] \notin B \union M,
         NEW now_strict, now_strict => strict,
         NEW st \in Kept(B, M, now_strict),
         NEW sent \in Seq(Event), Carries(sent, {x})
  PROVE  /\ WindowLeft(m, i, st, sent) \in Machine
         /\ WindowSound(WindowLeft(m, i, st, sent), now_strict)
<1>1. PICK s : s = Replaced(m.events, i, sent)
  OBVIOUS
<1>2. m.events \in Seq(Event) /\ m.issued \in Nat
  BY EventAt DEF Machine
<1>3. s \in Seq(Event)
  BY <1>1, <1>2, ReplacedIs
<1>r. /\ Departs(m, i) => x.id = m.issued
      /\ ~ Departs(m, i) => x = m.events[i]
  BY ResidentIs
<1>4. /\ ToSet(m.events) \ {m.events[i]} \subseteq ToSet(s)
      /\ x \in ToSet(s)
      /\ B \union M \subseteq ToSet(s)
  <2>1. ASSUME NEW y \in ToSet(m.events), y # m.events[i] PROVE y \in ToSet(s)
    BY <1>1, <1>2, <2>1, OthersStayListed
  <2>2. x \in ToSet(s)
    <3>1. x \in ToSet(sent)
      BY DEF Carries
    <3> QED BY <1>1, <1>2, <3>1, NewOnesListed
  <2>3. ASSUME NEW y \in B \union M PROVE y \in ToSet(s)
    <3>1. y = x \/ (y \in ToSet(m.events) /\ y # m.events[i])
      BY <1>r, <2>3
    <3> QED BY <2>1, <2>2, <3>1
  <2> QED BY <2>1, <2>2, <2>3
<1>5. /\ st.buffer \in Seq(Event) /\ st.members \subseteq Event /\ st.skip \in Nat
      /\ ToSet(st.buffer) \subseteq B /\ st.members \subseteq M
      /\ now_strict => IsInjective(st.buffer) /\ ToSet(st.buffer) \subseteq st.members
  BY DEF Kept, WindowState
<1>6. PICK m2 : m2 = WindowLeft(m, i, st, sent)
  OBVIOUS
<1>7. PICK b : b = [m.buffer EXCEPT ![w] = st.buffer]
  OBVIOUS
<1>8. PICK y : y = [m.members EXCEPT ![w] = st.members]
  OBVIOUS
<1>9. PICK z : z = [m.skip EXCEPT ![w] = st.skip]
  OBVIOUS
<1>n. PICK n \in Nat : n = IF Departs(m, i) THEN m.issued + 1 ELSE m.issued
  BY <1>2
<1>10. /\ b \in [WindowNode -> Seq(Event)]
       /\ y \in [WindowNode -> SUBSET Event]
       /\ z \in [WindowNode -> Nat]
       /\ b[w] = st.buffer /\ y[w] = st.members
       /\ \A v \in WindowNode \ {w} : b[v] = m.buffer[v] /\ y[v] = m.members[v]
  BY <1>5, <1>7, <1>8, <1>9 DEF Machine
<1>11. m2 = [m EXCEPT !.events = s, !.buffer = b, !.members = y, !.skip = z,
                      !.issued = n]
  BY <1>1, <1>6, <1>7, <1>8, <1>9, <1>n DEF WindowLeft
<1>12. /\ m2 \in Machine /\ m2.events = s /\ m2.buffer = b /\ m2.members = y
       /\ m2.issued = n
  BY <1>3, <1>10, <1>11 DEF Machine
<1>13. ASSUME NEW v \in WindowNode
       PROVE  /\ ToSet(b[v]) \union y[v] \subseteq ToSet(s)
              /\ \A e \in ToSet(b[v]) \union y[v] : e.pos = v
              /\ now_strict => IsInjective(b[v]) /\ ToSet(b[v]) \subseteq y[v]
  <2>1. CASE v = w
    BY <1>4, <1>5, <1>10, <2>1 DEF EventsAt
  <2>2. CASE v # w
    <3>1. /\ ToSet(m.buffer[v]) \union m.members[v] \subseteq ToSet(m.events)
          /\ \A e \in ToSet(m.buffer[v]) \union m.members[v] : e.pos = v
          /\ strict => /\ IsInjective(m.buffer[v])
                       /\ ToSet(m.buffer[v]) \subseteq m.members[v]
      BY DEF WindowSound
    <3>2. m.events[i] \notin ToSet(m.buffer[v]) \union m.members[v]
      BY <2>2, <3>1
    <3> QED BY <1>4, <1>10, <2>2, <3>1, <3>2
  <2> QED BY <2>1, <2>2
<1>14. Told(s, n)
  <2>1. PICK e : e = m.events[i]
    OBVIOUS
  <2>2. PICK a \in Nat : a = m.issued
    BY <1>2
  <2>3. Retold(sent, e, a, n)
    <3>1. a <= n
      BY <1>n, <2>2
    <3>2. (e.pos \in WindowNode /\ x.id = e.id) \/ (a <= x.id /\ x.id < n)
      BY <1>r, <1>n, <2>1, <2>2
    <3> QED BY <3>1, <3>2, CarriedIsRetold
  <2>4. Told(m.events, a)
    BY <2>2 DEF WindowSound
  <2> QED BY <1>1, <1>2, <2>1, <2>3, <2>4, IdsStayTold
<1>15. WindowSound(m2, now_strict)
  BY <1>12, <1>13, <1>14 DEF WindowSound
<1> QED BY <1>6, <1>12, <1>15

(* What the handler of a window does to a machine: the buffer and the set  *)
(* hold no event that has left the list.                                   *)
LEMMA SkipKeepsWindows ==
  ASSUME NEW m \in Machine, NEW strict, WindowSound(m, strict),
         NEW i \in 1..Len(m.events), m.events[i].pos \in WindowNode,
         ~ Rejects(m, i), ~ Astray(m, i), Skips(m, i)
  PROVE  /\ AtWindowSkip(m, i) \in Machine
         /\ WindowSound(AtWindowSkip(m, i), strict)
<1>1. PICK w \in WindowNode : w = m.events[i].pos
  OBVIOUS
<1>2. PICK x : x = Resident(m, i)
  OBVIOUS
<1>5. PICK st : st = BeforeSkip(m, i)
  OBVIOUS
<1>3. PICK B : B = ToSet(st.buffer)
  OBVIOUS
<1>4. PICK M : M = st.members
  OBVIOUS
<1>6. /\ ToSet(m.buffer[w]) \subseteq ToSet(m.events) \intersect EventsAt(w)
      /\ m.members[w] \subseteq ToSet(m.events) \intersect EventsAt(w)
      /\ st \in Kept(ToSet(m.buffer[w]), m.members[w], strict)
      /\ st \in Sending({})
      /\ Departs(m, i) => m.events[i] \notin B
  BY <1>1, <1>3, <1>5, BeforeSkipIs
<1>7. /\ st \in WindowState /\ st.skip \in Nat /\ st.sent \in Seq(Event)
      /\ Carries(st.sent, {}) /\ st.skip > 0
      /\ B \subseteq ToSet(m.buffer[w]) /\ M \subseteq m.members[w]
      /\ strict => IsInjective(st.buffer) /\ B \subseteq M
  BY <1>3, <1>4, <1>5, <1>6 DEF Kept, Sending, WindowState, Skips
<1>e. m.events[i] \notin M
  BY <1>1, <1>7 DEF Rejects
<1>8. PICK left : left = [st EXCEPT !.skip = st.skip - 1]
  OBVIOUS
<1>9. left \in Kept(B, M, strict)
  <2>1. /\ left \in WindowState /\ left.buffer = st.buffer
        /\ left.members = st.members /\ left.sent = st.sent
    BY <1>7, <1>8 DEF WindowState
  <2> QED BY <1>3, <1>4, <1>7, <2>1 DEF Kept
<1>10. PICK sent : sent = Append(st.sent, x)
  OBVIOUS
<1>x. x \in Event /\ x \notin InChannels
  BY <1>1, <1>2, ResidentIs DEF EventsAt
<1>11. sent \in Seq(Event) /\ Carries(sent, {x})
  BY <1>7, <1>10, <1>x, CarriesEvent
<1>12. AtWindowSkip(m, i) = WindowLeft(m, i, left, sent)
  BY <1>2, <1>5, <1>8, <1>10 DEF AtWindowSkip
<1>13. PICK m2 : m2 = WindowLeft(m, i, left, sent)
  OBVIOUS
<1>b. /\ B \in SUBSET EventsAt(w) /\ M \in SUBSET EventsAt(w)
      /\ B \union M \subseteq ToSet(m.events) \union {x}
      /\ Departs(m, i) => m.events[i] \notin B \union M
  BY <1>6, <1>7, <1>e
<1>14. m2 \in Machine /\ WindowSound(m2, strict)
  BY <1>1, <1>2, <1>9, <1>11, <1>13, <1>b, WindowLeftIs
<1> QED BY <1>12, <1>13, <1>14

LEMMA BufferKeepsWindows ==
  ASSUME NEW m \in Machine, NEW strict, WindowSound(m, strict),
         NEW i \in 1..Len(m.events), m.events[i].pos \in WindowNode,
         ~ Rejects(m, i), ~ Astray(m, i), NEW taken,
         NEW now_strict, now_strict => strict /\ "members" \in taken
  PROVE  /\ AtWindow(m, i, taken) \in Machine
         /\ WindowSound(AtWindow(m, i, taken), now_strict)
<1>1. PICK w \in WindowNode : w = m.events[i].pos
  OBVIOUS
<1>2. PICK x : x = Resident(m, i)
  OBVIOUS
<1>5. PICK st : st = BeforeSkip(m, i)
  OBVIOUS
<1>3. PICK B : B = ToSet(st.buffer)
  OBVIOUS
<1>4. PICK M : M = st.members
  OBVIOUS
<1>x. /\ x \in EventsAt(w) /\ x \in Event /\ x \notin InChannels /\ x.pos = w
      /\ Departs(m, i) => x.id = m.issued
      /\ ~ Departs(m, i) => x = m.events[i]
  BY <1>1, <1>2, ResidentIs DEF EventsAt
<1>6. /\ ToSet(m.buffer[w]) \subseteq ToSet(m.events) \intersect EventsAt(w)
      /\ m.members[w] \subseteq ToSet(m.events) \intersect EventsAt(w)
      /\ st \in Kept(ToSet(m.buffer[w]), m.members[w], strict)
      /\ st \in Sending({})
      /\ Departs(m, i) => m.events[i] \notin B
  BY <1>1, <1>3, <1>5, BeforeSkipIs
<1>7. /\ st \in WindowState /\ st.buffer \in Seq(Event) /\ st.members \subseteq Event
      /\ st.skip \in Nat /\ st.sent \in Seq(Event) /\ Carries(st.sent, {})
      /\ B \subseteq ToSet(m.buffer[w]) /\ M \subseteq m.members[w]
      /\ strict => IsInjective(st.buffer) /\ B \subseteq M
  BY <1>3, <1>4, <1>6 DEF Kept, Sending, WindowState
<1>8. m.events[i] \notin M
  BY <1>1, <1>7 DEF Rejects
(* The set does not have the event that stays, and if the set has all the  *)
(* buffer has, neither has the buffer.                                     *)
<1>z. strict => x \notin B
  <2>1. CASE Departs(m, i)
    <3>1. \A y \in ToSet(m.events) : y.pos \in WindowNode => y.id < m.issued
      <4>1. m.events \in Seq(Event) /\ DOMAIN m.events = 1..Len(m.events)
        BY EventAt, LenProperties
      <4>2. \A k \in 1..Len(m.events) :
              m.events[k].pos \in WindowNode => m.events[k].id < m.issued
        BY DEF WindowSound, Told
      <4> QED BY <4>1, <4>2 DEF ToSet
    <3>2. m.issued \in Nat
      BY DEF Machine
    <3>3. ~ (m.issued < m.issued)
      BY <3>2
    <3>4. x \notin ToSet(m.events)
      BY <1>x, <2>1, <3>1, <3>3
    <3> QED BY <1>6, <1>7, <3>4
  <2>2. CASE ~ Departs(m, i)
    BY <1>7, <1>8, <1>x, <2>2
  <2> QED BY <2>1, <2>2
<1>9. PICK b : b = IF "buffer" \in taken THEN Append(st.buffer, x) ELSE st.buffer
  OBVIOUS
<1>10. PICK y : y = IF "members" \in taken THEN st.members \union {x} ELSE st.members
  OBVIOUS
<1>11. PICK sent : sent = Stays(st, x, m.predicates)
  OBVIOUS
<1>12. PICK begun : begun = State(b, y, st.skip, sent)
  OBVIOUS
<1>13. /\ Append(st.buffer, x) \in Seq(Event)
       /\ ToSet(Append(st.buffer, x)) = B \union {x}
       /\ IsInjective(st.buffer) /\ x \notin B => IsInjective(Append(st.buffer, x))
  BY <1>3, <1>7, <1>x, AppendSet
<1>14. sent \in Seq(Event) /\ Carries(sent, {x})
  <2>1. PICK s : s = Append(st.sent, x)
    OBVIOUS
  <2>2. s \in Seq(Event) /\ Carries(s, {x})
    BY <1>7, <1>x, <2>1, CarriesEvent
  <2>3. PICK c : c = Copies(x, m.predicates)
    OBVIOUS
  <2>4. c \in Seq(InChannels)
    BY <1>x, <2>3, CopiesAre DEF WindowNode
  <2>5. sent = s \o c
    BY <1>11, <2>1, <2>3 DEF Stays
  <2>6. {x} \intersect InChannels = {}
    BY <1>x
  <2> QED BY <2>2, <2>4, <2>5, <2>6, CarriesOn
<1>15. begun \in Kept(B \union {x}, M \union {x}, now_strict) /\ begun \in Sending({x})
  <2>1. b \in Seq(Event) /\ y \subseteq Event
    BY <1>7, <1>9, <1>10, <1>13, <1>x
  <2>2. /\ begun \in WindowState /\ begun.buffer = b /\ begun.members = y
        /\ begun.sent = sent
    BY <1>7, <1>12, <1>14, <2>1 DEF State, WindowState
  <2>3. ToSet(b) \subseteq B \union {x} /\ y \subseteq M \union {x}
    BY <1>3, <1>4, <1>9, <1>10, <1>13
  <2>4. ASSUME now_strict PROVE IsInjective(b) /\ ToSet(b) \subseteq y
    <3>1. "members" \in taken /\ strict
      BY <2>4
    <3>2. y = M \union {x}
      BY <1>4, <1>10, <3>1
    <3>3. IsInjective(b) /\ ToSet(b) \subseteq B \union {x}
      BY <1>7, <1>9, <1>13, <1>z, <2>3, <3>1
    <3> QED BY <1>7, <3>1, <3>2, <3>3
  <2> QED BY <1>14, <2>2, <2>3, <2>4 DEF Kept, Sending
<1>16. PICK full : full = AfterLength(w, x, m.predicates, begun)
  OBVIOUS
<1>b. /\ B \union {x} \in SUBSET EventsAt(w) /\ M \union {x} \in SUBSET EventsAt(w)
      /\ (B \union {x}) \union (M \union {x}) \subseteq ToSet(m.events) \union {x}
  BY <1>6, <1>7, <1>x
<1>c. Departs(m, i) => m.events[i] \notin (B \union {x}) \union (M \union {x})
  <2>1. ASSUME Departs(m, i) PROVE x # m.events[i]
    <3>1. PICK k \in Nat : k = m.issued
      BY DEF Machine
    <3>2. m.events[i].id < k
      BY <1>1, <3>1 DEF WindowSound, Told
    <3>3. x.id = k
      BY <1>x, <2>1, <3>1
    <3>4. ~ (k < k)
      OBVIOUS
    <3> QED BY <3>2, <3>3, <3>4
  <2> QED BY <1>6, <1>8, <2>1
<1>17. full \in Kept(B \union {x}, M \union {x}, now_strict) /\ full \in Sending({x})
  <2>1. {x} \intersect InChannels = {}
    BY <1>x
  <2> QED BY <1>b, <1>x, <1>15, <1>16, <2>1, LoopsKeep
<1>18. full.sent \in Seq(Event) /\ Carries(full.sent, {x})
  BY <1>17 DEF Sending, WindowState
<1>19. PICK m2 : m2 = WindowLeft(m, i, full, full.sent)
  OBVIOUS
<1>20. m2 \in Machine /\ WindowSound(m2, now_strict)
  <2>1. PICK P : P = B \union {x}
    OBVIOUS
  <2>2. PICK Q : Q = M \union {x}
    OBVIOUS
  <2>3. /\ P \in SUBSET EventsAt(w) /\ Q \in SUBSET EventsAt(w)
        /\ P \union Q \subseteq ToSet(m.events) \union {x}
        /\ Departs(m, i) => m.events[i] \notin P \union Q
        /\ full \in Kept(P, Q, now_strict)
    BY <1>b, <1>c, <1>17, <2>1, <2>2
  <2>4. now_strict => strict
    OBVIOUS
  <2> QED BY <1>1, <1>2, <1>18, <1>19, <2>3, <2>4, WindowLeftIs
<1>21. PICK a : a = [m.waiting EXCEPT ![w] = TRUE]
  OBVIOUS
<1>22. a \in [Node -> BOOLEAN]
  BY <1>21 DEF Machine
<1>23. PICK m3 : m3 = [m2 EXCEPT !.waiting = a]
  OBVIOUS
<1>24. /\ m3 \in Machine /\ m3.events = m2.events /\ m3.issued = m2.issued
       /\ m3.buffer = m2.buffer /\ m3.members = m2.members
  BY <1>20, <1>22, <1>23 DEF Machine
<1>25. WindowSound(m3, now_strict)
  BY <1>20, <1>24 DEF WindowSound
<1>26. AtWindow(m, i, taken) = m3
  BY <1>1, <1>2, <1>5, <1>9, <1>10, <1>11, <1>12, <1>16, <1>19, <1>21, <1>23, <1>x
     DEF AtWindow
<1> QED BY <1>24, <1>25, <1>26

-----------------------------------------------------------------------------
(***************************************************************************)
(* Events come into being.                                                 *)
(***************************************************************************)

(* event_create goes back in the list only over events that are later.     *)
LEMMA AheadIs ==
  ASSUME NEW s \in Seq(Event), NEW t
  PROVE  /\ Ahead(s, t) \in 0..Len(s)
         /\ \A j \in 1..Len(s) : s[j].time <= t => j <= Ahead(s, t)
<1>1. PICK n \in Nat : n = Len(s)
  BY LenProperties
<1>2. PICK I : I = {i \in 1..n : s[i].time <= t}
  OBVIOUS
<1>3. PICK k : k = LastNotLater(s, t)
  OBVIOUS
<1>4. k = IF I # {} THEN Max(I) ELSE 0
  BY <1>1, <1>2, <1>3 DEF LastNotLater, SelectLastInSeq
<1>5. k \in 0..n /\ \A j \in I : j <= k
  <2>1. CASE I = {}
    BY <1>4, <2>1
  <2>2. CASE I # {}
    <3>1. I \in SUBSET (1..n)
      BY <1>2
    <3>2. Max(I) \in 1..n /\ \A j \in I : j <= Max(I)
      BY <2>2, <3>1, LargestOf
    <3> QED BY <1>4, <2>2, <3>2
  <2> QED BY <2>1, <2>2
<1>6. Ahead(s, t) = IF k = n THEN k ELSE k + 1
  BY <1>1, <1>3 DEF Ahead
<1>7. PICK a \in 0..n : a = Ahead(s, t) /\ k <= a
  BY <1>5, <1>6
<1>8. ASSUME NEW j \in 1..n, s[j].time <= t PROVE j <= a
  BY <1>2, <1>5, <1>7, <1>8
<1> QED BY <1>1, <1>7, <1>8

LEMMA CreatedIs ==
  ASSUME NEW s \in Seq(Event), NEW e \in Event
  PROVE  /\ Created(s, e) \in Seq(Event)
         /\ IsSpliced(Created(s, e), s, Ahead(s, e.time), <<e>>, Ahead(s, e.time))
<1>1. PICK n \in Nat : n = Len(s)
  BY LenProperties
<1>2. PICK a \in 0..n : a = Ahead(s, e.time)
  BY <1>1, AheadIs
<1>3. (a + 1) - 1 = a /\ a \in a..n
  OBVIOUS
<1>4. Created(s, e) = (SubSeq(s, 1, a) \o <<e>>) \o SubSeq(s, a + 1, n)
  BY <1>1, <1>2, <1>3 DEF Created, InsertAt
<1>5. PICK r : r = <<e>>
  OBVIOUS
<1>6. r \in Seq(Event)
  BY <1>5
<1> QED BY <1>1, <1>2, <1>3, <1>4, <1>5, <1>6, SpliceIs

(* t is s with e behind its first a elements.                              *)
IsInserted(t, s, e, a, n) ==
  /\ DOMAIN s = 1..n /\ DOMAIN t = 1..(n + 1) /\ Len(t) = n + 1
  /\ \A i \in 1..(n + 1) :
       /\ i <= a => t[i] = s[i] /\ i \in 1..n
       /\ i = a + 1 => t[i] = e
       /\ i > a + 1 => t[i] = s[i - 1] /\ i - 1 \in 1..n

LEMMA CreatedPlaces ==
  ASSUME NEW s \in Seq(Event), NEW e \in Event, NEW n \in Nat, n = Len(s),
         NEW a \in 0..n, a = Ahead(s, e.time)
  PROVE  IsInserted(Created(s, e), s, e, a, n)
<1>0. PICK t : t = Created(s, e)
  OBVIOUS
<1>1. PICK r : r = <<e>>
  OBVIOUS
<1>2. Len(r) = 1 /\ r[1] = e
  BY <1>1
<1>3. t \in Seq(Event) /\ IsSpliced(t, s, a, r, a)
  BY <1>0, <1>1, CreatedIs
<1>4. DOMAIN s = 1..n /\ DOMAIN t = 1..(n + 1) /\ Len(t) = n + 1
  <2>1. Len(t) = a + 1 + (n - a)
    BY <1>2, <1>3 DEF IsSpliced
  <2>2. Len(t) = n + 1
    BY <2>1
  <2> QED BY <1>3, <2>2, LenProperties
<1>5. ASSUME NEW i \in 1..(n + 1)
      PROVE  /\ i <= a => t[i] = s[i] /\ i \in 1..n
             /\ i = a + 1 => t[i] = e
             /\ i > a + 1 => t[i] = s[i - 1] /\ i - 1 \in 1..n
  <2>1. i \in 1..Len(t)
    BY <1>4
  <2>2. /\ i <= a => t[i] = s[i]
        /\ a < i /\ i <= a + 1 => t[i] = r[i - a]
        /\ a + 1 < i => t[i] = s[(i - a - 1) + a]
    BY <1>2, <1>3, <2>1 DEF IsSpliced
  <2>3. CASE i <= a
    BY <2>2, <2>3
  <2>4. CASE i = a + 1
    <3>1. a < i /\ i <= a + 1 /\ i - a = 1
      BY <2>4
    <3> QED BY <1>2, <2>2, <2>4, <3>1
  <2>5. CASE i > a + 1
    <3>1. (i - a - 1) + a = i - 1 /\ i - 1 \in 1..n
      BY <2>5
    <3> QED BY <2>2, <2>5, <3>1
  <2> QED BY <2>3, <2>4, <2>5
<1> QED BY <1>0, <1>3, <1>4, <1>5 DEF IsInserted

(* The created event and all that were listed before are listed, no other. *)
LEMMA CreatedLists ==
  ASSUME NEW s \in Seq(Event), NEW e \in Event
  PROVE  ToSet(Created(s, e)) = ToSet(s) \union {e}
<1>1. PICK n \in Nat : n = Len(s)
  BY LenProperties
<1>2. PICK a \in 0..n : a = Ahead(s, e.time)
  BY <1>1, AheadIs
<1>3. PICK t : t = Created(s, e)
  OBVIOUS
<1>p. IsInserted(t, s, e, a, n)
  BY <1>1, <1>2, <1>3, CreatedPlaces
<1>4. DOMAIN s = 1..n /\ DOMAIN t = 1..(n + 1)
  BY <1>p DEF IsInserted
<1>5. \A i \in 1..(n + 1) :
        /\ i <= a => t[i] = s[i] /\ i \in 1..n
        /\ i = a + 1 => t[i] = e
        /\ i > a + 1 => t[i] = s[i - 1] /\ i - 1 \in 1..n
  BY <1>p DEF IsInserted
<1>6. ToSet(t) \subseteq ToSet(s) \union {e}
  <2>1. ASSUME NEW i \in 1..(n + 1) PROVE t[i] \in ToSet(s) \union {e}
    <3>1. i <= a \/ i = a + 1 \/ i > a + 1
      OBVIOUS
    <3> QED BY <1>4, <1>5, <3>1 DEF ToSet
  <2> QED BY <1>4, <2>1 DEF ToSet
<1>7. ASSUME NEW j \in 1..n PROVE s[j] \in ToSet(t)
  <2>1. CASE j <= a
    <3>1. j \in 1..(n + 1)
      OBVIOUS
    <3> QED BY <1>4, <1>5, <2>1, <3>1 DEF ToSet
  <2>2. CASE j > a
    <3>1. PICK i \in 1..(n + 1) : i = j + 1 /\ i > a + 1 /\ i - 1 = j
      BY <2>2
    <3> QED BY <1>4, <1>5, <3>1 DEF ToSet
  <2> QED BY <2>1, <2>2
<1>8. e \in ToSet(t)
  <2>1. a + 1 \in 1..(n + 1)
    OBVIOUS
  <2> QED BY <1>4, <1>5, <2>1 DEF ToSet
<1> QED BY <1>3, <1>4, <1>6, <1>7, <1>8 DEF ToSet

(* The lists that creating the events of q, one after the other, goes      *)
(* through from s to t.                                                    *)
Creation(K, s, q, n, t) ==
  \E c \in [0..n -> K] :
    /\ c[0] = s
    /\ \A k \in 1..n : c[k] = Created(c[k - 1], q[k])
    /\ t = c[n]

LEMMA CreatingAll ==
  ASSUME NEW K, NEW st \in K, NEW q, NEW n \in Nat, DOMAIN q = 1..n,
         \A k \in 1..n : \A s \in K : Created(s, q[k]) \in K
  PROVE  Creation(K, st, q, n, FoldLeft(Created, st, q))
<1> DEFINE G(s, k) == Created(s, q[k])
           Is(g) == g = [s \in SUBSET (1..n) |->
                           IF s = {} THEN st ELSE G(g[s \ {Max(s)}], Max(s))]
<1>1. \A k \in 1..n : \A s \in K : G(s, k) \in K
  OBVIOUS
<1>2. \E g : Is(g)
  <2> HIDE DEF G
  <2>1. PICK F : F = [k \in 1..n |-> [s \in K |-> G(s, k)]]
    OBVIOUS
  <2>2. Closed(F, n, K)
    BY <1>1, <2>1 DEF Closed
  <2>3. PICK f : IsTable(f, F, n, K, st)
    BY <2>2, FoldTable
  <2>4. ASSUME NEW s \in SUBSET (1..n)
        PROVE  f[s] = IF s = {} THEN st ELSE G(f[s \ {Max(s)}], Max(s))
    <3>1. CASE s = {}
      BY <2>3, <3>1 DEF IsTable
    <3>2. CASE s # {}
      <4>1. Max(s) \in 1..n
        BY <3>2, LargestOf
      <4>2. f[s \ {Max(s)}] \in K
        BY <2>3 DEF IsTable
      <4>3. f[s] = F[Max(s)][f[s \ {Max(s)}]]
        BY <2>3, <3>2 DEF IsTable
      <4> QED BY <2>1, <3>2, <4>1, <4>2, <4>3
    <3> QED BY <3>1, <3>2
  <2>5. f = [s \in SUBSET (1..n) |-> f[s]]
    BY <2>3 DEF IsTable
  <2>6. Is(f)
    BY <2>4, <2>5
  <2> QED BY <2>6
<1>3. PICK it : it = CHOOSE g : g = [s \in SUBSET (1..n) |->
                           IF s = {} THEN st
                           ELSE Created(g[s \ {Max(s)}], q[Max(s)])]
  OBVIOUS
<1>4. Is(it)
  BY <1>2, <1>3
<1>5. FoldLeft(Created, st, q) = it[1..n]
  BY <1>3 DEF FoldLeft, MapThenFoldSet
<1> HIDE DEF G
<1>6. \A s \in SUBSET (1..n) : it[s] = IF s = {} THEN st ELSE G(it[s \ {Max(s)}], Max(s))
  BY ONLY <1>4
<1>7. PICK c : c = [k \in 0..n |-> it[1..k]]
  OBVIOUS
<1>8. c[0] = st
  <2>1. 1..0 = {} /\ {} \in SUBSET (1..n) /\ 0 \in 0..n
    OBVIOUS
  <2>2. it[{}] = st
    BY <1>6, <2>1
  <2>3. c[0] = it[1..0]
    BY <1>7, <2>1
  <2> QED BY <2>1, <2>2, <2>3
<1>9. ASSUME NEW k \in 1..n PROVE c[k] = G(c[k - 1], k)
  <2>1. k \in Nat \ {0} /\ 1..k \in SUBSET (1..n) /\ k \in 0..n /\ k - 1 \in 0..n
    OBVIOUS
  <2>2. 1..k # {} /\ Max(1..k) = k /\ (1..k) \ {k} = 1..(k - 1)
    BY <2>1, InitialPart
  <2>3. it[1..k] = G(it[(1..k) \ {Max(1..k)}], Max(1..k))
    BY <1>6, <2>1, <2>2
  <2> QED BY <1>7, <2>1, <2>2, <2>3
<1>10. \A k \in 0..n : c[k] \in K
  <2>1. PICK Q : Q = [k \in 0..n |-> K]
    OBVIOUS
  <2>2. \A k \in 1..n : k - 1 \in 0..n /\ k \in 0..n
    OBVIOUS
  <2>3. c[0] \in Q[0] /\ \A k \in 1..n : c[k - 1] \in Q[k - 1] => c[k] \in Q[k]
    BY <1>1, <1>8, <1>9, <2>1, <2>2
  <2>4. \A k \in 0..n : c[k] \in Q[k]
    BY <2>3, Chain
  <2> QED BY <2>1, <2>4
<1>11. c \in [0..n -> K]
  BY <1>7, <1>10
<1>12. c[n] = it[1..n]
  BY <1>7
<1> QED BY <1>5, <1>8, <1>9, <1>11, <1>12 DEF G, Creation

LEMMA CreatingKeeps ==
  ASSUME NEW s \in Seq(Event), NEW q \in Seq(Event)
  PROVE  /\ FoldLeft(Created, s, q) \in Seq(Event)
         /\ ToSet(s) \subseteq ToSet(FoldLeft(Created, s, q))
<1>1. PICK n \in Nat : n = Len(q) /\ DOMAIN q = 1..n /\ \A k \in 1..n : q[k] \in Event
  BY LenProperties, ElementOfSeq
<1>2. PICK K : K = {t \in Seq(Event) : ToSet(s) \subseteq ToSet(t)}
  OBVIOUS
<1>3. ASSUME NEW k \in 1..n, NEW t \in K PROVE Created(t, q[k]) \in K
  <2>1. t \in Seq(Event) /\ ToSet(s) \subseteq ToSet(t) /\ q[k] \in Event
    BY <1>1, <1>2
  <2>2. Created(t, q[k]) \in Seq(Event)
    BY <2>1, CreatedIs
  <2>3. ToSet(Created(t, q[k])) = ToSet(t) \union {q[k]}
    BY <2>1, CreatedLists
  <2> QED BY <1>2, <2>1, <2>2, <2>3
<1>4. PICK t : t = FoldLeft(Created, s, q)
  OBVIOUS
<1>5. Creation(K, s, q, n, t)
  <2>1. s \in K
    BY <1>2
  <2> QED BY <1>1, <1>3, <1>4, <2>1, CreatingAll
<1>6. n \in 0..n
  OBVIOUS
<1>7. t \in K
  BY <1>5, <1>6 DEF Creation
<1> QED BY <1>2, <1>4, <1>7

(* Events that come into being away from windows leave ids told.           *)
LEMMA CreatedTold ==
  ASSUME NEW s \in Seq(Event), NEW e \in Event, e.pos \notin WindowNode,
         NEW n, Told(s, n)
  PROVE  Told(Created(s, e), n)
<1>1. PICK l \in Nat : l = Len(s)
  BY LenProperties
<1>2. PICK a \in 0..l : a = Ahead(s, e.time)
  BY <1>1, AheadIs
<1>3. PICK t : t = Created(s, e)
  OBVIOUS
<1>4. IsInserted(t, s, e, a, l)
  BY <1>1, <1>2, <1>3, CreatedPlaces
<1>5. /\ \A k \in 1..l : s[k].pos \in WindowNode => s[k].id < n
      /\ \A j, k \in 1..l :
           s[j].pos \in WindowNode /\ s[k].pos \in WindowNode /\ s[j].id = s[k].id
             => j = k
  BY <1>1 DEF Told
<1>6. ASSUME NEW j \in 1..(l + 1), t[j].pos \in WindowNode
      PROVE  \E k \in 1..l : t[j] = s[k] /\ j = IF k <= a THEN k ELSE k + 1
  <2>1. /\ j <= a => t[j] = s[j] /\ j \in 1..l
        /\ j = a + 1 => t[j] = e
        /\ j > a + 1 => t[j] = s[j - 1] /\ j - 1 \in 1..l
    BY <1>4 DEF IsInserted
  <2>2. CASE j <= a
    BY <2>1, <2>2
  <2>3. CASE j = a + 1
    BY <1>6, <2>1, <2>3
  <2>4. CASE j > a + 1
    <3>1. ~ (j - 1 <= a) /\ j = (j - 1) + 1
      BY <2>4
    <3> QED BY <2>1, <2>4, <3>1
  <2> QED BY <2>2, <2>3, <2>4
<1>7. ASSUME NEW j \in 1..(l + 1), t[j].pos \in WindowNode PROVE t[j].id < n
  BY <1>5, <1>6, <1>7
<1>8. ASSUME NEW x \in 1..(l + 1), NEW y \in 1..(l + 1),
             t[x].pos \in WindowNode, t[y].pos \in WindowNode, t[x].id = t[y].id
      PROVE  x = y
  <2>1. PICK j \in 1..l : t[x] = s[j] /\ x = IF j <= a THEN j ELSE j + 1
    BY <1>6, <1>8
  <2>2. PICK k \in 1..l : t[y] = s[k] /\ y = IF k <= a THEN k ELSE k + 1
    BY <1>6, <1>8
  <2>3. j = k
    BY <1>5, <1>8, <2>1, <2>2
  <2> QED BY <2>1, <2>2, <2>3
<1>9. Len(t) = l + 1
  BY <1>4 DEF IsInserted
<1>10. Told(t, n)
  BY <1>7, <1>8, <1>9 DEF Told
<1> QED BY <1>3, <1>10

LEMMA CreatingTold ==
  ASSUME NEW s \in Seq(Event), NEW q \in Seq(Event), NEW n, Told(s, n),
         \A k \in 1..Len(q) : q[k].pos \notin WindowNode
  PROVE  Told(FoldLeft(Created, s, q), n)
<1>1. PICK l \in Nat : l = Len(q) /\ DOMAIN q = 1..l /\ \A k \in 1..l : q[k] \in Event
  BY LenProperties, ElementOfSeq
<1>2. PICK K : K = {t \in Seq(Event) : Told(t, n)}
  OBVIOUS
<1>3. ASSUME NEW k \in 1..l, NEW t \in K PROVE Created(t, q[k]) \in K
  <2>1. t \in Seq(Event) /\ Told(t, n) /\ q[k] \in Event /\ q[k].pos \notin WindowNode
    BY <1>1, <1>2
  <2>2. Created(t, q[k]) \in Seq(Event)
    BY <2>1, CreatedIs
  <2>3. Told(Created(t, q[k]), n)
    BY <2>1, CreatedTold
  <2> QED BY <1>2, <2>2, <2>3
<1>4. PICK t : t = FoldLeft(Created, s, q)
  OBVIOUS
<1>5. Creation(K, s, q, l, t)
  <2>1. s \in K
    BY <1>2
  <2> QED BY <1>1, <1>3, <1>4, <2>1, CreatingAll
<1>6. l \in 0..l
  OBVIOUS
<1>7. t \in K
  BY <1>5, <1>6 DEF Creation
<1> QED BY <1>2, <1>4, <1>7

(* What a source makes of its inputs: events of the source, numbered on    *)
(* from lo and not above hi, in the order of their numbers.                *)
Batch(q, s, lo, hi) ==
  /\ \A k \in 1..Len(q) :
       /\ q[k].src = s /\ q[k].n \in Nat /\ lo < q[k].n /\ q[k].n <= hi
       /\ q[k].pos \notin WindowNode
  /\ \A k, l \in 1..Len(q) : k < l => q[k].n <= q[l].n

(* A time stamp of the kernel, once it has been converted, may lie ahead   *)
(* of the clock.                                                           *)
Stamped == [pos : Node \union Channel \union {Null}, ttl : 1..InitialTTL,
            time : Nat, code : Code, payload : Int64,
            src : Source, n : Nat \ {0}, id : Nat]

Made(r, s, n, t) ==
  /\ r \in Seq(Stamped)
  /\ \A k \in 1..Len(r) :
       r[k].src = s /\ r[k].n = n /\ r[k].time = t /\ r[k].pos \notin WindowNode

LEMMA FromSourceIs ==
  ASSUME NEW s \in Source, NEW n \in Nat \ {0}, NEW code \in Code,
         NEW t \in Nat, NEW p \in Int64
  PROVE  Made(FromSource(s, n, code, t, p), s, n, t)
<1>1. PICK m \in Nat :
        /\ m = Len(Outputs[s]) /\ DOMAIN Outputs[s] = 1..m
        /\ \A k \in 1..m : Outputs[s][k] \in Channel \union {Null}
  <2>1. Outputs[s] \in Seq(Channel \union {Null})
    BY GraphAssumption DEF Source
  <2> QED BY <2>1, LenProperties, ElementOfSeq
<1>2. PICK r : r = FromSource(s, n, code, t, p)
  OBVIOUS
<1>3. r = [k \in 1..m |->
             [pos |-> Outputs[s][k], ttl |-> InitialTTL, time |-> t,
              code |-> code, payload |-> p, src |-> s, n |-> n, id |-> 0]]
  BY <1>1, <1>2 DEF FromSource
<1>4. InitialTTL \in 1..InitialTTL
  BY LoopAssumption
<1>5. ASSUME NEW k \in 1..m
      PROVE  [pos |-> Outputs[s][k], ttl |-> InitialTTL, time |-> t,
              code |-> code, payload |-> p, src |-> s, n |-> n, id |-> 0] \in Stamped
  BY <1>1, <1>4 DEF Stamped
<1>6. r \in Seq(Stamped)
  BY <1>3, <1>5, IsASeq
<1>7. DOMAIN r = 1..Len(r) /\ DOMAIN r = 1..m
  BY <1>3, <1>6, LenProperties
<1>8. \A k \in 1..Len(r) :
        /\ r[k].src = s /\ r[k].n = n /\ r[k].time = t
        /\ r[k].pos \in Channel \union {Null}
  BY <1>1, <1>3, <1>7
<1>9. (Channel \union {Null}) \intersect WindowNode = {}
  BY GraphAssumption DEF WindowNode
<1> QED BY <1>2, <1>6, <1>8, <1>9 DEF Made

LEMMA InTime ==
  ASSUME NEW q \in Seq(Stamped), \A k \in 1..Len(q) : q[k].time <= MaxTime
  PROVE  q \in Seq(Event)
<1>1. PICK n \in Nat : n = Len(q)
  BY LenProperties
<1>2. MaxTime \in Nat
  BY LoopAssumption
<1>3. ASSUME NEW k \in 1..n PROVE q[k] \in Event
  <2>1. q[k] \in Stamped
    BY <1>1, ElementOfSeq
  <2>2. q[k].time \in 0..MaxTime
    BY <1>1, <1>2, <2>1 DEF Stamped
  <2> QED BY <2>1, <2>2 DEF Stamped, Event
<1>4. q \in [1..n -> Event]
  BY <1>1, <1>3, LenProperties
<1> QED BY <1>4

LEMMA BatchesJoin ==
  ASSUME NEW s, NEW lo \in Nat, NEW mid \in Nat, NEW hi \in Nat,
         lo <= mid, mid <= hi,
         NEW q \in Seq(Stamped), Batch(q, s, lo, mid),
         NEW r \in Seq(Stamped), Batch(r, s, mid, hi)
  PROVE  q \o r \in Seq(Stamped) /\ Batch(q \o r, s, lo, hi)
<1>1. PICK t : t = q \o r
  OBVIOUS
<1>2. PICK a \in Nat : a = Len(q)
  BY LenProperties
<1>3. PICK b \in Nat : b = Len(r)
  BY LenProperties
<1>4. /\ t \in Seq(Stamped) /\ Len(t) = a + b
      /\ \A i \in 1..(a + b) : t[i] = IF i <= a THEN q[i] ELSE r[i - a]
  BY <1>1, <1>2, <1>3, ConcatProperties
<1>5. ASSUME NEW i \in 1..(a + b)
      PROVE  /\ t[i].src = s /\ t[i].n \in Nat /\ lo < t[i].n /\ t[i].n <= hi
             /\ t[i].pos \notin WindowNode
             /\ i <= a => i \in 1..a /\ t[i] = q[i] /\ t[i].n <= mid
             /\ i > a => i - a \in 1..b /\ t[i] = r[i - a] /\ mid < t[i].n
  <2>1. CASE i <= a
    <3>1. i \in 1..a /\ t[i] = q[i]
      BY <1>4, <2>1
    <3> QED BY <1>2, <2>1, <3>1 DEF Batch
  <2>2. CASE i > a
    <3>1. i - a \in 1..b /\ t[i] = r[i - a]
      BY <1>4, <2>2
    <3> QED BY <1>3, <2>2, <3>1 DEF Batch
  <2> QED BY <2>1, <2>2
<1>6. ASSUME NEW k \in 1..(a + b), NEW l \in 1..(a + b), k < l
      PROVE  t[k].n <= t[l].n
  <2>1. CASE l <= a
    <3>1. k \in 1..a /\ l \in 1..a /\ k <= a
      BY <1>6, <2>1
    <3> QED BY <1>2, <1>5, <1>6, <2>1, <3>1 DEF Batch
  <2>2. CASE k > a
    <3>1. l > a /\ k - a < l - a
      BY <1>6, <2>2
    <3> QED BY <1>3, <1>5, <2>2, <3>1 DEF Batch
  <2>3. CASE k <= a /\ l > a
    BY <1>5, <2>3
  <2> QED BY <2>1, <2>2, <2>3
<1> QED BY <1>1, <1>4, <1>5, <1>6 DEF Batch

Inputs == Seq([time : 0..MaxTime, payload : Payload])

LEMMA DeviceEvents ==
  ASSUME NEW s \in Source, input[s] \in Inputs, read[s] \in Nat,
         NEW skew \in 0..MaxSkew
  PROVE  /\ EventsFromDevice(s, skew) \in Seq(Stamped)
         /\ Batch(EventsFromDevice(s, skew), s, read[s], read[s] + Len(input[s]))
<1>1. PICK n \in Nat :
        /\ n = Len(input[s]) /\ DOMAIN input[s] = 1..n
        /\ \A i \in 1..n : input[s][i] \in [time : 0..MaxTime, payload : Payload]
  BY LenProperties, ElementOfSeq DEF Inputs
<1>2. PICK from \in Nat : from = read[s]
  OBVIOUS
<1>3. PICK q : q = [i \in 1..n |->
                      FromSource(s, from + i, "data", input[s][i].time + skew,
                                 input[s][i].payload)]
  OBVIOUS
<1>4. ASSUME NEW i \in 1..n
      PROVE  /\ q[i] \in Seq(Stamped)
             /\ \A k \in 1..Len(q[i]) :
                  /\ q[i][k].src = s /\ q[i][k].n = from + i
                  /\ q[i][k].pos \notin WindowNode
  <2>1. /\ from + i \in Nat \ {0} /\ "data" \in Code
        /\ input[s][i].time + skew \in Nat /\ input[s][i].payload \in Int64
    <3>1. skew \in Nat /\ input[s][i].time \in Nat
      BY <1>1, LoopAssumption
    <3> QED BY <1>1, <3>1, LoopAssumption
  <2>2. PICK m \in Nat \ {0} : m = from + i
    BY <2>1
  <2>3. PICK code \in Code : code = "data"
    BY <2>1
  <2>4. PICK t \in Nat : t = input[s][i].time + skew
    BY <2>1
  <2>5. PICK p \in Int64 : p = input[s][i].payload
    BY <2>1
  <2>6. PICK r : r = FromSource(s, m, code, t, p)
    OBVIOUS
  <2>m. Made(r, s, m, t)
    BY <2>6, FromSourceIs
  <2>7. /\ r \in Seq(Stamped)
        /\ \A k \in 1..Len(r) : r[k].src = s /\ r[k].n = m /\ r[k].pos \notin WindowNode
    BY <2>m DEF Made
  <2>8. q[i] = r
    BY <1>3, <2>2, <2>3, <2>4, <2>5, <2>6
  <2> QED BY <2>2, <2>7, <2>8
<1>5. q \in Seq(Seq(Stamped)) /\ Len(q) = n
  <2>1. q \in Seq(Seq(Stamped))
    BY <1>3, <1>4, IsASeq
  <2>2. DOMAIN q = 1..n /\ DOMAIN q = 1..Len(q) /\ Len(q) \in Nat
    BY <1>3, <2>1, LenProperties
  <2> QED BY <1>3, <2>1, <2>2
<1>6. PICK c \in [0..n -> Seq(Stamped)] :
        /\ c[0] = << >>
        /\ \A k \in 1..n : c[k] = c[k - 1] \o q[k]
        /\ FlattenSeq(q) = c[n]
  BY <1>5, FlattenIs
<1>7. PICK Q : Q = [k \in 0..n |-> {r \in Seq(Stamped) : Batch(r, s, from, from + k)}]
  OBVIOUS
<1>8. c[0] \in Q[0]
  <2>1. << >> \in Seq(Stamped) /\ Len(<< >>) = 0 /\ 0 \in 0..n
    BY EmptySeq
  <2>2. Batch(<< >>, s, from, from + 0)
    BY <2>1 DEF Batch
  <2> QED BY <1>6, <1>7, <2>1, <2>2
<1>9. ASSUME NEW k \in 1..n, c[k - 1] \in Q[k - 1] PROVE c[k] \in Q[k]
  <2>1. k - 1 \in 0..n /\ k \in 0..n
    OBVIOUS
  <2>2. c[k - 1] \in Seq(Stamped) /\ Batch(c[k - 1], s, from, from + (k - 1))
    BY <1>7, <1>9, <2>1
  <2>3. q[k] \in Seq(Stamped) /\ Batch(q[k], s, from + (k - 1), from + k)
    <3>1. /\ from + k \in Nat /\ from + (k - 1) < from + k /\ from + k <= from + k
      OBVIOUS
    <3> QED BY <1>4, <3>1 DEF Batch
  <2>4. PICK r : r = c[k - 1]
    OBVIOUS
  <2>5. PICK x \in Seq(Stamped) : x = q[k]
    BY <2>3
  <2>6. /\ from + (k - 1) \in Nat /\ from + k \in Nat
        /\ from <= from + (k - 1) /\ from + (k - 1) <= from + k
    OBVIOUS
  <2>7. r \o x \in Seq(Stamped) /\ Batch(r \o x, s, from, from + k)
    BY <2>2, <2>3, <2>4, <2>5, <2>6, BatchesJoin
  <2>8. c[k] = r \o x
    BY <1>6, <2>4, <2>5
  <2> QED BY <1>7, <2>1, <2>7, <2>8
<1>10. \A k \in 0..n : c[k] \in Q[k]
  BY <1>8, <1>9, Chain
<1>11. n \in 0..n
  OBVIOUS
<1>12. EventsFromDevice(s, skew) = FlattenSeq(q)
  BY <1>1, <1>2, <1>3 DEF EventsFromDevice
<1> QED BY <1>1, <1>2, <1>6, <1>7, <1>10, <1>11, <1>12

LEMMA StdinEvents ==
  ASSUME NEW s \in Source, input[s] \in Inputs, read[s] \in Nat, now \in 0..MaxTime
  PROVE  LET q == EventsFromStdin(s)
         IN  /\ q \in Seq(Event)
             /\ Batch(q, s, read[s], read[s] + 1)
             /\ \A k \in 1..Len(q) : q[k].time = now
<1>1. PICK m \in Nat \ {0} : m = read[s] + 1 /\ read[s] < m /\ m <= read[s] + 1
  OBVIOUS
<1>2. now \in Nat /\ now <= MaxTime
  BY LoopAssumption
<1>3. PICK q : q = EventsFromStdin(s)
  OBVIOUS
<1>4. /\ q \in Seq(Stamped)
      /\ \A k \in 1..Len(q) :
           q[k].src = s /\ q[k].n = m /\ q[k].time = now /\ q[k].pos \notin WindowNode
  <2>1. CASE input[s] = << >>
    <3>1. "eof" \in Code /\ 0 \in Int64
      BY LoopAssumption, HalfAssumption DEF Int64
    <3>2. PICK code \in Code : code = "eof"
      BY <3>1
    <3>3. q = FromSource(s, m, code, now, 0)
      BY <1>1, <1>3, <2>1, <3>2 DEF EventsFromStdin
    <3>4. Made(q, s, m, now)
      BY <1>2, <3>1, <3>3, FromSourceIs
    <3> QED BY <3>4 DEF Made
  <2>2. CASE input[s] # << >>
    <3>1. "data" \in Code /\ Head(input[s]).payload \in Int64
      <4>1. Head(input[s]) \in [time : 0..MaxTime, payload : Payload]
        BY <2>2, HeadTailProperties DEF Inputs
      <4> QED BY <4>1, LoopAssumption
    <3>2. PICK code \in Code : code = "data"
      BY <3>1
    <3>3. PICK p \in Int64 : p = Head(input[s]).payload
      BY <3>1
    <3>4. q = FromSource(s, m, code, now, p)
      BY <1>1, <1>3, <2>2, <3>2, <3>3 DEF EventsFromStdin
    <3>5. Made(q, s, m, now)
      BY <1>2, <3>4, FromSourceIs
    <3> QED BY <3>5 DEF Made
  <2> QED BY <2>1, <2>2
<1>5. q \in Seq(Event)
  BY <1>2, <1>4, InTime
<1>6. Batch(q, s, read[s], read[s] + 1)
  BY <1>1, <1>4 DEF Batch
<1> QED BY <1>3, <1>4, <1>5, <1>6

(* pselect reports every source that is ready, each once.                  *)
LEMMA ReadyIs ==
  /\ ReadyInOrder \in Seq(Source) /\ IsInjective(ReadyInOrder)
  /\ \A k \in DOMAIN ReadyInOrder : IsReady(ReadyInOrder[k])
<1>1. /\ Registered \in Seq(Source) /\ IsInjective(Registered)
      /\ DOMAIN Registered = 1..Len(Registered)
  BY LoopAssumption, LenProperties
<1>2. PICK P : P = {i \in 1..Len(Registered) : IsReady(Registered[i])}
  OBVIOUS
<1>3. PICK r : r = FlattenSeq([i \in DOMAIN Registered |->
                                 IF i \in P THEN <<Registered[i]>> ELSE << >>])
  OBVIOUS
<1>4. r \in Seq(Source) /\ IsChosen(r, Registered, P)
  BY <1>1, <1>2, <1>3, ChosenIs
<1>5. r = ReadyInOrder
  <2>1. [i \in DOMAIN Registered |-> IF i \in P THEN <<Registered[i]>> ELSE << >>]
          = [i \in DOMAIN Registered |->
               IF IsReady(Registered[i]) THEN <<Registered[i]>> ELSE << >>]
    BY <1>1, <1>2
  <2> QED BY <1>3, <2>1 DEF ReadyInOrder, Those
<1>6. PICK o \in [1..Len(r) -> P] :
        /\ \A k \in 1..Len(r) : r[k] = Registered[o[k]]
        /\ \A k, l \in 1..Len(r) : k < l => o[k] < o[l]
  BY <1>4 DEF IsChosen
<1>7. PICK n \in Nat : n = Len(r) /\ DOMAIN r = 1..n
  BY <1>4, LenProperties
<1>8. \A k \in 1..n : o[k] \in P /\ o[k] \in Nat /\ o[k] \in DOMAIN Registered
  BY <1>1, <1>2, <1>6, <1>7
<1>9. \A k \in 1..n : IsReady(r[k])
  BY <1>2, <1>6, <1>7, <1>8
<1>10. ASSUME NEW k \in 1..n, NEW l \in 1..n, r[k] = r[l] PROVE k = l
  <2>1. o[k] = o[l]
    BY <1>1, <1>6, <1>7, <1>8, <1>10 DEF IsInjective
  <2>2. ~ (k < l) /\ ~ (l < k)
    BY <1>6, <1>7, <1>8, <2>1
  <2> QED BY <2>2
<1>11. IsInjective(r)
  BY <1>7, <1>10 DEF IsInjective
<1> QED BY <1>4, <1>5, <1>7, <1>9, <1>11

-----------------------------------------------------------------------------
(***************************************************************************)
(* Sequences put together.                                                 *)
(***************************************************************************)

(* How three sequences are put together makes no difference.               *)
JoinAlike(x, y, z) == (x \o y) \o z = x \o (y \o z)

LEMMA AllJoinAlike ==
  ASSUME NEW S, NEW x \in Seq(S), NEW y \in Seq(S), NEW z \in Seq(S)
  PROVE  JoinAlike(x, y, z)
BY DEF JoinAlike

(* The parts of a list in front of a place and behind it.                  *)
LEMMA PrefixOfConcat ==
  ASSUME NEW S, NEW a \in Seq(S), NEW b \in Seq(S), NEW k \in 0..Len(a)
  PROVE  /\ SubSeq(a \o b, 1, k) = SubSeq(a, 1, k)
         /\ SubSeq(a, 1, k) \in Seq(S)
<1>1. Len(a) \in Nat /\ \A i \in 1..Len(a) : a[i] \in S
  BY LenProperties, ElementOfSeq
<1>2. SubSeq(a, 1, k) \in Seq(S)
  <2>1. 1 \in Int /\ k \in Int /\ \A i \in 1..k : a[i] \in S
    BY <1>1
  <2> QED BY <2>1, SubSeqProperties
<1>3. CASE k = 0
  <2>1. 1 \in Int /\ k \in Int /\ k < 1
    BY <1>3
  <2> QED BY <1>2, <2>1, SubSeqEmpty
<1>4. CASE k # 0
  <2>1. 1 \in 1..Len(a) /\ k \in 1..Len(a)
    BY <1>1, <1>4
  <2> QED BY <1>2, <2>1, SubSeqOfConcat1
<1> QED BY <1>3, <1>4

LEMMA RestOfConcat ==
  ASSUME NEW S, NEW a \in Seq(S), NEW b \in Seq(S), NEW k \in 0..Len(a)
  PROVE  /\ SubSeq(a \o b, k + 1, Len(a \o b)) = SubSeq(a, k + 1, Len(a)) \o b
         /\ SubSeq(a, k + 1, Len(a)) \in Seq(S)
<1>1. PICK n \in Nat : n = Len(a)
  BY LenProperties
<1>2. PICK m \in Nat : m = Len(b)
  BY LenProperties
<1>3. PICK u : u = a \o b
  OBVIOUS
<1>4. /\ u \in Seq(S) /\ Len(u) = n + m
      /\ \A i \in 1..(n + m) : u[i] = IF i <= n THEN a[i] ELSE b[i - n]
  BY <1>1, <1>2, <1>3, ConcatProperties
<1>5. PICK t : t = SubSeq(a, k + 1, n)
  OBVIOUS
<1>6. PICK v : v = SubSeq(u, k + 1, n + m)
  OBVIOUS
<1>7. t \in Seq(S) /\ Len(t) = n - k /\ \A i \in 1..(n - k) : t[i] = a[k + i]
  <2>1. /\ k + 1 \in Int /\ n \in Int /\ \A i \in (k + 1)..n : a[i] \in S
    BY <1>1, ElementOfSeq
  <2>2. /\ t \in Seq(S) /\ Len(t) = IF k + 1 <= n THEN n - (k + 1) + 1 ELSE 0
        /\ \A i \in 1..(n - (k + 1) + 1) : t[i] = a[(k + 1) + i - 1]
    BY <1>5, <2>1, SubSeqProperties
  <2>3. /\ (IF k + 1 <= n THEN n - (k + 1) + 1 ELSE 0) = n - k
        /\ n - (k + 1) + 1 = n - k
        /\ \A i \in 1..(n - k) : (k + 1) + i - 1 = k + i
    BY <1>1
  <2> QED BY <2>2, <2>3
<1>8. /\ v \in Seq(S) /\ Len(v) = (n - k) + m
      /\ \A i \in 1..((n - k) + m) : v[i] = u[k + i]
  <2>1. /\ k + 1 \in Int /\ n + m \in Int /\ \A i \in (k + 1)..(n + m) : u[i] \in S
    BY <1>1, <1>4, ElementOfSeq
  <2>2. /\ v \in Seq(S)
        /\ Len(v) = IF k + 1 <= n + m THEN (n + m) - (k + 1) + 1 ELSE 0
        /\ \A i \in 1..((n + m) - (k + 1) + 1) : v[i] = u[(k + 1) + i - 1]
    BY <1>6, <2>1, SubSeqProperties
  <2>3. /\ (IF k + 1 <= n + m THEN (n + m) - (k + 1) + 1 ELSE 0) = (n - k) + m
        /\ (n + m) - (k + 1) + 1 = (n - k) + m
        /\ \A i \in 1..((n - k) + m) : (k + 1) + i - 1 = k + i
    BY <1>1
  <2> QED BY <2>2, <2>3
<1>9. PICK w : w = t \o b
  OBVIOUS
<1>10. /\ w \in Seq(S) /\ Len(w) = (n - k) + m
       /\ \A i \in 1..((n - k) + m) : w[i] = IF i <= n - k THEN t[i] ELSE b[i - (n - k)]
  <2>1. /\ w \in Seq(S) /\ Len(w) = Len(t) + Len(b)
        /\ \A i \in 1..(Len(t) + Len(b)) :
             w[i] = IF i <= Len(t) THEN t[i] ELSE b[i - Len(t)]
    BY <1>7, <1>9, ConcatProperties
  <2>2. Len(t) = n - k /\ Len(b) = m
    BY <1>2, <1>7
  <2> QED BY <2>1, <2>2
<1>11. ASSUME NEW i \in 1..((n - k) + m) PROVE v[i] = w[i]
  <2>1. PICK j \in 1..(n + m) : j = k + i
    BY <1>1
  <2>2. CASE i <= n - k
    <3>1. j <= n /\ i \in 1..(n - k)
      BY <1>1, <2>1, <2>2
    <3> QED BY <1>4, <1>7, <1>8, <1>10, <2>1, <2>2, <3>1
  <2>3. CASE ~ (i <= n - k)
    <3>1. ~ (j <= n) /\ j - n = i - (n - k)
      BY <1>1, <2>1, <2>3
    <3> QED BY <1>4, <1>8, <1>10, <2>1, <2>3, <3>1
  <2> QED BY <2>2, <2>3
<1>12. v = w
  BY <1>8, <1>10, <1>11, SeqEqual
<1> QED BY <1>1, <1>3, <1>4, <1>5, <1>6, <1>7, <1>9, <1>12

(* What stands behind an event takes no part in its being replaced.        *)
LEMMA ReplacedInFront ==
  ASSUME NEW S, NEW a \in Seq(S), NEW b \in Seq(S), NEW r \in Seq(S),
         NEW i \in 1..Len(a)
  PROVE  /\ Replaced(a \o b, i, r) = Replaced(a, i, r) \o b
         /\ Replaced(a, i, r) \in Seq(S)
<1>1. i - 1 \in 0..Len(a) /\ i \in 0..Len(a)
  BY LenProperties
<1>2. PICK x : x = SubSeq(a, 1, i - 1)
  OBVIOUS
<1>3. PICK y : y = SubSeq(a, i + 1, Len(a))
  OBVIOUS
<1>4. x \in Seq(S) /\ SubSeq(a \o b, 1, i - 1) = x
  BY <1>1, <1>2, PrefixOfConcat
<1>5. y \in Seq(S) /\ SubSeq(a \o b, i + 1, Len(a \o b)) = y \o b
  BY <1>1, <1>3, RestOfConcat
<1>6. PICK z : z = x \o r
  OBVIOUS
<1>7. z \in Seq(S)
  BY <1>4, <1>6, ConcatProperties
<1>8. z \o (y \o b) = (z \o y) \o b /\ z \o y \in Seq(S)
  <2>1. JoinAlike(z, y, b)
    BY <1>5, <1>7, AllJoinAlike
  <2> QED BY <1>5, <1>7, <2>1, ConcatProperties DEF JoinAlike
<1> QED BY <1>2, <1>3, <1>4, <1>5, <1>6, <1>8 DEF Replaced

(* Joining two sequences of sequences.                                     *)
LEMMA FlattenConcat ==
  ASSUME NEW S, NEW a \in Seq(Seq(S)), NEW b \in Seq(Seq(S))
  PROVE  FlattenSeq(a \o b) = FlattenSeq(a) \o FlattenSeq(b)
<1>1. PICK n \in Nat : n = Len(a)
  BY LenProperties
<1>2. PICK m \in Nat : m = Len(b)
  BY LenProperties
<1>3. PICK u : u = a \o b
  OBVIOUS
<1>4. /\ u \in Seq(Seq(S)) /\ Len(u) = n + m
      /\ \A i \in 1..(n + m) : u[i] = IF i <= n THEN a[i] ELSE b[i - n]
  BY <1>1, <1>2, <1>3, ConcatProperties
<1>5. PICK c \in [0..(n + m) -> Seq(S)] :
        /\ c[0] = << >> /\ \A k \in 1..(n + m) : c[k] = c[k - 1] \o u[k]
        /\ FlattenSeq(u) = c[n + m]
  <2>1. \E c \in [0..Len(u) -> Seq(S)] :
          /\ c[0] = << >> /\ \A k \in 1..Len(u) : c[k] = c[k - 1] \o u[k]
          /\ FlattenSeq(u) = c[Len(u)]
    BY <1>4, FlattenIs
  <2> QED BY <1>4, <2>1
<1>6. PICK d \in [0..n -> Seq(S)] :
        /\ d[0] = << >> /\ \A k \in 1..n : d[k] = d[k - 1] \o a[k]
        /\ FlattenSeq(a) = d[n]
  BY <1>1, FlattenIs
<1>7. PICK f \in [0..m -> Seq(S)] :
        /\ f[0] = << >> /\ \A k \in 1..m : f[k] = f[k - 1] \o b[k]
        /\ FlattenSeq(b) = f[m]
  BY <1>2, FlattenIs
<1>8. c[n] = d[n]
  <2>1. PICK Q : Q = [k \in 0..n |-> {d[k]}]
    OBVIOUS
  <2>2. c[0] \in Q[0]
    BY <1>5, <1>6, <2>1
  <2>3. ASSUME NEW k \in 1..n, c[k - 1] \in Q[k - 1] PROVE c[k] \in Q[k]
    <3>1. k \in 1..(n + m) /\ k <= n /\ k - 1 \in 0..n /\ k \in 0..n
      OBVIOUS
    <3>2. c[k] = c[k - 1] \o a[k]
      BY <1>4, <1>5, <3>1
    <3>3. c[k - 1] = d[k - 1]
      BY <2>1, <2>3, <3>1
    <3> QED BY <1>6, <2>1, <3>1, <3>2, <3>3
  <2>4. \A k \in 0..n : c[k] \in Q[k]
    BY <2>2, <2>3, Chain
  <2> QED BY <2>1, <2>4
<1>9. c[n + m] = d[n] \o f[m]
  <2>1. PICK Q : Q = [k \in 0..m |-> {d[n] \o f[k]}]
    OBVIOUS
  <2>2. PICK g : g = [k \in 0..m |-> c[n + k]]
    OBVIOUS
  <2>3. d[n] \in Seq(S)
    BY <1>6
  <2>4. g[0] \in Q[0]
    <3>1. 0 \in 0..m /\ n + 0 = n
      OBVIOUS
    <3>2. d[n] \o << >> = d[n]
      BY <2>3, ConcatEmptySeq
    <3> QED BY <1>7, <1>8, <2>1, <2>2, <3>1, <3>2
  <2>5. ASSUME NEW k \in 1..m, g[k - 1] \in Q[k - 1] PROVE g[k] \in Q[k]
    <3>1. PICK j \in 1..(n + m) :
            j = n + k /\ j - 1 = n + (k - 1) /\ ~ (j <= n) /\ j - n = k
      OBVIOUS
    <3>2. k \in 0..m /\ k - 1 \in 0..m
      OBVIOUS
    <3>3. c[j] = c[j - 1] \o b[k]
      BY <1>4, <1>5, <3>1
    <3>4. g[k] = c[j] /\ g[k - 1] = c[j - 1]
      BY <2>2, <3>1, <3>2
    <3>5. c[j - 1] = d[n] \o f[k - 1]
      BY <2>1, <2>5, <3>2, <3>4
    <3>6. f[k - 1] \in Seq(S) /\ b[k] \in Seq(S) /\ f[k] = f[k - 1] \o b[k]
      BY <1>2, <1>7, <3>2, ElementOfSeq
    <3>7. (d[n] \o f[k - 1]) \o b[k] = d[n] \o (f[k - 1] \o b[k])
      <4>1. PICK x, y, z : x = d[n] /\ y = f[k - 1] /\ z = b[k]
        OBVIOUS
      <4>2. x \in Seq(S) /\ y \in Seq(S) /\ z \in Seq(S)
        BY <2>3, <3>6, <4>1
      <4>3. JoinAlike(x, y, z)
        BY <4>2, AllJoinAlike
      <4> QED BY <4>1, <4>3 DEF JoinAlike
    <3> QED BY <2>1, <3>2, <3>3, <3>4, <3>5, <3>6, <3>7
  <2>6. \A k \in 0..m : g[k] \in Q[k]
    BY <2>4, <2>5, Chain
  <2> QED BY <2>1, <2>2, <2>6
<1> QED BY <1>3, <1>5, <1>6, <1>7, <1>8, <1>9

LEMMA FlattenOne ==
  ASSUME NEW S, NEW q \in Seq(S)
  PROVE  FlattenSeq(<<q>>) = q /\ FlattenSeq(<< >>) = << >>
<1>1. PICK u : u = <<q>>
  OBVIOUS
<1>2. u \in Seq(Seq(S)) /\ Len(u) = 1 /\ u[1] = q
  BY <1>1
<1>3. PICK c \in [0..1 -> Seq(S)] :
        c[0] = << >> /\ c[1] = c[1 - 1] \o u[1] /\ FlattenSeq(u) = c[1]
  <2>1. PICK c \in [0..Len(u) -> Seq(S)] :
          /\ c[0] = << >> /\ \A k \in 1..Len(u) : c[k] = c[k - 1] \o u[k]
          /\ FlattenSeq(u) = c[Len(u)]
    BY <1>2, FlattenIs
  <2>2. 1 \in 1..1
    OBVIOUS
  <2> QED BY <1>2, <2>1, <2>2
<1>4. c[1] = q
  <2>1. 1 - 1 = 0
    OBVIOUS
  <2>2. << >> \o q = q
    BY ConcatEmptySeq
  <2> QED BY <1>2, <1>3, <2>1, <2>2
<1>5. FlattenSeq(<< >>) = << >>
  <2>1. PICK v : v = << >>
    OBVIOUS
  <2>2. v \in Seq(Seq(S)) /\ Len(v) = 0
    BY <2>1, EmptySeq
  <2>3. PICK g \in [0..Len(v) -> Seq(S)] : g[0] = << >> /\ FlattenSeq(v) = g[Len(v)]
    BY <2>2, FlattenIs
  <2> QED BY <2>1, <2>2, <2>3
<1> QED BY <1>1, <1>3, <1>4, <1>5

-----------------------------------------------------------------------------
(***************************************************************************)
(* More events at the end of the list: a handler does in front of them     *)
(* what it does without them, and leaves them alone.  Events of the past   *)
(* make events of the past, and what is created now goes behind them.      *)
(***************************************************************************)

(* Events that are not stamped with a time to come.                        *)
InPast(t) == {e \in Event : e.time <= t}

LEMMA CopiesInPast ==
  ASSUME NEW t, NEW e \in InPast(t), NEW r \in Seq(Event), AreCopies(r, e)
  PROVE  r \in Seq(InPast(t))
<1>1. PICK n \in Nat : n = Len(r) /\ r \in [1..n -> Event]
  BY LenProperties
<1>2. \A k \in 1..n : r[k] \in InPast(t)
  BY <1>1 DEF AreCopies, IsCopy, InPast
<1>3. r \in [1..n -> InPast(t)]
  BY <1>1, <1>2
<1> QED BY <1>1, <1>3

LEMMA BroadcastInPast ==
  ASSUME NEW t, NEW e \in InPast(t), e.pos \in Node, NEW p
  PROVE  Copies(e, p) \in Seq(InPast(t))
<1>1. e \in Event
  BY DEF InPast
<1>2. PICK r : r = Copies(e, p)
  OBVIOUS
<1>3. r \in Seq(Event) /\ AreCopies(r, e)
  BY <1>1, <1>2, CopiesAre
<1> QED BY <1>2, <1>3, CopiesInPast

LEMMA PastIsTyped ==
  ASSUME NEW t, NEW s \in Seq(InPast(t))
  PROVE  s \in Seq(Event) /\ \A k \in 1..Len(s) : s[k] \in InPast(t)
<1>1. InPast(t) \subseteq Event
  BY DEF InPast
<1> QED BY <1>1, SeqMonotonic, ElementOfSeq

(* Machine w is m without the events b at the end of m's list.             *)
WithEvents(m, s) == [m EXCEPT !.events = s]
InFront(w, m, b, t) ==
  /\ m \in Machine /\ w.events \in Seq(InPast(t)) /\ b \in Seq(InPast(t))
  /\ m.events = w.events \o b
  /\ w = WithEvents(m, w.events)

LEMMA FrontIs ==
  ASSUME NEW t, NEW w, NEW m, NEW b, InFront(w, m, b, t)
  PROVE  /\ w \in Machine /\ w.events \in Seq(Event)
         /\ w.waiting = m.waiting /\ w.memory = m.memory
         /\ w.predicates = m.predicates /\ w.buffer = m.buffer
         /\ w.members = m.members /\ w.skip = m.skip /\ w.delivered = m.delivered
         /\ w.issued = m.issued
<1>1. PICK a : a = w.events
  OBVIOUS
<1>2. m \in Machine /\ a \in Seq(Event) /\ w = [m EXCEPT !.events = a]
  BY <1>1, PastIsTyped DEF InFront, WithEvents
<1> QED BY <1>1, <1>2 DEF Machine

LEMMA PlaceInFront ==
  ASSUME NEW t, NEW w, NEW m, NEW b, InFront(w, m, b, t),
         NEW i \in 1..Len(w.events)
  PROVE  /\ i \in 1..Len(m.events) /\ m.events[i] = w.events[i]
         /\ w.events[i] \in InPast(t) /\ w.events[i] \in Event
<1>1. PICK a : a = w.events
  OBVIOUS
<1>2. PICK u : u = m.events
  OBVIOUS
<1>3. a \in Seq(InPast(t)) /\ b \in Seq(InPast(t)) /\ u = a \o b
  BY <1>1, <1>2 DEF InFront
<1>4. /\ Len(u) = Len(a) + Len(b) /\ Len(a) \in Nat /\ Len(b) \in Nat
      /\ \A k \in 1..(Len(a) + Len(b)) :
           u[k] = IF k <= Len(a) THEN a[k] ELSE b[k - Len(a)]
  BY <1>3, ConcatProperties, LenProperties
<1>5. i \in 1..(Len(a) + Len(b)) /\ i <= Len(a) /\ i \in 1..Len(a)
  BY <1>1, <1>4
<1>6. a[i] \in InPast(t) /\ a[i] \in Event
  BY <1>3, <1>5, PastIsTyped DEF InPast
<1> QED BY <1>1, <1>2, <1>4, <1>5, <1>6

(* Replacing an event of the front leaves the rest alone.                  *)
LEMMA ReplacingInFront ==
  ASSUME NEW t, NEW w, NEW m, NEW b, InFront(w, m, b, t),
         NEW i \in 1..Len(w.events), NEW r \in Seq(InPast(t)),
         NEW m2 \in Machine, m2.events = Replaced(m.events, i, r),
         NEW w2, w2 = WithEvents(m2, Replaced(w.events, i, r))
  PROVE  InFront(w2, m2, b, t)
<1>1. PICK a : a = w.events
  OBVIOUS
<1>2. PICK s : s = Replaced(a, i, r)
  OBVIOUS
<1>3. a \in Seq(InPast(t)) /\ b \in Seq(InPast(t)) /\ m.events = a \o b /\ i \in 1..Len(a)
  BY <1>1 DEF InFront
<1>4. m2.events = s \o b /\ s \in Seq(InPast(t))
  <2>1. PICK S : S = InPast(t)
    OBVIOUS
  <2>2. Replaced(a \o b, i, r) = Replaced(a, i, r) \o b /\ Replaced(a, i, r) \in Seq(S)
    BY <1>3, <2>1, ReplacedInFront
  <2> QED BY <1>2, <1>3, <2>1, <2>2
<1>5. w2.events = s
  BY <1>1, <1>2 DEF WithEvents, Machine
<1> QED BY <1>1, <1>2, <1>3, <1>4, <1>5 DEF InFront

LEMMA ChannelInFront ==
  ASSUME NEW t, NEW w, NEW m, NEW b, InFront(w, m, b, t),
         NEW i \in 1..Len(w.events), w.events[i].pos \in Channel
  PROVE  InFront(AtChannel(w, i), AtChannel(m, i), b, t)
<1>1. PICK e : e = w.events[i]
  OBVIOUS
<1>2. PICK r : r = Passed(Entering(m, e))
  OBVIOUS
<1>3. /\ m \in Machine /\ i \in 1..Len(m.events) /\ m.events[i] = e
      /\ e \in InPast(t) /\ e \in Event
  <2>1. m \in Machine
    BY DEF InFront
  <2> QED BY <1>1, <2>1, PlaceInFront
<1>4. r \in Seq(InPast(t))
  <2>1. PICK f : f = Entering(m, e)
    OBVIOUS
  <2>2. f \in Event /\ f.pos \in Channel /\ IsCopy(f, e)
    BY <1>1, <1>3, <2>1, EnteringIs
  <2>3. r \in Seq(Event) /\ AreCopies(r, f)
    BY <1>2, <2>1, <2>2, PassedIs
  <2>4. AreCopies(r, e)
    BY <2>2, <2>3 DEF AreCopies, IsCopy
  <2> QED BY <1>3, <2>3, <2>4, CopiesInPast
<1>5. AtChannel(m, i) \in Machine
  BY <1>1, <1>3, ChannelMoves DEF Moves
<1>6. PICK v : v = Wake(m, e)
  OBVIOUS
<1>7. v = Wake(w, e)
  <2>1. w.waiting = m.waiting
    BY FrontIs
  <2> QED BY <1>6, <2>1 DEF Wake
<1>c. PICK c : c = Issued(m, e)
  OBVIOUS
<1>d. c = Issued(w, e) /\ r = Passed(Entering(w, e))
  <2>1. w.issued = m.issued
    BY FrontIs
  <2> QED BY <1>2, <1>c, <2>1 DEF Issued, Entering
<1>8. PICK s : s = Replaced(m.events, i, r)
  OBVIOUS
<1>9. PICK a : a = Replaced(w.events, i, r)
  OBVIOUS
<1>10. AtChannel(m, i) = [m EXCEPT !.events = s, !.waiting = v, !.issued = c]
  BY <1>2, <1>3, <1>6, <1>8, <1>c DEF AtChannel
<1>11. AtChannel(w, i) = [w EXCEPT !.events = a, !.waiting = v, !.issued = c]
  BY <1>1, <1>7, <1>9, <1>d DEF AtChannel
<1>12. PICK x : x = w.events
  OBVIOUS
<1>13. w = [m EXCEPT !.events = x]
  BY <1>12 DEF InFront, WithEvents
<1>14. /\ AtChannel(m, i).events = s
       /\ AtChannel(w, i) = WithEvents(AtChannel(m, i), a)
  BY <1>3, <1>10, <1>11, <1>13 DEF Machine, WithEvents
<1> QED BY <1>4, <1>5, <1>8, <1>9, <1>14, ReplacingInFront

LEMMA ForwardInFront ==
  ASSUME NEW t, NEW w, NEW m, NEW b, InFront(w, m, b, t),
         NEW i \in 1..Len(w.events), w.events[i].pos \in Node
  PROVE  InFront(AtForward(w, i), AtForward(m, i), b, t)
<1>1. PICK e : e = w.events[i]
  OBVIOUS
<1>2. m \in Machine /\ i \in 1..Len(m.events) /\ m.events[i] = e /\ e \in InPast(t)
  <2>1. m \in Machine
    BY DEF InFront
  <2> QED BY <1>1, <2>1, PlaceInFront
<1>3. PICK r : r = Copies(e, m.predicates) /\ r = Copies(e, w.predicates)
  BY FrontIs
<1>4. r \in Seq(InPast(t))
  BY <1>1, <1>2, <1>3, BroadcastInPast
<1>5. AtForward(m, i) \in Machine
  BY <1>1, <1>2, ForwardMoves DEF Moves
<1>6. PICK s : s = Replaced(m.events, i, r)
  OBVIOUS
<1>7. PICK a : a = Replaced(w.events, i, r)
  OBVIOUS
<1>8. AtForward(m, i) = [m EXCEPT !.events = s]
  BY <1>2, <1>3, <1>6 DEF AtForward
<1>9. AtForward(w, i) = [w EXCEPT !.events = a]
  BY <1>1, <1>3, <1>7 DEF AtForward
<1>10. PICK x : x = w.events
  OBVIOUS
<1>11. w = [m EXCEPT !.events = x]
  BY <1>10 DEF InFront, WithEvents
<1>12. /\ AtForward(m, i).events = s
       /\ AtForward(w, i) = WithEvents(AtForward(m, i), a)
  BY <1>2, <1>8, <1>9, <1>11 DEF Machine, WithEvents
<1> QED BY <1>4, <1>5, <1>6, <1>7, <1>12, ReplacingInFront

LEMMA AssignInFront ==
  ASSUME NEW t, NEW w, NEW m, NEW b, InFront(w, m, b, t),
         NEW i \in 1..Len(w.events), w.events[i].pos \in Node,
         Kind[w.events[i].pos] = "assign"
  PROVE  InFront(AtAssign(w, i), AtAssign(m, i), b, t)
<1>1. PICK e : e = w.events[i]
  OBVIOUS
<1>2. m \in Machine /\ i \in 1..Len(m.events) /\ m.events[i] = e /\ e \in InPast(t)
  <2>1. m \in Machine
    BY DEF InFront
  <2> QED BY <1>1, <2>1, PlaceInFront
<1>3. PICK f : f = Assigned(e)
  OBVIOUS
<1>4. f \in InPast(t) /\ f.pos \in Node
  <2>1. e \in Event
    BY <1>2 DEF InPast
  <2>2. /\ Options[e.pos].recode[e.code] \in Code
        /\ Options[e.pos].payload = Null \/ Options[e.pos].payload \in Int64
    BY <1>1, <2>1, OptionsAssumption DEF Event
  <2> QED BY <1>1, <1>2, <1>3, <2>1, <2>2 DEF Assigned, Event, InPast
<1>5. PICK r : r = Copies(f, m.predicates) /\ r = Copies(f, w.predicates)
  BY FrontIs
<1>6. r \in Seq(InPast(t))
  BY <1>4, <1>5, BroadcastInPast
<1>7. AtAssign(m, i) \in Machine
  BY <1>1, <1>2, AssignMoves DEF Moves
<1>8. PICK s : s = Replaced(m.events, i, r)
  OBVIOUS
<1>9. PICK a : a = Replaced(w.events, i, r)
  OBVIOUS
<1>10. AtAssign(m, i) = [m EXCEPT !.events = s]
  BY <1>2, <1>3, <1>5, <1>8 DEF AtAssign
<1>11. AtAssign(w, i) = [w EXCEPT !.events = a]
  BY <1>1, <1>3, <1>5, <1>9 DEF AtAssign
<1>12. PICK x : x = w.events
  OBVIOUS
<1>13. w = [m EXCEPT !.events = x]
  BY <1>12 DEF InFront, WithEvents
<1>14. /\ AtAssign(m, i).events = s
       /\ AtAssign(w, i) = WithEvents(AtAssign(m, i), a)
  BY <1>2, <1>10, <1>11, <1>13 DEF Machine, WithEvents
<1> QED BY <1>6, <1>7, <1>8, <1>9, <1>14, ReplacingInFront

(* A handler that destroys its event and changes nothing of the list.      *)
LEMMA DestroyingInFront ==
  ASSUME NEW t, NEW w, NEW m, NEW b, InFront(w, m, b, t),
         NEW i \in 1..Len(w.events)
  PROVE  /\ DestroyedAt(m.events, i) = Replaced(m.events, i, << >>)
         /\ DestroyedAt(w.events, i) = Replaced(w.events, i, << >>)
         /\ << >> \in Seq(InPast(t))
<1>1. PICK u : u = m.events
  OBVIOUS
<1>2. PICK a : a = w.events
  OBVIOUS
<1>3. u \in Seq(Event) /\ i \in 1..Len(u)
  <2>1. m \in Machine
    BY DEF InFront
  <2> QED BY <1>1, <2>1, PlaceInFront DEF Machine
<1>4. a \in Seq(Event) /\ i \in 1..Len(a)
  BY <1>2, FrontIs
<1>5. << >> \in Seq(InPast(t))
  BY EmptySeq
<1> QED BY <1>1, <1>2, <1>3, <1>4, <1>5, DestroyedReplaces

LEMMA ComputingInFront ==
  ASSUME NEW t, NEW w, NEW m, NEW b, InFront(w, m, b, t),
         NEW i \in 1..Len(w.events), w.events[i].pos \in ComputingNode
  PROVE  InFront(AtComputing(w, i), AtComputing(m, i), b, t)
<1>1. PICK e : e = w.events[i]
  OBVIOUS
<1>2. m \in Machine /\ i \in 1..Len(m.events) /\ m.events[i] = e /\ e \in InPast(t)
  <2>1. m \in Machine
    BY DEF InFront
  <2> QED BY <1>1, <2>1, PlaceInFront
<1>3. PICK x : x = w.events
  OBVIOUS
<1>4. w = [m EXCEPT !.events = x]
  BY <1>3 DEF InFront, WithEvents
<1>5. AtComputing(m, i) \in Machine
  BY <1>1, <1>2, ComputingMoves DEF Moves
<1>6. CASE Outputs[e.pos] = << >>
  <2>1. PICK r : r = << >>
    OBVIOUS
  <2>2. PICK s : s = Replaced(m.events, i, r)
    OBVIOUS
  <2>3. PICK a : a = Replaced(w.events, i, r)
    OBVIOUS
  <2>4. /\ r \in Seq(InPast(t)) /\ DestroyedAt(m.events, i) = s
        /\ DestroyedAt(w.events, i) = a
    BY <2>1, <2>2, <2>3, DestroyingInFront
  <2>5. AtComputing(m, i) = [m EXCEPT !.events = s]
    BY <1>2, <1>6, <2>4 DEF AtComputing
  <2>6. AtComputing(w, i) = [w EXCEPT !.events = a]
    BY <1>1, <1>6, <2>4 DEF AtComputing
  <2>7. /\ AtComputing(m, i).events = s
        /\ AtComputing(w, i) = WithEvents(AtComputing(m, i), a)
    BY <1>2, <1>4, <2>5, <2>6 DEF Machine, WithEvents
  <2> QED BY <1>5, <2>2, <2>3, <2>4, <2>7, ReplacingInFront
<1>7. CASE Outputs[e.pos] # << >>
  <2>1. PICK left : left = Computed(e, m.memory[e.pos])
    OBVIOUS
  <2>2. left.payload \in Int64
    <3>1. m.memory[e.pos] \in Int64 /\ e \in Event /\ e.pos \in ComputingNode
      BY <1>1, <1>2 DEF Machine, InPast
    <3> QED BY <2>1, <3>1, ComputesInt64
  <2>3. PICK f : f = [e EXCEPT !.payload = left.payload]
    OBVIOUS
  <2>4. f \in InPast(t) /\ f.pos \in Node
    BY <1>1, <1>2, <2>2, <2>3 DEF Event, InPast, ComputingNode
  <2>5. PICK r : r = Copies(f, m.predicates)
    OBVIOUS
  <2>6. r \in Seq(InPast(t))
    BY <2>4, <2>5, BroadcastInPast
  <2>7. PICK s : s = Replaced(m.events, i, r)
    OBVIOUS
  <2>8. PICK a : a = Replaced(w.events, i, r)
    OBVIOUS
  <2>9. PICK y : y = [m.memory EXCEPT ![e.pos] = left.memory]
    OBVIOUS
  <2>10. AtComputing(m, i) = [m EXCEPT !.events = s, !.memory = y]
    BY <1>2, <1>7, <2>1, <2>3, <2>5, <2>7, <2>9 DEF AtComputing
  <2>11. AtComputing(w, i) = [w EXCEPT !.events = a, !.memory = y]
    <3>1. w.memory = m.memory /\ w.predicates = m.predicates
      BY FrontIs
    <3> QED BY <1>1, <1>7, <2>1, <2>3, <2>5, <2>8, <2>9, <3>1 DEF AtComputing
  <2>12. /\ AtComputing(m, i).events = s
         /\ AtComputing(w, i) = WithEvents(AtComputing(m, i), a)
    BY <1>2, <1>4, <2>10, <2>11 DEF Machine, WithEvents
  <2> QED BY <1>5, <2>6, <2>7, <2>8, <2>12, ReplacingInFront
<1> QED BY <1>6, <1>7

LEMMA ModifyPredicateInFront ==
  ASSUME NEW t, NEW w, NEW m, NEW b, InFront(w, m, b, t),
         NEW i \in 1..Len(w.events)
  PROVE  InFront(AtModifyPredicate(w, i), AtModifyPredicate(m, i), b, t)
<1>1. PICK e : e = w.events[i]
  OBVIOUS
<1>2. m \in Machine /\ i \in 1..Len(m.events) /\ m.events[i] = e
  <2>1. m \in Machine
    BY DEF InFront
  <2> QED BY <1>1, <2>1, PlaceInFront
<1>3. PICK x : x = w.events
  OBVIOUS
<1>4. w = [m EXCEPT !.events = x]
  BY <1>3 DEF InFront, WithEvents
<1>5. AtModifyPredicate(m, i) \in Machine
  BY <1>2, ModifyPredicateMoves DEF Moves
<1>6. PICK r : r = << >>
  OBVIOUS
<1>7. PICK s : s = Replaced(m.events, i, r)
  OBVIOUS
<1>8. PICK a : a = Replaced(w.events, i, r)
  OBVIOUS
<1>9. /\ r \in Seq(InPast(t)) /\ DestroyedAt(m.events, i) = s
      /\ DestroyedAt(w.events, i) = a
  BY <1>6, <1>7, <1>8, DestroyingInFront
<1>10. PICK y : y = Switched(e, m.predicates)
  OBVIOUS
<1>11. AtModifyPredicate(m, i) = [m EXCEPT !.events = s, !.predicates = y]
  BY <1>2, <1>9, <1>10 DEF AtModifyPredicate
<1>12. AtModifyPredicate(w, i) = [w EXCEPT !.events = a, !.predicates = y]
  <2>1. w.predicates = m.predicates
    BY FrontIs
  <2> QED BY <1>1, <1>9, <1>10, <2>1 DEF AtModifyPredicate
<1>13. /\ AtModifyPredicate(m, i).events = s
       /\ AtModifyPredicate(w, i) = WithEvents(AtModifyPredicate(m, i), a)
  BY <1>2, <1>4, <1>11, <1>12 DEF Machine, WithEvents
<1> QED BY <1>5, <1>7, <1>8, <1>9, <1>13, ReplacingInFront

LEMMA SinkInFront ==
  ASSUME NEW t, NEW w, NEW m, NEW b, InFront(w, m, b, t),
         NEW i \in 1..Len(w.events), w.events[i].pos \in Node
  PROVE  InFront(AtSink(w, i), AtSink(m, i), b, t)
<1>1. PICK e : e = w.events[i]
  OBVIOUS
<1>2. m \in Machine /\ i \in 1..Len(m.events) /\ m.events[i] = e
  <2>1. m \in Machine
    BY DEF InFront
  <2> QED BY <1>1, <2>1, PlaceInFront
<1>3. PICK x : x = w.events
  OBVIOUS
<1>4. w = [m EXCEPT !.events = x]
  BY <1>3 DEF InFront, WithEvents
<1>5. AtSink(m, i) \in Machine
  BY <1>1, <1>2, SinkMoves DEF Moves
<1>6. PICK r : r = << >>
  OBVIOUS
<1>7. PICK s : s = Replaced(m.events, i, r)
  OBVIOUS
<1>8. PICK a : a = Replaced(w.events, i, r)
  OBVIOUS
<1>9. /\ r \in Seq(InPast(t)) /\ DestroyedAt(m.events, i) = s
      /\ DestroyedAt(w.events, i) = a
  BY <1>6, <1>7, <1>8, DestroyingInFront
<1>10. PICK y : y = Append(m.delivered,
                      [sink |-> e.pos, src |-> e.src, n |-> e.n, time |-> e.time,
                       code |-> e.code, payload |-> e.payload])
  OBVIOUS
<1>11. AtSink(m, i) = [m EXCEPT !.events = s, !.delivered = y]
  BY <1>2, <1>9, <1>10 DEF AtSink
<1>12. AtSink(w, i) = [w EXCEPT !.events = a, !.delivered = y]
  <2>1. w.delivered = m.delivered
    BY FrontIs
  <2> QED BY <1>1, <1>9, <1>10, <2>1 DEF AtSink
<1>13. /\ AtSink(m, i).events = s
       /\ AtSink(w, i) = WithEvents(AtSink(m, i), a)
  BY <1>2, <1>4, <1>11, <1>12 DEF Machine, WithEvents
<1> QED BY <1>5, <1>7, <1>8, <1>9, <1>13, ReplacingInFront

(* A window at work with events of the past sends events of the past.      *)
Punctual(w, t) ==
  {st \in WindowState :
     /\ st.buffer \in Seq(InPast(t) \intersect EventsAt(w))
     /\ st.sent \in Seq(InPast(t))}

LEMMA TerminatorInPast ==
  ASSUME NEW t, NEW w \in WindowNode, NEW e \in InPast(t) \intersect EventsAt(w), NEW p
  PROVE  Terminator(w, e, p) \in Seq(InPast(t))
<1>1. CASE Options[w].terminator
  <2>1. PICK f : f = [e EXCEPT !.code = "end", !.payload = 0]
    OBVIOUS
  <2>2. "end" \in Code /\ 0 \in Int64
    BY <1>1, WindowAssumption, HalfAssumption DEF Int64
  <2>3. f \in InPast(t) /\ f.pos \in Node
    BY <2>1, <2>2 DEF EventsAt, Event, WindowNode, InPast
  <2> QED BY <1>1, <2>1, <2>3, BroadcastInPast DEF Terminator
<1>2. CASE ~ Options[w].terminator
  BY <1>2, EmptySeq DEF Terminator
<1> QED BY <1>1, <1>2

LEMMA SentAgainInPast ==
  ASSUME NEW t, NEW w \in WindowNode, NEW p,
         NEW s \in Seq(InPast(t) \intersect EventsAt(w))
  PROVE  FlattenSeq([k \in DOMAIN s |-> Copies(s[k], p)]) \in Seq(InPast(t))
<1>1. Len(s) \in Nat /\ DOMAIN s = 1..Len(s)
  BY LenProperties
<1>2. w \in Node
  BY DEF WindowNode
<1>3. \A k \in 1..Len(s) : s[k] \in InPast(t) /\ s[k] \in EventsAt(w)
  <2>1. \A k \in 1..Len(s) : s[k] \in InPast(t) \intersect EventsAt(w)
    BY ElementOfSeq
  <2> QED BY <2>1
<1>4. \A k \in 1..Len(s) : s[k].pos \in Node
  BY <1>2, <1>3 DEF EventsAt
<1>5. \A k \in 1..Len(s) : Copies(s[k], p) \in Seq(InPast(t))
  BY <1>3, <1>4, BroadcastInPast
<1>6. PICK q : q = [k \in 1..Len(s) |-> Copies(s[k], p)]
  OBVIOUS
<1>7. q \in Seq(Seq(InPast(t)))
  BY <1>1, <1>5, <1>6, IsASeq
<1>8. FlattenSeq(q) \in Seq(InPast(t))
  BY <1>7, FlattenTyped
<1> QED BY <1>1, <1>6, <1>8

LEMMA TriggerInPast ==
  ASSUME NEW t, NEW w \in WindowNode, NEW e \in InPast(t) \intersect EventsAt(w), NEW p,
         NEW st \in Punctual(w, t)
  PROVE  Trigger(w, e, p, st) \in Punctual(w, t)
<1>1. PICK o : o = Options[w]
  OBVIOUS
<1>2. o.jumping \in BOOLEAN /\ o.additionalStep \in Nat
  BY <1>1, WindowAssumption
<1>3. PICK length : length = Len(st.buffer)
  OBVIOUS
<1>4. /\ st \in WindowState /\ st.buffer \in Seq(InPast(t) \intersect EventsAt(w))
      /\ st.sent \in Seq(InPast(t)) /\ length \in Nat
      /\ st.skip \in Nat /\ st.members \subseteq Event
  <2>1. st.buffer \in Seq(InPast(t) \intersect EventsAt(w))
    BY DEF Punctual
  <2> QED BY <1>3, <2>1, LenProperties DEF Punctual, WindowState
<1>5. PICK wanted : wanted = (IF o.jumping THEN length ELSE 1) + o.additionalStep
  OBVIOUS
<1>6. PICK step : step = IF wanted < 1 THEN 1 ELSE wanted
  OBVIOUS
<1>7. PICK popped : popped = IF step < length THEN step ELSE length
  OBVIOUS
<1>8. /\ step \in Nat /\ popped \in 0..length /\ step - popped \in Nat
  BY <1>2, <1>4, <1>5, <1>6, <1>7
<1>9. PICK kept : kept = SubSeq(st.buffer, popped + 1, length)
  OBVIOUS
<1>10. PICK gone : gone = SubSeq(st.buffer, 1, popped)
  OBVIOUS
<1>11. kept \in Seq(InPast(t) \intersect EventsAt(w)) /\ kept \in Seq(Event)
  <2>1. PICK b : b = st.buffer
    OBVIOUS
  <2>2. kept \in Seq(InPast(t) \intersect EventsAt(w))
    <3>1. PICK S : S = InPast(t) \intersect EventsAt(w)
      OBVIOUS
    <3>2. b \in Seq(S) /\ popped \in 0..Len(b) /\ kept = SubSeq(b, popped + 1, Len(b))
      BY <1>3, <1>4, <1>8, <1>9, <2>1, <3>1
    <3>3. SubSeq(b, popped + 1, Len(b)) \in Seq(S)
      BY <3>2, Halves
    <3> QED BY <3>1, <3>2, <3>3
  <2>3. InPast(t) \intersect EventsAt(w) \subseteq Event
    BY DEF InPast
  <2> QED BY <2>2, <2>3, SeqMonotonic
<1>12. PICK last : last = Terminator(w, e, p)
  OBVIOUS
<1>13. PICK again : again = FlattenSeq([k \in DOMAIN kept |-> Copies(kept[k], p)])
  OBVIOUS
<1>14. PICK x : x = (st.sent \o last) \o again
  OBVIOUS
<1>15. x \in Seq(InPast(t)) /\ x \in Seq(Event)
  <2>1. last \in Seq(InPast(t))
    BY <1>12, TerminatorInPast
  <2>2. again \in Seq(InPast(t))
    BY <1>11, <1>13, SentAgainInPast
  <2>3. PICK y : y = st.sent \o last
    OBVIOUS
  <2>4. y \in Seq(InPast(t))
    BY <1>4, <2>1, <2>3, ConcatProperties
  <2>5. x \in Seq(InPast(t))
    BY <1>14, <2>2, <2>3, <2>4, ConcatProperties
  <2> QED BY <2>5, PastIsTyped
<1>16. PICK z : z = Trigger(w, e, p, st)
  OBVIOUS
<1>17. z = [buffer |-> kept, members |-> st.members \ ToSet(gone),
            skip |-> st.skip + (step - popped), sent |-> x]
  BY <1>1, <1>3, <1>5, <1>6, <1>7, <1>9, <1>10, <1>12, <1>13, <1>14, <1>16
     DEF Trigger, State
<1>18. z \in WindowState
  BY <1>4, <1>8, <1>11, <1>15, <1>17 DEF WindowState
<1> QED BY <1>11, <1>15, <1>16, <1>17, <1>18 DEF Punctual

LEMMA LoopsInPast ==
  ASSUME NEW t, NEW w \in WindowNode, NEW e \in InPast(t) \intersect EventsAt(w), NEW p,
         NEW st \in Punctual(w, t)
  PROVE  /\ AfterTime(w, e, p, st) \in Punctual(w, t)
         /\ AfterLength(w, e, p, st) \in Punctual(w, t)
<1>1. PICK K : K = Punctual(w, t)
  OBVIOUS
<1>2. \A s \in K : Trigger(w, e, p, s) \in K
  BY <1>1, TriggerInPast
<1>3. PICK n \in Nat : DOMAIN st.buffer = 1..n
  <2>1. st.buffer \in Seq(InPast(t) \intersect EventsAt(w))
    BY DEF Punctual
  <2> QED BY <2>1, LenProperties
<1>4. st \in K
  BY <1>1
<1>5. AfterTime(w, e, p, st) \in K
  BY <1>2, <1>3, <1>4, AfterTimeRounds
<1>6. AfterLength(w, e, p, st) \in K
  BY <1>2, <1>3, <1>4, AfterLengthRounds
<1> QED BY <1>1, <1>5, <1>6

LEMMA BeforeSkipInPast ==
  ASSUME NEW t, NEW m \in Machine, m.events \in Seq(InPast(t)),
         NEW strict, WindowSound(m, strict),
         NEW i \in 1..Len(m.events), NEW v \in WindowNode, m.events[i].pos = v
  PROVE  /\ m.events[i] \in InPast(t) \intersect EventsAt(v)
         /\ BeforeSkip(m, i) \in Punctual(v, t)
<1>1. PICK S : S = InPast(t) \intersect EventsAt(v)
  OBVIOUS
<1>2. m.events[i] \in S
  <2>1. m.events[i] \in InPast(t)
    BY PastIsTyped
  <2> QED BY <1>1, <2>1 DEF EventsAt, InPast
<1>3. PICK b : b = m.buffer[v]
  OBVIOUS
<1>4. b \in Seq(Event) /\ m.members[v] \subseteq Event /\ m.skip[v] \in Nat
  BY <1>3 DEF Machine
<1>5. b \in Seq(S)
  <2>1. PICK n \in Nat : n = Len(b) /\ DOMAIN b = 1..n /\ b \in [1..n -> Event]
    BY <1>4, LenProperties
  <2>2. ASSUME NEW k \in 1..n PROVE b[k] \in S
    <3>1. b[k] \in ToSet(b)
      BY <2>1 DEF ToSet
    <3>2. b[k] \in ToSet(m.events) /\ b[k].pos = v
      BY <1>3, <3>1 DEF WindowSound
    <3>3. ToSet(m.events) \subseteq InPast(t)
      <4>1. DOMAIN m.events = 1..Len(m.events)
        BY LenProperties
      <4> QED BY <4>1, PastIsTyped DEF ToSet
    <3>4. b[k] \in Event
      BY <2>1
    <3> QED BY <1>1, <3>2, <3>3, <3>4 DEF EventsAt
  <2>3. b \in [1..n -> S]
    BY <2>1, <2>2
  <2> QED BY <2>1, <2>3
<1>6. PICK st : st = State(b, m.members[v], m.skip[v], << >>)
  OBVIOUS
<1>7. st \in Punctual(v, t)
  <2>1. << >> \in Seq(Event) /\ << >> \in Seq(InPast(t))
    BY EmptySeq
  <2>2. st \in WindowState /\ st.buffer = b /\ st.sent = << >>
    BY <1>4, <1>6, <2>1 DEF State, WindowState
  <2> QED BY <1>1, <1>5, <2>1, <2>2 DEF Punctual
<1>8. BeforeSkip(m, i) = AfterTime(v, m.events[i], m.predicates, st)
  BY <1>3, <1>6 DEF BeforeSkip
<1>9. PICK e : e = m.events[i]
  OBVIOUS
<1>10. AfterTime(v, e, m.predicates, st) \in Punctual(v, t)
  BY <1>1, <1>2, <1>7, <1>9, LoopsInPast
<1> QED BY <1>1, <1>2, <1>8, <1>9, <1>10

LEMMA AllInPast ==
  ASSUME NEW t, NEW w, NEW m, NEW b, InFront(w, m, b, t)
  PROVE  m.events \in Seq(InPast(t))
<1>1. PICK a : a = w.events
  OBVIOUS
<1>2. a \in Seq(InPast(t)) /\ b \in Seq(InPast(t)) /\ m.events = a \o b
  BY <1>1 DEF InFront
<1> QED BY <1>2, ConcatProperties

LEMMA SameBeforeSkip ==
  ASSUME NEW t, NEW w, NEW m, NEW b, InFront(w, m, b, t),
         NEW i \in 1..Len(w.events)
  PROVE  /\ BeforeSkip(w, i) = BeforeSkip(m, i) /\ Skips(w, i) = Skips(m, i)
         /\ Departs(w, i) = Departs(m, i) /\ Astray(w, i) = Astray(m, i)
         /\ Resident(w, i) = Resident(m, i)
<1>1. /\ w.events[i] = m.events[i] /\ w.predicates = m.predicates
      /\ w.buffer = m.buffer /\ w.members = m.members /\ w.skip = m.skip
      /\ w.issued = m.issued
  BY FrontIs, PlaceInFront
<1>2. BeforeSkip(w, i) = BeforeSkip(m, i)
  BY <1>1 DEF BeforeSkip
<1>3. Departs(w, i) = Departs(m, i)
  BY <1>1, <1>2 DEF Departs
<1>4. Astray(w, i) = Astray(m, i)
  BY <1>1, <1>3 DEF Astray
<1>5. Resident(w, i) = Resident(m, i)
  BY <1>1, <1>3 DEF Resident
<1> QED BY <1>2, <1>3, <1>4, <1>5 DEF Skips

(* What the handler of a window leaves, in front of the rest.              *)
LEMMA LeavingInFront ==
  ASSUME NEW t, NEW w, NEW m, NEW b, InFront(w, m, b, t),
         NEW i \in 1..Len(w.events), NEW v, v = m.events[i].pos,
         NEW st, NEW sent \in Seq(InPast(t)),
         NEW wait, NEW m2 \in Machine,
         m2 = [WindowLeft(m, i, st, sent) EXCEPT !.waiting = wait]
  PROVE  InFront([WindowLeft(w, i, st, sent) EXCEPT !.waiting = wait], m2, b, t)
<1>1. m \in Machine /\ w.events[i] = m.events[i]
  <2>1. m \in Machine
    BY DEF InFront
  <2> QED BY <2>1, PlaceInFront
<1>2. PICK s : s = Replaced(m.events, i, sent)
  OBVIOUS
<1>3. PICK a : a = Replaced(w.events, i, sent)
  OBVIOUS
<1>4. PICK x : x = [m.buffer EXCEPT ![v] = st.buffer]
  OBVIOUS
<1>5. PICK y : y = [m.members EXCEPT ![v] = st.members]
  OBVIOUS
<1>6. PICK z : z = [m.skip EXCEPT ![v] = st.skip]
  OBVIOUS
<1>n. PICK n : n = IF Departs(m, i) THEN m.issued + 1 ELSE m.issued
  OBVIOUS
<1>7. WindowLeft(m, i, st, sent)
        = [m EXCEPT !.events = s, !.buffer = x, !.members = y, !.skip = z,
                    !.issued = n]
  BY <1>2, <1>4, <1>5, <1>6, <1>n DEF WindowLeft
<1>8. WindowLeft(w, i, st, sent)
        = [w EXCEPT !.events = a, !.buffer = x, !.members = y, !.skip = z,
                    !.issued = n]
  <2>1. /\ w.buffer = m.buffer /\ w.members = m.members /\ w.skip = m.skip
        /\ w.issued = m.issued /\ Departs(w, i) = Departs(m, i)
    BY FrontIs, SameBeforeSkip
  <2> QED BY <1>1, <1>3, <1>4, <1>5, <1>6, <1>n, <2>1 DEF WindowLeft
<1>9. PICK f : f = w.events
  OBVIOUS
<1>10. w = [m EXCEPT !.events = f]
  BY <1>9 DEF InFront, WithEvents
<1>11. m2 = [m EXCEPT !.events = s, !.buffer = x, !.members = y, !.skip = z,
                      !.issued = n, !.waiting = wait]
  BY <1>7
<1>12. PICK w2 : w2 = [WindowLeft(w, i, st, sent) EXCEPT !.waiting = wait]
  OBVIOUS
<1>13. w2 = [w EXCEPT !.events = a, !.buffer = x, !.members = y, !.skip = z,
                      !.issued = n, !.waiting = wait]
  BY <1>8, <1>12
<1>14. m2.events = s /\ w2 = WithEvents(m2, a)
  BY <1>1, <1>10, <1>11, <1>13 DEF Machine, WithEvents
<1>15. InFront(w2, m2, b, t)
  BY <1>2, <1>3, <1>14, ReplacingInFront
<1> QED BY <1>12, <1>15

LEMMA SkipInFront ==
  ASSUME NEW t, NEW w, NEW m, NEW b, InFront(w, m, b, t),
         NEW strict, WindowSound(m, strict),
         NEW i \in 1..Len(w.events), w.events[i].pos \in WindowNode,
         ~ Rejects(m, i), ~ Astray(m, i), Skips(m, i)
  PROVE  InFront(AtWindowSkip(w, i), AtWindowSkip(m, i), b, t)
<1>1. PICK v \in WindowNode : v = m.events[i].pos
  BY PlaceInFront
<1>2. m \in Machine /\ i \in 1..Len(m.events) /\ w.events[i] = m.events[i]
  <2>1. m \in Machine
    BY DEF InFront
  <2> QED BY <2>1, PlaceInFront
<1>3. PICK x : x = Resident(m, i) /\ x = Resident(w, i)
  BY SameBeforeSkip
<1>4. PICK st : st = BeforeSkip(m, i)
  OBVIOUS
<1>5. x \in InPast(t) /\ st \in Punctual(v, t)
  <2>1. m.events[i] \in InPast(t) \intersect EventsAt(v) /\ st \in Punctual(v, t)
    BY <1>1, <1>2, <1>4, AllInPast, BeforeSkipInPast
  <2>2. x \in EventsAt(v) /\ IsCopy(x, m.events[i])
    BY <1>1, <1>2, <1>3, ResidentIs
  <2> QED BY <2>1, <2>2 DEF IsCopy, InPast, EventsAt
<1>6. PICK left : left = [st EXCEPT !.skip = st.skip - 1]
  OBVIOUS
<1>7. PICK sent : sent = Append(st.sent, x)
  OBVIOUS
<1>8. sent \in Seq(InPast(t))
  BY <1>5, <1>7, AppendProperties DEF Punctual
<1>9. AtWindowSkip(m, i) = WindowLeft(m, i, left, sent)
  BY <1>3, <1>4, <1>6, <1>7 DEF AtWindowSkip
<1>10. AtWindowSkip(w, i) = WindowLeft(w, i, left, sent)
  <2>1. BeforeSkip(w, i) = st
    BY <1>4, SameBeforeSkip
  <2> QED BY <1>2, <1>3, <1>6, <1>7, <2>1 DEF AtWindowSkip
<1>11. AtWindowSkip(m, i) \in Machine
  BY <1>1, <1>2, SkipKeepsWindows
<1>12. PICK m2 : m2 = AtWindowSkip(m, i)
  OBVIOUS
<1>13. PICK wait : wait = m.waiting
  OBVIOUS
<1>14. m2 = [WindowLeft(m, i, left, sent) EXCEPT !.waiting = wait]
  BY <1>2, <1>9, <1>11, <1>12, <1>13 DEF Machine, WindowLeft
<1>15. InFront([WindowLeft(w, i, left, sent) EXCEPT !.waiting = wait], m2, b, t)
  BY <1>1, <1>8, <1>11, <1>12, <1>14, LeavingInFront
<1>16. [WindowLeft(w, i, left, sent) EXCEPT !.waiting = wait]
         = WindowLeft(w, i, left, sent)
  <2>1. w.waiting = wait /\ w \in Machine
    BY <1>13, FrontIs
  <2> QED BY <2>1 DEF WindowLeft, Machine
<1> QED BY <1>10, <1>12, <1>15, <1>16

LEMMA BufferInFront ==
  ASSUME NEW t, NEW w, NEW m, NEW b, InFront(w, m, b, t),
         NEW strict, WindowSound(m, strict),
         NEW i \in 1..Len(w.events), w.events[i].pos \in WindowNode,
         ~ Rejects(m, i), ~ Astray(m, i), NEW taken
  PROVE  InFront(AtWindow(w, i, taken), AtWindow(m, i, taken), b, t)
<1>1. PICK v \in WindowNode : v = m.events[i].pos
  BY PlaceInFront
<1>2. m \in Machine /\ i \in 1..Len(m.events) /\ w.events[i] = m.events[i]
  <2>1. m \in Machine
    BY DEF InFront
  <2> QED BY <2>1, PlaceInFront
<1>3. PICK e : e = Resident(m, i) /\ e = Resident(w, i)
  BY SameBeforeSkip
<1>4. PICK st : st = BeforeSkip(m, i)
  OBVIOUS
<1>5. /\ e \in InPast(t) \intersect EventsAt(v) /\ st \in Punctual(v, t)
      /\ e \in Event /\ e.pos \in Node
  <2>1. e \in InPast(t) \intersect EventsAt(v) /\ st \in Punctual(v, t)
    <3>1. m.events[i] \in InPast(t) \intersect EventsAt(v) /\ st \in Punctual(v, t)
      BY <1>1, <1>2, <1>4, AllInPast, BeforeSkipInPast
    <3>2. e \in EventsAt(v) /\ IsCopy(e, m.events[i])
      BY <1>1, <1>2, <1>3, ResidentIs
    <3> QED BY <3>1, <3>2 DEF IsCopy, InPast, EventsAt
  <2> QED BY <2>1 DEF EventsAt, WindowNode
<1>6. PICK p : p = m.predicates
  OBVIOUS
<1>7. PICK s : s = Stays(st, e, p)
  OBVIOUS
<1>8. s \in Seq(InPast(t)) /\ s \in Seq(Event)
  <2>1. PICK y : y = Append(st.sent, e)
    OBVIOUS
  <2>2. y \in Seq(InPast(t))
    BY <1>5, <2>1, AppendProperties DEF Punctual
  <2>3. PICK z : z = Copies(e, p)
    OBVIOUS
  <2>4. z \in Seq(InPast(t))
    BY <1>5, <2>3, BroadcastInPast
  <2>5. s = y \o z
    BY <1>7, <2>1, <2>3 DEF Stays
  <2>6. s \in Seq(InPast(t))
    BY <2>2, <2>4, <2>5, ConcatProperties
  <2> QED BY <2>6, PastIsTyped
<1>9. PICK begun : begun = State(IF "buffer" \in taken THEN Append(st.buffer, e) ELSE st.buffer,
                                 IF "members" \in taken THEN st.members \union {e}
                                 ELSE st.members,
                                 st.skip, s)
  OBVIOUS
<1>10. begun \in Punctual(v, t)
  <2>1. PICK S : S = InPast(t) \intersect EventsAt(v)
    OBVIOUS
  <2>2. S \subseteq Event /\ e \in S /\ st.buffer \in Seq(S)
    BY <1>5, <2>1 DEF InPast, Punctual
  <2>3. PICK y : y = IF "buffer" \in taken THEN Append(st.buffer, e) ELSE st.buffer
    OBVIOUS
  <2>4. y \in Seq(S)
    BY <2>2, <2>3, AppendProperties
  <2>5. y \in Seq(Event)
    BY <2>2, <2>4, SeqMonotonic
  <2>6. PICK z : z = IF "members" \in taken THEN st.members \union {e} ELSE st.members
    OBVIOUS
  <2>7. z \subseteq Event /\ st.skip \in Nat
    BY <1>5, <2>6 DEF Punctual, WindowState
  <2>8. begun = [buffer |-> y, members |-> z, skip |-> st.skip, sent |-> s]
    BY <1>9, <2>3, <2>6 DEF State
  <2>9. begun \in WindowState
    BY <1>8, <2>5, <2>7, <2>8 DEF WindowState
  <2> QED BY <1>8, <2>1, <2>4, <2>8, <2>9 DEF Punctual
<1>11. PICK full : full = AfterLength(v, e, p, begun)
  OBVIOUS
<1>12. full \in Punctual(v, t)
  BY <1>5, <1>10, <1>11, LoopsInPast
<1>13. PICK sent : sent = full.sent
  OBVIOUS
<1>14. sent \in Seq(InPast(t))
  BY <1>12, <1>13 DEF Punctual
<1>15. PICK wait : wait = [m.waiting EXCEPT ![v] = TRUE]
  OBVIOUS
<1>16. PICK m2 : m2 = AtWindow(m, i, taken)
  OBVIOUS
<1>17. m2 = [WindowLeft(m, i, full, sent) EXCEPT !.waiting = wait]
  <2>1. e.pos = v
    BY <1>5 DEF EventsAt
  <2> QED BY <1>1, <1>3, <1>4, <1>6, <1>7, <1>9, <1>11, <1>13, <1>15, <1>16, <2>1
          DEF AtWindow
<1>18. AtWindow(w, i, taken) = [WindowLeft(w, i, full, sent) EXCEPT !.waiting = wait]
  <2>1. BeforeSkip(w, i) = st
    BY <1>4, SameBeforeSkip
  <2>2. w.predicates = p /\ w.waiting = m.waiting
    BY <1>6, FrontIs
  <2>3. e.pos = v
    BY <1>5 DEF EventsAt
  <2> QED BY <1>1, <1>2, <1>3, <1>7, <1>9, <1>11, <1>13, <1>15, <2>1, <2>2, <2>3
          DEF AtWindow
<1>19. m2 \in Machine
  <2>1. FALSE => strict /\ "members" \in taken
    OBVIOUS
  <2> QED BY <1>1, <1>2, <1>16, <2>1, BufferKeepsWindows
<1>20. InFront([WindowLeft(w, i, full, sent) EXCEPT !.waiting = wait], m2, b, t)
  BY <1>1, <1>14, <1>17, <1>19, LeavingInFront
<1> QED BY <1>16, <1>18, <1>20

(* Events that are no earlier than any other go to the end of the list, in *)
(* the order in which they are created.                                    *)
LEMMA CreatedLast ==
  ASSUME NEW t \in Nat, NEW s \in Seq(InPast(t)), NEW e \in Event, e.time = t
  PROVE  Created(s, e) = Append(s, e) /\ Append(s, e) \in Seq(InPast(t))
<1>1. PICK n \in Nat : n = Len(s) /\ s \in Seq(Event) /\ \A k \in 1..n : s[k].time <= t
  <2>1. s \in Seq(Event) /\ \A k \in 1..Len(s) : s[k] \in InPast(t)
    BY PastIsTyped
  <2>2. Len(s) \in Nat
    BY <2>1, LenProperties
  <2> QED BY <2>1, <2>2 DEF InPast
<1>2. e \in InPast(t)
  BY DEF InPast
<1>3. PICK r : r = Append(s, e)
  OBVIOUS
<1>4. r \in Seq(InPast(t))
  BY <1>2, <1>3, AppendProperties
<1>5. r \in Seq(Event) /\ Len(r) = n + 1 /\ r[n + 1] = e /\ \A k \in 1..n : r[k] = s[k]
  BY <1>1, <1>3, AppendProperties
<1>6. PICK u : u = Created(s, e)
  OBVIOUS
<1>7. PICK a \in 0..n : a = Ahead(s, e.time) /\ (n # 0 => n <= a)
  <2>1. /\ Ahead(s, e.time) \in 0..n
        /\ \A j \in 1..n : s[j].time <= e.time => j <= Ahead(s, e.time)
    BY <1>1, AheadIs
  <2>2. n # 0 => n \in 1..n
    OBVIOUS
  <2> QED BY <1>1, <2>1, <2>2
<1>8. a = n
  BY <1>7
<1>9. IsInserted(u, s, e, n, n)
  BY <1>1, <1>6, <1>7, <1>8, CreatedPlaces
<1>10. u \in Seq(Event)
  BY <1>1, <1>6, CreatedIs
<1>11. Len(u) = Len(r) /\ \A k \in 1..Len(u) : u[k] = r[k]
  <2>1. Len(u) = n + 1 /\ u[n + 1] = e /\ \A k \in 1..n : u[k] = s[k]
    <3>1. n + 1 \in 1..(n + 1) /\ \A k \in 1..n : k \in 1..(n + 1) /\ k <= n
      OBVIOUS
    <3> QED BY <1>9, <3>1 DEF IsInserted
  <2>2. ASSUME NEW k \in 1..(n + 1) PROVE u[k] = r[k]
    <3>1. k \in 1..n \/ k = n + 1
      OBVIOUS
    <3> QED BY <1>5, <2>1, <3>1
  <2> QED BY <1>5, <2>1, <2>2
<1>12. u = r
  BY <1>5, <1>10, <1>11, SeqEqual
<1> QED BY <1>3, <1>4, <1>6, <1>12

LEMMA CreatingLast ==
  ASSUME NEW t \in Nat, NEW s \in Seq(InPast(t)), NEW q \in Seq(Event),
         \A k \in 1..Len(q) : q[k].time = t
  PROVE  /\ FoldLeft(Created, s, q) = s \o q
         /\ q \in Seq(InPast(t)) /\ s \o q \in Seq(InPast(t))
<1>1. PICK n \in Nat : n = Len(q) /\ DOMAIN q = 1..n /\ q \in [1..n -> Event]
  BY LenProperties
<1>2. q \in Seq(InPast(t))
  <2>1. \A k \in 1..n : q[k] \in InPast(t)
    BY <1>1 DEF InPast
  <2>2. q \in [1..n -> InPast(t)]
    BY <1>1, <2>1
  <2> QED BY <2>2
<1>3. PICK K : K = Seq(InPast(t))
  OBVIOUS
<1>4. \A k \in 1..n : q[k] \in Event /\ q[k].time = t
  BY <1>1
<1>5. ASSUME NEW k \in 1..n, NEW a \in K PROVE Created(a, q[k]) \in K
  BY <1>3, <1>4, CreatedLast
<1>6. PICK u : u = FoldLeft(Created, s, q)
  OBVIOUS
<1>7. Creation(K, s, q, n, u)
  BY <1>1, <1>3, <1>5, <1>6, CreatingAll
<1>8. PICK c \in [0..n -> K] :
        c[0] = s /\ u = c[n] /\ \A k \in 1..n : c[k] = Created(c[k - 1], q[k])
  BY <1>7 DEF Creation
<1>9. PICK Q : Q = [k \in 0..n |-> {s \o SubSeq(q, 1, k)}]
  OBVIOUS
<1>10. c[0] \in Q[0]
  <2>1. SubSeq(q, 1, 0) = << >>
    <3>1. 1 \in Int /\ 0 \in Int /\ 0 < 1
      OBVIOUS
    <3> QED BY <3>1, SubSeqEmpty
  <2>2. s \o << >> = s
    BY ConcatEmptySeq
  <2>3. 0 \in 0..n
    OBVIOUS
  <2> QED BY <1>8, <1>9, <2>1, <2>2, <2>3
<1>11. ASSUME NEW k \in 1..n, c[k - 1] \in Q[k - 1] PROVE c[k] \in Q[k]
  <2>1. /\ k \in 0..n /\ k - 1 \in 0..n
        /\ k \in 1..Len(q) /\ 1 \in 1..Len(q) /\ k - 1 \in 0..Len(q)
    BY <1>1
  <2>2. PICK x : x = SubSeq(q, 1, k - 1)
    OBVIOUS
  <2>3. PICK o : o = <<q[k]>>
    OBVIOUS
  <2>4. x \in Seq(InPast(t))
    BY <1>2, <2>1, <2>2, PrefixOfConcat
  <2>5. o \in Seq(InPast(t)) /\ q[k] \in InPast(t)
    <3>1. q[k] \in InPast(t)
      BY <1>2, <2>1, ElementOfSeq
    <3> QED BY <2>3, <3>1
  <2>6. SubSeq(q, 1, k) = x \o o
    <3>1. k \in 1..Len(q)
      BY <2>1
    <3> QED BY <2>1, <2>2, <2>3, <3>1, SubSeqRecursiveSecond
  <2>7. c[k - 1] = s \o x /\ c[k - 1] \in Seq(InPast(t))
    BY <1>3, <1>8, <1>9, <1>11, <2>1, <2>2
  <2>8. c[k] = (s \o x) \o o
    <3>1. PICK a : a = c[k - 1]
      OBVIOUS
    <3>2. Created(a, q[k]) = Append(a, q[k])
      BY <1>4, <2>7, <3>1, CreatedLast
    <3>3. Append(a, q[k]) = a \o o
      BY <2>3, <2>5, <2>7, <3>1, AppendIsConcat
    <3> QED BY <1>8, <2>7, <3>1, <3>2, <3>3
  <2>9. (s \o x) \o o = s \o (x \o o)
    <3>1. JoinAlike(s, x, o)
      BY <2>4, <2>5, AllJoinAlike
    <3> QED BY <3>1 DEF JoinAlike
  <2> QED BY <1>9, <2>1, <2>6, <2>8, <2>9
<1>12. c[n] \in Q[n]
  <2>1. \A k \in 0..n : c[k] \in Q[k]
    BY <1>10, <1>11, Chain
  <2> QED BY <2>1
<1>13. u = s \o q
  <2>1. SubSeq(q, 1, n) = q /\ n \in 0..n
    BY <1>1, SubSeqFull
  <2> QED BY <1>8, <1>9, <1>12, <2>1
<1> QED BY <1>2, <1>6, <1>13, ConcatProperties

-----------------------------------------------------------------------------
(***************************************************************************)
(* What a window sends.  Of what goes on to its sink, codes are looked at one *)
(* behind the other: no terminator follows another one, or comes first.    *)
(***************************************************************************)

(* The connectors of a node that a copy goes to, and their channels.       *)
Open(n, e, state) ==
  {k \in DOMAIN Outputs[n] :
     /\ Outputs[n][k] # Null
     /\ Kind[n] = "router" =>
          k \in DOMAIN Guard[n] /\ Holds(Guard[n][k], e, state)}
Through(n, P) ==
  FlattenSeq([k \in DOMAIN Outputs[n] |-> IF k \in P THEN <<k>> ELSE << >>])

LEMMA OutsAre ==
  ASSUME NEW e, NEW state
  PROVE  LET taken == Through(e.pos, Open(e.pos, e, state))
         IN  Outs(e, state) = [j \in DOMAIN taken |-> Outputs[e.pos][taken[j]]]
<1>1. PICK n : n = e.pos
  OBVIOUS
<1>2. PICK s : s = [k \in DOMAIN Outputs[n] |-> k]
  OBVIOUS
<1>3. DOMAIN s = DOMAIN Outputs[n] /\ \A k \in DOMAIN Outputs[n] : s[k] = k
  BY <1>2
<1>4. [k \in DOMAIN s |->
         IF /\ Outputs[n][s[k]] # Null
            /\ Kind[n] = "router" =>
                 s[k] \in DOMAIN Guard[n] /\ Holds(Guard[n][s[k]], e, state)
         THEN <<s[k]>> ELSE << >>]
        = [k \in DOMAIN Outputs[n] |-> IF k \in Open(n, e, state) THEN <<k>> ELSE << >>]
  BY <1>3 DEF Open
<1> QED BY <1>1, <1>2, <1>4 DEF Outs, Those, Through

(* Those of a sequence that are in Z.                                      *)
Among(Z, s) == FlattenSeq([k \in DOMAIN s |-> IF s[k] \in Z THEN <<s[k]>> ELSE << >>])

LEMMA AmongIs ==
  ASSUME NEW S, NEW s \in Seq(S), NEW Z
  PROVE  LET P == {k \in 1..Len(s) : s[k] \in Z}
         IN  Among(Z, s) \in Seq(S) /\ IsChosen(Among(Z, s), s, P)
<1>1. PICK P : P = {k \in 1..Len(s) : s[k] \in Z}
  OBVIOUS
<1>2. DOMAIN s = 1..Len(s)
  BY LenProperties
<1>3. PICK q : q = [k \in DOMAIN s |-> IF k \in P THEN <<s[k]>> ELSE << >>]
  OBVIOUS
<1>4. q = [k \in DOMAIN s |-> IF s[k] \in Z THEN <<s[k]>> ELSE << >>]
  BY <1>1, <1>2, <1>3
<1>5. FlattenSeq(q) \in Seq(S) /\ IsChosen(FlattenSeq(q), s, P)
  BY <1>1, <1>3, ChosenIs
<1> QED BY <1>1, <1>4, <1>5 DEF Among

LEMMA NoneAmong ==
  ASSUME NEW S, NEW s \in Seq(S), NEW Z
  PROVE  Among(Z, s) = << >> <=> \A k \in 1..Len(s) : s[k] \notin Z
<1>1. PICK P : P = {k \in 1..Len(s) : s[k] \in Z}
  OBVIOUS
<1>2. PICK r : r = Among(Z, s)
  OBVIOUS
<1>3. r \in Seq(S) /\ IsChosen(r, s, P)
  BY <1>1, <1>2, AmongIs
<1>4. PICK o \in [1..Len(r) -> P] : \A i \in P : \E k \in 1..Len(r) : o[k] = i
  BY <1>3 DEF IsChosen
<1>5. PICK n \in Nat : n = Len(r) /\ (n = 0 <=> r = << >>)
  BY <1>3, LenProperties, EmptySeq
<1>6. CASE n = 0
  <2>1. 1..n = {}
    BY <1>6
  <2> QED BY <1>1, <1>2, <1>4, <1>5, <1>6, <2>1
<1>7. CASE n # 0
  <2>1. 1 \in 1..n
    BY <1>7
  <2>2. o[1] \in P
    BY <1>4, <1>5, <2>1
  <2> QED BY <1>1, <1>2, <1>5, <1>7, <2>2
<1> QED BY <1>6, <1>7

(* They are as the others of the sequence are.                             *)
LEMMA AmongTyped ==
  ASSUME NEW S, NEW s \in Seq(S), NEW Z
  PROVE  Among(Z, s) \in Seq(S \intersect Z)
<1>1. PICK P : P = {k \in 1..Len(s) : s[k] \in Z}
  OBVIOUS
<1>2. PICK r : r = Among(Z, s)
  OBVIOUS
<1>3. r \in Seq(S) /\ IsChosen(r, s, P)
  BY <1>1, <1>2, AmongIs
<1>4. PICK n \in Nat : n = Len(r) /\ r \in [1..n -> S]
  BY <1>3, LenProperties
<1>5. PICK o \in [1..n -> P] : \A k \in 1..n : r[k] = s[o[k]]
  BY <1>3, <1>4 DEF IsChosen
<1>6. \A k \in 1..n : o[k] \in P
  BY <1>5
<1>7. \A k \in 1..n : r[k] \in S \intersect Z
  BY <1>1, <1>4, <1>5, <1>6
<1>8. r \in [1..n -> S \intersect Z]
  BY <1>4, <1>7
<1> QED BY <1>2, <1>8

LEMMA AmongOne ==
  ASSUME NEW x, NEW Z
  PROVE  Among(Z, <<x>>) = IF x \in Z THEN <<x>> ELSE << >>
<1>1. PICK y : y = IF x \in Z THEN <<x>> ELSE << >>
  OBVIOUS
<1>2. PICK s : s = <<x>>
  OBVIOUS
<1>3. DOMAIN s = {1} /\ s[1] = x
  BY <1>2
<1>4. PICK q : q = [k \in DOMAIN s |-> IF s[k] \in Z THEN <<s[k]>> ELSE << >>]
  OBVIOUS
<1>5. q = <<y>>
  <2>1. q = [k \in {1} |-> y]
    BY <1>1, <1>3, <1>4
  <2>2. <<y>> = [k \in {1} |-> y]
    OBVIOUS
  <2> QED BY <2>1, <2>2
<1>6. PICK S : S = {x}
  OBVIOUS
<1>7. y \in Seq(S)
  <2>1. CASE x \in Z
    <3>1. y = <<x>> /\ x \in S
      BY <1>1, <1>6, <2>1
    <3>2. y = [k \in 1..1 |-> x]
      BY <3>1
    <3> QED BY <3>1, <3>2, IsASeq
  <2>2. CASE x \notin Z
    BY <1>1, <2>2, EmptySeq
  <2> QED BY <2>1, <2>2
<1>8. FlattenSeq(q) = y
  BY <1>5, <1>7, FlattenOne
<1> QED BY <1>1, <1>2, <1>4, <1>8 DEF Among

AmongJoins(Z, a, b) == Among(Z, a \o b) = Among(Z, a) \o Among(Z, b)

LEMMA AmongJoined ==
  ASSUME NEW S, NEW a \in Seq(S), NEW b \in Seq(S), NEW Z
  PROVE  AmongJoins(Z, a, b) /\ Among(Z, a) \in Seq(S) /\ Among(Z, b) \in Seq(S)
<1> DEFINE F(s) == [k \in DOMAIN s |-> IF s[k] \in Z THEN <<s[k]>> ELSE << >>]
<1>1. PICK u : u = a \o b
  OBVIOUS
<1>2. PICK n \in Nat : n = Len(a) /\ DOMAIN a = 1..n /\ a \in [1..n -> S]
  BY LenProperties
<1>3. PICK m \in Nat : m = Len(b) /\ DOMAIN b = 1..m /\ b \in [1..m -> S]
  BY LenProperties
<1>4. /\ u \in Seq(S) /\ Len(u) = n + m
      /\ \A i \in 1..(n + m) : u[i] = IF i <= n THEN a[i] ELSE b[i - n]
  BY <1>1, <1>2, <1>3, ConcatProperties
<1>5. DOMAIN u = 1..(n + m)
  BY <1>4, LenProperties
<1>6. PICK qa : qa = F(a)
  OBVIOUS
<1>7. PICK qb : qb = F(b)
  OBVIOUS
<1>8. PICK qu : qu = F(u)
  OBVIOUS
<1>9. qa \in Seq(Seq(S)) /\ Len(qa) = n /\ \A i \in 1..n : qa[i] = IF a[i] \in Z THEN <<a[i]>> ELSE << >>
  <2>1. \A i \in 1..n : (IF a[i] \in Z THEN <<a[i]>> ELSE << >>) \in Seq(S)
    BY <1>2, EmptySeq
  <2> QED BY <1>2, <1>6, <2>1, IsASeq
<1>10. qb \in Seq(Seq(S)) /\ Len(qb) = m /\ \A i \in 1..m : qb[i] = IF b[i] \in Z THEN <<b[i]>> ELSE << >>
  <2>1. \A i \in 1..m : (IF b[i] \in Z THEN <<b[i]>> ELSE << >>) \in Seq(S)
    BY <1>3, EmptySeq
  <2> QED BY <1>3, <1>7, <2>1, IsASeq
<1>11. qu \in Seq(Seq(S)) /\ Len(qu) = n + m
       /\ \A i \in 1..(n + m) : qu[i] = IF u[i] \in Z THEN <<u[i]>> ELSE << >>
  <2>0. \A i \in 1..(n + m) : u[i] \in S
    BY <1>4, ElementOfSeq
  <2>1. \A i \in 1..(n + m) : (IF u[i] \in Z THEN <<u[i]>> ELSE << >>) \in Seq(S)
    BY <2>0, EmptySeq
  <2> QED BY <1>5, <1>8, <2>1, IsASeq
<1>12. PICK v : v = qa \o qb
  OBVIOUS
<1>13. /\ v \in Seq(Seq(S)) /\ Len(v) = n + m
       /\ \A i \in 1..(n + m) : v[i] = IF i <= n THEN qa[i] ELSE qb[i - n]
  <2>1. PICK T : T = Seq(S)
    OBVIOUS
  <2>2. qa \in Seq(T) /\ qb \in Seq(T)
    BY <1>9, <1>10, <2>1
  <2>3. /\ v \in Seq(T) /\ Len(v) = Len(qa) + Len(qb)
        /\ \A i \in 1..(Len(qa) + Len(qb)) :
             v[i] = IF i <= Len(qa) THEN qa[i] ELSE qb[i - Len(qa)]
    BY <1>12, <2>2, ConcatProperties
  <2> QED BY <1>9, <1>10, <2>1, <2>3
<1>14. ASSUME NEW i \in 1..(n + m) PROVE qu[i] = v[i]
  <2>1. CASE i <= n
    <3>1. i \in 1..n
      BY <2>1
    <3> QED BY <1>4, <1>9, <1>11, <1>13, <2>1, <3>1
  <2>2. CASE ~ (i <= n)
    <3>1. i - n \in 1..m
      BY <2>2
    <3> QED BY <1>4, <1>10, <1>11, <1>13, <2>2, <3>1
  <2> QED BY <2>1, <2>2
<1>15. qu = v
  BY <1>11, <1>13, <1>14, SeqEqual
<1>16. FlattenSeq(qu) = FlattenSeq(qa) \o FlattenSeq(qb)
  BY <1>9, <1>10, <1>12, <1>15, FlattenConcat
<1>17. Among(Z, a) \in Seq(S) /\ Among(Z, b) \in Seq(S)
  BY AmongIs
<1> QED BY <1>1, <1>6, <1>7, <1>8, <1>16, <1>17 DEF Among, AmongJoins

(* No end comes first or behind another one.  open says whether something  *)
(* has come since the last end.                                            *)
Follows(s, open) ==
  \A i \in 1..Len(s) : s[i].code = "end" => IF i = 1 THEN open ELSE s[i - 1].code # "end"
Opens(s, open) == IF s = << >> THEN open ELSE s[Len(s)].code # "end"

LEMMA JoinedFollow ==
  ASSUME NEW S, NEW a \in Seq(S), NEW b \in Seq(S), NEW open \in BOOLEAN
  PROVE  /\ Follows(a \o b, open) <=> Follows(a, open) /\ Follows(b, Opens(a, open))
         /\ Opens(a \o b, open) <=> Opens(b, Opens(a, open))
<1>1. PICK u : u = a \o b
  OBVIOUS
<1>2. PICK n \in Nat : n = Len(a) /\ (n = 0 <=> a = << >>)
  BY LenProperties, EmptySeq
<1>3. PICK m \in Nat : m = Len(b) /\ (m = 0 <=> b = << >>)
  BY LenProperties, EmptySeq
<1>4. /\ u \in Seq(S) /\ Len(u) = n + m
      /\ \A i \in 1..(n + m) : u[i] = IF i <= n THEN a[i] ELSE b[i - n]
  BY <1>1, <1>2, <1>3, ConcatProperties
<1>5. \A i \in 1..n : i \in 1..(n + m) /\ u[i] = a[i]
  BY <1>4
<1>6. \A i \in 1..m : n + i \in 1..(n + m) /\ u[n + i] = b[i]
  <2>1. ASSUME NEW i \in 1..m
        PROVE  n + i \in 1..(n + m) /\ ~ (n + i <= n) /\ (n + i) - n = i
    OBVIOUS
  <2> QED BY <1>4, <2>1
<1>7. PICK x \in BOOLEAN : x = Opens(a, open)
  BY DEF Opens
<1>8. x = IF n = 0 THEN open ELSE a[n].code # "end"
  BY <1>2, <1>7 DEF Opens
<1>9. Follows(u, open) => Follows(a, open) /\ Follows(b, x)
  <2> SUFFICES ASSUME Follows(u, open) PROVE Follows(a, open) /\ Follows(b, x)
    OBVIOUS
  <2>1. ASSUME NEW i \in 1..n, a[i].code = "end"
        PROVE  IF i = 1 THEN open ELSE a[i - 1].code # "end"
    <3>1. IF i = 1 THEN open ELSE u[i - 1].code # "end"
      BY <1>4, <1>5, <2>1 DEF Follows
    <3>2. i # 1 => i - 1 \in 1..n
      OBVIOUS
    <3> QED BY <1>5, <3>1, <3>2
  <2>2. ASSUME NEW i \in 1..m, b[i].code = "end"
        PROVE  IF i = 1 THEN x ELSE b[i - 1].code # "end"
    <3>1. PICK k \in 1..(n + m) : k = n + i
      BY <1>6
    <3>2. IF k = 1 THEN open ELSE u[k - 1].code # "end"
      BY <1>4, <1>6, <2>2, <3>1 DEF Follows
    <3>3. CASE i = 1
      <4>1. k = 1 <=> n = 0
        BY <3>1, <3>3
      <4>2. n # 0 => k - 1 = n /\ n \in 1..n
        BY <3>1, <3>3
      <4> QED BY <1>5, <1>8, <3>2, <3>3, <4>1, <4>2
    <3>4. CASE i # 1
      <4>1. k # 1 /\ k - 1 = n + (i - 1) /\ i - 1 \in 1..m
        BY <3>1, <3>4
      <4> QED BY <1>6, <3>2, <3>4, <4>1
    <3> QED BY <3>3, <3>4
  <2> QED BY <1>2, <1>3, <2>1, <2>2 DEF Follows
<1>10. Follows(a, open) /\ Follows(b, x) => Follows(u, open)
  <2> SUFFICES ASSUME Follows(a, open), Follows(b, x),
                      NEW k \in 1..(n + m), u[k].code = "end"
               PROVE  IF k = 1 THEN open ELSE u[k - 1].code # "end"
    BY <1>4 DEF Follows
  <2>1. CASE k <= n
    <3>1. k \in 1..n /\ (k # 1 => k - 1 \in 1..n)
      BY <2>1
    <3>2. IF k = 1 THEN open ELSE a[k - 1].code # "end"
      BY <1>2, <1>5, <3>1 DEF Follows
    <3> QED BY <1>5, <3>1, <3>2
  <2>2. CASE ~ (k <= n)
    <3>1. PICK i \in 1..m : i = k - n /\ k = n + i
      BY <2>2
    <3>2. IF i = 1 THEN x ELSE b[i - 1].code # "end"
      BY <1>3, <1>6, <3>1 DEF Follows
    <3>3. CASE i = 1
      <4>1. k = 1 <=> n = 0
        BY <3>1, <3>3
      <4>2. n # 0 => k - 1 = n /\ n \in 1..n
        BY <3>1, <3>3
      <4> QED BY <1>5, <1>8, <3>2, <3>3, <4>1, <4>2
    <3>4. CASE i # 1
      <4>1. k # 1 /\ k - 1 = n + (i - 1) /\ i - 1 \in 1..m
        BY <3>1, <3>4
      <4> QED BY <1>6, <3>2, <3>4, <4>1
    <3> QED BY <3>3, <3>4
  <2> QED BY <2>1, <2>2
<1>11. Opens(u, open) <=> Opens(b, x)
  <2>1. CASE m = 0
    <3>1. u = a
      BY <1>1, <1>3, <2>1, ConcatEmptySeq
    <3> QED BY <1>3, <1>7, <2>1, <3>1 DEF Opens
  <2>2. CASE m # 0
    <3>1. u # << >> /\ m \in 1..m
      BY <1>4, <2>2, EmptySeq
    <3>2. u[n + m] = b[m]
      BY <1>6, <3>1
    <3> QED BY <1>3, <1>4, <2>2, <3>1, <3>2 DEF Opens
  <2> QED BY <2>1, <2>2
<1> QED BY <1>1, <1>7, <1>9, <1>10, <1>11

LEMMA OneFollows ==
  ASSUME NEW x, NEW open \in BOOLEAN
  PROVE  /\ Follows(<<x>>, open) <=> (x.code = "end" => open)
         /\ Opens(<<x>>, open) <=> x.code # "end"
         /\ Follows(<< >>, open) /\ (Opens(<< >>, open) <=> open)
<1>1. PICK s : s = <<x>>
  OBVIOUS
<1>2. Len(s) = 1 /\ s[1] = x /\ s # << >>
  BY <1>1
<1>3. \A i \in 1..1 : i = 1
  OBVIOUS
<1>4. 1 \in 1..1
  OBVIOUS
<1>5. Len(<< >>) = 0 /\ 1..0 = {}
  OBVIOUS
<1> QED BY <1>1, <1>2, <1>3, <1>4, <1>5 DEF Follows, Opens

(* Without an end among it, it may come at any time.                       *)
LEMMA NoEndFollows ==
  ASSUME NEW S, NEW s \in Seq(S), \A x \in S : x.code # "end", NEW open \in BOOLEAN
  PROVE  /\ Follows(s, open)
         /\ s # << >> \/ open => Opens(s, open)
<1>1. PICK n \in Nat : n = Len(s) /\ (n = 0 <=> s = << >>) /\ \A i \in 1..n : s[i] \in S
  BY LenProperties, EmptySeq, ElementOfSeq
<1>2. n # 0 => n \in 1..n
  OBVIOUS
<1> QED BY <1>1, <1>2 DEF Follows, Opens

(* What may come when nothing is open may come anyhow.                     *)
LEMMA FollowsIfOpen ==
  ASSUME NEW s, NEW open, Follows(s, open)
  PROVE  Follows(s, TRUE)
BY DEF Follows

(* Where events are: on their way to the window, or behind it on their way *)
(* to its sink.                                                            *)
Upstream(g, p) == HasHandler(p) /\ g.depth[p] < g.depth[g.window]
AtOrBefore(g, p) == p = g.window \/ Upstream(g, p)
Exit(g) == {g.exit, End[g.exit]}

LEMMA WindowPlace ==
  ASSUME NEW g, LoneWindow(g)
  PROVE  /\ g.window \in WindowNode /\ g.window \in Node /\ HasHandler(g.window)
         /\ g.window \notin Exit(g) /\ ~ Upstream(g, g.window)
         /\ g.exit \in Channel /\ End[g.exit] \in Node \ WindowNode
         /\ Kind[End[g.exit]] = "sink"
         /\ HasHandler(g.exit) /\ HasHandler(End[g.exit])
         /\ \A p \in Exit(g) : ~ AtOrBefore(g, p) /\ HasHandler(p)
<1>1. g.window \in WindowNode /\ g.window \in Node /\ Kind[g.window] = "window"
  BY DEF LoneWindow, WindowNode
<1>2. PICK j \in DOMAIN Outputs[g.window] : Outputs[g.window][j] = g.exit
  BY DEF LoneWindow
<1>3. PICK k : k = End[g.exit]
  OBVIOUS
<1>4. /\ g.exit \in Channel /\ k \in Node /\ Kind[k] = "sink"
      /\ Null \notin Node \union Channel /\ Node \intersect Channel = {}
  BY <1>3, GraphAssumption DEF LoneWindow
<1>5. /\ g.depth[g.window] <= g.depth[g.exit] /\ g.depth[g.exit] < g.depth[k]
      /\ g.depth \in [Node \union Channel -> Nat]
  <2>1. g.exit # Null /\ k # Null
    BY <1>4
  <2> QED BY <1>1, <1>2, <1>3, <1>4, <2>1 DEF LoneWindow
<1>6. g.depth[g.window] \in Nat /\ g.depth[g.exit] \in Nat /\ g.depth[k] \in Nat
  BY <1>1, <1>4, <1>5
<1>7. /\ ~ (g.depth[g.window] < g.depth[g.window])
      /\ ~ (g.depth[g.exit] < g.depth[g.window])
      /\ ~ (g.depth[k] < g.depth[g.window])
  BY <1>5, <1>6
<1>8. k # g.window /\ g.exit # g.window /\ k \notin WindowNode
  BY <1>1, <1>4 DEF WindowNode
<1>9. HasHandler(g.window) /\ HasHandler(g.exit) /\ HasHandler(k)
  BY <1>1, <1>4 DEF HasHandler
<1> QED BY <1>1, <1>3, <1>4, <1>7, <1>8, <1>9 DEF Exit, AtOrBefore, Upstream

LEMMA ThroughChannel ==
  ASSUME NEW g, LoneWindow(g), NEW b \in Channel, End[b] # Null
  PROVE  /\ End[b] \in Node
         /\ End[b] \in Exit(g) <=> b = g.exit
         /\ AtOrBefore(g, End[b]) => Upstream(g, b)
         /\ g.depth[b] \in Nat /\ g.depth[End[b]] \in Nat
         /\ g.depth[b] < g.depth[End[b]]
<1>1. PICK q \in Node : q = End[b]
  BY GraphAssumption
<1>2. g.window \in Node /\ g.exit \in Channel /\ b \notin Node /\ q \notin Channel
  BY <1>1, WindowPlace, GraphAssumption
<1>3. /\ g.depth[b] < g.depth[q] /\ g.depth[b] \in Nat /\ g.depth[q] \in Nat
      /\ g.depth[g.window] \in Nat
  BY <1>1, <1>2 DEF LoneWindow
<1>4. q \in Exit(g) <=> b = g.exit
  BY <1>1, <1>2 DEF LoneWindow, Exit
<1>5. ASSUME AtOrBefore(g, q) PROVE Upstream(g, b)
  <2>1. g.depth[q] <= g.depth[g.window]
    BY <1>3, <1>5 DEF AtOrBefore, Upstream
  <2>2. g.depth[b] < g.depth[g.window]
    BY <1>3, <2>1
  <2> QED BY <2>2 DEF Upstream, HasHandler
<1> QED BY <1>1, <1>3, <1>4, <1>5

LEMMA ThroughNode ==
  ASSUME NEW g, LoneWindow(g), NEW n \in Node, HasHandler(n),
         NEW j \in DOMAIN Outputs[n], NEW b \in Channel, b = Outputs[n][j]
  PROVE  /\ b \in Exit(g) => b = g.exit /\ n = g.window
         /\ AtOrBefore(g, b) <=> Upstream(g, b)
         /\ Upstream(g, b) => Upstream(g, n)
         /\ g.depth[n] \in Nat /\ g.depth[b] \in Nat
         /\ g.depth[n] <= g.depth[b]
<1>1. /\ g.window \in Node /\ End[g.exit] \in Node /\ b \notin Node /\ b # Null
  BY WindowPlace, GraphAssumption
<1>2. /\ g.depth[n] <= g.depth[b] /\ g.depth[b] \in Nat /\ g.depth[n] \in Nat
      /\ g.depth[g.window] \in Nat
      /\ b = g.exit => n = g.window
  BY <1>1 DEF LoneWindow
<1>3. g.depth[b] < g.depth[g.window] => g.depth[n] < g.depth[g.window]
  BY <1>2
<1> QED BY <1>1, <1>2, <1>3 DEF Exit, AtOrBefore, Upstream

(* The channels that get a copy, in the order of the connectors.           *)
LEMMA OutsChosen ==
  ASSUME NEW e, e.pos \in Node, NEW state
  PROVE  IsChosen(Outs(e, state), Outputs[e.pos], Open(e.pos, e, state))
<1>1. PICK n : n = e.pos
  OBVIOUS
<1>2. PICK P : P = Open(n, e, state)
  OBVIOUS
<1>3. PICK s : s = [k \in DOMAIN Outputs[n] |-> k]
  OBVIOUS
<1>4. PICK N \in Nat : DOMAIN Outputs[n] = 1..N
  BY <1>1, GraphAssumption, LenProperties
<1>5. s \in Seq(Nat) /\ Len(s) = N /\ DOMAIN s = 1..N /\ \A k \in 1..N : s[k] = k
  <2>1. s \in [1..N -> Nat]
    BY <1>3, <1>4
  <2> QED BY <1>3, <1>4, <2>1
<1>6. P \subseteq 1..N
  BY <1>2, <1>4 DEF Open
<1>7. PICK taken : taken = FlattenSeq([k \in DOMAIN s |-> IF k \in P THEN <<s[k]>> ELSE << >>])
  OBVIOUS
<1>8. taken \in Seq(Nat) /\ IsChosen(taken, s, P)
  BY <1>5, <1>6, <1>7, ChosenIs
<1>9. taken = Through(n, P)
  <2>1. [k \in DOMAIN s |-> IF k \in P THEN <<s[k]>> ELSE << >>]
          = [k \in DOMAIN Outputs[n] |-> IF k \in P THEN <<k>> ELSE << >>]
    BY <1>4, <1>5
  <2> QED BY <1>7, <2>1 DEF Through
<1>10. PICK outs : outs = Outs(e, state)
  OBVIOUS
<1>11. outs = [j \in DOMAIN taken |-> Outputs[n][taken[j]]]
  BY <1>1, <1>2, <1>9, <1>10, OutsAre
<1>12. PICK m \in Nat : m = Len(taken) /\ DOMAIN taken = 1..m
  BY <1>8, LenProperties
<1>13. Len(outs) = m
  <2>1. DOMAIN outs = 1..m /\ outs \in Seq(Channel)
    <3>1. outs \in Seq(Channel)
      BY <1>10, OutsAreChannels
    <3> QED BY <1>11, <1>12, <3>1
  <2>2. DOMAIN outs = 1..Len(outs) /\ Len(outs) \in Nat
    BY <2>1, LenProperties
  <2> QED BY <2>1, <2>2
<1>14. PICK o \in [1..m -> P] :
         /\ \A k \in 1..m : taken[k] = s[o[k]]
         /\ \A k, l \in 1..m : k < l => o[k] < o[l]
         /\ \A i \in P : \E k \in 1..m : o[k] = i
  BY <1>8, <1>12 DEF IsChosen
<1>15. \A k \in 1..m : outs[k] = Outputs[n][o[k]]
  BY <1>5, <1>6, <1>11, <1>12, <1>14
<1>16. IsChosen(outs, Outputs[n], P)
  BY <1>13, <1>14, <1>15 DEF IsChosen
<1> QED BY <1>1, <1>2, <1>10, <1>16

(* Events as they are under LoneWindow.                                    *)
Usual(g, t) ==
  {y \in InPast(t) :
     /\ AtOrBefore(g, y.pos) => y.code # "end"
     /\ y.pos # Null => y.ttl + g.depth[y.pos] >= InitialTTL}
(* What a node makes of e.                                                 *)
IsSent(g, y, e) ==
  /\ IsCopy(y, e) /\ y.code = e.code /\ y.pos \in Channel
  /\ AtOrBefore(g, y.pos) => Upstream(g, y.pos) /\ Upstream(g, e.pos)
  /\ y.pos \in Exit(g) => e.pos = g.window
Sent(g, t, e) == {y \in Usual(g, t) : IsSent(g, y, e)}

LEMMA CopiesSent ==
  ASSUME NEW g, LoneWindow(g), NEW t, NEW e \in InPast(t), e.pos \in Node,
         HasHandler(e.pos), Upstream(g, e.pos) => e.code # "end",
         e.ttl + g.depth[e.pos] >= InitialTTL, NEW p
  PROVE  Copies(e, p) \in Seq(Sent(g, t, e))
<1>1. PICK n \in Node : n = e.pos
  OBVIOUS
<1>2. PICK outs : outs = Outs(e, p)
  OBVIOUS
<1>3. PICK m \in Nat : m = Len(outs) /\ DOMAIN outs = 1..m /\ \A j \in 1..m : outs[j] \in Channel
  <2>1. outs \in Seq(Channel)
    BY <1>2, OutsAreChannels
  <2> QED BY <2>1, LenProperties, ElementOfSeq
<1>4. \A j \in 1..m : \E k \in DOMAIN Outputs[n] : outs[j] = Outputs[n][k]
  <2>1. IsChosen(outs, Outputs[n], Open(n, e, p))
    BY <1>1, <1>2, OutsChosen
  <2> QED BY <1>3, <2>1 DEF IsChosen, Open
<1>5. ASSUME NEW j \in 1..m PROVE [e EXCEPT !.pos = outs[j]] \in Sent(g, t, e)
  <2>1. PICK b \in Channel : b = outs[j]
    BY <1>3
  <2>2. PICK k \in DOMAIN Outputs[n] : b = Outputs[n][k]
    BY <1>4, <2>1
  <2>3. /\ b \in Exit(g) => b = g.exit /\ n = g.window
        /\ AtOrBefore(g, b) <=> Upstream(g, b)
        /\ Upstream(g, b) => Upstream(g, n)
        /\ g.depth[n] \in Nat /\ g.depth[b] \in Nat
        /\ g.depth[n] <= g.depth[b]
    BY <1>1, <2>2, ThroughNode
  <2>4. PICK y : y = [e EXCEPT !.pos = outs[j]]
    OBVIOUS
  <2>5. e \in Event /\ e.time <= t
    BY DEF InPast
  <2>6. y \in Event /\ y.time = e.time /\ y.pos = b /\ y.code = e.code /\ y.ttl = e.ttl
        /\ IsCopy(y, e)
    BY <2>1, <2>4, <2>5 DEF Event, IsCopy
  <2>7. e.ttl + g.depth[b] >= InitialTTL
    <3>1. e.ttl \in Int /\ InitialTTL \in Int
      BY <2>5, LoopAssumption DEF Event
    <3> QED BY <1>1, <2>3, <3>1
  <2>8. y \in Usual(g, t)
    BY <1>1, <2>3, <2>5, <2>6, <2>7 DEF Usual, InPast
  <2>9. IsSent(g, y, e)
    BY <1>1, <2>3, <2>6 DEF IsSent
  <2> QED BY <2>4, <2>8, <2>9 DEF Sent
<1>6. PICK r : r = [j \in 1..m |-> [e EXCEPT !.pos = outs[j]]]
  OBVIOUS
<1>7. r \in Seq(Sent(g, t, e))
  BY <1>5, <1>6, IsASeq
<1> QED BY <1>2, <1>3, <1>6, <1>7 DEF Copies

LEMMA ChosenOne ==
  ASSUME NEW S, NEW r \in Seq(S), NEW s, NEW i \in Nat, IsChosen(r, s, {i})
  PROVE  r = <<s[i]>>
<1>1. PICK n \in Nat : n = Len(r) /\ DOMAIN r = 1..n
  BY LenProperties
<1>2. PICK o \in [1..n -> {i}] :
        /\ \A k \in 1..n : r[k] = s[o[k]]
        /\ \A k, l \in 1..n : k < l => o[k] < o[l]
        /\ \E k \in 1..n : o[k] = i
  BY <1>1 DEF IsChosen
<1>3. \A k \in 1..n : o[k] = i
  BY <1>2
<1>4. n = 1
  <2>1. ~ (n > 1)
    <3> SUFFICES ASSUME n > 1 PROVE FALSE
      OBVIOUS
    <3>1. 1 \in 1..n /\ 2 \in 1..n
      OBVIOUS
    <3>2. o[1] < o[2]
      BY <1>2, <3>1
    <3> QED BY <1>3, <3>1, <3>2
  <2> QED BY <1>2, <2>1
<1>5. r[1] = s[i]
  BY <1>2, <1>3, <1>4
<1> QED BY <1>1, <1>4, <1>5

(* What is on its way from the window to its sink, in order.               *)
ExitEvents(g) == {y \in Event : y.pos \in Exit(g)}
Leaving(g, s) == Among(ExitEvents(g), s)

LEMMA CopiesLeave ==
  ASSUME NEW g, LoneWindow(g), NEW e \in Event, e.pos = g.window, NEW p
  PROVE  \E y : Leaving(g, Copies(e, p)) = <<y>> /\ y.code = e.code
<1>1. g.window \in Node /\ g.window \in WindowNode /\ Kind[g.window] # "router"
  BY WindowPlace DEF WindowNode
<1>2. PICK outs : outs = Outs(e, p)
  OBVIOUS
<1>3. PICK m \in Nat : m = Len(outs) /\ DOMAIN outs = 1..m /\ \A j \in 1..m : outs[j] \in Channel
  <2>1. outs \in Seq(Channel)
    BY <1>1, <1>2, OutsAreChannels
  <2> QED BY <2>1, LenProperties, ElementOfSeq
<1>4. PICK P : P = Open(g.window, e, p)
  OBVIOUS
<1>5. PICK o \in [1..m -> P] :
        /\ \A k \in 1..m : outs[k] = Outputs[g.window][o[k]]
        /\ \A k, l \in 1..m : k < l => o[k] < o[l]
        /\ \A i \in P : \E k \in 1..m : o[k] = i
  <2>1. IsChosen(outs, Outputs[g.window], P)
    BY <1>1, <1>2, <1>4, OutsChosen
  <2> QED BY <1>3, <2>1 DEF IsChosen
<1>6. PICK x \in DOMAIN Outputs[g.window] :
        \A k \in DOMAIN Outputs[g.window] : Outputs[g.window][k] = g.exit <=> k = x
  BY DEF LoneWindow
<1>7. x \in P /\ P \subseteq DOMAIN Outputs[g.window]
  <2>1. g.exit # Null
    BY WindowPlace, GraphAssumption
  <2> QED BY <1>1, <1>4, <1>6, <2>1 DEF Open
<1>8. PICK i \in 1..m : o[i] = x
  BY <1>5, <1>7
<1>9. ASSUME NEW k \in 1..m PROVE outs[k] \in Exit(g) <=> k = i
  <2>1. o[k] \in P /\ o[k] \in DOMAIN Outputs[g.window]
    BY <1>5, <1>7
  <2>2. outs[k] = g.exit <=> o[k] = x
    BY <1>5, <1>6, <2>1
  <2>3. o[k] = x => k = i
    <3>1. o[k] \in Int /\ o[i] \in Int
      <4>1. Outputs[g.window] \in Seq(Channel \union {Null})
        BY <1>1, GraphAssumption
      <4>2. DOMAIN Outputs[g.window] = 1..Len(Outputs[g.window])
        BY <4>1, LenProperties
      <4> QED BY <1>6, <1>8, <2>1, <4>2
    <3>2. k < i \/ i < k \/ k = i
      OBVIOUS
    <3> QED BY <1>5, <1>8, <3>1, <3>2
  <2>4. outs[k] # End[g.exit]
    BY <1>3, WindowPlace, GraphAssumption
  <2> QED BY <1>8, <2>2, <2>3, <2>4 DEF Exit
<1>10. PICK r : r = Copies(e, p)
  OBVIOUS
<1>11. r = [j \in 1..m |-> [e EXCEPT !.pos = outs[j]]]
  BY <1>2, <1>3, <1>10 DEF Copies
<1>12. \A j \in 1..m : r[j] \in Event /\ r[j].pos = outs[j] /\ r[j].code = e.code
  BY <1>3, <1>11 DEF Event
<1>13. r \in Seq(Event) /\ Len(r) = m
  BY <1>11, <1>12, IsASeq
<1>14. {k \in 1..Len(r) : r[k] \in ExitEvents(g)} = {i}
  BY <1>9, <1>12, <1>13 DEF ExitEvents
<1>15. PICK a : a = Among(ExitEvents(g), r)
  OBVIOUS
<1>16. a \in Seq(Event) /\ IsChosen(a, r, {i})
  BY <1>13, <1>14, <1>15, AmongIs
<1>17. a = <<r[i]>>
  <2>1. i \in Nat
    OBVIOUS
  <2> QED BY <1>16, <2>1, ChosenOne
<1> QED BY <1>10, <1>12, <1>15, <1>17 DEF Leaving

(* What a window holds, and what it puts into the list.                    *)
Held(g, t) == {y \in Usual(g, t) : y.pos = g.window}
Others(g, t) == {y \in Usual(g, t) : ~ AtOrBefore(g, y.pos)}

LEMMA HeldIs ==
  ASSUME NEW g, LoneWindow(g), NEW t, NEW e \in Held(g, t)
  PROVE  /\ e \in Event /\ e \in InPast(t) /\ e.pos = g.window /\ e.code # "end"
         /\ e.pos \in Node /\ HasHandler(e.pos) /\ ~ Upstream(g, e.pos)
         /\ e.ttl + g.depth[e.pos] >= InitialTTL
         /\ e \in EventsAt(g.window)
<1>1. e.pos = g.window /\ e \in InPast(t) /\ e \in Event
  BY DEF Held, Usual, InPast
<1>2. g.window \in Node /\ HasHandler(g.window) /\ ~ Upstream(g, g.window)
  BY WindowPlace
<1>3. e.code # "end" /\ e.ttl + g.depth[e.pos] >= InitialTTL
  BY <1>1, <1>2, GraphAssumption DEF Held, Usual, AtOrBefore
<1> QED BY <1>1, <1>2, <1>3 DEF EventsAt

LEMMA SentIsOther ==
  ASSUME NEW g, LoneWindow(g), NEW t, NEW e, e.pos = g.window
  PROVE  /\ Sent(g, t, e) \subseteq Others(g, t)
         /\ \A y \in Sent(g, t, e) : y.code = e.code
<1>1. ~ Upstream(g, e.pos)
  BY WindowPlace
<1> QED BY <1>1 DEF Sent, IsSent, Others

LEMMA OthersAreTyped ==
  ASSUME NEW g, NEW t
  PROVE  /\ Others(g, t) \subseteq Event /\ Held(g, t) \subseteq Event
         /\ Others(g, t) \subseteq Usual(g, t) /\ Held(g, t) \subseteq Usual(g, t)
         /\ Usual(g, t) \subseteq Event /\ Usual(g, t) \subseteq InPast(t)
BY DEF Others, Held, Usual, InPast

LEMMA TerminatorSent ==
  ASSUME NEW g, LoneWindow(g), NEW t, NEW e \in Held(g, t), NEW p
  PROVE  LET r == Terminator(g.window, e, p)
         IN  /\ r \in Seq(Others(g, t))
             /\ Leaving(g, r) = << >> \/ \E y : Leaving(g, r) = <<y>>
<1>1. PICK w : w = g.window
  OBVIOUS
<1>2. CASE Options[w].terminator
  <2>1. PICK f : f = [e EXCEPT !.code = "end", !.payload = 0]
    OBVIOUS
  <2>2. "end" \in Code /\ 0 \in Int64
    BY <1>1, <1>2, WindowPlace, WindowAssumption, HalfAssumption DEF Int64
  <2>3. f \in InPast(t) /\ f \in Event /\ f.pos = e.pos /\ f.ttl = e.ttl
    <3>1. e \in Event /\ e.time <= t
      BY HeldIs DEF InPast
    <3>2. f \in Event /\ f.pos = e.pos /\ f.ttl = e.ttl /\ f.time = e.time
      BY <2>1, <2>2, <3>1 DEF Event
    <3> QED BY <3>1, <3>2 DEF InPast
  <2>4. Copies(f, p) \in Seq(Sent(g, t, f))
    BY <2>3, HeldIs, CopiesSent
  <2>5. f.pos = g.window
    BY <2>3, HeldIs
  <2>6. Copies(f, p) \in Seq(Others(g, t))
    BY <2>4, <2>5, SentIsOther, SeqMonotonic
  <2>7. \E y : Leaving(g, Copies(f, p)) = <<y>>
    BY <2>3, <2>5, CopiesLeave
  <2> QED BY <1>1, <1>2, <2>1, <2>6, <2>7 DEF Terminator
<1>3. CASE ~ Options[w].terminator
  <2>1. PICK r : r = Terminator(g.window, e, p)
    OBVIOUS
  <2>2. r = << >>
    BY <1>1, <1>3, <2>1 DEF Terminator
  <2>3. r \in Seq(Others(g, t)) /\ Len(r) = 0
    BY <2>2, EmptySeq
  <2>4. \A k \in 1..0 : FALSE
    OBVIOUS
  <2>5. Leaving(g, r) = << >>
    BY <2>3, <2>4, NoneAmong DEF Leaving
  <2> QED BY <2>1, <2>3, <2>5
<1> QED BY <1>2, <1>3

(* Events that leave the buffer unsent are no ends, and one comes out for  *)
(* each of them.                                                           *)
Data(g, t) == {y \in Others(g, t) : y.code # "end"}

LEMMA CopiesData ==
  ASSUME NEW g, LoneWindow(g), NEW t, NEW e \in Held(g, t), NEW p
  PROVE  /\ Copies(e, p) \in Seq(Data(g, t))
         /\ \E y : Leaving(g, Copies(e, p)) = <<y>> /\ y.code # "end"
<1>1. e.pos = g.window /\ e.code # "end" /\ e \in Event
  BY HeldIs
<1>2. Copies(e, p) \in Seq(Sent(g, t, e))
  BY HeldIs, CopiesSent
<1>3. Sent(g, t, e) \subseteq Data(g, t)
  BY <1>1, SentIsOther DEF Data
<1>4. Copies(e, p) \in Seq(Data(g, t))
  BY <1>2, <1>3, SeqMonotonic
<1>5. \E y : Leaving(g, Copies(e, p)) = <<y>> /\ y.code = e.code
  BY <1>1, CopiesLeave
<1> QED BY <1>1, <1>4, <1>5

LEMMA SentAgainIsData ==
  ASSUME NEW g, LoneWindow(g), NEW t, NEW s \in Seq(Held(g, t)), NEW p
  PROVE  LET r == FlattenSeq([k \in DOMAIN s |-> Copies(s[k], p)])
         IN  r \in Seq(Data(g, t)) /\ (s # << >> => Leaving(g, r) # << >>)
<1>1. PICK n \in Nat : n = Len(s) /\ DOMAIN s = 1..n /\ \A k \in 1..n : s[k] \in Held(g, t)
  BY LenProperties, ElementOfSeq
<1>2. PICK D : D = Data(g, t)
  OBVIOUS
<1>3. PICK q : q = [k \in 1..n |-> Copies(s[k], p)]
  OBVIOUS
<1>4. \A k \in 1..n : Copies(s[k], p) \in Seq(D)
  BY <1>1, <1>2, CopiesData
<1>5. q \in Seq(Seq(D)) /\ Len(q) = n
  BY <1>3, <1>4, IsASeq
<1>6. PICK r : r = FlattenSeq(q)
  OBVIOUS
<1>7. r \in Seq(D)
  BY <1>5, <1>6, FlattenTyped
<1>8. ASSUME s # << >> PROVE Leaving(g, r) # << >>
  <2>1. n # 0 /\ 1 \in 1..n
    <3>1. n # 0
      BY <1>1, <1>8, EmptySeq
    <3> QED BY <3>1
  <2>2. PICK h : h = <<q[1]>>
    OBVIOUS
  <2>3. PICK l : l = Tail(q)
    OBVIOUS
  <2>4. q[1] \in Seq(D) /\ q[1] = Copies(s[1], p)
    BY <1>3, <1>4, <2>1
  <2>5. h \in Seq(Seq(D)) /\ l \in Seq(Seq(D)) /\ q = h \o l
    <3>1. PICK T : T = Seq(D)
      OBVIOUS
    <3>2. q \in Seq(T) /\ q # << >> /\ q[1] \in T
      BY <1>5, <2>1, <2>4, <3>1, EmptySeq
    <3>3. /\ l \in Seq(T) /\ Len(l) = n - 1
          /\ \A i \in 1..Len(l) : l[i] = q[i + 1]
      BY <1>5, <2>3, <3>2, HeadTailProperties
    <3>4. h \in Seq(T) /\ Len(h) = 1 /\ h[1] = q[1]
      BY <2>2, <3>2
    <3>5. PICK u : u = h \o l
      OBVIOUS
    <3>6. /\ u \in Seq(T) /\ Len(u) = 1 + (n - 1)
          /\ \A i \in 1..(1 + (n - 1)) : u[i] = IF i <= 1 THEN h[i] ELSE l[i - 1]
      <4>1. /\ u \in Seq(T) /\ Len(u) = Len(h) + Len(l)
            /\ \A i \in 1..(Len(h) + Len(l)) : u[i] = IF i <= Len(h) THEN h[i] ELSE l[i - Len(h)]
        <5>1. h \in Seq(T) /\ l \in Seq(T)
          BY <3>3, <3>4
        <5> QED BY <3>5, <5>1, ConcatProperties
      <4> QED BY <3>3, <3>4, <4>1
    <3>7. ASSUME NEW i \in 1..n PROVE q[i] = u[i]
      <4>1. CASE i = 1
        BY <3>4, <3>6, <4>1
      <4>2. CASE i # 1
        <5>1. i - 1 \in 1..(n - 1) /\ (i - 1) + 1 = i /\ ~ (i <= 1)
          BY <4>2
        <5> QED BY <3>3, <3>6, <5>1
      <4> QED BY <4>1, <4>2
    <3>8. q = u
      BY <1>5, <3>2, <3>6, <3>7, SeqEqual
    <3> QED BY <3>1, <3>3, <3>4, <3>5, <3>8
  <2>6. PICK a : a = FlattenSeq(h)
    OBVIOUS
  <2>7. PICK b : b = FlattenSeq(l)
    OBVIOUS
  <2>8. a = Copies(s[1], p) /\ a \in Seq(D) /\ b \in Seq(D) /\ r = a \o b
    BY <1>6, <2>2, <2>4, <2>5, <2>6, <2>7, FlattenOne, FlattenConcat, FlattenTyped
  <2>9. PICK Z : Z = ExitEvents(g)
    OBVIOUS
  <2>10. PICK x, y : x = Among(Z, a) /\ y = Among(Z, b)
    OBVIOUS
  <2>11. Among(Z, r) = x \o y /\ x \in Seq(D) /\ y \in Seq(D)
    <3>1. PICK u : u = a \o b
      OBVIOUS
    <3>2. a \in Seq(D) /\ b \in Seq(D) /\ r = u
      BY <2>8, <3>1
    <3>3. a \in Seq(D) /\ b \in Seq(D)
      BY <3>2
    <3>4. AmongJoins(Z, a, b) /\ Among(Z, a) \in Seq(D) /\ Among(Z, b) \in Seq(D)
      BY <3>3, AmongJoined
    <3> QED BY <2>10, <3>1, <3>2, <3>4 DEF AmongJoins
  <2>12. Len(x) = 1
    <3>1. \E z : Leaving(g, a) = <<z>>
      BY <1>1, <2>1, <2>8, CopiesData
    <3> QED BY <2>9, <2>10, <3>1 DEF Leaving
  <2>13. Len(x \o y) = 1 + Len(y) /\ Len(y) \in Nat
    BY <2>11, <2>12, ConcatProperties, LenProperties
  <2>14. x \o y # << >>
    BY <2>13
  <2> QED BY <2>9, <2>11, <2>14 DEF Leaving
<1> QED BY <1>1, <1>2, <1>3, <1>6, <1>7, <1>8

(* What trigger_new_window sends when something has come since the last    *)
(* end.                                                                    *)
Resent(s, p) == FlattenSeq([k \in DOMAIN s |-> Copies(s[k], p)])

EndsWell(g, S, x, o, kept) ==
  /\ x \in Seq(S) /\ Follows(Leaving(g, x), o)
  /\ kept # << >> => Opens(Leaving(g, x), o)

LEMMA WindowEnded ==
  ASSUME NEW g, LoneWindow(g), NEW t, NEW S, Others(g, t) \subseteq S,
         NEW s \in Seq(S), NEW o \in BOOLEAN,
         Follows(Leaving(g, s), o), Opens(Leaving(g, s), o),
         NEW e \in Held(g, t), NEW p, NEW kept \in Seq(Held(g, t)),
         NEW last, last = Terminator(g.window, e, p),
         NEW again, again = Resent(kept, p),
         NEW x, x = (s \o last) \o again
  PROVE  EndsWell(g, S, x, o, kept)
<1>1. /\ last \in Seq(Others(g, t))
      /\ Leaving(g, last) = << >> \/ \E y : Leaving(g, last) = <<y>>
  BY TerminatorSent
<1>2. again \in Seq(Data(g, t)) /\ (kept # << >> => Leaving(g, again) # << >>)
  BY SentAgainIsData DEF Resent
<1>3. last \in Seq(S)
  BY <1>1, SeqMonotonic
<1>4. again \in Seq(S)
  <2>1. Data(g, t) \subseteq S
    BY DEF Data
  <2> QED BY <1>2, <2>1, SeqMonotonic
<1>5. PICK y : y = s \o last
  OBVIOUS
<1>6. x = y \o again
  BY <1>5
<1>7. y \in Seq(S)
  BY <1>3, <1>5, ConcatProperties
<1>8. x \in Seq(S)
  BY <1>4, <1>6, <1>7, ConcatProperties
<1>9. PICK a, b, c, d : /\ a = Leaving(g, s) /\ b = Leaving(g, last)
                        /\ c = Leaving(g, again) /\ d = Leaving(g, y)
  OBVIOUS
<1>10. a \in Seq(S) /\ b \in Seq(S) /\ d = a \o b
  <2>1. AmongJoins(ExitEvents(g), s, last)
    BY <1>3, AmongJoined
  <2>2. Among(ExitEvents(g), s) \in Seq(S) /\ Among(ExitEvents(g), last) \in Seq(S)
    BY <1>3, AmongJoined
  <2> QED BY <1>5, <1>9, <2>1, <2>2 DEF Leaving, AmongJoins
<1>11. d \in Seq(S) /\ c \in Seq(S) /\ Leaving(g, x) = d \o c
  <2>1. AmongJoins(ExitEvents(g), y, again)
    BY <1>4, <1>7, AmongJoined
  <2>2. Among(ExitEvents(g), y) \in Seq(S) /\ Among(ExitEvents(g), again) \in Seq(S)
    BY <1>4, <1>7, AmongJoined
  <2> QED BY <1>6, <1>9, <2>1, <2>2 DEF Leaving, AmongJoins
<1>12. c \in Seq(Data(g, t))
  BY <1>2, <1>9, AmongIs DEF Leaving
<1>13. Follows(b, TRUE)
  BY <1>1, <1>9, OneFollows
<1>14. Follows(d, o)
  <2>1. Opens(a, o) = TRUE
    BY <1>9 DEF Opens
  <2>2. Follows(a \o b, o) <=> Follows(a, o) /\ Follows(b, Opens(a, o))
    BY <1>10, JoinedFollow
  <2> QED BY <1>9, <1>10, <1>13, <2>1, <2>2
<1>15. PICK q \in BOOLEAN : q = Opens(d, o)
  BY DEF Opens
<1>16. Follows(c, q) /\ (c # << >> => Opens(c, q))
  <2>1. PICK D : D = Data(g, t)
    OBVIOUS
  <2>2. c \in Seq(D) /\ \A z \in D : z.code # "end"
    BY <1>12, <2>1 DEF Data
  <2> QED BY <2>2, NoEndFollows
<1>17. /\ Follows(d \o c, o) <=> Follows(d, o) /\ Follows(c, Opens(d, o))
       /\ Opens(d \o c, o) <=> Opens(c, Opens(d, o))
  BY <1>11, JoinedFollow
<1> QED BY <1>2, <1>5, <1>6, <1>8, <1>9, <1>11, <1>14, <1>15, <1>16, <1>17 DEF EndsWell

(* A window at work, which e stays at: o says whether something has come   *)
(* since the last end before it began.                                     *)
Works(g, t, e, o) ==
  {st \in WindowState :
     /\ st.buffer \in Seq(Held(g, t)) /\ st.sent \in Seq(Others(g, t) \union {e})
     /\ Follows(Leaving(g, st.sent), o)
     /\ st.buffer # << >> => Opens(Leaving(g, st.sent), o)
     /\ st.skip > 0 => st.buffer = << >>
     /\ Options[g.window].additionalStep = 0 => st.skip = 0}

(* What a call of trigger_new_window makes less.                           *)
Shrinks(g, z, st) ==
  /\ Len(z.buffer) < Len(st.buffer) /\ z.members \subseteq st.members
  /\ Head(st.buffer) \notin z.members /\ z.skip >= st.skip
  /\ Len(st.buffer) = 1 /\ Options[g.window].additionalStep > 0 => z.skip > 0

LEMMA TriggerWorks ==
  ASSUME NEW g, LoneWindow(g), NEW t, NEW e \in Held(g, t), NEW f \in Held(g, t), NEW p,
         NEW o \in BOOLEAN, NEW st \in Works(g, t, f, o), st.buffer # << >>
  PROVE  /\ Trigger(g.window, e, p, st) \in Works(g, t, f, o)
         /\ Shrinks(g, Trigger(g.window, e, p, st), st)
<1> DEFINE w == g.window
<1>1. PICK opt : opt = Options[w]
  OBVIOUS
<1>2. opt.jumping \in BOOLEAN /\ opt.additionalStep \in Nat
  BY <1>1, WindowPlace, WindowAssumption
<1>3. PICK length : length = Len(st.buffer)
  OBVIOUS
<1>4. /\ st \in WindowState /\ st.buffer \in Seq(Held(g, t))
      /\ st.sent \in Seq(Others(g, t) \union {f}) /\ st.skip \in Nat /\ st.skip = 0
      /\ st.members \subseteq Event /\ length \in Nat \ {0}
  <2>1. st.buffer \in Seq(Held(g, t))
    BY DEF Works
  <2>2. length \in Nat /\ length # 0
    BY <1>3, <2>1, LenProperties, EmptySeq
  <2>3. st.skip \in Nat /\ ~ (st.skip > 0)
    BY DEF Works, WindowState
  <2> QED BY <2>1, <2>2, <2>3 DEF Works, WindowState
<1>5. PICK wanted : wanted = (IF opt.jumping THEN length ELSE 1) + opt.additionalStep
  OBVIOUS
<1>6. PICK step : step = IF wanted < 1 THEN 1 ELSE wanted
  OBVIOUS
<1>7. PICK popped : popped = IF step < length THEN step ELSE length
  OBVIOUS
<1>8. /\ step \in Nat /\ popped \in 0..length /\ step - popped \in Nat /\ popped >= 1
      /\ step - popped > 0 => popped = length
      /\ opt.additionalStep = 0 => step = popped
      /\ length = 1 /\ opt.additionalStep > 0 => step - popped > 0
  BY <1>2, <1>4, <1>5, <1>6, <1>7
<1>9. PICK kept : kept = SubSeq(st.buffer, popped + 1, length)
  OBVIOUS
<1>10. PICK gone : gone = SubSeq(st.buffer, 1, popped)
  OBVIOUS
<1>11. kept \in Seq(Held(g, t)) /\ kept \in Seq(Event) /\ Len(kept) = length - popped
  <2>1. PICK b : b = st.buffer
    OBVIOUS
  <2>2. PICK S : S = Held(g, t)
    OBVIOUS
  <2>3. b \in Seq(S) /\ popped \in 0..Len(b) /\ kept = SubSeq(b, popped + 1, Len(b))
    BY <1>3, <1>4, <1>8, <1>9, <2>1, <2>2
  <2>4. kept \in Seq(S) /\ Len(kept) = Len(b) - popped
    BY <2>3, Halves
  <2>5. S \subseteq Event
    BY <2>2, OthersAreTyped
  <2> QED BY <1>3, <2>1, <2>2, <2>4, <2>5, SeqMonotonic
<1>12. Head(st.buffer) \in ToSet(gone)
  <2>1. PICK b : b = st.buffer
    OBVIOUS
  <2>2. b \in Seq(Held(g, t)) /\ Len(b) = length /\ Head(b) = b[1]
    BY <1>3, <1>4, <2>1, HeadTailProperties
  <2>3. /\ gone = SubSeq(b, 1, popped) /\ 1 \in 1..(Len(b) + 1)
        /\ popped \in 1 - 1..Len(b)
    BY <1>8, <1>10, <2>1, <2>2
  <2>4. Len(gone) = popped /\ gone[1] = b[1] /\ DOMAIN gone = 1..popped
    <3>1. gone \in Seq(Held(g, t)) /\ Len(gone) = popped
      BY <1>8, <2>2, <2>3, SubSeqProperties
    <3>2. gone[1] = b[1]
      <4>1. \A i \in 1..popped : gone[i] = b[1 + i - 1]
        BY <1>8, <2>2, <2>3, SubSeqProperties
      <4>2. 1 \in 1..popped /\ 1 + 1 - 1 = 1
        BY <1>8
      <4> QED BY <4>1, <4>2
    <3> QED BY <3>1, <3>2, LenProperties
  <2>5. 1 \in DOMAIN gone
    BY <1>8, <2>4
  <2> QED BY <2>1, <2>2, <2>4, <2>5 DEF ToSet
<1>13. PICK last : last = Terminator(w, e, p)
  OBVIOUS
<1>14. PICK again : again = Resent(kept, p)
  OBVIOUS
<1>15. PICK x : x = (st.sent \o last) \o again
  OBVIOUS
<1>16. PICK E : E = Others(g, t) \union {f}
  OBVIOUS
<1>17. /\ x \in Seq(E) /\ Follows(Leaving(g, x), o)
       /\ kept # << >> => Opens(Leaving(g, x), o)
  <2>1. PICK s : s = st.sent
    OBVIOUS
  <2>2. /\ Others(g, t) \subseteq E /\ s \in Seq(E)
        /\ Follows(Leaving(g, s), o) /\ Opens(Leaving(g, s), o)
    BY <1>16, <2>1 DEF Works
  <2>3. x = (s \o last) \o again /\ kept \in Seq(Held(g, t))
    BY <1>11, <1>15, <2>1
  <2>4. EndsWell(g, E, x, o, kept)
    BY <1>13, <1>14, <2>2, <2>3, WindowEnded
  <2> QED BY <2>4 DEF EndsWell
<1>18. PICK z : z = Trigger(w, e, p, st)
  OBVIOUS
<1>19. z = [buffer |-> kept, members |-> st.members \ ToSet(gone),
            skip |-> st.skip + (step - popped), sent |-> x]
  BY <1>1, <1>3, <1>5, <1>6, <1>7, <1>9, <1>10, <1>13, <1>14, <1>15, <1>18
     DEF Trigger, State, Resent
<1>20. /\ z.buffer = kept /\ z.skip = step - popped /\ z.sent = x
       /\ z.members = st.members \ ToSet(gone)
  BY <1>4, <1>8, <1>19
<1>21. z \in WindowState
  <2>1. x \in Seq(Event)
    <3>1. E \subseteq Event
      BY <1>16, HeldIs, OthersAreTyped
    <3> QED BY <1>17, <3>1, SeqMonotonic
  <2> QED BY <1>4, <1>8, <1>11, <1>19, <2>1 DEF WindowState
<1>22. step - popped > 0 => kept = << >>
  BY <1>8, <1>11, EmptySeq
<1>23. z \in Works(g, t, f, o)
  BY <1>1, <1>8, <1>11, <1>16, <1>17, <1>20, <1>21, <1>22 DEF Works
<1>24. Shrinks(g, z, st)
  <2>1. Len(z.buffer) < Len(st.buffer)
    BY <1>3, <1>4, <1>8, <1>11, <1>20
  <2>2. z.skip >= st.skip /\ (Len(st.buffer) = 1 /\ opt.additionalStep > 0 => z.skip > 0)
    BY <1>3, <1>4, <1>8, <1>20
  <2> QED BY <1>1, <1>12, <1>20, <2>1, <2>2 DEF Shrinks
<1> QED BY <1>18, <1>23, <1>24
(* What the loop in front leaves of the window st it began with: all, or   *)
(* the first event has left the buffer, and e is later than it.            *)
Remains(g, a, st, e) ==
  /\ Len(a.buffer) <= Len(st.buffer) /\ a.members \subseteq st.members
  /\ a = st \/ /\ st.buffer # << >> /\ e.time > Head(st.buffer).time
               /\ Head(st.buffer) \notin a.members
               /\ Len(st.buffer) = 1 /\ Options[g.window].additionalStep > 0 => a.skip > 0

LEMMA AfterTimeWorks ==
  ASSUME NEW g, LoneWindow(g), NEW t, NEW e \in Held(g, t), NEW f \in Held(g, t), NEW p,
         NEW o \in BOOLEAN, NEW st \in Works(g, t, f, o)
  PROVE  LET a == AfterTime(g.window, e, p, st)
         IN  a \in Works(g, t, f, o) /\ Remains(g, a, st, e)
<1>1. PICK K : K = {s \in Works(g, t, f, o) : Remains(g, s, st, e)}
  OBVIOUS
<1>2. \A s \in Works(g, t, f, o) : /\ s.buffer \in Seq(Held(g, t)) /\ Len(s.buffer) \in Nat
                                   /\ s.skip \in Nat
                                   /\ Len(s.buffer) = 0 <=> s.buffer = << >>
  BY LenProperties, EmptySeq DEF Works, WindowState
<1>3. st \in K
  BY <1>1, <1>2 DEF Remains
<1>4. ASSUME NEW s \in K, EndsByTime(g.window, e, s)
      PROVE  Trigger(g.window, e, p, s) \in K
  <2>1. s \in Works(g, t, f, o) /\ Remains(g, s, st, e) /\ s.buffer # << >>
    BY <1>1, <1>4 DEF EndsByTime
  <2>2. PICK z : z = Trigger(g.window, e, p, s)
    OBVIOUS
  <2>3. z \in Works(g, t, f, o) /\ Shrinks(g, z, s)
    BY <2>1, <2>2, TriggerWorks
  <2>4. Len(z.buffer) <= Len(st.buffer) /\ z.members \subseteq st.members /\ st.buffer # << >>
    BY <1>2, <2>1, <2>3 DEF Remains, Shrinks
  <2>5. CASE s = st
    <3>1. e.time > Head(s.buffer).time
      <4>1. Options[g.window].maxTime \in Nat
        BY <1>4, WindowPlace, WindowAssumption DEF EndsByTime
      <4>2. s.buffer \in Seq(Event) /\ e \in Event
        <5>1. s.buffer \in Seq(Held(g, t)) /\ Held(g, t) \subseteq Event
          BY <1>2, <2>1, OthersAreTyped
        <5> QED BY <5>1, HeldIs, SeqMonotonic
      <4>3. Head(s.buffer) \in Event
        BY <2>1, <4>2, HeadTailProperties
      <4>4. e.time \in Int /\ Head(s.buffer).time \in Int
        BY <4>2, <4>3, LoopAssumption DEF Event
      <4>5. e.time > Head(s.buffer).time + Options[g.window].maxTime
        BY <1>4 DEF EndsByTime
      <4> QED BY <4>1, <4>4, <4>5
    <3> QED BY <1>1, <2>2, <2>3, <2>4, <2>5, <3>1 DEF Remains, Shrinks
  <2>6. CASE s # st
    <3>1. /\ e.time > Head(st.buffer).time /\ Head(st.buffer) \notin z.members
          /\ z.skip >= s.skip
          /\ Len(st.buffer) = 1 /\ Options[g.window].additionalStep > 0 => s.skip > 0
      BY <2>1, <2>3, <2>6 DEF Remains, Shrinks
    <3>2. s.skip > 0 => z.skip > 0
      BY <1>2, <2>1, <2>3, <3>1
    <3> QED BY <1>1, <2>2, <2>3, <2>4, <3>1, <3>2 DEF Remains
  <2> QED BY <2>5, <2>6
<1>5. PICK n \in Nat : DOMAIN st.buffer = 1..n
  BY <1>2, LenProperties
<1>6. AfterTime(g.window, e, p, st) \in K
  BY <1>3, <1>4, <1>5, AfterTimeRounds
<1> QED BY <1>1, <1>6

LEMMA AfterLengthWorks ==
  ASSUME NEW g, LoneWindow(g), NEW t, NEW e \in Held(g, t), NEW p, NEW o \in BOOLEAN,
         NEW st \in Works(g, t, e, o)
  PROVE  AfterLength(g.window, e, p, st) \in Works(g, t, e, o)
<1>1. PICK K : K = Works(g, t, e, o)
  OBVIOUS
<1>2. \A s \in K : s.buffer \in Seq(Held(g, t))
  BY <1>1 DEF Works
<1>3. ASSUME NEW s \in K, EndsByLength(g.window, s)
      PROVE  Trigger(g.window, e, p, s) \in K
  <2>1. s.buffer # << >>
    <3>1. Options[g.window].maxLength \in Nat \ {0}
      BY <1>3, WindowPlace, WindowAssumption DEF EndsByLength, LoneWindow, LoopsForever
    <3>2. Len(s.buffer) # 0
      BY <1>3, <3>1 DEF EndsByLength
    <3> QED BY <3>2
  <2> QED BY <1>1, <2>1, TriggerWorks
<1>4. PICK n \in Nat : DOMAIN st.buffer = 1..n
  BY <1>1, <1>2, LenProperties
<1> QED BY <1>1, <1>3, <1>4, AfterLengthRounds

(* A buffer that is not full stays as it is.                               *)
LEMMA NotFullStays ==
  ASSUME NEW w, NEW e, NEW p, NEW st, NEW n \in Nat, DOMAIN st.buffer = 1..n,
         ~ EndsByLength(w, st)
  PROVE  AfterLength(w, e, p, st) = st
<1>1. PICK K : K = {st}
  OBVIOUS
<1>2. st \in K /\ \A s \in K : EndsByLength(w, s) => Trigger(w, e, p, s) \in K
  BY <1>1
<1>3. AfterLength(w, e, p, st) \in K
  BY <1>2, AfterLengthRounds
<1> QED BY <1>1, <1>3
(* What the order of two events in the list says: what is on its way to    *)
(* the window has nothing behind it that is there already or has come out  *)
(* of it, and up to the window the times are in order.                     *)
Precedes(g, x, y) ==
  /\ Upstream(g, x.pos) => y.pos \notin {g.window} \union Exit(g)
  /\ AtOrBefore(g, x.pos) /\ AtOrBefore(g, y.pos) => x.time <= y.time
Orderly(g, s) == \A i, j \in 1..Len(s) : i < j => Precedes(g, s[i], s[j])

(* What may take the place of e.                                           *)
Calm(g, r, e) ==
  /\ \A k \in 1..Len(r) :
       /\ AtOrBefore(g, r[k].pos) => AtOrBefore(g, e.pos) /\ r[k].time = e.time
       /\ Upstream(g, r[k].pos) => Upstream(g, e.pos)
  /\ \A k, l \in 1..Len(r) : Upstream(g, r[k].pos) => r[l].pos \notin {g.window} \union Exit(g)

LEMMA ReplacedOrderly ==
  ASSUME NEW g, NEW s \in Seq(Event), NEW r \in Seq(Event), NEW i \in 1..Len(s),
         Orderly(g, s), Calm(g, r, s[i]),
         \A j \in 1..Len(s) : j < i => ~ Upstream(g, s[j].pos)
  PROVE  Orderly(g, Replaced(s, i, r))
<1>1. PICK u : u = Replaced(s, i, r)
  OBVIOUS
<1>2. u \in Seq(Event) /\ Placed(u, s, i, r)
  BY <1>1, ReplacedPlaces
<1>3. PICK n \in Nat : n = Len(r)
  BY LenProperties
<1>4. PICK m \in Nat : m = Len(s)
  BY LenProperties
<1>5. PICK h \in Nat : h = Len(u) /\ h = m - 1 + n
  BY <1>2, <1>3, <1>4, LenProperties DEF Placed
<1>6. \A j \in 1..h :
        \/ j < i /\ j \in 1..m /\ u[j] = s[j]
        \/ i <= j /\ j < i + n /\ (j - i) + 1 \in 1..n /\ u[j] = r[(j - i) + 1]
        \/ i + n <= j /\ (j - n) + 1 \in (i + 1)..m /\ u[j] = s[(j - n) + 1]
  BY <1>2, <1>3, <1>4, <1>5 DEF Placed
<1>7. i \in 1..m
  BY <1>4
<1>8. ASSUME NEW j \in 1..h, NEW k \in 1..h, j < k
      PROVE  Precedes(g, u[j], u[k])
  <2>1. PICK x, y, e : x = u[j] /\ y = u[k] /\ e = s[i]
    OBVIOUS
  <2>2. CASE j < i /\ j \in 1..m /\ u[j] = s[j]
    <3>1. CASE k < i /\ k \in 1..m /\ u[k] = s[k]
      BY <1>4, <1>8, <2>2, <3>1 DEF Orderly
    <3>2. ASSUME NEW b \in 1..n, y = r[b] PROVE Precedes(g, x, y)
      <4>1. ~ Upstream(g, x.pos) /\ Precedes(g, x, e)
        BY <1>4, <1>7, <2>1, <2>2 DEF Orderly
      <4>2. AtOrBefore(g, y.pos) => AtOrBefore(g, e.pos) /\ y.time = e.time
        BY <1>3, <2>1, <3>2 DEF Calm
      <4> QED BY <4>1, <4>2 DEF Precedes
    <3>3. ASSUME NEW b \in (i + 1)..m, y = s[b] PROVE Precedes(g, x, y)
      <4>1. b \in 1..m /\ j < b
        BY <1>7, <2>2
      <4> QED BY <1>4, <2>1, <2>2, <3>3, <4>1 DEF Orderly
    <3> QED BY <1>6, <2>1, <3>1, <3>2, <3>3
  <2>3. ASSUME NEW a \in 1..n, x = r[a], ~ (k < i) PROVE Precedes(g, x, y)
    <3>1. /\ AtOrBefore(g, x.pos) => AtOrBefore(g, e.pos) /\ x.time = e.time
          /\ Upstream(g, x.pos) => Upstream(g, e.pos)
      BY <1>3, <2>1, <2>3 DEF Calm
    <3>2. ASSUME NEW b \in 1..n, y = r[b] PROVE Precedes(g, x, y)
      <4>1. AtOrBefore(g, y.pos) => y.time = e.time
        BY <1>3, <2>1, <3>2 DEF Calm
      <4>2. Upstream(g, x.pos) => y.pos \notin {g.window} \union Exit(g)
        BY <1>3, <2>3, <3>2 DEF Calm
      <4>3. e.time <= e.time
        <5>1. e \in Event
          BY <1>4, <1>7, <2>1, ElementOfSeq
        <5>2. e.time \in Int
          BY <5>1, LoopAssumption DEF Event
        <5> QED BY <5>2
      <4> QED BY <3>1, <4>1, <4>2, <4>3 DEF Precedes
    <3>3. ASSUME NEW b \in (i + 1)..m, y = s[b] PROVE Precedes(g, x, y)
      <4>1. b \in 1..m /\ i < b
        BY <1>7
      <4>2. Precedes(g, e, y)
        BY <1>4, <1>7, <2>1, <3>3, <4>1 DEF Orderly
      <4> QED BY <3>1, <4>2 DEF Precedes
    <3> QED BY <1>6, <2>1, <2>3, <3>2, <3>3
  <2>4. ASSUME i + n <= j, (j - n) + 1 \in (i + 1)..m, x = s[(j - n) + 1]
        PROVE  Precedes(g, x, y)
    <3>1. k >= i + n /\ (k - n) + 1 \in 1..m /\ (j - n) + 1 \in 1..m /\ (j - n) + 1 < (k - n) + 1
      BY <1>5, <1>7, <1>8, <2>4
    <3>2. y = s[(k - n) + 1]
      <4>1. ~ (k < i) /\ ~ (k < i + n)
        BY <1>7, <3>1
      <4> QED BY <1>6, <2>1, <4>1
    <3> QED BY <1>4, <2>4, <3>1, <3>2 DEF Orderly
  <2>5. j < i \/ ~ (k < i)
    BY <1>7, <1>8
  <2> QED BY <1>6, <2>1, <2>2, <2>3, <2>4, <2>5
<1> QED BY <1>1, <1>5, <1>8 DEF Orderly
LEMMA ReplacedByItself ==
  ASSUME NEW S, NEW s \in Seq(S), NEW i \in 1..Len(s)
  PROVE  Replaced(s, i, <<s[i]>>) = s
<1>1. PICK r : r = <<s[i]>>
  OBVIOUS
<1>2. PICK m \in Nat : m = Len(s)
  BY LenProperties
<1>3. r \in Seq(S) /\ Len(r) = 1 /\ r[1] = s[i]
  BY <1>1, ElementOfSeq
<1>4. PICK u : u = Replaced(s, i, r)
  OBVIOUS
<1>5. u \in Seq(S) /\ Placed(u, s, i, r)
  BY <1>3, <1>4, ReplacedPlaces
<1>6. Len(u) = m
  BY <1>2, <1>3, <1>5 DEF Placed
<1>7. ASSUME NEW j \in 1..m PROVE u[j] = s[j]
  <2>1. \/ j < i /\ j \in 1..m /\ u[j] = s[j]
        \/ i <= j /\ j < i + 1 /\ (j - i) + 1 \in 1..1 /\ u[j] = r[(j - i) + 1]
        \/ i + 1 <= j /\ (j - 1) + 1 \in (i + 1)..m /\ u[j] = s[(j - 1) + 1]
    BY <1>2, <1>3, <1>5, <1>6 DEF Placed
  <2>2. CASE i <= j /\ j < i + 1 /\ u[j] = r[(j - i) + 1]
    <3>1. j = i /\ (j - i) + 1 = 1
      BY <1>2, <2>2
    <3> QED BY <1>3, <2>2, <3>1
  <2>3. (j - 1) + 1 = j
    OBVIOUS
  <2> QED BY <2>1, <2>2, <2>3
<1>8. u = s
  BY <1>2, <1>5, <1>6, <1>7, SeqEqual
<1> QED BY <1>1, <1>4, <1>8

(* What leaves before the i-th event is not touched; in front of it        *)
(* nothing does.                                                           *)
LEMMA LeavingParts ==
  ASSUME NEW g, NEW s \in Seq(Event), NEW i \in 1..Len(s),
         \A j \in 1..Len(s) : j < i => s[j].pos \notin Exit(g)
  PROVE  \E v \in Seq(Event) : \A r \in Seq(Event) :
           /\ Leaving(g, Replaced(s, i, r)) = Leaving(g, r) \o v
           /\ Leaving(g, r) \in Seq(Event)
<1>1. PICK Z : Z = ExitEvents(g)
  OBVIOUS
<1>2. PICK m \in Nat : m = Len(s)
  BY LenProperties
<1>3. PICK a, b : a = SubSeq(s, 1, i - 1) /\ b = SubSeq(s, i + 1, m)
  OBVIOUS
<1>4. a \in Seq(Event) /\ Len(a) = i - 1 /\ \A k \in 1..(i - 1) : a[k] = s[k]
  <2>1. i - 1 \in 1 - 1..Len(s) /\ 1 \in 1..(Len(s) + 1)
    BY <1>2
  <2>2. /\ a \in Seq(Event) /\ Len(a) = (i - 1) - 1 + 1
        /\ \A k \in 1..((i - 1) - 1 + 1) : a[k] = s[1 + k - 1]
    BY <1>2, <1>3, <2>1, SubSeqProperties
  <2>3. (i - 1) - 1 + 1 = i - 1 /\ \A k \in 1..(i - 1) : 1 + k - 1 = k
    OBVIOUS
  <2> QED BY <2>2, <2>3
<1>5. b \in Seq(Event)
  <2>1. i \in 0..Len(s)
    BY <1>2
  <2> QED BY <1>2, <1>3, <2>1, Halves
<1>6. Among(Z, a) = << >>
  <2>1. ASSUME NEW k \in 1..Len(a) PROVE a[k] \notin Z
    <3>1. k \in 1..Len(s) /\ k < i /\ a[k] = s[k]
      BY <1>2, <1>4
    <3> QED BY <1>1, <3>1 DEF ExitEvents
  <2> QED BY <1>4, <2>1, NoneAmong
<1>7. PICK v : v = Among(Z, b)
  OBVIOUS
<1>8. v \in Seq(Event)
  BY <1>5, <1>7, AmongIs
<1>9. ASSUME NEW r \in Seq(Event)
      PROVE  /\ Leaving(g, Replaced(s, i, r)) = Leaving(g, r) \o v
             /\ Leaving(g, r) \in Seq(Event)
  <2>1. PICK y : y = a \o r
    OBVIOUS
  <2>2. y \in Seq(Event)
    BY <1>4, <2>1, ConcatProperties
  <2>3. AmongJoins(Z, a, r) /\ Among(Z, r) \in Seq(Event)
    BY <1>4, AmongJoined
  <2>4. AmongJoins(Z, y, b)
    BY <1>5, <2>2, AmongJoined
  <2>5. PICK x : x = Among(Z, r)
    OBVIOUS
  <2>6. << >> \o x = x
    BY <2>3, <2>5, ConcatEmptySeq
  <2>7. Among(Z, y) = x
    BY <1>6, <2>1, <2>3, <2>5, <2>6 DEF AmongJoins
  <2>8. Replaced(s, i, r) = y \o b
    BY <1>2, <1>3, <2>1 DEF Replaced
  <2>9. Among(Z, Replaced(s, i, r)) = x \o v
    BY <1>7, <2>4, <2>7, <2>8 DEF AmongJoins
  <2> QED BY <1>1, <2>3, <2>5, <2>9 DEF Leaving
<1> QED BY <1>8, <1>9

(* Two ways to say that the sequence goes on.                              *)
LEMMA LeavingIs ==
  ASSUME NEW g, NEW s \in Seq(Event)
  PROVE  /\ Leaving(g, s) \in Seq(Event)
         /\ Leaving(g, s) = << >> <=> \A k \in 1..Len(s) : s[k].pos \notin Exit(g)
<1>1. Leaving(g, s) \in Seq(Event)
  BY AmongIs DEF Leaving
<1>2. Leaving(g, s) = << >> <=> \A k \in 1..Len(s) : s[k] \notin ExitEvents(g)
  BY NoneAmong DEF Leaving
<1>3. \A k \in 1..Len(s) : s[k] \in Event
  BY ElementOfSeq
<1> QED BY <1>1, <1>2, <1>3 DEF ExitEvents

LEMMA LeavingOne ==
  ASSUME NEW g, NEW e \in Event
  PROVE  /\ e.pos \in Exit(g) => Leaving(g, <<e>>) = <<e>>
         /\ e.pos \notin Exit(g) => Leaving(g, <<e>>) = << >>
<1>1. PICK Z : Z = ExitEvents(g)
  OBVIOUS
<1>2. e \in Z <=> e.pos \in Exit(g)
  BY <1>1 DEF ExitEvents
<1>3. Among(Z, <<e>>) = IF e \in Z THEN <<e>> ELSE << >>
  BY AmongOne
<1> QED BY <1>1, <1>2, <1>3 DEF Leaving

=============================================================================
