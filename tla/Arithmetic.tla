----------------------------- MODULE Arithmetic -----------------------------
(***************************************************************************)
(* What the nodes that compute make of the payload of an event and of what *)
(* they remember from event to event: nodes/differentiate.c,               *)
(* nodes/integrate.c and nodes/scale.c.  Payloads are int64_t; on overflow *)
(* the instructions of the build wrap around.                              *)
(***************************************************************************)
EXTENDS Integers

CONSTANT Half   \* 2^63 in the code: an int64_t is in -Half..(Half - 1)

ASSUME HalfAssumption == Half \in Nat \ {0}

Int64 == -Half..(Half - 1)

Wrapped(x) == ((x + Half) % (2 * Half)) - Half

(* Division in C rounds towards zero.                                      *)
Magnitude(x) == IF x < 0 THEN -x ELSE x
Quotient(a, b) ==
  LET q == Magnitude(a) \div Magnitude(b)
  IN  IF (a < 0) = (b < 0) THEN q ELSE -q

(* The payload an event leaves with, and what the node remembers then.     *)
Leaves(p, m) == [payload |-> p, memory |-> m]

(* "Subtracts the previous event payload from the current one"             *)
Differentiated(previous, p) == Leaves(Wrapped(p - previous), p)

(* "Calculates a running sum of previous event payloads"                   *)
Integrated(total, p) == Leaves(Wrapped(total + p), Wrapped(total + p))

(* "Multiplies event payload by a constant fraction": the remainder of the *)
(* division is the defect, and is added to the next payload if the option  *)
(* amortize_rounding_error says so.  A denominator of 0 divides nothing.   *)
(* (The quotient of -Half by -1 is no int64_t, and the division traps:     *)
(* such a fraction is not given to the model.)                             *)
Multiplied(o, defect, p) ==
  LET product == Wrapped(Wrapped(p - o.center) * o.numerator)
  IN  IF o.amortize THEN Wrapped(product + defect) ELSE product

ScaledForgetful(o, defect, p) ==
  LET value == Multiplied([o EXCEPT !.amortize = FALSE], defect, p)
      divided == Quotient(value, o.denominator)
  IN  IF o.denominator = 0 THEN Leaves(Wrapped(value + o.center), defect)
      ELSE Leaves(Wrapped(divided + o.center), value - divided * o.denominator)
Scaled(o, defect, p) ==
  LET value == Multiplied(o, defect, p)
      divided == Quotient(value, o.denominator)
  IN  IF o.denominator = 0 THEN Leaves(Wrapped(value + o.center), defect)
      ELSE Leaves(Wrapped(divided + o.center), value - divided * o.denominator)
=============================================================================
