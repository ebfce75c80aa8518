----------------------------- MODULE DigitPlanes -----------------------------
(***************************************************************************)
(* The digit gadget of zk/src/pcs/gadget.rs on one coefficient.  A shape s *)
(* is a modulus, a base and a plane count.  digit_planes peels off a digit *)
(* per plane, split is digit_planes behind a guard of its own, and join    *)
(* recombines the planes from the top.  The spans saturate at 2^128 in the *)
(* source; the values here stay below.                                     *)
(***************************************************************************)
EXTENDS Integers, Functions

Planes(s) == 0 .. s.digits - 1

GeometricSum(s) == SumFunctionOnSet([k \in Planes(s) |-> s.base^k], Planes(s))
Half(s) == s.base \div 2
DigitFloor(s) == -(s.base - Half(s) - 1)
DigitSpan(s) == Half(s) * GeometricSum(s)
DigitLowSpan(s) == -DigitFloor(s) * GeometricSum(s)

RepresentativeCeiling(s) == IF s.base = 2 THEN s.q - 1 ELSE (s.q - 1) \div 2

\* Slip: the guard of split taken for exactness.
OneSided(s) == DigitSpan(s) >= RepresentativeCeiling(s)
ExpansionIsExact(s) ==
  /\ DigitSpan(s) >= RepresentativeCeiling(s)
  /\ s.base = 2 \/ DigitLowSpan(s) >= RepresentativeCeiling(s)

\* Canonical for the binary gadget, least-absolute for the others.
Representative(c, s) == IF s.base > 2 /\ 2 * c > s.q THEN c - s.q ELSE c

\* Slip: the narrower edge used for both.
FitsNarrow(x, s) == x <= DigitLowSpan(s) /\ -x <= DigitLowSpan(s)
Fits(x, s) == x <= DigitSpan(s) /\ -x <= DigitLowSpan(s)

Positional(s) == s.base >= 2 /\ s.digits >= 1

\* The calls that do not panic.
DigitPlanesTake(c, s) == Positional(s) /\ Fits(Representative(c, s), s)
SplitTakes(c, s) == DigitPlanesTake(c, s) /\ DigitSpan(s) >= RepresentativeCeiling(s)

\* Slip: a digit never folded down.
DigitUnfolded(x, s) == x % s.base
Digit(x, s) == LET d == x % s.base IN IF d > Half(s) THEN d - s.base ELSE d

\* What is left of the representative before each plane, and after the last.
Rests(c, s) ==
  LET rest[k \in 0 .. s.digits] ==
        IF k = 0 THEN Representative(c, s)
        ELSE (rest[k - 1] - Digit(rest[k - 1], s)) \div s.base
  IN  rest

Split(c, s) ==
  LET rest == Rests(c, s) IN [k \in Planes(s) |-> Digit(rest[k], s) % s.q]

\* Slip: the planes taken from the bottom.
JoinFromBelow(planes, s) ==
  LET acc[n \in 0 .. s.digits] ==
        IF n = 0 THEN 0 ELSE (s.base * acc[n - 1] + planes[n - 1]) % s.q
  IN  acc[s.digits]
Join(planes, s) ==
  LET acc[n \in 0 .. s.digits] ==
        IF n = 0 THEN 0 ELSE (s.base * acc[n - 1] + planes[s.digits - n]) % s.q
  IN  acc[s.digits]

-----------------------------------------------------------------------------
(***************************************************************************)
(* The vanishing-polynomial gates of zk/src/sumcheck/range.rs on a ring    *)
(* element w modulo q.  Every entry point but the two evaluations asserts  *)
(* that q is prime.                                                        *)
(***************************************************************************)
ProductMod(q, f, S) == FoldFunctionOnSet(LAMBDA a, b : (a * b) % q, 1, f, S)

\* Slip: the factor at 0 left out.
VanishingNoZero(q, b, w) == ProductMod(q, [i \in 1 .. b |-> (w * w - i * i) % q], 1 .. b)
VanishingEval(q, b, w) ==
  (w * w * ProductMod(q, [i \in 1 .. b |-> (w * w - i * i) % q], 1 .. b)) % q

\* An even number of digits reaches one further below zero than above.
CenteredDigits(b) == LET lo == -(b \div 2) IN lo .. lo + b - 1

CenteredVanishingEval(q, b, w) ==
  ProductMod(q, [t \in CenteredDigits(b) |-> (w - t) % q], CenteredDigits(b))

RangeCheck(q, b, w) == VanishingEval(q, b, w) = 0
CenteredRangeCheck(q, b, w) == CenteredVanishingEval(q, b, w) = 0
BitCheck(q, w) == (w * w - w) % q = 0
=============================================================================
