------------------------------ MODULE Residues ------------------------------
(***************************************************************************)
(* Zq arithmetic on machine words: algebra/src/ring/reduction/barrett.rs   *)
(* and algebra/src/ring/zq.rs.  Elements are residues below the modulus q, *)
(* a word holds 0 .. Word - 1, and a modulus may be any word from 2 on, so *)
(* a sum may not fit.  u128 intermediates hold every product of two words. *)
(***************************************************************************)
EXTENDS Integers

CONSTANT Word    \* 2^64 in the source
ASSUME WordAssumption == Word \in Nat /\ Word > 2

Moduli == 2 .. Word - 1
Residue(q) == 0 .. q - 1

\* q & (q - 1) = 0: the powers of two are the divisors of a word's size, and
\* masking with q - 1 is the remainder by one.
PowerOfTwo(q) == Word % q = 0

SubtractOnce(q, x) == IF x >= q THEN x - q ELSE x

\* Slip: the carry of the word addition lost.
ModAddCarryLost(q, a, b) == SubtractOnce(q, (a + b) % Word)
\* A carry stands for Word, whose residue is Word - q.
ModAdd(q, a, b) ==
  LET sum == (a + b) % Word
  IN  IF a + b >= Word THEN SubtractOnce(q, (sum + (Word - q)) % Word)
                       ELSE SubtractOnce(q, sum)

ModSub(q, a, b) == IF a >= b THEN a - b ELSE q - (b - a)

ModMul(q, a, b) == IF PowerOfTwo(q) THEN ((a * b) % Word) % q ELSE (a * b) % q

BarrettReduce(q, x) == IF PowerOfTwo(q) THEN (x % Word) % q ELSE x % q

Neg(q, a) == (q - a) % q

\* The representative in (-q/2, q/2].
CenteredUp(q, a) == IF 2 * a >= q THEN a - q ELSE a  \* slip: q/2 sent below
Centered(q, a) == IF 2 * a > q THEN a - q ELSE a

AbsInfinity(q, a) == IF a < q - a THEN a ELSE q - a

-----------------------------------------------------------------------------
(***************************************************************************)
(* Zq::inverse, algebra/src/ring/zq.rs: the extended Euclid walk with the  *)
(* Bezout coefficient carried reduced, one action per turn of the loop.    *)
(***************************************************************************)
VARIABLES q, v,           \* the modulus, the element
          rPrev, r,       \* the remainders
          tPrev, t,       \* their coefficients of v
          out             \* <<>> while running, then [some, value]

vars == <<q, v, rPrev, r, tPrev, t, out>>

Init ==
  /\ q \in Moduli /\ v \in Residue(q)
  /\ rPrev = q /\ r = v
  /\ tPrev = 0 /\ t = 1
  /\ out = <<>>

\* Slips: a remainder that divides is divided once too few; the coefficient
\* added; the product not reduced before it is subtracted.
QuotientShort == (rPrev - 1) \div r
Quotient == rPrev \div r

SubtrahendBare == Quotient * t
Subtrahend == (Quotient * t) % q

NextTAdded == (tPrev + Subtrahend) % q
NextT == (tPrev + q - Subtrahend) % q

\* Slip: the loop left with one remainder to go.
RunningTwo == out = <<>> /\ r > 1
Running == out = <<>> /\ r # 0

Divide ==
  /\ Running
  /\ rPrev' = r /\ r' = rPrev - Quotient * r
  /\ tPrev' = t /\ t' = NextT
  /\ UNCHANGED <<q, v, out>>

Return ==
  /\ out = <<>> /\ ~Running
  /\ out' = [some |-> rPrev = 1, value |-> tPrev]
  /\ UNCHANGED <<q, v, rPrev, r, tPrev, t>>

Next == Divide \/ Return

\* The walk is a loop of one thread: it keeps being run.
Spec == Init /\ [][Next]_vars /\ WF_vars(Next)

-----------------------------------------------------------------------------
\* What comes back is an inverse, at every modulus up to the last word.
InverseIsTrue ==
  out # <<>> /\ out.some => out.value \in Residue(q) /\ (v * out.value) % q = 1

\* None is said only of an element that has no inverse.
NoInverseMissed ==
  out # <<>> /\ ~out.some => \A x \in Residue(q) : (v * x) % q # 1

\* No u128 in the walk underflows or overflows (zq.rs:47-49): what is
\* subtracted is there, and every product fits two words.
WalkFits ==
  Running =>
    /\ Quotient * r <= rPrev
    /\ Quotient * t < Word * Word
    /\ tPrev + q >= Subtrahend

\* The walk decides which elements are units, inverts them, and wraps nowhere.
InverseDecides == InverseIsTrue /\ NoInverseMissed /\ WalkFits

\* The walk ends.
InverseReturns == <>(out # <<>>)
=============================================================================
