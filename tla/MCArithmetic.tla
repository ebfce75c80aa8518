---------------------------- MODULE MCArithmetic -----------------------------
(***************************************************************************)
(* The arithmetic under everything else, over every modulus of a word.     *)
(* The Euclid walk of Zq::inverse runs from every element v of every modulus *)
(* q, and where it starts the word operations, the digit gadget and the    *)
(* range gates are compared with what they stand for at that v and q.      *)
(***************************************************************************)
EXTENDS Residues, DigitPlanes

CONSTANT Small    \* moduli up to here get the digit gadget and the gates

AtStart == out = <<>> /\ tPrev = 0 /\ t = 1

-----------------------------------------------------------------------------
\* Sums, differences and products are the residues of the integers they
\* stand for, at every modulus a word can hold: above half a word the sum
\* carries, and at a power of two the product wraps (barrett.rs:18-24, 53-54).
SumsAndProductsAreExact ==
  AtStart =>
    /\ \A a \in Residue(q) :
         /\ ModAdd(q, a, v) = (a + v) % q
         /\ ModSub(q, a, v) = (a - v) % q
         /\ ModMul(q, a, v) = (a * v) % q
         /\ BarrettReduce(q, a * v + a) = (a * v + a) % q
    /\ ModAdd(q, v, Neg(q, v)) = 0

\* Centring negates with the element, except at q/2, which the half-open
\* interval keeps above zero (zq.rs:142-146), and the norm is its size.
CentringIsHalfOpen ==
  AtStart =>
    /\ Centered(q, v) % q = v
    /\ 2 * Centered(q, v) > -q /\ 2 * Centered(q, v) <= q
    /\ Centered(q, Neg(q, v)) = IF 2 * v = q THEN Centered(q, v) ELSE -Centered(q, v)
    /\ AbsInfinity(q, v) = IF Centered(q, v) < 0 THEN -Centered(q, v) ELSE Centered(q, v)

Prime(n) == \A d \in 2 .. n - 1 : n % d # 0

\* Over a prime field the gates are exact, on both sides of zero: the root
\* q - i of a square never aliases into the range (range.rs:12-17, 44-45).
GatesAreExact ==
  AtStart /\ q <= Small /\ Prime(q) =>
    /\ \A b \in 1 .. (q - 1) \div 2 :
         RangeCheck(q, b, v) <=> Centered(q, v) \in -b .. b
    /\ \A b \in 1 .. q - 1 :
         CenteredRangeCheck(q, b, v) <=> \E t0 \in CenteredDigits(b) : t0 % q = v
    /\ BitCheck(q, v) <=> v \in {0, 1}

\* The word arithmetic of Zq is the arithmetic of residues, and a gate built
\* on it vanishes on its range and nowhere else.
ReducedOpsAreExact == SumsAndProductsAreExact /\ CentringIsHalfOpen /\ GatesAreExact

-----------------------------------------------------------------------------
\* Bases of both parities, from no plane at all to more than are needed, and
\* a base that is no positional system.
Shapes == {[q |-> q, base |-> b, digits |-> d] : b \in 1 .. 6, d \in 0 .. 4}

\* What some choice of digits, one per plane, recombines to.
Reachable(s) ==
  LET reach[k \in 0 .. s.digits] ==
        IF k = 0 THEN {0}
        ELSE {s.base * x + d : x \in reach[k - 1], d \in DigitFloor(s) .. Half(s)}
  IN  reach[s.digits]

\* join undoes split and digit_planes (gadget.rs:332-340), whatever the modulus
\* wraps on the way, and the planes use up the representative: the debug
\* assertion of gadget.rs:318, which release builds do not run.
JoinRestores ==
  AtStart /\ q <= Small =>
    \A s \in Shapes :
      DigitPlanesTake(v, s) => Join(Split(v, s), s) = v /\ Rests(v, s)[s.digits] = 0

\* Every plane is as short as the norm gates downstream count on
\* (gadget.rs:337-339); a base beyond the modulus has no centred digits.
PlanesAreDigits ==
  AtStart /\ q <= Small =>
    \A s \in Shapes :
      DigitPlanesTake(v, s) /\ s.base <= q =>
        \A k \in Planes(s) :
          IF s.base = 2 THEN Split(v, s)[k] \in 0 .. 1
          ELSE Centered(q, Split(v, s)[k]) \in DigitFloor(s) .. Half(s)

\* digit_planes refuses a coefficient only when no digits of the set express
\* it (gadget.rs:274-279); split refuses the whole ring at once, and only when
\* some residue has no expansion.
RefusalsAreForced ==
  AtStart /\ q <= Small =>
    \A s \in Shapes :
      Positional(s) =>
        /\ ~DigitPlanesTake(v, s) => Representative(v, s) \notin Reachable(s)
        /\ DigitPlanesTake(v, s) /\ ~SplitTakes(v, s) =>
             \E c \in Residue(q) : Representative(c, s) \notin Reachable(s)

\* digit_expansion_is_exact says whether every residue expands
\* (gadget.rs:220-230).  One residue escapes it: the half-way residue of an even
\* modulus, which is kept positive and lies one above the ceiling, so an odd
\* base whose span just reaches the ceiling passes for exact and refuses it.
ExactnessDecides ==
  AtStart /\ v = 0 /\ q <= Small =>
    \A s \in Shapes :
      Positional(s) =>
        /\ ExpansionIsExact(s) <=>
             \A c \in Residue(q) :
               Fits(Representative(c, s), s) \/ (2 * c = q /\ s.base % 2 = 1)
        /\ s.base % 2 = 1 => (ExpansionIsExact(s) <=> s.base^s.digits >= q - 1 + (q % 2))

\* The digit planes of a coefficient stand for it, are short, and are refused
\* only where there are none.
PlanesStandForResidues == JoinRestores /\ PlanesAreDigits /\ RefusalsAreForced /\ ExactnessDecides

-----------------------------------------------------------------------------
Fl == INSTANCE Floats WITH P <- 4, Bias <- 40

\* The word of the number nearest n / d * 2^(e - Bias - P), of two the even one.
NearestEven(n, d) ==
  (n \div d) + IF 2 * (n % d) > d \/ (2 * (n % d) = d /\ (n \div d) % 2 = 1) THEN 1 ELSE 0
RECURSIVE NearestWord(_, _, _)
NearestWord(n, d, e) ==
  IF n = 0 THEN 0
  ELSE IF n < 16 * d THEN NearestWord(2 * n, d, e - 1)
  ELSE IF n >= 32 * d THEN NearestWord(n, 2 * d, e + 1)
  ELSE (e * 16) + NearestEven(n, d) - 16

Size(n) == IF n < 0 THEN -n ELSE n

\* x as an integer multiple of 2^(low - Bias - P).
Multiple(x, low) ==
  IF Fl!Exponent(x) = 0 THEN 0
  ELSE Fl!Signed(x[1], Fl!Significand(x) * 2^(Fl!Exponent(x) - low))

\* Every number of a binade, the zeros with it.
Binade(e) == {<<s, (e * 16) + m>> : s \in 0 .. 1, m \in 0 .. 15} \cup {<<0, 0>>, <<1, 0>>}

\* x one of the numbers from 1 to 2, y one d binades below: a sum of opposite
\* numbers is +0, and every other result is the nearest number, ties to even.
PairRounds(x, y, d) ==
  LET a == Multiple(x, 40 - d)
      b == Multiple(y, 40 - d)
      s == (x[1] + y[1]) % 2
  IN  /\ Fl!Add(x, y)[2] = NearestWord(Size(a + b), 1, 40 - d)
      /\ Fl!Add(y, x) = Fl!Add(x, y)
      /\ x[2] # 0 => Fl!Add(x, y)[1] = IF a + b < 0 THEN 1 ELSE 0
      /\ Fl!Mul(x, y) = <<s, NearestWord(Size(Multiple(x, 40) * b), 1, 36 - d)>>
      /\ y[2] # 0 => Fl!Div(x, y)[2] = NearestWord(Size(Multiple(x, 40)), Size(b), 44 + d)
      /\ a # b => (Fl!Lt(x, y) <=> a < b) /\ (Fl!Lt(y, x) <=> b < a)

\* The integer next to x, to even and below, and the roots: of the root that is
\* returned, x lies between the squares of half a unit less and half a unit more.
SingleRounds(x, e) ==
  LET a == Multiple(x, e)
      unit == 2^(44 - e)
      scaled == IF e >= 44 THEN a * 2^(e - 44) ELSE a
      d == IF e >= 44 THEN 1 ELSE unit
      root == Fl!Sqrt(x)
      k == (2 * (Fl!Exponent(root) - 40)) - (e - 40)
  IN  /\ Fl!Rint(x) = Fl!Signed(x[1], NearestEven(Size(scaled), d))
      /\ x # <<1, 0>> => Fl!Floor(x) = scaled \div d
      /\ Fl!Trunc(x) = Fl!Signed(x[1], Size(scaled) \div d)
      /\ x[1] = 0 /\ x[2] # 0 =>
           /\ k \in {0, -1}
           /\ ((2 * Fl!Significand(root)) - 1)^2 < 64 * a * 2^(-k)
           /\ ((2 * Fl!Significand(root)) + 1)^2 > 64 * a * 2^(-k)
      /\ Fl!Half(Fl!Double(x))[2] = x[2]
      /\ Fl!Mul(x, Fl!Of(2)) = Fl!Double(x) /\ Fl!Mul(x, Fl!Scaled(1, -1))[2] = Fl!Half(x)[2]

\* 2^15 / k! from k = 7 down, and the exponential they give at j / 32: what it
\* turns sums into products with, to the precision of the word.
Taylor == <<7, 46, 273, 1365, 5461, 16384, 32768, 32768>>
Exp(j) == Fl!ExpmP63(Fl!Scaled(j, -5), Fl!Scaled(1, -1), Taylor)
ExponentialMultiplies(j) ==
  \A k \in 0 .. 5 :
    LET gap == (Exp(j) * Exp(k)) - (2^14 * Exp(j + k))
    IN  gap \in -(2^17) .. 2^17 /\ Exp(j + k + 1) < Exp(j + k)

FloatsRound ==
  AtStart /\ v = 0 /\ q <= 16 =>
    /\ \A x \in Binade(40), y \in Binade(42 - q) : PairRounds(x, y, q - 2)
    /\ \A x \in Binade(32 + q) : SingleRounds(x, 32 + q)
    /\ \A i \in {j * 137 : j \in 16 * (q - 2) .. 16 * (q - 1)} :
         /\ Fl!Of(i)[2] = NearestWord(i, 1, 44) /\ Fl!Of(-i)[2] = NearestWord(i, 1, 44)
         /\ \A j \in {q, 255, 256, 32767 - q} :
              Fl!HighProduct(i, 2 * j) = (i * j) \div 2^(Fl!Width - 1)
    /\ ExponentialMultiplies(q - 2)

\* Residues, and the digits they are split in, are computed exactly
\* (zq.rs:91-168, gadget.rs:220-340), and the emulated numbers of Falcon are
\* rounded as the standard wants (falcon/fpr.rs:1-10).
OpsAreExact == ReducedOpsAreExact /\ PlanesStandForResidues /\ FloatsRound
=============================================================================
