------------------------------- MODULE Floats --------------------------------
(***************************************************************************)
(* The emulated floating point of Falcon: IEEE numbers held in one integer *)
(* word and computed without branches (falcon/fpr.rs).  A number is a sign *)
(* and the rest of its word, the exponent field above P bits of mantissa;  *)
(* the source has P = 52, Bias = 1023 and words of P + 12 bits.            *)
(***************************************************************************)
EXTENDS Integers, Sequences

CONSTANTS P, Bias

Width == P + 12

Exponent(x) == x[2] \div 2^P
Mantissa(x) == x[2] % 2^P
Significand(x) == Mantissa(x) + IF Exponent(x) = 0 THEN 0 ELSE 2^P
Zero == <<0, 0>>
FprOf1 == <<0, Bias * 2^P>>

\* x shifted right by n, with its lowest bit set when a one is shifted out.
Jam(x, n) == (x \div 2^n) + IF x % 2^n # 0 /\ (x \div 2^n) % 2 = 0 THEN 1 ELSE 0

\* Of three low bits, the ones that round to even upwards: 0xC8 >> f.
RoundsUpOnHalf(f) == IF f \in {2, 3, 6, 7} THEN 1 ELSE 0
RoundsUp(f) == IF f \in {3, 6, 7} THEN 1 ELSE 0

\* (-1)^s * m * 2^e with m of P + 3 bits, the two lowest a guard and a sticky
\* bit; the hidden bit carries into the exponent field, and so does the rounding.
Build(s, e, m) ==
  LET e1 == e + Bias + P + 1
      m1 == IF e1 < 0 THEN 0 ELSE m
      e2 == IF m1 < 2^(P + 2) THEN 0 ELSE e1
  IN  <<s, (m1 \div 4) + (e2 * 2^P) + RoundsUp(m1 % 8)>>

\* m moved up to the top bit of the word, by powers of two from the largest.
RECURSIVE Norm64(_, _, _)
Norm64(m, e, k) ==
  IF k = 0 THEN <<m, e>>
  ELSE IF m < 2^(Width - k) THEN Norm64(m * 2^k, e - k, k \div 2)
  ELSE Norm64(m, e, k \div 2)

\* A word m * 2^e rounded to a number.
FromWord(s, m, e) ==
  LET w == Norm64(m, e, Width \div 2)
  IN  Build(s, w[2] + 9, Jam(w[1], 9))

Scaled(i, sc) ==
  IF i = 0 THEN Zero ELSE FromWord(IF i < 0 THEN 1 ELSE 0, IF i < 0 THEN -i ELSE i, sc)
Of(i) == Scaled(i, 0)

\* The word of x with its hidden bit two below the top, and how far right of
\* that the units are; a magnitude too small for the word has no bits left.
Wide(x) == (2^P + Mantissa(x)) * 2^10
Down(x) == Bias + P + 10 - Exponent(x)
Signed(s, m) == IF s = 1 THEN -m ELSE m

Rint(x) ==
  LET m == IF Down(x) >= Width THEN 0 ELSE Wide(x)
      e == Down(x) % Width
      d == (m * 2^(Width - 1 - e)) % 2^Width
  IN  Signed(x[1], (m \div 2^e) + RoundsUp(Jam(d, Width - 3)))

Floor(x) ==
  IF Down(x) >= Width THEN -x[1] ELSE Signed(x[1], Wide(x)) \div 2^Down(x)

Trunc(x) ==
  IF Down(x) >= Width THEN 0 ELSE Signed(x[1], Wide(x) \div 2^Down(x))

\* The larger magnitude first, and of two equal ones the positive.
Swaps(x, y) == x[2] < y[2] \/ (x[2] = y[2] /\ x[1] = 1)

Add(x0, y0) ==
  LET x == IF Swaps(x0, y0) THEN y0 ELSE x0
      y == IF Swaps(x0, y0) THEN x0 ELSE y0
      cc == Exponent(x) - Exponent(y)
      yu == IF cc >= P + 8 THEN 0 ELSE Jam(8 * Significand(y), cc)
  IN  FromWord(x[1], (8 * Significand(x)) + (IF x[1] = y[1] THEN yu ELSE -yu),
               Exponent(x) - Bias - P - 3)

Negate(x) == <<1 - x[1], x[2]>>
Sub(x, y) == Add(x, Negate(y))

Half(x) == IF Exponent(x) = 0 THEN Zero ELSE <<x[1], x[2] - 2^P>>
Double(x) == IF Exponent(x) = 0 THEN x ELSE <<x[1], x[2] + 2^P>>

\* The product of two significands in four halves of H low bits each, the
\* lowest P - 2 bits of it kept only as a sticky one.
H == (P - 2) \div 2
Product(xu, yu) ==
  LET x0 == xu % 2^H  x1 == xu \div 2^H
      y0 == yu % 2^H  y1 == yu \div 2^H
      z1 == ((x0 * y0) \div 2^H) + ((x0 * y1) % 2^H) + ((x1 * y0) % 2^H)
      z2 == ((x0 * y1) \div 2^H) + ((x1 * y0) \div 2^H) + (z1 \div 2^H)
      zu == (x1 * y1) + z2
  IN  IF ((x0 * y0) % 2^H # 0 \/ z1 % 2^H # 0) /\ zu % 2 = 0 THEN zu + 1 ELSE zu

\* One more bit than P + 3 is shifted out, kept as sticky.
Settle(s, e, z) ==
  IF z >= 2^(P + 3) THEN Build(s, e + 1, Jam(z, 1)) ELSE Build(s, e, z)

Mul(x, y) ==
  LET s == (x[1] + y[1]) % 2
  IN  IF Exponent(x) = 0 \/ Exponent(y) = 0 THEN <<s, 0>>
      ELSE Settle(s, Exponent(x) + Exponent(y) - (2 * Bias) - P - 2,
                  Product(Significand(x), Significand(y)))
Sqr(x) == Mul(x, x)

\* The quotient of two significands, a bit at a time.
RECURSIVE DivBits(_, _, _, _)
DivBits(xu, yu, q, i) ==
  IF i = 0 THEN IF xu # 0 THEN q + 1 ELSE q
  ELSE IF xu >= yu THEN DivBits(2 * (xu - yu), yu, 2 * (q + 1), i - 1)
  ELSE DivBits(2 * xu, yu, 2 * q, i - 1)

Div(x, y) ==
  IF Exponent(x) = 0 THEN Zero
  ELSE Settle((x[1] + y[1]) % 2, Exponent(x) - Exponent(y) - P - 3,
              DivBits(Significand(x), 2^P + Mantissa(y), 0, P + 3))
Inv(x) == Div(FprOf1, x)

\* The root of a significand, a bit at a time, s being twice the root so far.
RECURSIVE SqrtBits(_, _, _, _)
SqrtBits(xu, q, s, r) ==
  IF r = 0 THEN (2 * q) + (IF xu # 0 THEN 1 ELSE 0)
  ELSE IF xu >= s + r THEN SqrtBits(2 * (xu - s - r), q + r, s + (2 * r), r \div 2)
  ELSE SqrtBits(2 * xu, q, s, r \div 2)

Sqrt(x) ==
  LET e == Exponent(x) - Bias
      xu == Significand(x) * (1 + (e % 2))
  IN  IF Exponent(x) = 0 THEN Zero
      ELSE Build(0, (e \div 2) - P - 2, SqrtBits(2 * xu, 0, 0, 2^(P + 1)))

\* The words compared as signed integers, the other way round when both are
\* negative.
Lt(x, y) ==
  IF x[1] # y[1] THEN x[1] = 1
  ELSE IF x[1] = 1 THEN x[2] > y[2] ELSE x[2] < y[2]

-----------------------------------------------------------------------------
\* The high word of a product of words, from half-word products.
HighProduct(z, y) ==
  LET h == 2^(Width \div 2)
      z0 == z % h  z1 == z \div h
      y0 == y % h  y1 == y \div h
      a == (z0 * y1) + ((z0 * y0) \div h)
      b == z1 * y0
  IN  (a \div h) + (b \div h) + (((a % h) + (b % h)) \div h) + (z1 * y1)

\* 2^(Width - 1) * ccs * exp(-x): a polynomial in Horner form over fixed point,
\* its coefficients, leading first, c.
RECURSIVE Horner(_, _, _)
Horner(c, z, y) ==
  IF c = <<>> THEN y ELSE Horner(Tail(c), z, Head(c) - HighProduct(z, y))
FixedPoint(x) == 2 * Trunc(Mul(x, <<0, (Bias + Width - 1) * 2^P>>))
ExpmP63(x, ccs, c) ==
  HighProduct(FixedPoint(ccs), Horner(Tail(c), FixedPoint(x), Head(c)))
=============================================================================
