----------------------------- MODULE QuotientRing -----------------------------
(***************************************************************************)
(* Z_Q[X]/(X^D + 1) and sequences over it, as the commitments of zk/src    *)
(* use them: algebra/src/ring/poly_ring.rs, zk/src/pcs/packing.rs and the  *)
(* helpers of zk/src/pcs.                                                  *)
(***************************************************************************)
EXTENDS Integers, Sequences

CONSTANTS Q, D

Degrees == 0 .. D - 1
Elements == [Degrees -> 0 .. Q - 1]

\* F of its arguments, each computed once.
Apply(F(_), a) == CHOOSE v \in {F(x) : x \in {a}} : v = v
Apply2(F(_, _), a, b) == CHOOSE v \in {F(x, y) : x \in {a}, y \in {b}} : v = v

RECURSIVE SumOver(_, _, _)
SumOver(F(_), i, j) == IF i > j THEN 0 ELSE F(i) + SumOver(F, i + 1, j)

\* Integers to an element, and a residue to the integer around zero.
FromCentered(F(_)) == [k \in Degrees |-> F(k) % Q]
Centered(x) == IF 2 * x > Q THEN x - Q ELSE x
Abs(x) == IF x < 0 THEN -x ELSE x

Const(c) == [k \in Degrees |-> IF k = 0 THEN c % Q ELSE 0]
Zero == [k \in Degrees |-> 0]
One == Const(1)
Monomial(i) == FromCentered(LAMBDA k : IF k = i THEN 1 ELSE 0)

Plus(a, b) == Apply2(LAMBDA x, y : FromCentered(LAMBDA k : x[k] + y[k]), a, b)
Minus(a, b) == Apply2(LAMBDA x, y : FromCentered(LAMBDA k : x[k] - y[k]), a, b)
Scale(c, a) == Apply(LAMBDA x : FromCentered(LAMBDA k : c * x[k]), a)
\* Coefficient k of x y, from the i-th of x on.
RECURSIVE Wrapped(_, _, _, _)
Wrapped(x, y, k, i) ==
  IF i = D THEN 0
  ELSE (IF x[i] = 0 THEN 0 ELSE IF i <= k THEN x[i] * y[k - i] ELSE -(x[i] * y[k - i + D])) + Wrapped(x, y, k, i + 1)
Negacyclic(x, y) == [k \in Degrees |-> Wrapped(x, y, k, 0) % Q]
Times(a, b) == Apply2(Negacyclic, a, b)

\* X to 1/X; the constant term of a sigma(b) is the scalar product of a and b.
SigmaOf(a) == Apply(LAMBDA x : FromCentered(LAMBDA k : IF k = 0 THEN x[0] ELSE -x[D - k]), a)
Pairing(a, b) == Times(a, SigmaOf(b))[0]

RECURSIVE TotalOf(_, _, _)
TotalOf(F(_), i, j) ==
  IF i > j THEN Zero
  ELSE IF i = j THEN F(i)
  ELSE Plus(TotalOf(F, i, (i + j) \div 2), TotalOf(F, ((i + j) \div 2) + 1, j))
Total(s) == Apply(LAMBDA v : TotalOf(LAMBDA i : v[i], 1, Len(v)), s)

DotOf(a, b) == Apply2(LAMBDA x, y : TotalOf(LAMBDA i : Times(x[i], y[i]), 1, Len(x)), a, b)
\* A matrix is a sequence of rows, a row its entries where it is not zero.
RECURSIVE RowDot(_, _, _)
RowDot(r, x, J) ==
  IF J = {} THEN Zero
  ELSE LET j == CHOOSE i \in J : TRUE
       IN  IF J = {j} THEN Times(r[j], x[j]) ELSE Plus(Times(r[j], x[j]), RowDot(r, x, J \ {j}))
MatVec(m, a) == Apply(LAMBDA x : [i \in 1 .. Len(m) |-> RowDot(m[i], x, DOMAIN m[i])], a)
AddVec(a, b) == Apply2(LAMBDA x, y : [i \in 1 .. Len(x) |-> Plus(x[i], y[i])], a, b)
TimesVec(c, a) == Apply2(LAMBDA x, y : [i \in 1 .. Len(y) |-> Times(x, y[i])], c, a)
\* Sum of c[i] vs[i], for vectors vs[i].
Combination(c, vs) ==
  Apply2(LAMBDA x, y : [l \in 1 .. Len(y[1]) |-> TotalOf(LAMBDA i : Times(x[i], y[i][l]), 1, Len(y))], c, vs)

RECURSIVE Powers(_, _, _)
Powers(x, n, p) == IF n = 0 THEN <<>> ELSE <<p>> \o Powers(x, n - 1, Times(p, x))
PowTable(x, n) == Powers(x, n, One)

\* The infinity norm of s is b at most.
NormWithin(s, b) == \A v \in {s} : \A i \in 1 .. Len(v), k \in Degrees : Abs(Centered(v[i][k])) <= b
NormSq(s) == Apply(LAMBDA v : SumOver(LAMBDA i :
               SumOver(LAMBDA k : Centered(v[i][k]) * Centered(v[i][k]), 0, D - 1), 1, Len(v)), s)
L1Norm(s) == Apply(LAMBDA v : SumOver(LAMBDA i :
               SumOver(LAMBDA k : Abs(Centered(v[i][k])), 0, D - 1), 1, Len(v)), s)

\* Elements with coefficients of size b at most.
ShortElements(b) == [Degrees -> {x \in 0 .. Q - 1 : Abs(Centered(x)) <= b}]

RECURSIVE Concat(_)
Concat(ss) == IF ss = <<>> THEN <<>> ELSE Head(ss) \o Concat(Tail(ss))
=============================================================================
