-------------------------------- MODULE Gadgets --------------------------------
(***************************************************************************)
(* Balanced digits, tensors and tables over a quotient ring, as the        *)
(* commitments of zk/src/pcs that use trees and trapdoors share them       *)
(* (gadget.rs, tree_commit.rs, tree_eval.rs, trapdoor.rs).                 *)
(***************************************************************************)
EXTENDS QuotientRing

CONSTANTS Base, Alpha, \* digits, and how many of them a residue takes
          Draw(_, _)   \* from a seed, the n-th residue

Tabulate(n, F(_)) == Apply(LAMBDA m : [i \in 1 .. m |-> F(i)], n)

RECURSIVE Log2(_)
Log2(n) == IF n = 1 THEN 0 ELSE 1 + Log2(n \div 2)
PowerOfTwo(n) == 2 ^ Log2(n) = n
NextPow2(n) == IF PowerOfTwo(n) THEN n ELSE 2 ^ (Log2(n) + 1)

Chunk(s, w, b) == SubSeq(s, (b - 1) * w + 1, b * w)
Zeros(n) == Tabulate(n, LAMBDA i : Zero)

\* Greedy digits around zero, and whether a number has that few.
Digit(x) == LET r == x % Base IN IF r > Base \div 2 THEN r - Base ELSE r
RECURSIVE DigitsOf(_, _)
DigitsOf(x, p) == IF p = 0 THEN <<>> ELSE <<Digit(x)>> \o DigitsOf((x - Digit(x)) \div Base, p - 1)
RECURSIVE HasDigits(_, _)
HasDigits(x, p) == x = 0 \/ (p > 0 /\ HasDigits((x - Digit(x)) \div Base, p - 1))

DigitTable == [x \in 0 .. Q - 1 |-> DigitsOf(IF Base > 2 THEN Centered(x) ELSE x, Alpha)]
Split(vs) == Tabulate(Len(vs) * Alpha, LAMBDA i :
               FromCentered(LAMBDA k : DigitTable[vs[((i - 1) \div Alpha) + 1][k]][((i - 1) % Alpha) + 1]))
Join(ds) == Tabulate(Len(ds) \div Alpha, LAMBDA i :
              FromCentered(LAMBDA k : SumOver(LAMBDA j : Base ^ j * ds[(i - 1) * Alpha + j + 1][k], 0, Alpha - 1)))

RECURSIVE EqFrom(_, _)
EqFrom(point, t) ==
  IF point = <<>> THEN t
  ELSE LET low == Minus(One, Head(point))
       IN  EqFrom(Tail(point), Tabulate(2 * Len(t), LAMBDA i :
             Times(t[(i + 1) \div 2], IF i % 2 = 1 THEN low ELSE Head(point))))
EqTable(point) == EqFrom(point, <<One>>)
MleAt(s, point) == DotOf(EqTable(point), s)

PowersOf(x, n) == PowTable(Const(x), n)
Tensor(a, b) == Tabulate(Len(a) * Len(b), LAMBDA i :
                  Times(a[((i - 1) \div Len(b)) + 1], b[((i - 1) % Len(b)) + 1]))
Padded(s, n) == s \o Zeros(n - Len(s))

\* Drawn from a seed.
RingElement(seed, i) == FromCentered(LAMBDA k : Draw(seed, D * i + k))
RingPoint(seed, from, n) == Tabulate(n, LAMBDA i : RingElement(seed, from + i))
ScalarPoint(seed, from, n) == Tabulate(n, LAMBDA i : Const(Draw(seed, from + i)))
===============================================================================
