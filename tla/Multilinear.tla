----------------------------- MODULE Multilinear -----------------------------
(***************************************************************************)
(* Tables over the hypercube {0,1}^g as the sum-checks of zk/src/sumcheck  *)
(* fold them.  A table is a function on 0 .. 2^g - 1 into the ring of       *)
(* integers modulo Q, which may have zero divisors.                        *)
(***************************************************************************)
EXTENDS Integers, Sequences, Functions

CONSTANT Q
ASSUME QAssumption == Q \in Nat \ {0}

Ring == 0 .. Q - 1

Pow2[n \in Nat] == IF n = 0 THEN 1 ELSE 2 * Pow2[n - 1]

SumOver(T, S) == SumFunctionOnSet(T, S) % Q

\* Slip: the halves in the wrong order.
HalvesSwapped(T, h) == <<SumOver(T, h .. 2 * h - 1), SumOver(T, 0 .. h - 1)>>
\* The message of a round: the sums of the two halves of the table.
Halves(T, h) == <<SumOver(T, 0 .. h - 1), SumOver(T, h .. 2 * h - 1)>>

\* The line through v0 at 0 and v1 at 1, at r.
Interpolate(v0, v1, r) == (v0 + r * (v1 - v0)) % Q

FoldAt(T, h, r) == [j \in 0 .. h - 1 |-> Interpolate(T[j], T[j + h], r)]

\* Slip: 0 and 1 exchanged.
EqTensorFlipped(r, x) ==
  FoldFunction(LAMBDA a, b : (a * b) % Q, 1,
               [i \in DOMAIN r |-> IF x[i] THEN (1 - r[i]) % Q ELSE r[i]])
\* eq(r, x), the product of r_i where x_i and 1 - r_i where not.
EqTensor(r, x) ==
  FoldFunction(LAMBDA a, b : (a * b) % Q, 1,
               [i \in DOMAIN r |-> IF x[i] THEN r[i] ELSE (1 - r[i]) % Q])

\* The corner an index stands for: the first round splits on its highest bit.
Corner(idx, n) == [i \in 1 .. n |-> (idx \div Pow2[n - i]) % 2 = 1]

\* Reference: the multilinear polynomial of a table at a point.
MleAt(T, r) ==
  SumOver([idx \in DOMAIN T |-> T[idx] * EqTensor(r, Corner(idx, Len(r)))], DOMAIN T)
=============================================================================
