------------------------------ MODULE DotProduct ------------------------------
(***************************************************************************)
(* The dot-product argument of zk/src/pcs/dotproduct.rs and one level of   *)
(* its recursion.  A relation asks quadratic functions of a witness (mult  *)
(* vectors of rank elements, kept flat) to vanish, wholly or in their      *)
(* constant term, and the witness to be short.  Five moves prove it: the   *)
(* outer commitment, the projection, the aggregates, the second outer      *)
(* commitment and the opening; a composed proof replaces the opening by a  *)
(* proof that the opening exists.                                          *)
(***************************************************************************)
EXTENDS QuotientRing, FiniteSets

CONSTANTS Ones, Twos, OperatorNorm, \* of a challenge
          Rows, ProjFactor,    \* of a projection: 256, and its stretch, half of that
          Lambda,              \* bits the aggregates are for: 128
          SlackNum, SlackDen,  \* beta^2 SlackNum <= q^2 SlackDen: 128 125^2 and 30
          MaxRerolls,
          Draw(_, _)           \* external: a seed's stream, by position

P == INSTANCE DigitPlanes
Digiting(base, digits) == [q |-> Q, base |-> base, digits |-> digits]

Largest(a, b) == IF a > b THEN a ELSE b
CeilDiv(a, b) == IF b <= 1 THEN a ELSE (a + b - 1) \div b

RECURSIVE Newton(_, _, _)
Newton(v, x, y) == IF y < x THEN Newton(v, y, (y + (v \div y)) \div 2) ELSE x
IsqrtFloor(v) == IF v < 2 THEN v ELSE Newton(v, v, (v + 1) \div 2)
IsqrtCeil(v) == LET x == IsqrtFloor(v) IN IF x * x < v THEN x + 1 ELSE x

RECURSIVE DoubledTo(_, _)
DoubledTo(v, hi) == IF hi^4 < v THEN DoubledTo(v, 2 * hi) ELSE hi
RECURSIVE Bisect(_, _, _)
Bisect(v, lo, hi) ==
  LET mid == (lo + hi) \div 2
  IN  IF lo + 1 >= hi THEN IF lo^4 >= v THEN lo ELSE hi
      ELSE IF mid^4 < v THEN Bisect(v, mid, hi) ELSE Bisect(v, lo, mid)
IntegerRoot4(v) == IF v < 2 THEN 1 ELSE Bisect(v, DoubledTo(v, 1) \div 2, DoubledTo(v, 1))

RECURSIVE Bits(_, _)
Bits(v, b) == IF 2^b <= v THEN Bits(v, b + 1) ELSE b
Log2Ceil(v) == Bits(v, 1)

RECURSIVE PlanesFrom(_, _, _)
PlanesFrom(base, magnitude, t) ==
  IF t = 128 \/ P!DigitSpan(Digiting(base, t + 1)) >= magnitude THEN Largest(t + 1, 2)
  ELSE PlanesFrom(base, magnitude, t + 1)
PlanesToCover(base, magnitude) == PlanesFrom(base, magnitude, 0)

-----------------------------------------------------------------------------
\* Challenges: so many coefficients of each size, and a bound on how much one
\* stretches what it multiplies.
Count == CeilDiv(Lambda, Bits(Q - 1, 0))
Tau == Ones + 4 * Twos
OperatorNormBound(c) ==
  LET a(k) == Centered(c[k])
      shifted(m, k) == IF m + k < D THEN a(m + k) ELSE -a(m + k - D)
  IN  IsqrtCeil(SumOver(LAMBDA k : Abs(SumOver(LAMBDA m : a(m) * shifted(m, k), 0, D - 1)), 0, D - 1))
ChallengeSpace ==
  {c \in ShortElements(2) :
     /\ Cardinality({k \in Degrees : Abs(Centered(c[k])) = 1}) = Ones
     /\ Cardinality({k \in Degrees : Abs(Centered(c[k])) = 2}) = Twos
     /\ OperatorNormBound(c) <= OperatorNorm}

SlackCondition(beta) == beta * SlackNum <= SlackDen * Q * Q

Bounds(beta, r, n, kappa) ==
  LET s2 == Largest(beta \div (r * n * D), 1)
      base == Largest(IntegerRoot4(12 * s2 * r * Tau), 2)
      t1 == PlanesToCover(base, (Q - 1) \div 2)
      t2 == PlanesToCover(base, Largest(IsqrtCeil(24 * n * D) * s2, base))
      triangle == ((r * r + r) \div 2) * D
      variance(planes, entries) == (base * base * planes * entries) \div 12
  IN  [base |-> base, t1 |-> t1, t2 |-> t2,
       beta_prime |-> ((2 * beta * Tau) \div (base * base))
         + variance(t1, r * kappa * D) + variance(t2, triangle) + variance(t1, triangle)]

-----------------------------------------------------------------------------
\* Digits of elements, and the two-part split of a response.
Takes(v, base, digits) ==
  \A x \in {v} : \A i \in 1 .. Len(x), k \in Degrees : P!DigitPlanesTake(x[i][k], Digiting(base, digits))
Covers(v, base, digits) ==
  \A x \in {v} : \A i \in 1 .. Len(x), k \in Degrees :
    Abs(Centered(x[i][k])) <= P!DigitSpan(Digiting(base, digits))
Validated(base, digits) == P!OneSided(Digiting(base, digits))

SplitOf(v, base, digits) ==
  Apply(LAMBDA x : [j \in 1 .. Len(x) * digits |->
    Apply(LAMBDA e : [k \in Degrees |-> P!Split(e[k], Digiting(base, digits))[(j - 1) % digits]],
          x[((j - 1) \div digits) + 1])], v)
JoinOf(planes, base, digits) ==
  Apply(LAMBDA x : [i \in 1 .. Len(x) \div digits |->
    TotalOf(LAMBDA k : Scale(base^(k - 1), x[(i - 1) * digits + k]), 1, digits)], planes)
DigitsStand(values, planes, base, digits) ==
  /\ Len(planes) = Len(values) * digits
  /\ JoinOf(planes, base, digits) = values
DigitsAreShort(planes, base) == NormWithin(planes, base \div 2)

CenteredDigit(x, base) == LET d == x % base IN IF d > base \div 2 THEN d - base ELSE d
LowPart(v, base) == Apply(LAMBDA z : [i \in 1 .. Len(z) |->
  FromCentered(LAMBDA k : CenteredDigit(Centered(z[i][k]), base))], v)
HighPart(v, base) == Apply(LAMBDA z : [i \in 1 .. Len(z) |->
  FromCentered(LAMBDA k : (Centered(z[i][k]) - CenteredDigit(Centered(z[i][k]), base)) \div base)], v)

-----------------------------------------------------------------------------
\* Functions of a witness: [a, phi, b], a on pairs of vectors, phi on the flat
\* witness, both only where they are not zero.
Block(s, i, n) == [x \in 1 .. n |-> s[(i - 1) * n + x]]
Pairs(r) == (1 .. r) \X (1 .. r)
TrianglePos(r, i, j) == (i - 1) * r - (((i - 1) * (i - 1) - (i - 1)) \div 2) + (j - i) + 1
TriangleLen(r) == (r * r + r) \div 2
TrianglePair(r, e) == CHOOSE p \in Pairs(r) : p[1] <= p[2] /\ TrianglePos(r, p[1], p[2]) = e
Triangle(g, r) == Apply(LAMBDA x : [e \in 1 .. TriangleLen(r) |-> x[TrianglePair(r, e)]], g)
Untriangle(v, r) ==
  [p \in Pairs(r) |-> IF p[1] <= p[2] THEN v[TrianglePos(r, p[1], p[2])] ELSE v[TrianglePos(r, p[2], p[1])]]

ScaleOn(c, f) == Apply2(LAMBDA x, y : [k \in DOMAIN y |-> Times(x, y[k])], c, f)
SumOn(fs) ==
  Apply(LAMBDA v : [k \in UNION {DOMAIN v[i] : i \in 1 .. Len(v)} |->
    TotalOf(LAMBDA i : IF k \in DOMAIN v[i] THEN v[i][k] ELSE Zero, 1, Len(v))], fs)

GarbageG(s, r, n) == Apply(LAMBDA x : [p \in Pairs(r) |-> DotOf(Block(x, p[1], n), Block(x, p[2], n))], s)
GarbageH(s, phi, r, n) ==
  Apply2(LAMBDA x, f : [p \in Pairs(r) |->
    Scale((Q + 1) \div 2, Plus(DotOf(Block(f, p[1], n), Block(x, p[2], n)),
                               DotOf(Block(f, p[2], n), Block(x, p[1], n))))], s, phi)
Lhs(f, gram, s) == Plus(RowDot(f.a, gram, DOMAIN f.a), RowDot(f.phi, s, DOMAIN f.phi))

\* Family F vanishes, family F' has no constant term, the witness is short.
FullVanish(rel, gram, s) == \A f \in {rel.full[i] : i \in 1 .. Len(rel.full)} : Lhs(f, gram, s) = f.b
ConstantsVanish(rel, gram, s) == \A f \in {rel.ct[i] : i \in 1 .. Len(rel.ct)} : Lhs(f, gram, s)[0] = f.b0
Check(rel, s) ==
  \A gram \in {GarbageG(s, rel.mult, rel.rank)} :
    FullVanish(rel, gram, s) /\ ConstantsVanish(rel, gram, s) /\ NormSq(s) <= rel.bound

\* sample_instance: a witness of bits and a relation it satisfies.
Fn(seed, k, r, n, s) ==
  LET a == [p \in Pairs(r) |-> FromCentered(LAMBDA x : Draw(seed, 97 * k + 7 * (p[1] + p[2]) + 5 * p[1] * p[2] + x))]
      phi == [j \in 1 .. r * n |-> FromCentered(LAMBDA x : Draw(seed + 1, 89 * k + 11 * j + x))]
  IN  Apply(LAMBDA f : [a |-> f.a, phi |-> f.phi, b |-> Lhs(f, GarbageG(s, r, n), s)], [a |-> a, phi |-> phi])
SampleWitness(seed, r, n) == [j \in 1 .. r * n |-> FromCentered(LAMBDA x : Draw(seed + 2, 13 * j + x) % 2)]
SampleRelation(seed, r, n, full, ct, bound, s) ==
  [rank |-> n, mult |-> r, bound |-> bound,
   full |-> [k \in 1 .. full |-> Fn(seed, k, r, n, s)],
   ct |-> [k \in 1 .. ct |-> Apply(LAMBDA f : [a |-> f.a, phi |-> f.phi, b0 |-> f.b[0]], Fn(seed, full + k, r, n, s))]]

-----------------------------------------------------------------------------
\* A level of the argument: its relation, keys [a, b, c, d], bounds, and the
\* number of moves before it.
Level(rel, key, bounds, off) == [rel |-> rel, key |-> key, bounds |-> bounds, off |-> off]
Kappa(lv) == Len(lv.key.a)
Flat(f, r) == Concat([i \in 1 .. r |-> f[i]])

SplitT(lv, v) == SplitOf(v, lv.bounds.base, lv.bounds.t1)
SplitG(lv, v) == SplitOf(v, lv.bounds.base, lv.bounds.t2)
JoinT(lv, v) == JoinOf(v, lv.bounds.base, lv.bounds.t1)
JoinG(lv, v) == JoinOf(v, lv.bounds.base, lv.bounds.t2)

InnerOf(lv, s) == Flat([i \in 1 .. lv.rel.mult |-> MatVec(lv.key.a, Block(s, i, lv.rel.rank))], lv.rel.mult)
Outer1(lv, td, gd) == AddVec(MatVec(lv.key.b, td), MatVec(lv.key.c, gd))

\* Integers, not residues.
Project(Pi, s) ==
  Apply2(LAMBDA rows, x : [j \in 1 .. Rows |->
    SumOver(LAMBDA i : SumOver(LAMBDA k : rows[j][(i - 1) * D + k + 1] * Centered(x[i][k]), 0, D - 1), 1, Len(x))], Pi, s)
IntNormSq(p) == SumOver(LAMBDA j : p[j] * p[j], 1, Len(p))
ProjectionFits(lv, p) == IntNormSq(p) <= ProjFactor * lv.rel.bound

\* What the verifier derives at a head: one function from the relation, the
\* projection and their random weights.
SigmaRow(row, len) == [x \in 1 .. len |-> SigmaOf(FromCentered(LAMBDA k : row[(x - 1) * D + k + 1]))]
AggregateFirst(lv, Pi, w) ==
  Apply2(LAMBDA rows, v : [k \in 1 .. Count |->
    [a |-> SumOn([l \in 1 .. Len(lv.rel.ct) |-> ScaleOn(Const(v.psi[k][l]), lv.rel.ct[l].a)]),
     phi |-> SumOn([l \in 1 .. Len(lv.rel.ct) |-> ScaleOn(Const(v.psi[k][l]), lv.rel.ct[l].phi)]
                   \o [j \in 1 .. Rows |-> ScaleOn(Const(v.omega[k][j]), rows[j])])]],
    [j \in 1 .. Rows |-> SigmaRow(Pi[j], lv.rel.mult * lv.rel.rank)], w)
FirstClaim(lv, w, p, k) ==
  (SumOver(LAMBDA l : w.psi[k][l] * lv.rel.ct[l].b0, 1, Len(lv.rel.ct))
   + SumOver(LAMBDA j : w.omega[k][j] * (p[j] % Q), 1, Rows)) % Q
AggregateSecond(lv, coeffs, b2, w) ==
  LET fs == lv.rel.full \o coeffs
      ws == w.alpha \o w.beta
      bs == [i \in 1 .. Len(lv.rel.full) |-> lv.rel.full[i].b] \o b2
  IN  [a |-> SumOn([i \in 1 .. Len(fs) |-> ScaleOn(ws[i], fs[i].a)]),
       phi |-> SumOn([i \in 1 .. Len(fs) |-> ScaleOn(ws[i], fs[i].phi)]),
       b |-> DotOf(ws, bs)]

Sent(lv, script, k) == script[lv.off + k].sent
Coin(lv, script, k) == script[lv.off + k].coins
CoeffsAt(lv, script) == AggregateFirst(lv, Coin(lv, script, 1), Coin(lv, script, 2))
StatementAt(lv, script) ==
  Apply(LAMBDA co : AggregateSecond(lv, co, Sent(lv, script, 3), Coin(lv, script, 3)), CoeffsAt(lv, script))
ClaimsHold(lv, script) ==
  \A k \in 1 .. Count : Sent(lv, script, 3)[k][0] = FirstClaim(lv, Coin(lv, script, 2), Sent(lv, script, 2), k)

-----------------------------------------------------------------------------
\* The opening of a level.
Opening(lv, z, t, td, g, gd, h, hd) ==
  [z |-> z, lo |-> LowPart(z, lv.bounds.base), hi |-> HighPart(z, lv.bounds.base),
   t |-> t, td |-> td, g |-> g, gd |-> gd, h |-> h, hd |-> hd]

Response(lv, c, s) == Combination(c, [i \in 1 .. lv.rel.mult |-> Block(s, i, lv.rel.rank)])
Quadratic(c, g, r) == Apply2(LAMBDA x, y : RowDot([p \in Pairs(r) |-> Times(x[p[1]], x[p[2]])], y, Pairs(r)), c, g)

\* Slip: an entry compared with itself.
SymmetricSelf(g, r) == \A p \in Pairs(r) : g[p] = g[<<p[1], p[2]>>]
Symmetric(g, r) == \A p \in Pairs(r) : g[p] = g[<<p[2], p[1]>>]

SplitStands(lv, m) ==
  /\ AddVec(m.lo, TimesVec(Const(lv.bounds.base), m.hi)) = m.z
  /\ NormWithin(m.lo, lv.bounds.base \div 2)
RevealedNorm(m) == NormSq(m.lo) + NormSq(m.hi) + NormSq(m.td) + NormSq(m.gd) + NormSq(m.hd)

InnerLink(lv, c, m) ==
  MatVec(lv.key.a, m.z) =
    Combination(c, [i \in 1 .. lv.rel.mult |-> Block(m.t, i, Kappa(lv))])
SelfInnerProduct(lv, c, m) == DotOf(m.z, m.z) = Quadratic(c, m.g, lv.rel.mult)
LinearClaim(lv, c, fn, m) ==
  Total([i \in 1 .. lv.rel.mult |-> Times(DotOf(Block(fn.phi, i, lv.rel.rank), m.z), c[i])])
    = Quadratic(c, m.h, lv.rel.mult)
\* Slip: each pair of vectors once.
HalfOfRelation(lv, fn, m) ==
  Plus(RowDot(fn.a, m.g, {p \in DOMAIN fn.a : p[1] <= p[2]}), Total([i \in 1 .. lv.rel.mult |-> m.h[<<i, i>>]])) = fn.b
RelationLine(lv, fn, m) ==
  Plus(RowDot(fn.a, m.g, DOMAIN fn.a), Total([i \in 1 .. lv.rel.mult |-> m.h[<<i, i>>]])) = fn.b

\* Lines 15 to 20 of the verifier, the links of an opening.
LinesHold(lv, script, m) ==
  /\ Outer1(lv, m.td, m.gd) = Sent(lv, script, 1)
  /\ MatVec(lv.key.d, m.hd) = Sent(lv, script, 4)
  /\ \A c \in {Coin(lv, script, 4)}, fn \in {StatementAt(lv, script)} :
       InnerLink(lv, c, m) /\ SelfInnerProduct(lv, c, m) /\ LinearClaim(lv, c, fn, m) /\ RelationLine(lv, fn, m)
\* What an opening says twice, it says alike.
Consistent(lv, m) ==
  /\ Symmetric(m.g, lv.rel.mult) /\ Symmetric(m.h, lv.rel.mult)
  /\ DigitsStand(m.t, m.td, lv.bounds.base, lv.bounds.t1) /\ DigitsAreShort(m.td, lv.bounds.base)
  /\ DigitsStand(Triangle(m.g, lv.rel.mult), m.gd, lv.bounds.base, lv.bounds.t2) /\ DigitsAreShort(m.gd, lv.bounds.base)
  /\ DigitsStand(Triangle(m.h, lv.rel.mult), m.hd, lv.bounds.base, lv.bounds.t1) /\ DigitsAreShort(m.hd, lv.bounds.base)
  /\ SplitStands(lv, m)

\* verify_core but for the sizes that an honest prover may miss.
VerifiesButNorms(lv, script, m) ==
  /\ SlackCondition(lv.rel.bound) /\ Len(m.z) = lv.rel.rank
  /\ Consistent(lv, m) /\ LinesHold(lv, script, m) /\ ClaimsHold(lv, script)
\* Slip: the projection not gated.
VerifyCoreUngated(lv, script, m) ==
  RevealedNorm(m) <= lv.bounds.beta_prime /\ VerifiesButNorms(lv, script, m)
VerifyCore(lv, script, m) ==
  /\ ProjectionFits(lv, Sent(lv, script, 2)) /\ RevealedNorm(m) <= lv.bounds.beta_prime
  /\ VerifiesButNorms(lv, script, m)

-----------------------------------------------------------------------------
\* What the honest prover of a witness says at each move of a level.
ProveOuter1(lv, s) ==
  Outer1(lv, SplitT(lv, InnerOf(lv, s)), SplitG(lv, Triangle(GarbageG(s, lv.rel.mult, lv.rel.rank), lv.rel.mult)))
ProveAggregates(lv, script, s, g) ==
  Apply2(LAMBDA co, gram : [k \in 1 .. Count |-> Lhs(co[k], gram, s)], CoeffsAt(lv, script), g)
HOf(lv, script, s) == GarbageH(s, StatementAt(lv, script).phi, lv.rel.mult, lv.rel.rank)
ProveOpening(lv, script, s, g, h) ==
  Apply2(LAMBDA gg, hh :
    Opening(lv, Response(lv, Coin(lv, script, 4), s), InnerOf(lv, s), SplitT(lv, InnerOf(lv, s)),
            gg, SplitG(lv, Triangle(gg, lv.rel.mult)), hh, SplitT(lv, Triangle(hh, lv.rel.mult))), g, h)
HonestOpening(lv, script, s) ==
  ProveOpening(lv, script, s, GarbageG(s, lv.rel.mult, lv.rel.rank), HOf(lv, script, s))
ProveAt(lv, script, s, k) ==
  CASE k = 1 -> ProveOuter1(lv, s)
    [] k = 2 -> Project(Coin(lv, script, 1), s)
    [] k = 3 -> ProveAggregates(lv, script, s, GarbageG(s, lv.rel.mult, lv.rel.rank))
    [] k = 4 -> MatVec(lv.key.d, SplitT(lv, Triangle(HOf(lv, script, s), lv.rel.mult)))
    [] k = 5 -> HonestOpening(lv, script, s)

\* Where it stops: at the start over the slack or the garbage, and once it
\* knows a norm to be too large; where the digits of a value do not exist, it
\* panics.
StopsAt(lv, script, s, k) ==
  CASE k = 1 ->
         IF ~ SlackCondition(lv.rel.bound) \/ NormSq(s) > lv.rel.bound \/ ~ Validated(lv.bounds.base, lv.bounds.t1)
         THEN "stop"
         ELSE IF ~ Takes(InnerOf(lv, s), lv.bounds.base, lv.bounds.t1) THEN "panic"
         ELSE IF ~ Covers(Triangle(GarbageG(s, lv.rel.mult, lv.rel.rank), lv.rel.mult), lv.bounds.base, lv.bounds.t2)
         THEN "abort"
         ELSE IF ~ Takes(Triangle(GarbageG(s, lv.rel.mult, lv.rel.rank), lv.rel.mult), lv.bounds.base, lv.bounds.t2)
         THEN "panic" ELSE "go"
    [] k = 2 -> IF ProjectionFits(lv, Project(Coin(lv, script, 1), s)) THEN "go" ELSE "abort"
    [] k = 4 -> IF Takes(Triangle(HOf(lv, script, s), lv.rel.mult), lv.bounds.base, lv.bounds.t1) THEN "go" ELSE "panic"
    [] k = 5 -> IF RevealedNorm(HonestOpening(lv, script, s)) <= lv.bounds.beta_prime THEN "go" ELSE "abort"
    [] OTHER -> "go"

-----------------------------------------------------------------------------
\* The target of a level: that an opening exists, as a relation over its parts
\* re-blocked in vectors of one rank, 2 nu of them for the response.
CeilUsize(a, b) == ((a - 1) \div b) + 1
WidthV(lv) == lv.rel.mult * lv.bounds.t1 * Kappa(lv) + (lv.bounds.t1 + lv.bounds.t2) * TriangleLen(lv.rel.mult)

Multiplicity(shape) == 2 * shape.nu + shape.mu
TargetWidth(shape) == Multiplicity(shape) * shape.rank
Fits(shape, n, m) == shape.nu * shape.rank >= n /\ shape.mu * shape.rank >= m
OffZ1(shape) == shape.nu * shape.rank
OffV(shape) == 2 * shape.nu * shape.rank

SizeInBits(lv, r, n, beta) ==
  LET q_width == Log2Ceil(Q)
      z_width == Log2Ceil(IsqrtCeil(CeilDiv(144 * beta * Tau, n * D)))
      g_width == Log2Ceil(IsqrtCeil(CeilDiv(288 * beta * beta, r * r * n * D)))
  IN  (Len(lv.key.b) + Len(lv.key.d) + Count + r * Kappa(lv) + TriangleLen(r)) * D * q_width
      + Rows * Log2Ceil(IsqrtCeil(Largest(72 * beta, 1))) + 512
      + n * D * z_width + TriangleLen(r) * D * g_width

DeriveShape(lv) ==
  LET n == lv.rel.rank
      m == WidthV(lv)
      ks == 1 .. 256
      ranks == {1, n, m, 2 * n + m} \cup {CeilUsize(n, k) : k \in ks} \cup {CeilUsize(m, k) : k \in ks}
                 \cup {CeilUsize(m * k, n) : k \in ks}
      shapes == {[nu |-> CeilUsize(n, k), mu |-> CeilUsize(m, k), rank |-> k] : k \in {x \in ranks : x <= 2 * n + m}}
      costs == {[shape |-> x, width |-> TargetWidth(x),
                 bits |-> SizeInBits(lv, Multiplicity(x), x.rank, lv.bounds.beta_prime)] :
                  x \in {y \in shapes : Fits(y, n, m)}}
  IN  (CHOOSE c \in costs : \A e \in costs : c.bits < e.bits \/ (c.bits = e.bits /\ c.width <= e.width)).shape

\* Elements put from a position of the flat witness on.
At(start, v) == [p \in {start + i : i \in DOMAIN v} |-> v[p - start]]
ScaleAt(c, start, v) == At(start, [i \in DOMAIN v |-> Times(c, v[i])])
Fully(f, len) == [p \in 1 .. len |-> IF p \in DOMAIN f THEN f[p] ELSE Zero]

TargetWitness(shape, lo, hi, v) ==
  Fully(SumOn(<<At(0, lo), At(OffZ1(shape), hi), At(OffV(shape), v)>>), TargetWidth(shape))

\* Slip: the garbage off the diagonal counted once.
Once(i, j) == 1
Twice(i, j) == IF i = j THEN 1 ELSE 2

TargetStatement(lv, script, shape) ==
  LET r == lv.rel.mult
      b == lv.bounds.base
      t1 == lv.bounds.t1
      t2 == lv.bounds.t2
      off_g == OffV(shape) + r * Kappa(lv) * t1
      off_h == off_g + TriangleLen(r) * t2
      minus == FromCentered(LAMBDA k : IF k = 0 THEN -1 ELSE 0)
      \* x_e spread over the digits of entry e.
      spread(x, start, digits) ==
        At(start, [i \in 1 .. Len(x) * digits |-> Scale(b^((i - 1) % digits), x[((i - 1) \div digits) + 1])])
      overZ(row) == <<At(0, row), ScaleAt(Const(b), OffZ1(shape), row)>>
      make(a, phis, v) == [a |-> a, phi |-> SumOn(phis), b |-> v]
      none == <<>>
      build(c, fn) ==
        LET onPairs(w(_, _)) == [e \in 1 .. TriangleLen(r) |-> LET p == TrianglePair(r, e) IN w(p[1], p[2])]
            cc == onPairs(LAMBDA i, j : Scale(-Twice(i, j), Times(c[i], c[j])))
            link(x) == make(none, overZ(lv.key.a[x])
              \o <<spread([e \in 1 .. r * Kappa(lv) |->
                    IF ((e - 1) % Kappa(lv)) + 1 = x THEN Times(minus, c[((e - 1) \div Kappa(lv)) + 1]) ELSE Zero],
                    OffV(shape), t1)>>, Zero)
            outer1(x) == make(none, <<At(OffV(shape), lv.key.b[x]), At(off_g, lv.key.c[x])>>, Sent(lv, script, 1)[x])
            outer2(x) == make(none, <<At(off_h, lv.key.d[x])>>, Sent(lv, script, 4)[x])
            weight(i, j) == IF i <= shape.nu /\ j = i THEN Const(1)
                            ELSE IF i > shape.nu /\ j = i THEN Const(b * b) ELSE Const(b)
            self == make([p \in {q \in Pairs(2 * shape.nu) : q[1] % shape.nu = q[2] % shape.nu} |-> weight(p[1], p[2])],
                         <<spread(cc, off_g, t2)>>, Zero)
            cz == SumOn([i \in 1 .. r |-> ScaleOn(c[i], Block(fn.phi, i, lv.rel.rank))])
            linear == make(none, overZ(cz) \o <<spread(cc, off_h, t1)>>, Zero)
            entry(i, j) == IF <<i, j>> \in DOMAIN fn.a THEN fn.a[<<i, j>>] ELSE Zero
            line18 == make(none,
              <<spread(onPairs(LAMBDA i, j : IF i = j THEN entry(i, i) ELSE Plus(entry(i, j), entry(j, i))), off_g, t2),
                spread(onPairs(LAMBDA i, j : IF i = j THEN One ELSE Zero), off_h, t1)>>, fn.b)
        IN  [i \in 1 .. Kappa(lv) |-> link(i)] \o [i \in 1 .. Len(lv.key.b) |-> outer1(i)]
            \o [i \in 1 .. Len(lv.key.d) |-> outer2(i)] \o <<self, linear, line18>>
  IN  [rank |-> shape.rank, mult |-> Multiplicity(shape), ct |-> <<>>, bound |-> lv.bounds.beta_prime,
       full |-> Apply2(build, Coin(lv, script, 4), StatementAt(lv, script))]

\* External: keys expanded from a seed.
DrawnKey(seed, rows, cols) ==
  [i \in 1 .. rows |-> [j \in 1 .. cols |-> FromCentered(LAMBDA k : Draw(seed, 31 * i + 17 * j + 3 * k))]]
UnitKey(rows, cols, from) == [i \in 1 .. rows |-> [j \in {i - from} \cap (1 .. cols) |-> One]]
DrawnKeys(seed, r, n, bounds, kappa, kappa1, kappa2) ==
  [a |-> DrawnKey(seed, kappa, n), b |-> DrawnKey(seed + 1, kappa1, r * bounds.t1 * kappa),
   c |-> DrawnKey(seed + 2, kappa1, bounds.t2 * TriangleLen(r)), d |-> DrawnKey(seed + 3, kappa2, bounds.t1 * TriangleLen(r))]
UnitKeys(r, n, bounds) ==
  LET t == r * bounds.t1 * n
      g == TriangleLen(r) * bounds.t2
      h == TriangleLen(r) * bounds.t1
  IN  [a |-> UnitKey(n, n, 0), b |-> UnitKey(t + g, t, 0), c |-> UnitKey(t + g, g, t), d |-> UnitKey(h, h, 0)]

NextLevel(lv, target, seed) ==
  LET bounds == Bounds(target.bound, target.mult, target.rank, Kappa(lv))
  IN  Level(target, DrawnKeys(seed, target.mult, target.rank, bounds, Kappa(lv), Len(lv.key.b), Len(lv.key.d)), bounds, lv.off + 4)

-----------------------------------------------------------------------------
\* A statement: [rel, key, bounds, s, composed, shape, seeds, alters,
\* reroll]; alters are the moves an untruthful prover changes.
Moves(st) == IF st.composed THEN 8 ELSE 4
First(st) == Level(st.rel, st.key, st.bounds, 0)
Second(st, script) ==
  Apply(LAMBDA target : NextLevel(First(st), target, 50 + 10 * st.reroll), TargetStatement(First(st), script, st.shape))
TargetSide(st, m) == TargetWitness(st.shape, m.lo, m.hi, m.td \o m.gd \o m.hd)

RECURSIVE SeqOf(_)
SeqOf(S) == IF S = {} THEN <<>> ELSE LET x == CHOOSE y \in S : TRUE IN <<x>> \o SeqOf(S \ {x})
SpaceSeq == SeqOf(ChallengeSpace)
DrawnRow(seed, j, len) ==
  [i \in 1 .. len |-> LET x == Draw(seed, 41 * j + i) % 4 IN IF x = 1 THEN 1 ELSE IF x = 2 THEN -1 ELSE 0]
DrawnCoins(st, lv, k, seed) ==
  CASE k = 1 -> [j \in 1 .. Rows |-> DrawnRow(seed, j, lv.rel.mult * lv.rel.rank * D)]
    [] k = 2 -> [psi |-> [i \in 1 .. Count |-> [l \in 1 .. Len(lv.rel.ct) |-> Draw(seed, 23 * i + l)]],
                 omega |-> [i \in 1 .. Count |-> [j \in 1 .. Rows |-> Draw(seed + 1, 29 * i + j)]]]
    [] k = 3 -> [alpha |-> [i \in 1 .. Len(lv.rel.full) |-> FromCentered(LAMBDA x : Draw(seed, 7 * i + x))],
                 beta |-> [i \in 1 .. Count |-> FromCentered(LAMBDA x : Draw(seed + 1, 19 * i + x))]]
    [] k = 4 -> [i \in 1 .. lv.rel.mult |-> SpaceSeq[(Draw(seed, i) % Len(SpaceSeq)) + 1]]

LevelAt(st, script, n) == IF n <= 4 \/ ~st.composed THEN First(st) ELSE Second(st, script)
MoveOf(st, n) == IF n <= 4 \/ ~st.composed THEN n ELSE n - 4

Coins(st, script) ==
  LET n == Len(script) + 1
  IN  {DrawnCoins(st, LevelAt(st, script, n), MoveOf(st, n), seed) : seed \in st.seeds[n]}

\* The witness the prover works with at a move.
Working(st, script, n) ==
  IF n <= 4 \/ ~st.composed THEN st.s ELSE TargetSide(st, HonestOpening(First(st), script, st.s))

Prover(st, script, F(_, _, _)) ==
  LET n == Len(script) + 1
  IN  Apply2(LAMBDA lv, s : F(lv, s, MoveOf(st, n)), LevelAt(st, script, n), Working(st, script, n))
HonestMove(st, script) == Prover(st, script, LAMBDA lv, s, k : ProveAt(lv, script, s, k))
Given(why, retried) == IF why = "abort" /\ ~retried THEN "stop" ELSE why
\* A composed prover first proves the first level to itself.
Stops(st, script) ==
  IF st.composed /\ Len(script) = 4 /\ StopsAt(First(st), script, st.s, 5) # "go" THEN "stop"
  ELSE Given(Prover(st, script, LAMBDA lv, s, k : StopsAt(lv, script, s, k)), st.composed /\ Len(script) >= 4)
\* An abort at the second level is tried again under another seed.
MayReroll(st) == st.reroll + 1 < MaxRerolls

Accepts(st, script, m) ==
  IF ~st.composed THEN VerifyCore(First(st), script, m)
  ELSE /\ st.reroll < MaxRerolls
       /\ ProjectionFits(First(st), Sent(First(st), script, 2)) /\ ClaimsHold(First(st), script)
       /\ \A lv \in {Second(st, script)} : VerifyCore(lv, script, m)

-----------------------------------------------------------------------------
\* External: a prover whose witness does not satisfy the relation.  It may
\* commit to other garbage, shift the projection by the modulus or by one, set
\* the aggregates to what they are checked against, make up for the rest in
\* the last sum, and open anything that fits what it sent.
ShiftAt(g, p) == [g EXCEPT ![p] = Plus(@, One)]
OtherGs(lv, s) ==
  LET r == lv.rel.mult
  IN  {GarbageG(s, r, lv.rel.rank)} \cup
      {Untriangle(Triangle(ShiftAt(g, <<1, r>>), r), r) : g \in {GarbageG(s, r, lv.rel.rank)}}
\* Lopsided: the upper half is what is committed to.
Lopsided(g, r) == {[g EXCEPT ![<<r, 1>>] = Minus(@, One)], g}
Completing(lv, fn, g, h) ==
  [h EXCEPT ![<<1, 1>>] = Plus(@, Minus(fn.b, Plus(RowDot(fn.a, g, DOMAIN fn.a), Total([i \in 1 .. lv.rel.mult |-> h[<<i, i>>]]))))]
OtherHs(lv, script, s) ==
  UNION {{h} \cup {Completing(lv, StatementAt(lv, script), g, h) : g \in OtherGs(lv, s)} : h \in {HOf(lv, script, s)}}
Recarried(m, base) ==
  [m EXCEPT !.td = [@ EXCEPT ![1] = Plus(@, Const(base)), ![2] = Minus(@, One)]]
OtherAt(lv, script, s, k) ==
  CASE k = 1 -> {Outer1(lv, SplitT(lv, InnerOf(lv, s)), SplitG(lv, Triangle(g, lv.rel.mult))) : g \in OtherGs(lv, s)}
    [] k = 2 -> UNION {{p, [p EXCEPT ![1] = @ + 3 * Q], [p EXCEPT ![1] = @ + 1]} : p \in {Project(Coin(lv, script, 1), s)}}
    [] k = 3 -> UNION {{b2, [i \in 1 .. Count |-> [b2[i] EXCEPT ![0] = FirstClaim(lv, Coin(lv, script, 2), Sent(lv, script, 2), i)]]} :
                  b2 \in {ProveAggregates(lv, script, s, g) : g \in OtherGs(lv, s)}}
    [] k = 4 -> {MatVec(lv.key.d, SplitT(lv, Triangle(h, lv.rel.mult))) : h \in OtherHs(lv, script, s)}
    [] k = 5 -> UNION {UNION {{m, Recarried(m, lv.bounds.base)} :
                  m \in {ProveOpening(lv, script, s, gg, h) : gg \in Lopsided(g, lv.rel.mult), h \in OtherHs(lv, script, s)}} :
                  g \in OtherGs(lv, s)}
OtherMoves(st, script) ==
  LET n == Len(script) + 1
  IN  UNION {IF n \in st.alters THEN OtherAt(lv, script, s, MoveOf(st, n)) ELSE {ProveAt(lv, script, s, MoveOf(st, n))} :
               lv \in {LevelAt(st, script, n)}, s \in {Working(st, script, n)}}

\* Where a level was passed with garbage and aggregates that are not those of
\* the witness, the challenges drawn after them cancel the differences.
Differs(a, b) == [k \in DOMAIN a |-> Minus(a[k], b[k])]
NotAll0(f) == \E k \in DOMAIN f : f[k] # Zero
Passed(lv, script, s, m) ==
  LET r == lv.rel.mult
      n == lv.rel.rank
      w2 == Coin(lv, script, 2)
      w3 == Coin(lv, script, 3)
  IN  \A gram \in {GarbageG(s, r, n)}, c \in {Coin(lv, script, 4)}, h \in {HOf(lv, script, s)},
         co \in {CoeffsAt(lv, script)}, ps \in {Project(Coin(lv, script, 1), s)} :
      LET dg == Differs(m.g, gram)
          dh == Differs(m.h, h)
          df == [i \in 1 .. Len(lv.rel.full) |-> Minus(Lhs(lv.rel.full[i], gram, s), lv.rel.full[i].b)]
          db == [i \in 1 .. Count |-> Minus(Lhs(co[i], gram, s), Sent(lv, script, 3)[i])]
          dc == [l \in 1 .. Len(lv.rel.ct) |-> (Lhs(lv.rel.ct[l], gram, s)[0] - lv.rel.ct[l].b0) % Q]
          dp == [j \in 1 .. Rows |-> (ps[j] - Sent(lv, script, 2)[j]) % Q]
      IN  \/ NotAll0(dg) /\ Quadratic(c, dg, r) = Zero
          \/ NotAll0(dh) /\ Quadratic(c, dh, r) = Zero
          \/ NotAll0(df \o db) /\ DotOf(w3.alpha \o w3.beta, df \o db) = Zero
          \/ /\ \E x \in {dc[l] : l \in DOMAIN dc} \cup {dp[j] : j \in DOMAIN dp} : x # 0
             /\ \A i \in 1 .. Count :
                  (SumOver(LAMBDA l : w2.psi[i][l] * dc[l], 1, Len(dc)) + SumOver(LAMBDA j : w2.omega[i][j] * dp[j], 1, Rows)) % Q = 0
          \/ /\ FullVanish(lv.rel, gram, s) /\ ConstantsVanish(lv.rel, gram, s)
             /\ IntNormSq(Sent(lv, script, 2)) <= ProjFactor * lv.rel.bound
             /\ \A j \in 1 .. Rows : dp[j] = 0

LastLevel(st, script) == LevelAt(st, script, Moves(st) + 1)
Sound(st, script) ==
  LET m == script[Len(script)].sent
  IN  \A lv \in {LastLevel(st, script)}, s \in {Working(st, script, Len(script))} :
        /\ Passed(lv, script, s, m)
        /\ st.composed /\ FullVanish(lv.rel, GarbageG(s, lv.rel.mult, lv.rel.rank), s) =>
             Passed(First(st), script, st.s, HonestOpening(First(st), script, st.s))

\* Every shape that fits: an opening holds where its target does.
ShapeOf(lv, rank) == [nu |-> CeilUsize(lv.rel.rank, rank), mu |-> CeilUsize(WidthV(lv), rank), rank |-> rank]
Restated(st, script, ranks) ==
  \A lv \in {First(st)}, m \in {script[5].sent} : \A shape \in {ShapeOf(lv, k) : k \in ranks} :
    Consistent(lv, m) =>
      (LinesHold(lv, script, m) <=>
         \A w \in {TargetSide([shape |-> shape], m)}, target \in {TargetStatement(lv, script, shape)} :
            FullVanish(target, GarbageG(w, target.mult, target.rank), w))
=============================================================================
