------------------------------ MODULE Samplers ------------------------------
(***************************************************************************)
(* The samplers that turn a stream into coefficients and challenges:       *)
(* algebra/src/crypto/sampling.rs (uniform and bounded coefficients,       *)
(* SampleInBall) and zk/src/foundation/sampling.rs (sign vectors of a      *)
(* fixed weight, the three parity challenges of Z_Q[X]/(X^N + 1) with Q a  *)
(* power of two).  The stream may hold anything: every draw is a choice.   *)
(***************************************************************************)
EXTENDS Integers, Sequences, FiniteSets, Functions

CONSTANTS Bits,     \* of a machine word, 64 in the source
          Moduli, Bounds,  \* the parameters coefficients are drawn for
          N, Q,     \* the ring of the challenges
          Tau,      \* signs in a vector
          ByteBits  \* of a byte of the stream, 8

Pow2[n \in Nat] == IF n = 0 THEN 1 ELSE 2 * Pow2[n - 1]

\* No modulus passes half the range of a word (the mask of a wider one would
\* shift by the whole word) and no bound half of it; the rings of the parity
\* challenges are Z_{2^k}[X]/(X^N + 1), N a power of two as in every use of
\* them (sampling.rs:244-250).
ASSUME SamplersAssumption ==
  /\ Bits \in Nat /\ Bits % 2 = 0 /\ Bits > 2
  /\ Moduli \subseteq 2 .. Pow2[Bits - 1] /\ Bounds \subseteq 1 .. Pow2[Bits - 1] - 1
  /\ (\E m \in 1 .. N : N = Pow2[m]) /\ N < Pow2[Bits \div 2]
  /\ \E k \in 2 .. 64 : Q = Pow2[k]
  /\ Tau \in 1 .. N - 1 /\ ByteBits \in Nat \ {0}

Slots == 1 .. N
Signs == {-1, 1}

VARIABLES kind,   \* the sampler that runs
          param,  \* the modulus or bound it was given
          draws,  \* what it has taken from the stream
          out     \* <<>>, then what it returns

samplerVars == <<kind, param, draws, out>>

SamplerInit ==
  /\ \/ kind = "coeff" /\ param \in Moduli
     \/ kind = "bounded" /\ param \in Bounds
     \/ kind \in {"ball", "fixed", "small", "odd", "linear"} /\ param = 0
  /\ draws = <<>> /\ out = <<>>

Take(d) == out = <<>> /\ draws' = Append(draws, d) /\ UNCHANGED <<kind, param, out>>
Give(x) == out = <<>> /\ out' = x /\ UNCHANGED <<kind, param, draws>>

-----------------------------------------------------------------------------
\* bit_len: the bits of x, at least one.
BitLen(x) == CHOOSE n \in 1 .. Bits : Pow2[n] > x /\ (n = 1 \/ Pow2[n - 1] <= x)

\* sample_uniform_coeff.  The mask is (1 << bits) - 1 on a word: where
\* overflow is not checked a shift by the whole width is a shift by none.
MaskShort(q) == Pow2[BitLen(q - 1) - 1] - 1  \* slip
Mask(q) == Pow2[BitLen(q - 1) % Bits] - 1
Coeff(q, w) == w % (Mask(q) + 1)
CoeffTaken(q, w) == Coeff(q, w) < q

\* sample_rej_bounded, with the tables of FIPS 204 for two bounds.
BoundedBits(eta) == IF eta \in {2, 4} THEN 4 ELSE BitLen(2 * eta)
BoundedTakenAll(eta, t) == t < Pow2[BoundedBits(eta)] - 1  \* slip
BoundedTaken(eta, t) == CASE eta = 2 -> t < 15 [] eta = 4 -> t < 9 [] OTHER -> t <= 2 * eta
Bounded(eta, t) == CASE eta = 2 -> 2 - (t - ((t * 205) \div 1024) * 5)
                     [] eta = 4 -> 4 - t
                     [] OTHER -> t - eta

\* A word that is not taken is followed by another.
Words == 0 .. Pow2[Bits] - 1
BitGroups(eta) == 0 .. Pow2[BoundedBits(eta)] - 1
DrawCoeff ==
  kind = "coeff" /\ \E w \in Words : CoeffTaken(param, w) /\ Give(<<Coeff(param, w)>>)
DrawBounded ==
  kind = "bounded" /\ \E t \in BitGroups(param) : BoundedTaken(param, t) /\ Give(<<Bounded(param, t)>>)

-----------------------------------------------------------------------------
Zero == [i \in Slots |-> 0]
Filled(v) == {i \in Slots : v[i] # 0}

\* Slot i takes what slot j at or below it holds, and j the sign.
\* Slip: the sign put at j without moving what was there.
BallPutBare(v, i, j, s) == [v EXCEPT ![j] = s]
BallPut(v, i, j, s) == [v EXCEPT ![i] = v[j], ![j] = s]

\* sample_in_ball_signs: the k-th of its positions is at most N - Tau + k; a
\* byte above that is read again.
BallPositions(k) == 1 .. N - Tau + k
BallAfter(d) ==
  LET v[k \in 0 .. Len(d)] ==
        IF k = 0 THEN Zero ELSE BallPut(v[k - 1], N - Tau + k, d[k][1], d[k][2])
  IN  v
Ball(d) == BallAfter(d)[Len(d)]

\* Slip: the swap forgotten.
FixedOrderKept(ix, k, j) == ix
FixedOrder(ix, k, j) == [ix EXCEPT ![k] = ix[j], ![j] = ix[k]]

\* fixed_weight_signs: a shuffle from the front, positions from words of half
\* the width; a word from the largest multiple of the span up is read again.
FixedPositions(k) == k .. N
Span(k) == N - k + 1
LimitNone(k) == Pow2[Bits \div 2]  \* slip
Limit(k) == Pow2[Bits \div 2] - 1 - ((Pow2[Bits \div 2] - 1) % Span(k))
Position(k, w) == k + (w % Span(k))
FixedOrders(d) ==
  LET ix[k \in 0 .. Len(d)] ==
        IF k = 0 THEN [i \in Slots |-> i] ELSE FixedOrder(ix[k - 1], k, d[k][1])
  IN  ix
FixedAfter(d) ==
  LET v[k \in 0 .. Len(d)] ==
        IF k = 0 THEN Zero ELSE [v[k - 1] EXCEPT ![FixedOrders(d)[k - 1][d[k][1]]] = d[k][2]]
  IN  v
Fixed(d) == FixedAfter(d)[Len(d)]

DrawBall ==
  /\ kind = "ball" /\ Len(draws) < Tau
  /\ \E j \in BallPositions(Len(draws) + 1), s \in Signs : Take(<<j, s>>)
DrawFixed ==
  /\ kind = "fixed" /\ Len(draws) < Tau
  /\ LET k == Len(draws) + 1
     IN  \E w \in 0 .. Limit(k) - 1, s \in Signs : Take(<<Position(k, w), s>>)

Vector(d) == IF kind = "ball" THEN Ball(d) ELSE Fixed(d)
ReturnSigns ==
  kind \in {"ball", "fixed"} /\ Len(draws) = Tau /\ Give(Vector(draws))

-----------------------------------------------------------------------------
One == [i \in Slots |-> IF i = 1 THEN 1 ELSE 0]
CoeffSum(a) == SumFunctionOnSet(a, Slots)

\* mul_schoolbook_negacyclic: X^N = -1, so a coefficient that wraps around is
\* negated.  Slip: it is dropped.
WrappedDropped(b, j) == IF j > 0 THEN b[j] ELSE 0
Wrapped(b, j) == IF j > 0 THEN b[j] ELSE -b[j + N]
Mul(a, b) ==
  [k \in Slots |-> SumFunctionOnSet([i \in Slots |-> a[i] * Wrapped(b, k - i + 1)], Slots) % Q]

Elements == [Slots -> 0 .. Q - 1]
IsUnit(a) == \E b \in Elements : Mul(a, b) = One

\* nonunit_small_poly: two bits and a sign for each coefficient.
DrawTernary == kind = "small" /\ Len(draws) < N /\ \E x \in {0, 1, Q - 1} : Take(x)
\* odd_sum_poly.
DrawUniform == kind = "odd" /\ Len(draws) < N /\ \E x \in 0 .. Q - 1 : Take(x)

\* Slip: the parity taken the other way round.
RepairOdd(d) ==
  IF Cardinality(Filled(d)) % 2 = 0 THEN [d EXCEPT ![1] = 0] ELSE d
\* An odd number of nonzero coefficients is made even at the constant term.
Repair(d) ==
  IF Cardinality(Filled(d)) % 2 = 1 THEN [d EXCEPT ![1] = 0] ELSE d
\* An even sum has its constant term's last bit set.
SetLast(d) ==
  IF CoeffSum(d) % 2 = 0 THEN [d EXCEPT ![1] = 2 * (d[1] \div 2) + 1] ELSE d

ReturnSmall == kind = "small" /\ Len(draws) = N /\ Give(Repair(draws))
ReturnOdd == kind = "odd" /\ Len(draws) = N /\ Give(SetLast(draws))

\* nonunit_linear_poly, X - a: whole bytes, as many as fit in the bits of Q,
\* and a made odd.  Slip: a left as drawn.
ByteCount == (CHOOSE k \in 2 .. 64 : Q = Pow2[k]) \div ByteBits
RootAsDrawn(x) == x
Root(x) == 2 * (x \div 2) + 1

ReturnLinear ==
  kind = "linear" /\ \E x \in 0 .. Pow2[ByteBits * ByteCount] - 1 :
    Give([i \in Slots |-> IF i = 1 THEN (Q - Root(x)) % Q ELSE IF i = 2 THEN 1 ELSE 0])

SamplerNext ==
  \/ DrawCoeff \/ DrawBounded
  \/ DrawBall \/ DrawFixed \/ ReturnSigns
  \/ DrawTernary \/ DrawUniform \/ ReturnSmall \/ ReturnOdd \/ ReturnLinear

SamplerSpec == SamplerInit /\ [][SamplerNext]_samplerVars

-----------------------------------------------------------------------------
\* Every value of S is as likely as any other under f, a function on what is
\* taken from the stream: it comes of equally many words, and nothing else does.
EquallyOften(S, f) ==
  /\ DOMAIN f # {} /\ \A w \in DOMAIN f : f[w] \in S
  /\ \A x \in S : Cardinality({w \in DOMAIN f : f[w] = x}) * Cardinality(S)
                  = Cardinality(DOMAIN f)

\* Every coefficient of the range is as likely as any other
\* (sampling.rs:87, 122-129).
CoefficientsAreUniform ==
  /\ kind = "coeff" =>
       EquallyOften(0 .. param - 1,
                    [w \in {v \in Words : CoeffTaken(param, v)} |-> Coeff(param, w)])
  /\ kind = "bounded" =>
       EquallyOften(-param .. param,
                    [w \in {t \in BitGroups(param) : BoundedTaken(param, t)} |-> Bounded(param, w)])

\* The draws of m positions and signs, the k-th position from P[k].
Streams(P, m) == {d \in [1 .. m -> Slots \X Signs] : \A k \in 1 .. m : d[k][1] \in P[k]}
BallStreams == Streams([k \in Nat |-> BallPositions(k)], Tau)
FixedStreams == Streams([k \in Nat |-> FixedPositions(k)], Tau)
Factorial[n \in Nat] == IF n = 0 THEN 1 ELSE n * Factorial[n - 1]

\* No sign is written over another, so exactly Tau slots end up filled; every
\* vector comes of equally many sequences of positions and signs, one for each
\* order of filling its slots, and every position of equally many words
\* (foundation/sampling.rs:176-178).
VectorsAreUniform ==
  /\ kind \in {"ball", "fixed"} => Cardinality(Filled(Vector(draws))) = Len(draws)
  /\ out # <<>> /\ kind = "ball" =>
       Cardinality({d \in BallStreams : Ball(d) = out}) = Factorial[Tau]
  /\ out # <<>> /\ kind = "fixed" =>
       /\ Cardinality({d \in FixedStreams : Fixed(d) = out}) = Factorial[Tau]
       /\ \A k \in 1 .. Tau :
            EquallyOften(FixedPositions(k), [w \in 0 .. Limit(k) - 1 |-> Position(k, w)])

\* No sampler prefers one outcome to another.
SamplesAreUniform == CoefficientsAreUniform /\ VectorsAreUniform

\* An element is a unit exactly when its coefficients have an odd sum, which
\* the three challenges rest on (sampling.rs:313-316).
UnitsAreOddSums ==
  kind \in {"small", "odd", "linear"} /\ out # <<>> => (IsUnit(out) <=> CoeffSum(out) % 2 = 1)

\* Where the repairs fail, exactly: a parity mended at a constant term that
\* is what the mending writes stays as it was.  The linear challenge is no
\* unit, whatever was squeezed.
UnmendedParities ==
  out # <<>> =>
    /\ kind = "small" => (IsUnit(out) <=> CoeffSum(draws) % 2 = 1 /\ draws[1] = 0)
    /\ kind = "odd" => (CoeffSum(out) % 2 = 0 <=> CoeffSum(draws) % 2 = 0 /\ draws[1] % 2 = 1)
    /\ kind = "linear" => ~IsUnit(out)

\* Which challenges are units is decided by their parities, and those by the
\* draws.
ParitiesDecideUnits == UnitsAreOddSums /\ UnmendedParities

\* The small challenge is no unit: parity keeps "non-invertibility"
\* (sampling.rs:247-248).
SmallIsNonunit == kind = "small" /\ out # <<>> => ~IsUnit(out)
=============================================================================
