----------------------------- MODULE MCSignatures ------------------------------
(***************************************************************************)
(* The two signature schemes, one of them in a behaviour.                  *)
(* ML-DSA: q = 41 in five cells of width 8.  All small secrets under       *)
(* matrices whose t reaches every t0 sign one message, to see the          *)
(* arithmetic; one key signs every message, to see the framing.  Messages  *)
(* differ only in how their bytes split.  Rounding and the hint's bytes    *)
(* are compared with what they promise before the signer starts.           *)
(* Falcon: q = 17 and degree four; so are its parts.                       *)
(***************************************************************************)
EXTENDS MlDsa, SequencesExt

CONSTANTS FalconBound,  \* on the squared norm of a Falcon signature,
          FalconWord    \* which is summed modulo this

MCChallenges == {-1, 1}

MCMatrices == {<<<<1, 5>>, <<7, 30>>, <<16, 3>>>>, <<<<11, 22>>, <<16, 3>>, <<25, 9>>>>}

MCKeys == [a : MCMatrices, s1 : [Cols -> -Eta .. Eta], s2 : [Rows -> -Eta .. Eta]]

MCMessages == [mode : 0 .. 1, ctx : BoundedSeq({1}, 2), msg : BoundedSeq({1}, 2)]

MCSessions ==
       MCKeys \X {[mode |-> 0, ctx |-> <<1>>, msg |-> <<1>>]}
  \cup {[a |-> <<<<1, 5>>, <<7, 30>>, <<16, 3>>>>, s1 |-> <<1, -1>>, s2 |-> <<1, 0, 1>>]} \X MCMessages

-----------------------------------------------------------------------------
AtStart == phase = "sign"

\* The two halves carry the coefficient, and each stays where it is packed:
\* t0 in (-2^(d-1), 2^(d-1)], the high part below the number of cells, the
\* low part within gamma2 (its lower end is taken only next to q - 1).
SplitsRecombine ==
  AtStart =>
    \A r \in Coeffs :
      LET p == Power2Round(r)
          d == Decompose(r)
      IN  /\ p.hi * Pow2D + p.lo = r
          /\ p.lo \in -(Pow2D \div 2) + 1 .. Pow2D \div 2
          /\ p.hi \in 0 .. Q \div Pow2D
          /\ (d.hi * 2 * Gamma2 + d.lo) % Q = r
          /\ d.hi \in 0 .. Cells - 1
          /\ d.lo \in -Gamma2 .. Gamma2
          /\ d.lo = -Gamma2 => d.hi = 0

\* The one bit the signer sends is enough (rounding.rs:122-125, 188-191):
\* for a displacement up to gamma2 it takes either end to the other's cell,
\* around the ring included.
HintsRecover ==
  AtStart =>
    \A r \in Coeffs, z \in -Gamma2 .. Gamma2 :
      LET h == MakeHint(z, r)
      IN  /\ UseHint(r, h) = HighBits(r + z)
          /\ UseHint(r + z, h) = HighBits(r)

\* The two halves of a coefficient are enough for both sides to reach w1.
RoundingIsExact == SplitsRecombine /\ HintsRecover

-----------------------------------------------------------------------------
\* The verifier reads back every hint the signer may send, and reads it from
\* no shorter string.
PackedHintsDecode ==
  AtStart =>
    \A h \in Hints : HintCount(h) <= Omega =>
      LET packed == HintBitPack(h)
      IN  /\ HintBitUnpack(packed) = h
          /\ \A n \in 0 .. Omega + K - 1 : HintBitUnpack(SubSeq(packed, 1, n)) = Malformed

\* Whatever bytes come in, an accepted hint has at most omega bits, all of
\* them in its rows, and its packing decodes to it again: the strings that
\* are accepted beside it (positions out of order, padding that is not zero)
\* say nothing else.
AcceptedHintsFit ==
  AtStart =>
    \A bytes \in [1 .. Omega + K -> 0 .. N] :
      HintBitUnpack(bytes) # Malformed =>
        LET h == HintBitUnpack(bytes)
        IN  /\ h \in Hints
            /\ HintCount(h) <= Omega
            /\ HintBitUnpack(HintBitPack(h)) = h

\* Rounding loses nothing a hint does not restore, and the codec of the hints is
\* faithful on what the signer sends and safe on what it did not.
HintsAreExact == RoundingIsExact /\ PackedHintsDecode /\ AcceptedHintsFit

-----------------------------------------------------------------------------
Poly(s) == [i \in 0 .. Len(s) - 1 |-> s[i + 1]]

\* Tables for words of 7 and of 15 bits, with primes that split X^4 + 1 and
\* X^8 + 1, and for residues modulo 17 under a word of 15 bits.
BitLengths == [i \in 0 .. 3 |-> <<3 + i, 0>>]
Bare7 == INSTANCE FalconKeys WITH WordBits <- 7, MaxLogn <- 2, Primes <- <<>>, Roots <- <<>>, Q <- 17,
  SmallLen <- <<>>, LargeLen <- <<>>, BitLength <- <<>>, PlainBelow <- 0, Stride <- 3
Bare15 == INSTANCE FalconKeys WITH WordBits <- 15, MaxLogn <- 3, Primes <- <<>>, Roots <- <<>>, Q <- 17,
  SmallLen <- <<>>, LargeLen <- <<>>, BitLength <- <<>>, PlainBelow <- 0, Stride <- 3
Primes7 == Bare7!PrimeTable(<<113, 97, 89, 73>>)
Roots7 == Bare7!RootTable(Primes7)
Primes15 == Bare15!PrimeTable(<<32609, 32561, 32497, 32401>>)
Roots15 == Bare15!RootTable(Primes15)
SmallLen7 == [i \in 0 .. 2 |-> IF i < 1 THEN 1 ELSE 2]
LargeLen7 == [i \in 0 .. 1 |-> 2]

RECURSIVE Power17(_, _)
Power17(x, k) == IF k = 0 THEN 1 ELSE (x * Power17(x, k - 1)) % 17
Word17 == 2^15
Table17(g) == Bare7!Tabulate(4, LAMBDA v : (Power17(g, Bare7!Rev(v, 2)) * Word17) % 17)
Primes17 == Bare7!Computed(<<[p |-> 17, p0i |-> CHOOSE x \in 0 .. Word17 - 1 : (17 * x) % Word17 = Word17 - 1,
                             r2 |-> (Word17 % 17)^2 % 17]>>)
\* 9 is a root of order 8, and 2 its inverse.
Roots17 == Bare7!Computed(<<Bare7!Computed([l \in 0 .. 2 |-> [gm |-> Table17(9), igm |-> Table17(2)]])>>)

VARIABLES stage, secret, public, point, vector, esig, question, answer
falconVars == <<stage, secret, public, point, vector, esig, question, answer>>

\* Pairs that make keys, in some order, and pairs that do not.
MCCandidates ==
  {Poly(s) : s \in {<<-3, -2, 0, 0>>, <<0, 2, -1, -2>>, <<-1, 2, -2, -2>>, <<2, 0, 1, 2>>,
                    <<1, -1, 1, -2>>, <<-1, -3, 0, -1>>, <<1, 1, 0, 0>>, <<1, 0, 0, 0>>, <<3, 0, 2, -4>>}}
MCPoints == {Poly(<<3, 14, 0, 2>>), Poly(<<0, 1, 0, 0>>)}
MCSamples == {[i \in 1 .. 8 |-> ((i * i * k + 3 * k + i) % 3) - 1] : k \in 0 .. 2}
             \cup {[i \in 1 .. 8 |-> ((i * i * i * k + i * i + 5 * k) % 5) - 2] : k \in 0 .. 35}

Fa == INSTANCE Falcon WITH
  phase <- stage, asked <- question, verdict <- answer,
  WordBits <- 7, MaxLogn <- 2, Primes <- Primes7, Roots <- Roots7, Q <- 17, SmallLen <- SmallLen7,
  LargeLen <- LargeLen7, BitLength <- BitLengths, PlainBelow <- 0, Stride <- 3,
  Logn <- 2, P <- 8191, Gm <- <<64, 64>>, MqWord <- 15, MqPrimes <- Primes17, MqRoots <- Roots17,
  L2Bound <- FalconBound, NormMax <- 24, SumWord <- FalconWord, FgBits <- 3, BigFgBits <- 5, QBits <- 5, Byte <- 4,
  PlainBits <- 2, MaxCoeff <- 30, SigBytes <- 10,
  Candidates <- MCCandidates, Points <- MCPoints, Samples <- MCSamples

MlDsaRests == /\ \E s \in {CHOOSE s \in Sessions : TRUE} : key = s[1] /\ signed = s[2]
              /\ phase = "panicked" /\ kappa = 0 /\ streams = {}
              /\ y = None /\ c = 0 /\ sigma = None /\ asked = None /\ verdict = FALSE
FalconRests == /\ stage = "rests" /\ secret = None /\ public = None /\ point = None /\ vector = None
               /\ esig = None /\ question = None /\ answer = FALSE
MCInit == (Init /\ FalconRests) \/ (MlDsaRests /\ Fa!Init)
MCNext == (stage = "rests" /\ Next /\ UNCHANGED falconVars) \/ (stage # "rests" /\ Fa!Next /\ UNCHANGED vars)
FalconSpec == MlDsaRests /\ Fa!Init /\ [][MCNext]_<<vars, falconVars>>
MCSpec == MCInit /\ [][MCNext]_<<vars, falconVars>>

-----------------------------------------------------------------------------
HasKey == stage \notin {"rests", "keygen"}
SecretKey == Fa!SecretFromBytes(secret)
BigG == Fa!CompletePrivate(SecretKey.f, SecretKey.g, SecretKey.F)
PublicKey == Fa!PublicFromBytes(public)
Constant(a) == [u \in 0 .. 3 |-> IF u = 0 THEN a ELSE 0]
Less(a, b) == [u \in 0 .. 3 |-> a[u] - b[u]]
Residues(a) == [u \in 0 .. 3 |-> a[u] % 17]

\* The bytes of a key pair are read back by both sides; the half of the secret
\* they leave out is recovered, f G - g F = q over the integers, and f h = g.
KeysComplete ==
  HasKey => /\ SecretKey # None /\ PublicKey # None /\ BigG # None
            /\ Less(Fa!PolyMul(SecretKey.f, BigG, 4), Fa!PolyMul(SecretKey.g, SecretKey.F, 4)) = Constant(17)
            /\ Residues(Fa!PolyMul(SecretKey.f, PublicKey, 4)) = Residues(SecretKey.g)

RECURSIVE LeafNorms(_)
LeafNorms(ls) ==
  IF ls = <<>> THEN 0
  ELSE LET x == Head(ls)
           gap == (x[1] - x[3]) % 8191
       IN  ((((gap * gap) % 8191) * x[2]) + LeafNorms(Tail(ls))) % 8191

\* Every sample is drawn around the centre, and with the deviation, that make
\* the norm of the vector the sum over the leaves: products of Gaussians over the
\* leaves are one over the lattice (sign.rs:118-126).
LeavesCarryNorm ==
  stage = "sent" => LeafNorms(vector.leaves) = (Fa!SqNorm(vector.s1) + Fa!SqNorm(vector.s2)) % 8191

\* What the signer sends is accepted, with the vector it was made of.
SentFalconVerifies ==
  stage = "verified" /\ question = [point |-> point, bytes |-> esig] => answer

\* The signer's test of the norm refuses a sum that passes the word
\* (common.rs:85-86: "if the incoming sqn or the running sum overflows u32, ng
\* forces a huge final value").
OverflowsAreRefused ==
  stage = "sent" => Fa!SqNorm(vector.s1) + Fa!SqNorm(vector.s2) <= FalconBound

\* What is accepted of Falcon is a short vector of the coset of the point, by
\* arithmetic over the integers, and its bytes are the only ones of the vector.
AcceptedFalconIsShort ==
  stage = "verified" /\ answer =>
    LET s2 == Fa!CompDecode(question.bytes).x
        s1 == Residues(Less(question.point, Fa!PolyMul(s2, PublicKey, 4)))
    IN  /\ Fa!SqNorm([u \in 0 .. 3 |-> IF s1[u] > 8 THEN s1[u] - 17 ELSE s1[u]]) + Fa!SqNorm(s2) <= FalconBound
        /\ question.bytes # esig => s2 # vector.s2

\* Falcon's signer convinces the verifier, by vectors drawn from the lattice, and
\* nobody does but by a short vector in the one form it has.
FalconSignsShortVectors == KeysComplete /\ LeavesCarryNorm /\ SentFalconVerifies /\ AcceptedFalconIsShort

-----------------------------------------------------------------------------
(* The parts of Falcon, compared with what they stand for.                 *)

F2 == INSTANCE Falcon WITH
  phase <- stage, asked <- question, verdict <- answer,
  WordBits <- 7, MaxLogn <- 2, Primes <- Primes7, Roots <- Roots7, Q <- 17, SmallLen <- SmallLen7,
  LargeLen <- LargeLen7, BitLength <- BitLengths, PlainBelow <- 0, Stride <- 3,
  Logn <- 1, P <- 8191, Gm <- <<64, 64>>, MqWord <- 15, MqPrimes <- Primes17, MqRoots <- Roots17,
  L2Bound <- 40, NormMax <- 24, SumWord <- 2^20, FgBits <- 3, BigFgBits <- 5, QBits <- 5, Byte <- 4,
  PlainBits <- 2, MaxCoeff <- 12, SigBytes <- 4,
  Candidates <- {}, Points <- {}, Samples <- {}
K8 == INSTANCE FalconKeys WITH WordBits <- 15, MaxLogn <- 3, Primes <- Primes15, Roots <- Roots15, Q <- 17,
  SmallLen <- [i \in 0 .. 3 |-> IF i < 3 THEN 1 ELSE 2], LargeLen <- [i \in 0 .. 2 |-> IF i < 2 THEN 1 ELSE 2],
  BitLength <- BitLengths, PlainBelow <- 0, Stride <- 3

SomePolys == {Poly(s) : s \in {<<0, 1, 0, 0>>, <<3, -2, 1, 5>>, <<-1, 0, 2, -7>>, <<1, 1, 1, 2>>}}
Reals(a) == [u \in 0 .. 3 |-> a[u] % 8191]
Some(a, first) == [u \in 0 .. 1 |-> a[(2 * u) + first]]

\* Under the transform products are negacyclic products, the adjoint reverses,
\* the halves are the even and the odd coefficients, and L diag L* is the matrix.
TransformsAreExact ==
  \A a, b \in SomePolys :
    LET fa == Fa!Fft(a, 2)
        fb == Fa!Fft(b, 2)
        halves == Fa!PSplit(fa, 2)
        g00 == Fa!PAdd(Fa!PMulSelfAdj(fa), Fa!PMulSelfAdj(fb))
        ldl == Fa!PLdl(g00, fa, fb)
    IN  /\ Fa!Ifft(Fa!PMul(fa, fb), 2) = Reals(Fa!PolyMul(a, b, 4))
        /\ Fa!Ifft(Fa!PAddMulAdj(fa, fb, fb, fa), 2)
             = Reals(Fa!PlusPoly(Fa!PolyMul(a, Fa!Adj(b, 4), 4), Fa!PolyMul(b, Fa!Adj(a, 4), 4), 4))
        /\ Fa!Ifft(Fa!PDiv(Fa!PMul(fa, fb), fb), 2) = Reals(a)
        /\ Fa!PMul(Fa!PInvNorm2(fa, fb), g00) = Fa!Fft(Constant(1), 2)
        /\ halves = <<Fa!Fft(Some(a, 0), 1), Fa!Fft(Some(a, 1), 1)>>
        /\ Fa!PMerge(halves[1], halves[2], 2) = fa
        /\ Fa!PMulAdj(g00, ldl.l10) = fa
        /\ Fa!PAdd(ldl.d11, Fa!PMul(Fa!PMulSelfAdj(ldl.l10), g00)) = fb

BitStrings(n) == UNION {[1 .. k -> 0 .. 1] : k \in {4 * j : j \in 0 .. n}}
HighPart(v) == (IF v < 0 THEN -v ELSE v) \div 4
ShortPairs(b) == [0 .. 1 -> -b .. b]
\* Coders refuse what does not fit and decoders read the rest back; a vector
\* has one string only, of its length.
CodecsAreExact ==
  /\ \A x \in ShortPairs(13) :
       LET b == F2!CompEncode(x, 3)
       IN  IF b = None
           THEN (\E u \in 0 .. 1 : x[u] \notin -12 .. 12) \/ 8 + HighPart(x[0]) + HighPart(x[1]) > 12
           ELSE F2!CompDecode(b) = [x |-> x, used |-> Len(b)]
  /\ \A b \in BitStrings(3) :
       LET r == F2!CompDecode(b)
           t == F2!TrimDecode(b, 3)
           q == F2!ModqDecode(b)
       IN  /\ r # None => F2!CompEncode(r.x, 3) = SubSeq(b, 1, r.used)
           /\ t # None => F2!TrimEncode(t, 3) = SubSeq(b, 1, 8)
           /\ q # None => F2!ModqEncode(q) = SubSeq(b, 1, 12)
  /\ \A x \in ShortPairs(4) :
       LET b == F2!TrimEncode(x, 3)
       IN  IF b = None THEN \E u \in 0 .. 1 : x[u] \in {-4, 4} ELSE F2!TrimDecode(b, 3) = x

\* Limbs of seven bits, lowest first, and what they stand for, signed or not.
Limbs(x, len) == [u \in 1 .. len |-> (x \div 128^(u - 1)) % 128]
Whole(d) == LET v[u \in 0 .. Len(d)] == IF u = 0 THEN 0 ELSE v[u - 1] + (d[u] * 128^(u - 1)) IN v[Len(d)]
Signed(d) == LET v == Whole(d) IN IF 2 * v >= 128^Len(d) THEN v - 128^Len(d) ELSE v
Spread(lo, hi, step) == {x \in lo .. hi : (x - lo) % step = 0}
RECURSIVE Gcd(_, _)
Gcd(x, z) == IF z = 0 THEN x ELSE Gcd(z, x % z)

ResiduesAreExact ==
  /\ \A u \in 1 .. 4 :
       LET e == Primes7[u]
       IN  /\ \A a \in Spread(0, e.p - 1, 5), b \in Spread(1, e.p - 1, 3) :
                /\ (Fa!MontyMul(a, b, e) * 128) % e.p = (a * b) % e.p
                /\ (Fa!ModpDiv(a, b, e) * b) % e.p = a
           /\ \A x \in 1 .. 3 : Fa!Rx(x, e) = 128^x % e.p
           /\ \A v \in Spread(-8192, 8191, 37) : Fa!ModSmallSigned(Limbs(v, 2), e) = v % e.p
           /\ \A a, b \in SomePolys :
                LET ta == Fa!Ntt2(Fa!Small(a, 4, e.p), 2, u)
                    tb == Fa!Ntt2(Fa!Small(b, 4, e.p), 2, u)
                    prod == Fa!Intt2(Fa!Tabulate(4, LAMBDA v : Fa!Times(ta[v], tb[v], e)), 2, u)
                IN  \A v \in 0 .. 3 : (prod[v] - Fa!PolyMul(a, b, 4)[v]) % e.p = 0
  /\ \A v \in Spread(-5480, 5480, 7) :
       Signed(Fa!RebuildCrt(<<v % 113, v % 97>>, TRUE)) = v
  /\ \A x \in 0 .. 16, z \in 1 .. 16 : (Fa!MqDiv(x, z) * z) % 17 = x

\* The Bezout relation holds for every odd and coprime pair, unless the second
\* integer is one (keygen.rs:505-604), and is refused to every other pair.
IntegersAreExact ==
  /\ \A x \in Spread(3, 16383, 740) \cup Spread(4, 16383, 4001), z \in Spread(3, 16383, 614) \cup Spread(6, 16383, 5000) :
       LET b == Fa!Bezout(Limbs(x, 2), Limbs(z, 2))
       IN  /\ b.ok = (Gcd(x, z) = 1 /\ x % 2 = 1 /\ z % 2 = 1)
           /\ b.ok => /\ Whole(b.u) * x - Whole(b.v) * z = 1
                      /\ Whole(b.u) \in 0 .. z - 1 /\ Whole(b.v) \in 0 .. x - 1
  /\ \A x \in Spread(-8192, 8191, 2731), z \in Spread(-8192, 8191, 1489), k \in Spread(-60, 60, 23), sch \in 0 .. 2, scl \in 0 .. 6 :
       /\ (Whole(Fa!AddScaledMulSmall(Limbs(x, 3), Limbs(z, 2), k, sch, scl))
             - (x + ((k * z * 2^scl) % 128^(3 - sch)) * 128^sch)) % 128^3 = 0
       /\ k < 0 => (Whole(Fa!SubScaled(Limbs(x, 3), Limbs(z, 2), sch, scl))
             - (x - ((z * 2^scl) % 128^(3 - sch)) * 128^sch)) % 128^3 = 0

\* Pairs of degree eight go down through every kind of level and come up with
\* F and G that are short and solve the equation.
DegreeEight == <<Poly(<<1, 0, -1, 0, 1, 1, 1, 0>>), Poly(<<0, 0, 1, -1, 0, -1, 1, -1>>),
                 Poly(<<0, 1, 0, 1, -1, 0, -1, 1>>), Poly(<<-1, 0, 0, 1, 1, -1, 0, -1>>)>>
SolverIsExact ==
  \A i \in {<<1, 2>>, <<1, 4>>, <<2, 3>>, <<4, 2>>} :
    \E z \in {K8!SolveNtru(DegreeEight[i[1]], DegreeEight[i[2]], 3, 15)} :
      /\ z # None
      /\ \E x \in {K8!PolyMul(DegreeEight[i[1]], z.G, 8)}, w \in {K8!PolyMul(DegreeEight[i[2]], z.F, 8)} :
           \A u \in 0 .. 7 : x[u] - w[u] = (IF u = 0 THEN 17 ELSE 0)

-----------------------------------------------------------------------------
\* Reads of a generator, one after another: what each takes, and of what filling.
RECURSIVE Reads(_, _, _)
Reads(ops, g, size) ==
  IF ops = <<>> THEN <<>>
  ELSE LET r == IF Head(ops) = 8 THEN Fa!GetU64(g, size) ELSE Fa!GetU8(g, size)
       IN  <<[fill |-> r.fill, read |-> r.read]>> \o Reads(Tail(ops), r.p, size)

\* No byte of randomness serves two reads or lies outside of the buffer, each
\* byte of it is of one word of one block, and a quarter-round loses nothing.
RandomnessIsFresh ==
  /\ \A ops \in [1 .. 7 -> {1, 8}] :
       \E rs \in {Reads(ops, [ptr |-> 0, fills |-> 0], 20)} :
         \A i, j \in 1 .. 7 : /\ rs[i].read \subseteq 0 .. 19
                              /\ (i < j /\ rs[i].fill = rs[j].fill) => rs[i].read \cap rs[j].read = {}
  /\ \A w1, w2 \in (0 .. 7) \X (0 .. 15) :
       w1 # w2 => (Fa!RefillBase(w1[1], w1[2]) .. Fa!RefillBase(w1[1], w1[2]) + 3)
                    \cap (Fa!RefillBase(w2[1], w2[2]) .. Fa!RefillBase(w2[1], w2[2]) + 3) = {}
  /\ Cardinality({Fa!QRound(t, 1, 2, 3, 4, 2) : t \in [1 .. 4 -> 0 .. 3]}) = 256

\* Draws compare with thresholds as whole numbers do, and what is drawn byte by
\* byte is below z as often as z says; of the words hash_to_point keeps each
\* residue has as many.
DrawsAreExact ==
  /\ LET dist == <<<<3, 1, 2>>, <<1, 3, 3>>, <<1, 0, 1>>, <<0, 0, 2>>>>
         value(d) == (((d[3] * 4) + d[2]) * 4) + d[1]
     IN  \A v \in [1 .. 3 -> 0 .. 3] :
           Fa!Gaussian0(dist, v, 8) = Cardinality({u \in DOMAIN dist : value(v) < value(dist[u])})
  /\ \A z \in [1 .. 3 -> 0 .. 3] :
       Cardinality({d \in [1 .. 3 -> 0 .. 3] : Fa!Below(d, z)}) = (16 * z[1]) + (4 * z[2]) + z[3]
  /\ \A x \in 0 .. 16 : Cardinality({v \in 0 .. 127 : Fa!HashToPoint(<<v, 100, 5, 5>>, 1, 17, 85) = <<x>> /\ v < 85}) = 5

FalconIsExact ==
  stage = "keygen" => /\ TransformsAreExact /\ CodecsAreExact /\ ResiduesAreExact /\ IntegersAreExact
                      /\ SolverIsExact /\ RandomnessIsFresh /\ DrawsAreExact

\* The arithmetic, the codecs and the draws of both schemes are what they stand for.
PartsAreExact == HintsAreExact /\ FalconIsExact
=============================================================================
