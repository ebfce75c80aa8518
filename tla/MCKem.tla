-------------------------------- MODULE MCKem --------------------------------
(***************************************************************************)
(* Two key pairs of each scheme, one encapsulation and one decapsulation:  *)
(* the properties relate one of each.  The rings are the smallest in which *)
(* keys can be inverted and no decryption fails; the pure functions are    *)
(* compared with their references at the start, at the parameters of the   *)
(* source wherever those matter.                                           *)
(***************************************************************************)
EXTENDS Kem, Sequences, FiniteSetsExt

CONSTANTS k1, k2

Two(x, y) == k1 :> x @@ k2 :> y
Poly(s) == [i \in 0 .. Len(s) - 1 |-> s[i + 1]]

\* The words of an array, negative ones wrapped.
Words(s) == [i \in 0 .. Len(s) - 1 |-> s[i + 1] % 2^FrodoWord]

MCSchemes == {"ML-KEM", "Frodo", "HPS", "HRSS", "Prime"}

MCMaterial ==
  "ML-KEM" :> {Two([a |-> 57, s |-> 1, e |-> -1], [a |-> 91, s |-> -1, e |-> 1])} @@
  "Frodo" :> {Two([a |-> Words(<<209, 17, 52, 133>>), s |-> Words(<<1, -1, -1, 1>>), e |-> Words(t)],
                  [a |-> Words(<<7, 111, 5, 99>>), s |-> Words(<<-1, 0, 1, 1>>), e |-> Words(<<0, 1, -1, 1>>)]) :
                t \in {<<1, 1, 1, 1>>, <<-1, 1, -1, 1>>}} @@
  "HPS" :> {Two([f |-> Poly(<<1, 1, 2, 1, 0>>), g |-> Poly(<<0, 1, 0, 2, 0>>)],
                [f |-> Poly(<<2, 0, 1, 0, 0>>), g |-> Poly(<<2, 1, 0, 0, 0>>)])} @@
  "HRSS" :> {Two([f |-> Hrss!Plus(Poly(<<1, 1, 2, 1, 0>>)), g |-> Hrss!Plus(Poly(<<1, 1, 2, 2, 0>>))],
                 [f |-> Hrss!Plus(Poly(<<1, 2, 1, 2, 0>>)), g |-> Hrss!Plus(Poly(<<2, 0, 0, 1, 0>>))])} @@
  "Prime" :> {Two([f |-> Poly(<<1, 0, 0, -1, 0>>), g |-> Poly(<<1, 1, -1, 1, -1>>)],
                  [f |-> Poly(<<0, 1, 1, 0, 0>>), g |-> Poly(<<0, -1, 0, 1, 1>>)])}

Masks == {Poly(<<1, 2, 0, 1, 0>>), Poly(<<2, 2, 2, 2, 0>>), Poly(<<1, 1, 1, 1, 0>>), Poly(<<0, 0, 0, 0, 0>>)}
MCInputs ==
  "ML-KEM" :> {0, 1} @@
  "Frodo" :> [Fro!Block -> 0 .. 1] @@
  "HPS" :> [r : Masks, m : Hps!FixedType] @@
  "HRSS" :> [r : Masks, m : Masks] @@
  "Prime" :> Prime!Short

Noise == [y : -1 .. 1, e1 : -1 .. 1, e2 : -1 .. 1]
Still == [y |-> 1, e1 |-> 0, e2 |-> -1]
Table(r0, r1) == [p \in {0, 1} \X {k1, k2} |-> IF p = <<0, k1>> THEN r0 ELSE
                                                 IF p = <<1, k1>> THEN r1 ELSE Still]
\* The largest noise in any direction, the same for every message or not.
Loud == [s : {Words(<<1, 1, 1, 1>>), Words(<<-1, 1, 1, -1>>)},
         e : {Words(<<-1, -1, -1, -1>>), Words(<<1, -1, 1, 1>>)},
         f : {Words(<<1, 1, 1, 1>>), Words(<<-1, -1, 1, -1>>)}]
Mild == [s |-> Words(<<1, 0, 0, -1>>), e |-> Words(<<0, 1, -1, 0>>), f |-> Words(<<1, 1, -1, -1>>)]
MCCoinTables ==
  "ML-KEM" :> {Table(r0, r1) : r0 \in Noise, r1 \in {n \in Noise : n.y # 0 /\ n.e1 = n.e2 /\ n.e1 # 0}} @@
  "Frodo" :> {[p \in MCInputs["Frodo"] \X {k1, k2} |-> IF p[1][0] = 0 THEN x ELSE Mild] : x \in Loud} @@
  "HPS" :> {<<>>} @@ "HRSS" :> {<<>>} @@ "Prime" :> {<<>>}

-----------------------------------------------------------------------------
\* The pure functions need one state.
AtStart == sessions = {} /\ results = {} /\ scheme = "HPS"

KyberQ == 3329
Kyber == INSTANCE MlKem WITH Q <- KyberQ, Du <- 10, Dv <- 4
Widths == {1, 4, 5, 10, 11}

\* The distance of two residues around the ring.
Dist(x, y) == LET r == (x - y) % KyberQ IN IF 2 * r > KyberQ THEN KyberQ - r ELSE r

\* A residue comes back within half a step, rounded, on either side of zero:
\* the budget decryption has for its two compressed parts.
RoundTripIsClose ==
  \A x \in 0 .. KyberQ - 1, d \in Widths :
    2 * Kyber!Pow2[d] * Dist(Kyber!Decompress(Kyber!Compress(x, d), d) % KyberQ, x) <= KyberQ + Kyber!Pow2[d]

\* No residue is half-way between two buckets (encoding.rs:48-49), and a
\* bucket is the one its centre falls in, so packing a ciphertext again
\* changes nothing.
BucketsAreExact ==
  /\ \A x \in 0 .. KyberQ - 1, d \in Widths : (2 * x * Kyber!Pow2[d]) % (2 * KyberQ) # KyberQ
  /\ \A d \in Widths : \A x \in 0 .. Kyber!Pow2[d] - 1 : Kyber!Compress(Kyber!Decompress(x, d), d) = x

\* The bit a decryption reads says which of 0 and q/2 is nearer.
BitIsNearest == \A x \in 0 .. KyberQ - 1 : Kyber!Compress(x, 1) = 1 <=> 4 * Dist(x, 0) > KyberQ

\* A coefficient of Frodo gives back its chunk of the message under any noise
\* below half a step, at the widths of the parameter sets, a sum that reaches
\* the whole word included.
Frodo640 == INSTANCE Frodo WITH N <- 1, Nbar <- 1, LogQ <- 15, ExtractedBits <- 2, WordBits <- 16
Frodo1344 == INSTANCE Frodo WITH N <- 1, Nbar <- 1, LogQ <- 16, ExtractedBits <- 4, WordBits <- 16
ChunksSurviveNoise ==
  /\ \A m \in 0 .. 3, d \in -4096 .. 4095 : Frodo640!KeyDecode((Frodo640!KeyEncode(m) + d) % Frodo640!Q) = m
  /\ \A m \in 0 .. 15, d \in -2048 .. 2047 : Frodo1344!KeyDecode((Frodo1344!KeyEncode(m) + d) % Frodo1344!Q) = m

\* Compression and key coding lose what decryption has room for and no more.
RoundingLeavesRoom ==
  AtStart => RoundTripIsClose /\ BucketsAreExact /\ BitIsNearest /\ ChunksSurviveNoise

-----------------------------------------------------------------------------
\* What comes back from bytes is what was coded, and no shorter or longer.
Edges(m) == {0, 1, m \div 2, m - 1} \cap 0 .. m - 1

Bits8 == [0 .. 7 -> {0, 1}]
KyberBytes ==
  \A d \in {1, 4, 5, 10, 11, 12}, b \in Bits8 :
    LET f == [i \in 0 .. 7 |-> IF b[i] = 1 THEN 2^d - 1 - (i % 2) ELSE 1 + ((d * i) % 2^d)]
        g == [i \in 0 .. 7 |-> f[i] % 2^d]
    IN  Kyber!ByteDecode(Kyber!ByteEncode(g, d), d) = g

FrodoWords == {0, 1, 2^14, 2^15 - 1, 2^15 + 5, 2^16 - 1}
FrodoPacking ==
  \A lsb \in {15, 16}, a, b, c \in FrodoWords :
    LET x == <<a, b, c, b, a, c, c, b>>
        y == Frodo640!Pack(x, lsb)
    IN  Len(y) = lsb /\ Frodo640!Unpack(y, lsb) = [i \in 1 .. 8 |-> x[i] % 2^lsb]

Ntru677 == INSTANCE Ntru WITH N <- 9, LogQ <- 11, FixedWeight <- TRUE
Ntru701 == INSTANCE Ntru WITH N <- 9, LogQ <- 13, FixedWeight <- FALSE
NtruStreams ==
  /\ \A a, b, c \in Edges(2^11) : LET x == <<a, b, c, a, c, b, b, a>>
                                  IN  Ntru677!SqFromBytes(Ntru677!SqToBytes(x)) = x
  /\ \A a, b, c \in Edges(2^13) : LET x == <<a, b, c, a, c, b, b, a>>
                                  IN  Ntru701!SqFromBytes(Ntru701!SqToBytes(x)) = x
  /\ \A t \in [0 .. 4 -> 0 .. 2] : Hps!S3Digits(Hps!S3Byte(t)) = t

\* Digits of the radices of every parameter set, in lists of every shape.
PrimeModuli == {4591, 4621, 5167, 6343, 7177, 7879}
Radices == PrimeModuli \cup {(q + 2) \div 3 : q \in PrimeModuli} \cup {1, 2, 256, 257, 2048, 16383}
PrimeDigits ==
  \A len \in 1 .. 5 : \A q \in Radices, a, b \in 0 .. 3 :
    LET m == [i \in 1 .. len |-> q]
        digit(k) == (CASE k = 0 -> 0 [] k = 1 -> 1 [] k = 2 -> q \div 2 [] k = 3 -> q - 1) % q
        r == [i \in 1 .. len |-> IF i % 2 = 1 THEN digit(a) ELSE digit(b)]
    IN  Prime!Decode(Prime!Encode(r, m), m) = r

\* A rounded coefficient, a multiple of three, comes back from its digit.
PrimeThirds ==
  \A q \in PrimeModuli : \A x \in -((q - 1) \div 2) .. (q - 1) \div 2 :
    x % 3 = 0 => Prime!RoundedValue(Prime!RoundedDigit(x + (q - 1) \div 2), q) = x

\* Noise has the sign of the lowest bit and the size the table gives to the
\* other bits, at the entries of the table of FrodoKEM-640 and around them.
Cdf640 == <<4643, 13363, 20579, 25843, 29227, 31145, 32103, 32525, 32689, 32745, 32762, 32766, 32767>>
NoiseFollowsTable ==
  \A e \in {0} \cup {Cdf640[i] : i \in 1 .. 13}, d \in -2 .. 3 :
    2 * e + d \in 0 .. 2^16 - 1 =>
      LET raw == 2 * e + d
          size == Cardinality({i \in 1 .. 12 : Cdf640[i] < raw \div 2})
      IN  Frodo640!SampleN(raw, Cdf640) = (IF raw % 2 = 1 THEN -size ELSE size) % 2^16

CodingsAreExact ==
  AtStart => KyberBytes /\ FrodoPacking /\ NtruStreams /\ PrimeDigits /\ PrimeThirds /\ NoiseFollowsTable

-----------------------------------------------------------------------------
\* Division steps end with the inverse of every polynomial that has one: for
\* NTRU of each non-zero polynomial of its two smallest fields and, by
\* Newton's iteration, of the product of any key; for NTRU Prime modulo 3 also
\* of a ring with zero divisors, and they say which those are.
One(n) == [i \in 0 .. n - 1 |-> IF i = 0 THEN 1 ELSE 0]
Prime7 == INSTANCE NtruPrime WITH P <- 7, Q <- 79, W <- 2
HpsInverts(f, g) == Hps!InversionsReturn(f, g) /\ Hps!HalvesInvert(Hps!KeyPair(f, g))
HrssInverts(f, g) == Hrss!InversionsReturn(f, g) /\ Hrss!HalvesInvert(Hrss!KeyPair(f, g))
InversionsInvert ==
  AtStart =>
    /\ KeysInvert /\ NoiseFits
    /\ \A s \in Schemes : Returns(s)
    /\ \A f \in Hps!SecretF \ {Poly(<<0, 0, 0, 0, 0>>)}, g \in Hps!SecretG : HpsInverts(f, g)
    /\ \A f \in {x \in Hrss!SecretF : x[0] # 0}, g \in {Hrss!Plus(m) : m \in Masks \ {Poly(<<0, 0, 0, 0, 0>>)}} : HrssInverts(f, g)
    /\ \A f \in Prime!Short : Prime!Mult(Prime!RqRecip3(f), [i \in Prime!Exps |-> 3 * f[i]], PrimeQ) = One(PrimeP)
    /\ \A g \in Prime7!Small :
         LET end == Prime7!F3!Steps(Prime7!Reversed(g, 3), 1, 13)
         IN  Prime7!R3Invertible(end) <=> Prime7!Mult(Prime7!R3Recip(end), g, 3) = One(7)

\* Sorting compares the right places for every number of words, so that what
\* sampling by sorting draws has its weight: a network that orders every
\* sequence of two values orders all (the 0-1 principle).
Ordered(x, n) == \A i \in 0 .. n - 2 : x[i] <= x[i + 1]
SortsSort ==
  AtStart =>
    /\ \A n \in 1 .. 9 : LET net == Hps!SortInt32(n)  other == Prime!SortUint32(n)
                         IN  \A x \in [0 .. n - 1 -> {0, 1}] :
                               Ordered(Hps!Through(net, x), n) /\ Ordered(Prime!Through(other, x), n)
    /\ \A a, b \in -8 .. 7 :
         Hps!MinMax(a % 16, b % 16, 4) = IF a <= b THEN <<a % 16, b % 16>> ELSE <<b % 16, a % 16>>
    /\ \A x \in [Prime!Exps -> {0, 3, 5, 6}] : Prime!ShortFromList(x) \in Prime!Short
    /\ \A b \in 0 .. 255 : Hps!Mod3Sample(b) = b % 3

\* Codings lose nothing, and what runs a fixed number of steps whatever it is
\* given is right for all of it: inversion by division steps and sorting by
\* networks (ntru/poly.rs:106-264, sntrup/poly.rs:160-290, and the two networks).
CodingsAndStepsAreExact == CodingsAreExact /\ InversionsInvert /\ SortsSort
=============================================================================
