-------------------------------- MODULE Falcon --------------------------------
(***************************************************************************)
(* Falcon's key pairs, signatures and their bytes (pqc/src/falcon).  The   *)
(* key solver, and the transforms modulo Q (mq.rs), are FalconKeys.  A     *)
(* floating-point number is a residue modulo P, P = 3 (mod 4): sums,       *)
(* products, quotients and conjugates are exact, and a small integer is    *)
(* read back.  What needs the order of the reals, the sampler, may return  *)
(* any of Samples; hash_to_point gives any of Points.                      *)
(***************************************************************************)
EXTENDS FalconKeys, FiniteSets

CONSTANTS Logn, P,
          Gm,                       \* a root of order 2^(MaxLogn + 1) of norm one
          MqWord, MqPrimes, MqRoots,\* mq.rs: the word, and the tables for Q
          L2Bound, NormMax,         \* of a signature and of a key
          SumWord,                  \* squares are summed in a word
          FgBits, BigFgBits,        \* of a coefficient of f and g, and of F
          QBits, Byte,              \* of a residue, and of a byte
          PlainBits, MaxCoeff,        \* of a signature's coefficient
          SigBytes,                 \* room for a signature
          Candidates, Points, Samples

Dim == 2^Logn
Degrees == 0 .. Dim - 1
Mq == INSTANCE FalconKeys WITH WordBits <- MqWord, Primes <- MqPrimes, Roots <- MqRoots

-----------------------------------------------------------------------------
(* Numbers, and complex numbers.                                           *)

RECURSIVE Power(_, _)
Power(x, k) == IF k = 0 THEN 1
               ELSE LET h == Power(x, k \div 2) IN (((h * h) % P) * IF k % 2 = 1 THEN x ELSE 1) % P
Inv(x) == Power(x, P - 2)
Rint(x) == IF 2 * x > P THEN x - P ELSE x

CAdd(a, b) == <<(a[1] + b[1]) % P, (a[2] + b[2]) % P>>
CSub(a, b) == <<(a[1] - b[1]) % P, (a[2] - b[2]) % P>>
CMul(a, b) == <<((a[1] * b[1]) - (a[2] * b[2])) % P, ((a[1] * b[2]) + (a[2] * b[1])) % P>>
Conj(a) == <<a[1], (-a[2]) % P>>
Norm2(a) == ((a[1] * a[1]) + (a[2] * a[2])) % P
CInv(a) == LET m == Inv(Norm2(a)) IN <<(a[1] * m) % P, ((-a[2]) * m) % P>>
CHalf(a) == <<(a[1] * ((P + 1) \div 2)) % P, (a[2] * ((P + 1) \div 2)) % P>>

\* FPR_GM_TAB: the powers of the root in bit-reversed order.
RECURSIVE CPower(_, _)
CPower(w, k) == IF k = 0 THEN <<1, 0>> ELSE CMul(CPower(w, k - 1), w)
GmTab == [u \in 1 .. 2^MaxLogn - 1 |-> CPower(Gm, Rev(u, MaxLogn))]

\* A polynomial under the transform has half as many complex values, the other
\* half being their conjugates; one of degree 0 has a real one.
Halves(n) == IF n = 1 THEN 1 ELSE n \div 2
FftPoly(logn, F(_)) == Tabulate(Halves(2^logn), F)

RECURSIVE FftFrom(_, _, _)
FftFrom(f, t, m) ==
  IF t = 1 THEN f
  ELSE LET ht == t \div 2
           y(j) == CMul(f[j], GmTab[m + (j \div t)])
       IN  Apply(LAMBDA b : FftFrom(b, ht, 2 * m),
                 Computed([j \in DOMAIN f |-> IF j % t < ht THEN CAdd(f[j], y(j + ht)) ELSE CSub(f[j - ht], y(j))]))
\* The coefficients j and j + n/2 are one value to begin with.
Fft(f, logn) ==
  LET hn == Halves(2^logn)
  IN  FftFrom(FftPoly(logn, LAMBDA j : <<f[j] % P, IF logn = 0 THEN 0 ELSE f[j + hn] % P>>), hn, 2)

RECURSIVE IfftFrom(_, _, _, _)
IfftFrom(f, hn, t, m) ==
  IF t = hn THEN f
  ELSE LET hm == m \div 2
           s(j) == Conj(GmTab[hm + (j \div (2 * t))])
       IN  Apply(LAMBDA b : IfftFrom(b, hn, 2 * t, hm),
                 Computed([j \in DOMAIN f |-> IF j % (2 * t) < t THEN CAdd(f[j], f[j + t])
                                              ELSE CMul(CSub(f[j - t], f[j]), s(j))]))
Ifft(f, logn) ==
  LET hn == Halves(2^logn)
      ni == Inv(hn)
      b == IfftFrom(f, hn, 1, 2^logn)
  IN  Tabulate(2^logn, LAMBDA j : (ni * b[j % hn][1 + (j \div hn)]) % P)

PAdd(a, b) == Computed([u \in DOMAIN a |-> CAdd(a[u], b[u])])
PSub(a, b) == Computed([u \in DOMAIN a |-> CSub(a[u], b[u])])
PMul(a, b) == Computed([u \in DOMAIN a |-> CMul(a[u], b[u])])
PMulAdj(a, b) == Computed([u \in DOMAIN a |-> CMul(a[u], Conj(b[u]))])
PAdj(a) == Computed([u \in DOMAIN a |-> Conj(a[u])])
PNeg(a) == Computed([u \in DOMAIN a |-> CSub(<<0, 0>>, a[u])])
PMulConst(a, x) == Computed([u \in DOMAIN a |-> CMul(a[u], <<x, 0>>)])
PDiv(a, b) == Computed([u \in DOMAIN a |-> CMul(a[u], CInv(b[u]))])
PMulSelfAdj(a) == Computed([u \in DOMAIN a |-> <<Norm2(a[u]), 0>>])
PInvNorm2(a, b) == Computed([u \in DOMAIN a |-> <<Inv(Norm2(a[u]) + Norm2(b[u])), 0>>])
PAddMulAdj(F, G, f, g) == PAdd(PMulAdj(F, f), PMulAdj(G, g))

\* The even and the odd coefficients, and back.
PSplit(f, logn) ==
  LET hn == Halves(2^logn)
      a(u) == f[2 * u]
      b(u) == f[(2 * u) + 1]
  IN  IF logn = 1 THEN <<[u \in {0} |-> <<f[0][1], 0>>], [u \in {0} |-> <<f[0][2], 0>>]>>
      ELSE <<FftPoly(logn - 1, LAMBDA u : CHalf(CAdd(a(u), b(u)))),
             FftPoly(logn - 1, LAMBDA u : CHalf(CMul(CSub(a(u), b(u)), Conj(GmTab[u + hn]))))>>
PMerge(f0, f1, logn) ==
  LET hn == Halves(2^logn)
      b(u) == CMul(f1[u], GmTab[u + hn])
  IN  IF logn = 1 THEN [u \in {0} |-> <<f0[0][1], f1[0][1]>>]
      ELSE FftPoly(logn, LAMBDA v : IF v % 2 = 0 THEN CAdd(f0[v \div 2], b(v \div 2)) ELSE CSub(f0[v \div 2], b(v \div 2)))

\* [g00 g01; * g11] = L diag(g00, d11) L*, with l10 below the diagonal of L.
PLdl(g00, g01, g11) ==
  LET mu == PDiv(g01, g00)
  IN  [d11 |-> PSub(g11, PMulAdj(mu, g01)), l10 |-> PAdj(mu)]

-----------------------------------------------------------------------------
(* Signing.                                                                *)

\* Two vectors of integers near t0 and t1, from zs, in the order they are
\* drawn: the right half of the tree first.  A leaf is what a sample was drawn
\* around, the square of what scales its deviation, and the sample.
RECURSIVE FfSampling(_, _, _, _, _, _, _)
FfSampling(t0, t1, g00, g01, g11, logn, zs) ==
  IF logn = 0
  THEN [z0 |-> [u \in {0} |-> <<zs[1] % P, 0>>], z1 |-> [u \in {0} |-> <<zs[2] % P, 0>>],
        leaves |-> << <<t0[0][1], g00[0][1], zs[1]>>, <<t1[0][1], g00[0][1], zs[2]>> >>]
  ELSE
    LET n == 2^logn
        ldl == PLdl(g00, g01, g11)
        sub(t, d, z) == FfSampling(t[1], t[2], d[1], d[2], d[1], logn - 1, z)
        half(t, d, z) == Apply(LAMBDA s : [z |-> PMerge(s.z0, s.z1, logn), leaves |-> s.leaves],
                               sub(PSplit(t, logn), PSplit(d, logn), z))
    IN  Apply(LAMBDA r :
          Apply(LAMBDA l : [z0 |-> l.z, z1 |-> r.z, leaves |-> r.leaves \o l.leaves],
                half(PAdd(t0, PMul(PSub(t1, r.z), ldl.l10)), g00, SubSeq(zs, n + 1, 2 * n))),
          half(t1, ldl.d11, SubSeq(zs, 1, n)))

\* The rows (g, -f) and (G, -F), their Gram matrix, and the target (c, 0) in
\* that basis.
Basis(f, g, bf, bg) ==
  [b00 |-> Fft(g, Logn), b01 |-> PNeg(Fft(f, Logn)), b10 |-> Fft(bg, Logn), b11 |-> PNeg(Fft(bf, Logn))]
Gram(b) == [g00 |-> PAdd(PMulSelfAdj(b.b00), PMulSelfAdj(b.b01)),
            g01 |-> PAdd(PMulAdj(b.b01, b.b11), PMulAdj(b.b00, b.b10)),
            g11 |-> PAdd(PMulSelfAdj(b.b10), PMulSelfAdj(b.b11))]
TargetOneSign(b, hm) ==
  LET t == Fft(hm, Logn)
      ni == Inv(Q)
  IN  <<PMulConst(PMul(t, b.b11), ni), PMulConst(PMul(t, b.b01), ni)>>
Target(b, hm) ==
  LET t == Fft(hm, Logn)
      ni == Inv(Q)
  IN  <<PMulConst(PMul(t, b.b11), ni), PMulConst(PMul(t, b.b01), -ni)>>

\* Whether a sum of squares is within the bound: a sum that reaches half the
\* word is not, whatever it wraps to.
RECURSIVE Squared2(_, _)
Squared2(zs, s) ==
  IF zs = <<>> THEN [sum |-> s, over |-> FALSE]
  ELSE LET x == (s + (Head(zs) * Head(zs))) % SumWord
           r == Squared2(Tail(zs), x)
       IN  [sum |-> r.sum, over |-> r.over \/ 2 * x >= SumWord]
AsSeq(f, n) == [i \in 1 .. n |-> f[i - 1]]
Interleaved(s1, s2) == [i \in 1 .. 2 * Dim |-> IF i % 2 = 1 THEN s1[i \div 2] ELSE s2[(i \div 2) - 1]]
IsShort(s1, s2) ==
  LET s == Squared2(Interleaved(s1, s2), 0) IN ~s.over /\ s.sum <= L2Bound
\* The sign loop keeps the flag of the first half as the sum's top bits.
IsShortHalf(s1, s2) ==
  LET a == Squared2(AsSeq(s1, Dim), 0)
      b == Squared2(AsSeq(s2, Dim), a.sum)
  IN  ~a.over /\ b.sum <= L2Bound

\* One attempt: s1 = c - (z B)_1 and s2 = -(z B)_2.
Attempt(f, g, bf, bg, hm, zs) ==
  LET b == Basis(f, g, bf, bg)
      t == Target(b, hm)
      m == Gram(b)
  IN  Apply(LAMBDA s :
        LET x == Ifft(PAdd(PMul(s.z0, b.b00), PMul(s.z1, b.b10)), Logn)
            y == Ifft(PAdd(PMul(s.z0, b.b01), PMul(s.z1, b.b11)), Logn)
        IN  [s1 |-> Tabulate(Dim, LAMBDA u : hm[u] - Rint(x[u])), s2 |-> Tabulate(Dim, LAMBDA u : -Rint(y[u])),
             leaves |-> s.leaves],
        FfSampling(t[1], t[2], m.g00, m.g01, m.g11, Logn, zs))

-----------------------------------------------------------------------------
(* Randomness: the words of the sampler, and integers drawn from them.     *)

\* A quarter-round on words of w bits.
Xor(a, b, w) == SumOver(w, LAMBDA i : IF (a \div 2^i) % 2 = (b \div 2^i) % 2 THEN 0 ELSE 2^i)
Rotate(x, k, w) == ((x * 2^(k % w)) % 2^w) + (x \div 2^(w - (k % w)))
QRound(s, a, b, c, d, w) ==
  LET add(t, i, j) == [t EXCEPT ![i] = (@ + t[j]) % 2^w]
      mix(t, i, j, k) == [t EXCEPT ![i] = Rotate(Xor(@, t[j], w), k, w)]
  IN  mix(add(mix(add(mix(add(mix(add(s, a, b), d, a, 16), c, d), b, c, 12), a, b), d, a, 8), c, d), b, c, 7)

\* Where word v of block u of a refill goes, four bytes from there.
RefillBase(u, v) == (4 * u) + (32 * v)
\* The buffer of a generator, from where it is read on, and how often it was
\* filled: a word is not taken from the last nine bytes.
GetU64(p, size) ==
  LET q == IF p.ptr >= size - 9 THEN [ptr |-> 0, fills |-> p.fills + 1] ELSE p
  IN  [p |-> [q EXCEPT !.ptr = @ + 8], read |-> q.ptr .. q.ptr + 7, fill |-> q.fills]
GetU8(p, size) ==
  [p |-> IF p.ptr + 1 = size THEN [ptr |-> 0, fills |-> p.fills + 1] ELSE [p EXCEPT !.ptr = @ + 1],
   read |-> {p.ptr}, fill |-> p.fills]

\* How many thresholds a draw is below, compared limb by limb, lowest first,
\* with a borrow.
Borrow(a, b, c, word) == ((a - b - c) % word) \div (word \div 2)
Gaussian0(dist, v, word) ==
  Cardinality({u \in DOMAIN dist :
    Borrow(v[3], dist[u][3], Borrow(v[2], dist[u][2], Borrow(v[1], dist[u][1], 0, word), word), word) = 1})
\* A sign and a half-Gaussian make an integer on either side of 1/2.
Bimodal(b, z0) == b + (((2 * b) - 1) * z0)
\* A number drawn byte by byte, highest first, only while it ties with z.
RECURSIVE Below(_, _)
Below(draws, z) ==
  IF Head(draws) = Head(z) /\ Len(z) > 1 THEN Below(Tail(draws), Tail(z)) ELSE Head(draws) < Head(z)

\* A coefficient of a key: signed thresholds, the first of which says zero.
MkgaussOne(table, half, r, r2) ==
  LET v == IF r % half < table[1] THEN 0
           ELSE CHOOSE k \in 1 .. Len(table) - 1 : (r2 % half) >= table[k + 1] /\ \A j \in 1 .. k - 1 : (r2 % half) < table[j + 1]
  IN  IF r >= half THEN -v ELSE v

\* Words reduced, those of the last and incomplete multiple of q dropped.
RECURSIVE HashToPoint(_, _, _, _)
HashToPoint(words, n, q, cap) ==
  IF n = 0 THEN <<>>
  ELSE IF Head(words) >= cap THEN HashToPoint(Tail(words), n, q, cap)
  ELSE <<Head(words) % q>> \o HashToPoint(Tail(words), n - 1, q, cap)

-----------------------------------------------------------------------------
(* Modulo Q.                                                               *)

MqE == MqPrimes[1]
MqNtt(a) == Mq!Ntt2(a, Logn, 1)
MqIntt(a) == Mq!Intt2(a, Logn, 1)
MqMontyMul(x, y) == Mq!MontyMul(x, y, MqE)
MqPolyTomonty(a) == Tabulate(Dim, LAMBDA u : MqMontyMul(a[u], MqE.r2))
MqPolyMontymulNtt(a, b) == Tabulate(Dim, LAMBDA u : MqMontyMul(a[u], b[u]))
MqConv(a) == Tabulate(Dim, LAMBDA u : IF a[u] < 0 THEN a[u] + Q ELSE a[u])

\* x / y as x * y^12287, by an addition chain; Q - 1 divides 12288.
MqSteps == << <<1, 1>>, <<2, 1>>, <<3, 2>>, <<4, 4>>, <<5, 5>>, <<6, 6>>, <<7, 7>>, <<8, 8>>, <<9, 3>>, <<10, 9>>,
              <<11, 11>>, <<12, 12>>, <<13, 10>>, <<14, 14>>, <<15, 15>>, <<16, 11>>, <<17, 17>>, <<18, 1>> >>
RECURSIVE Chain(_)
Chain(ys) ==
  IF Len(ys) > Len(MqSteps) THEN ys[Len(ys)]
  ELSE LET s == MqSteps[Len(ys)]
       IN  Apply(LAMBDA y : Chain(Append(ys, y)), MqMontyMul(ys[s[1]], ys[s[2]]))
MqDiv(x, y) == MqMontyMul(Chain(<<MqMontyMul(y, MqE.r2)>>), x)

\* g / f, and g * F / f around zero, if f is invertible.
ComputePublic(f, g) ==
  LET d == MqNtt(MqConv(f))
      x == MqNtt(MqConv(g))
  IN  IF \E u \in Degrees : d[u] = 0 THEN None
      ELSE MqIntt(Tabulate(Dim, LAMBDA u : MqDiv(x[u], d[u])))
MqCentered(x) == IF x >= Q \div 2 THEN x - Q ELSE x
CompletePrivate(f, g, bf) ==
  LET d == MqNtt(MqConv(f))
      x == MqPolyMontymulNtt(MqPolyTomonty(MqNtt(MqConv(g))), MqNtt(MqConv(bf)))
      quo == MqIntt(Tabulate(Dim, LAMBDA u : MqDiv(x[u], d[u])))
      lim == 2^(BigFgBits - 1)
  IN  IF \E u \in Degrees : d[u] = 0 THEN None
      ELSE IF \E u \in Degrees : MqCentered(quo[u]) \notin -lim + 1 .. lim - 1 THEN None
      ELSE Tabulate(Dim, LAMBDA u : MqCentered(quo[u]))

\* s2 * h - c, which is -s1, around zero.
ToNttMonty(h) == MqPolyTomonty(MqNtt(h))
VerifyRaw(hm, s2, h) ==
  LET t == MqIntt(MqPolyMontymulNtt(MqNtt(MqConv(s2)), h))
      w == Tabulate(Dim, LAMBDA u : (t[u] - hm[u]) % Q)
  IN  IsShort(Tabulate(Dim, LAMBDA u : IF w[u] > Q \div 2 THEN w[u] - Q ELSE w[u]), s2)

-----------------------------------------------------------------------------
(* Bytes, as sequences of bits, highest first, of whole bytes.             *)

Bits(x, w) == [i \in 1 .. w |-> (x \div 2^(w - i)) % 2]
FromBits(b) == LET v[i \in 0 .. Len(b)] == IF i = 0 THEN 0 ELSE (2 * v[i - 1]) + b[i] IN v[Len(b)]
RECURSIVE Joined(_)
Joined(ss) == IF ss = <<>> THEN <<>> ELSE Head(ss) \o Joined(Tail(ss))
ByteUp(k) == ((k + Byte - 1) \div Byte) * Byte
Padded(b) == b \o [i \in 1 .. ByteUp(Len(b)) - Len(b) |-> 0]
ZeroAfter(b, k) == \A i \in k + 1 .. Len(b) : b[i] = 0

\* Coefficients of w bits, which V reads, in a string of exactly their length.
EncodeFixed(x, w) == Padded(Joined([i \in 1 .. Dim |-> Bits(x[i - 1] % 2^w, w)]))
DecodeFixed(b, w, V(_)) ==
  IF Len(b) < ByteUp(Dim * w) \/ ~ZeroAfter(SubSeq(b, 1, ByteUp(Dim * w)), Dim * w) THEN None
  ELSE Tabulate(Dim, LAMBDA i : V(FromBits(SubSeq(b, (i * w) + 1, (i + 1) * w))))

ModqEncode(x) == IF \E u \in Degrees : x[u] >= Q THEN None ELSE EncodeFixed(x, QBits)
ModqDecode(b) ==
  LET x == DecodeFixed(b, QBits, LAMBDA w : w) IN IF x # None /\ \E u \in Degrees : x[u] >= Q THEN None ELSE x
TrimEncode(x, w) ==
  IF \E u \in Degrees : x[u] \notin -(2^(w - 1)) + 1 .. 2^(w - 1) - 1 THEN None ELSE EncodeFixed(x, w)
TrimDecode(b, w) ==
  LET x == DecodeFixed(b, w, LAMBDA v : IF v >= 2^(w - 1) THEN v - 2^w ELSE v)
  IN  IF x # None /\ \E u \in Degrees : x[u] = -(2^(w - 1)) THEN None ELSE x

\* A sign, the low bits, and the high part in unary.
CompEncode(x, room) ==
  LET size(v) == IF v < 0 THEN -v ELSE v
      one(v) == <<IF v < 0 THEN 1 ELSE 0>> \o Bits(size(v) % 2^PlainBits, PlainBits)
                \o [i \in 1 .. size(v) \div 2^PlainBits |-> 0] \o <<1>>
      b == Padded(Joined([i \in 1 .. Dim |-> one(x[i - 1])]))
  IN  IF \E u \in Degrees : size(x[u]) > MaxCoeff THEN None
      ELSE IF Len(b) > room * Byte THEN None ELSE b

\* What is read of a string and where reading stands; a coefficient too large,
\* a negative zero and a string too short are refused.
RECURSIVE CompRead(_, _, _)
CompRead(b, at, x) ==
  IF Len(x) = Dim THEN [x |-> x, at |-> at]
  ELSE
    LET body == at + PlainBits + 1
        stops == {i \in body + 1 .. Len(b) : b[i] = 1}
        stop == CHOOSE i \in stops : \A j \in stops : i <= j
        m == FromBits(SubSeq(b, at + 2, body)) + ((stop - body - 1) * 2^PlainBits)
    IN  IF stops = {} THEN None
        ELSE IF m > MaxCoeff \/ (b[at + 1] = 1 /\ m = 0) THEN None
        ELSE CompRead(b, stop, Append(x, IF b[at + 1] = 1 THEN -m ELSE m))
CompDecodeLoose(b) ==
  LET r == CompRead(b, 0, <<>>)
  IN  IF r = None THEN None ELSE [x |-> Tabulate(Dim, LAMBDA i : r.x[i + 1]), used |-> ByteUp(r.at)]
CompDecode(b) ==
  LET r == CompRead(b, 0, <<>>)
  IN  IF r = None THEN None
      ELSE IF ~ZeroAfter(SubSeq(b, 1, ByteUp(r.at)), r.at) THEN None
      ELSE [x |-> Tabulate(Dim, LAMBDA i : r.x[i + 1]), used |-> ByteUp(r.at)]

\* The bytes of a key pair, after their first.
EncodeSecret(f, g, bf) ==
  LET parts == <<TrimEncode(f, FgBits), TrimEncode(g, FgBits), TrimEncode(bf, BigFgBits)>>
  IN  IF \E i \in 1 .. 3 : parts[i] = None THEN None ELSE Joined(parts)
SecretFromBytes(b) ==
  LET k == ByteUp(Dim * FgBits)
      f == TrimDecode(b, FgBits)
      g == TrimDecode(SubSeq(b, k + 1, Len(b)), FgBits)
      bf == TrimDecode(SubSeq(b, (2 * k) + 1, Len(b)), BigFgBits)
  IN  IF Len(b) # (2 * k) + ByteUp(Dim * BigFgBits) THEN None
      ELSE IF f = None \/ g = None \/ bf = None THEN None ELSE [f |-> f, g |-> g, F |-> bf]
PublicFromBytes(b) == IF Len(b) # ByteUp(Dim * QBits) THEN None ELSE ModqDecode(b)

Verify(pk, hm, esig) ==
  LET sig == CompDecode(esig)
  IN  IF sig = None THEN FALSE
      ELSE sig.used = Len(esig) /\ VerifyRaw(hm, sig.x, ToNttMonty(pk))

-----------------------------------------------------------------------------
VARIABLES phase,  \* "keygen", "sign", "sent", "verified" or "panicked"
          secret, public,  \* bytes
          point,           \* what the message was hashed to
          vector,          \* s1 and s2 of the last attempt
          esig,            \* the signature's bytes
          asked,           \* the hash and the bytes the verifier is given
          verdict

vars == <<phase, secret, public, point, vector, esig, asked, verdict>>

Init ==
  /\ phase = "keygen" /\ secret = None /\ public = None
  /\ point = None /\ vector = None /\ esig = None /\ asked = None /\ verdict = FALSE

\* poly_small_mkgauss: coefficients of any size, with an odd sum.
OddSum(f) == SumOver(Dim, LAMBDA j : f[j]) % 2 = 1
SqNorm(f) == SumOver(Dim, LAMBDA j : f[j] * f[j])
\* The second vector of the Gram-Schmidt basis, (q f*, q g*) / (f f* + g g*), has
\* the constant coefficient of q^2 / (f f* + g g*) for squared norm.
BNormFits(f, g) ==
  LET inv == Adjugate(PlusPoly(PolyMul(f, Adj(f, Dim), Dim), PolyMul(g, Adj(g, Dim), Dim), Dim), Dim)
  IN  Q * Q * inv.a[0] < NormMax * inv.N
Refused(f, g) ==
  LET lim == 2^(FgBits - 1)
  IN  \/ \E u \in Degrees : f[u] \notin -lim + 1 .. lim - 1 \/ g[u] \notin -lim + 1 .. lim - 1
      \/ SqNorm(f) + SqNorm(g) >= NormMax
      \/ ~BNormFits(f, g)

\* A pair is drawn until one is short, invertible and solved.
Keygen ==
  /\ phase = "keygen"
  /\ \E f, g \in Candidates :
       /\ OddSum(f) /\ OddSum(g) /\ ~Refused(f, g)
       /\ \E h \in {ComputePublic(f, g)}, z \in {SolveNtru(f, g, Logn, 2^(BigFgBits - 1) - 1)} :
            /\ h # None /\ z # None
            /\ secret' = EncodeSecret(f, g, z.F) /\ public' = ModqEncode(h)
            /\ phase' = IF secret' = None \/ public' = None THEN "panicked" ELSE "sign"
  /\ UNCHANGED <<point, vector, esig, asked, verdict>>

\* An attempt of sign_dyn on a message; a vector that is too long is dropped and
\* another attempt made.
Sign ==
  /\ phase = "sign"
  /\ \E sk \in {SecretFromBytes(secret)} :
     \E bg \in {CompletePrivate(sk.f, sk.g, sk.F)} :
       IF bg = None
       THEN phase' = "panicked" /\ UNCHANGED <<point, vector, esig>>
       ELSE \E hm \in Points, zs \in Samples : \E a \in {Attempt(sk.f, sk.g, sk.F, bg, hm, zs)} :
              /\ IsShortHalf(a.s1, a.s2)
              /\ point' = hm /\ vector' = a /\ esig' = CompEncode(a.s2, SigBytes)
              /\ phase' = IF esig' = None THEN "panicked" ELSE "sent"
  /\ UNCHANGED <<secret, public, asked, verdict>>

\* The bytes that were sent, or others, for the message or for another.
Receive ==
  /\ phase = "sent"
  /\ \E hm \in Points, b \in {esig} \cup {[esig EXCEPT ![i] = 1 - @] : i \in DOMAIN esig} \cup {esig \o Bits(0, Byte)} :
       /\ asked' = [point |-> hm, bytes |-> b]
       /\ verdict' = Verify(PublicFromBytes(public), hm, b)
  /\ phase' = "verified"
  /\ UNCHANGED <<secret, public, point, vector, esig>>

Next == Keygen \/ Sign \/ Receive
Spec == Init /\ [][Next]_vars
=============================================================================
