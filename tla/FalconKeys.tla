----------------------------- MODULE FalconKeys ------------------------------
(***************************************************************************)
(* The exact solver of the NTRU equation f * G - g * F = q behind a Falcon *)
(* key (falcon/keygen.rs): residues modulo primes of a word, integers in   *)
(* limbs of WordBits bits, the descent of f and g to integers, a Bezout    *)
(* relation there, and the way back up, reducing (F, G) by (f, g) at every *)
(* level.  The source has WordBits = 31 and degrees up to 2^10.  Limbs are *)
(* sequences, lowest first, and polynomials functions of the exponent.     *)
(***************************************************************************)
EXTENDS Integers, Sequences

CONSTANTS WordBits, MaxLogn,   \* bits of a limb, and the largest degree
          Primes, Roots,       \* the tables PrimeTable and RootTable make
          Q,
          SmallLen, LargeLen,  \* limbs of f and of F, by depth
          BitLength,           \* an expected size of f and its deviation, by depth
          PlainBelow,          \* the depth beyond which products are plain
          Stride               \* bits by which the scale of k goes down

Limb == 2^WordBits
\* A function computed once, where it is made.
Computed(f) == CHOOSE g \in {f} : g = g
Apply(F(_), a) == CHOOSE v \in {F(x) : x \in {a}} : v = v
Tabulate(n, F(_)) == Computed([i \in 0 .. n - 1 |-> F(i)])

-----------------------------------------------------------------------------
(* A prime of a word.                                                      *)

ModpSet(x, p) == IF x < 0 THEN x + p ELSE x
ModpNorm(x, p) == IF x > (p + 1) \div 2 THEN x - p ELSE x
ModpAdd(a, b, p) == IF a + b >= p THEN a + b - p ELSE a + b
ModpSub(a, b, p) == IF a < b THEN a - b + p ELSE a - b

\* -1/p modulo 2^WordBits: each step of Newton doubles the bits that are right.
RECURSIVE Newton(_, _, _)
Newton(v, p, k) == IF k = 0 THEN v ELSE Newton((v * ((2 - (p * v)) % Limb)) % Limb, p, k - 1)
Ninv31(p) == (-Newton((2 - p) % Limb, p, 4)) % Limb

\* A prime e comes with that number, p0i; MontyMul divides by R on the way.
R(p) == Limb - p
MontyMul(a, b, e) ==
  LET z == a * b
      d == ((z + ((((z % Limb) * e.p0i) % Limb) * e.p)) \div Limb) - e.p
  IN  IF d < 0 THEN d + e.p ELSE d

\* R^2: twice R, squared until it stands for 2^(WordBits + 1), and halved.
RECURSIVE Squared(_, _, _)
Squared(z, e, k) == IF k = 1 THEN z ELSE Squared(MontyMul(z, z, e), e, k \div 2)
R2(e) ==
  LET z == Squared(ModpAdd(R(e.p), R(e.p), e.p), e, WordBits + 1)
  IN  (IF z % 2 = 1 THEN z + e.p ELSE z) \div 2

\* 2^(WordBits * x), from the bits of x - 1.
RECURSIVE PowerBits(_, _, _, _)
PowerBits(z, r, x, e) ==
  IF x = 0 THEN z
  ELSE PowerBits(IF x % 2 = 1 THEN MontyMul(z, r, e) ELSE z, MontyMul(r, r, e), x \div 2, e)
Rx(x, e) == PowerBits(R(e.p), e.r2, x - 1, e)

\* a / b, by the exponent p - 2 from its highest bit down.
RECURSIVE FermatBits(_, _, _, _)
FermatBits(z, b, i, e) ==
  IF i < 0 THEN z
  ELSE LET z2 == MontyMul(z, z, e)
       IN  FermatBits(IF ((e.p - 2) \div 2^i) % 2 = 1 THEN MontyMul(z2, b, e) ELSE z2, b, i - 1, e)
ModpDiv(a, b, e) == MontyMul(a, MontyMul(FermatBits(R(e.p), b, WordBits - 1, e), 1, e), e)

\* The table of primes: a root of order 2^(MaxLogn + 1), and what of a residue
\* undoes the product of the primes before it, in Montgomery form.
RECURSIVE PowerMod(_, _, _)
PowerMod(x, k, p) == IF k = 0 THEN 1 ELSE (x * PowerMod(x, k - 1, p)) % p
PrimeTable(moduli) == Computed(
  [u \in 1 .. Len(moduli) |->
     LET p == moduli[u]
         before[k \in 1 .. u] == IF k = 1 THEN 1 ELSE (before[k - 1] * moduli[k - 1]) % p
     IN  [p |-> p, p0i |-> Ninv31(p), r2 |-> R2([p |-> p, p0i |-> Ninv31(p)]),
          g |-> CHOOSE g \in 2 .. p - 1 : PowerMod(g, 2^MaxLogn, p) = p - 1,
          s |-> CHOOSE s \in 1 .. p - 1 : (s * before[u]) % p = R(p)]])

\* REV10: the bits of u in the other order.
RECURSIVE Rev(_, _)
Rev(u, bits) == IF bits = 0 THEN 0 ELSE ((u % 2) * 2^(bits - 1)) + Rev(u \div 2, bits - 1)

\* The powers of a root of order 2n and of its inverse, in bit-reversed order.
RECURSIVE Squares(_, _, _)
Squares(g, k, e) == IF k = 0 THEN g ELSE Squares(MontyMul(g, g, e), k - 1, e)
RECURSIVE MontyPower(_, _, _)
MontyPower(g, u, e) == IF u = 0 THEN R(e.p) ELSE MontyMul(MontyPower(g, u - 1, e), g, e)
Mkgm2(logn, e) ==
  LET g == Squares(MontyMul(e.g, e.r2, e), MaxLogn - logn, e)
      ig == ModpDiv(e.r2, g, e)
  IN  [gm  |-> Tabulate(2^logn, LAMBDA v : MontyPower(g, Rev(v, logn), e)),
       igm |-> Tabulate(2^logn, LAMBDA v : MontyPower(ig, Rev(v, logn), e))]
RootTable(primes) == Computed([u \in 1 .. Len(primes) |-> Computed([l \in 0 .. MaxLogn |-> Mkgm2(l, primes[u])])])

\* Butterflies on blocks of t coefficients, from the whole down and back up,
\* modulo the u-th prime.
RECURSIVE NttFrom(_, _, _, _, _)
NttFrom(a, n, m, gm, e) ==
  IF m = n THEN a
  ELSE LET t == n \div m
           ht == t \div 2
           high(j) == MontyMul(a[j + ht], gm[m + (j \div t)], e)
       IN  Apply(LAMBDA b : NttFrom(b, n, 2 * m, gm, e),
                 Tabulate(n, LAMBDA j : IF j % t < ht THEN ModpAdd(a[j], high(j), e.p)
                                        ELSE ModpSub(a[j - ht], high(j - ht), e.p)))
Ntt2(a, logn, u) == Apply(LAMBDA b : NttFrom(b, 2^logn, 1, Roots[u][logn].gm, Primes[u]), a)

RECURSIVE InttFrom(_, _, _, _, _)
InttFrom(a, n, m, igm, e) ==
  IF m = 1 THEN a
  ELSE LET t == n \div m
           s(j) == igm[(m \div 2) + (j \div (2 * t))]
       IN  Apply(LAMBDA b : InttFrom(b, n, m \div 2, igm, e),
                 Tabulate(n, LAMBDA j : IF j % (2 * t) < t THEN ModpAdd(a[j], a[j + t], e.p)
                                        ELSE MontyMul(ModpSub(a[j - t], a[j], e.p), s(j), e)))
Intt2(a, logn, u) ==
  IF logn = 0 THEN a
  ELSE Apply(LAMBDA b : Tabulate(2^logn, LAMBDA j : MontyMul(b[j], 2^(WordBits - logn), Primes[u])),
             Apply(LAMBDA b : InttFrom(b, 2^logn, 2^logn, Roots[u][logn].igm, Primes[u]), a))

Times(a, b, e) == MontyMul(MontyMul(a, b, e), e.r2, e)
\* The resultant one degree down: the product of the values at a root and at
\* its opposite, which the transform leaves side by side.
PolyRecRes(f, n, e) == Tabulate(n \div 2, LAMBDA v : Times(f[2 * v], f[(2 * v) + 1], e))

-----------------------------------------------------------------------------
(* Integers in limbs.                                                      *)

\* Terms brought to limbs from the lowest up, and the carry out of the top.
RECURSIVE Carried(_, _)
Carried(t, c) ==
  IF t = <<>> THEN [limbs |-> <<>>, out |-> c]
  ELSE LET z == Head(t) + c
           rest == Carried(Tail(t), z \div Limb)
       IN  [limbs |-> <<z % Limb>> \o rest.limbs, out |-> rest.out]
Each(a, F(_)) == Computed([u \in 1 .. Len(a) |-> F(u)])

ZintSub(a, b, ctl) ==
  LET d == Carried(Each(a, LAMBDA u : a[u] - b[u]), 0)
  IN  [limbs |-> IF ctl = 1 THEN d.limbs ELSE a, out |-> -d.out]
MulSmall(m, x) == Carried(Each(m, LAMBDA u : m[u] * x), 0)
AddMulSmall(x, y, s) ==
  LET z == Carried(Each(y, LAMBDA u : (y[u] * s) + x[u]), 0)
  IN  Append(z.limbs, z.out)

RECURSIVE ModSmallUnsigned(_, _)
ModSmallUnsigned(d, e) ==
  IF d = <<>> THEN 0
  ELSE ModpAdd(MontyMul(ModSmallUnsigned(Tail(d), e), e.r2, e),
               IF Head(d) >= e.p THEN Head(d) - e.p ELSE Head(d), e.p)
SignBit(d) == d[Len(d)] \div 2^(WordBits - 1)
ModSmallSigned(d, e) ==
  IF d = <<>> THEN 0
  ELSE ModpSub(ModSmallUnsigned(d, e), IF SignBit(d) = 1 THEN Rx(Len(d), e) ELSE 0, e.p)

\* x less p when x exceeds half of p, compared from the top.
Halved(p) == Each(p, LAMBDA u : (p[u] \div 2) + IF u < Len(p) THEN (p[u + 1] % 2) * 2^(WordBits - 1) ELSE 0)
Exceeds(x, y) == \E u \in 1 .. Len(x) : x[u] > y[u] /\ \A v \in u + 1 .. Len(x) : x[v] = y[v]
NormZero(x, p) == ZintSub(x, p, IF Exceeds(x, Halved(p)) THEN 1 ELSE 0).limbs

\* The integer with these residues, a limb more for every prime (Garner).
RECURSIVE Garner(_, _, _)
Garner(res, x, m) ==
  IF Len(x) = Len(res) THEN [x |-> x, m |-> m]
  ELSE LET u == Len(x) + 1
           e == Primes[u]
           xr == MontyMul(e.s, ModpSub(res[u], ModSmallUnsigned(x, e), e.p), e)
           mp == MulSmall(m, e.p)
       IN  Apply(LAMBDA z : Garner(res, z[1], z[2]), <<AddMulSmall(x, m, xr), Append(mp.limbs, mp.out)>>)
RebuildCrt(res, signed) ==
  Apply(LAMBDA z : IF signed THEN NormZero(z.x, z.m) ELSE z.x,
        Apply(LAMBDA x : Garner(x, <<x[1]>>, <<Primes[1].p>>), res))

Negate(a, ctl) == IF ctl = 1 THEN Carried(Each(a, LAMBDA u : Limb - 1 - a[u]), 1).limbs
                  ELSE Each(a, LAMBDA u : a[u] % Limb)

\* A combination of a and b whose lowest limb is zero, without it.
Shifted(z) == Append(Tail(z.limbs), z.out)
Combined(a, b, xa, xb) == Shifted(Carried(Each(a, LAMBDA u : (a[u] * xa) + (b[u] * xb)), 0))
CoReduce(a, b, xa, xb) ==
  LET z == Combined(a, b, xa, xb)
      neg == IF z[Len(z)] < 0 THEN 1 ELSE 0
  IN  [limbs |-> Negate(Each(z, LAMBDA u : z[u] % Limb), neg), neg |-> neg]

FinishModOneSided(a, m) ==
  LET less == Carried(Each(a, LAMBDA u : a[u] - m[u]), 0)
      more == Carried(Each(a, LAMBDA u : a[u] + m[u]), 0)
  IN  IF a[Len(a)] < 0 THEN more.limbs ELSE less.limbs
FinishMod(a, m) ==
  LET less == Carried(Each(a, LAMBDA u : a[u] - m[u]), 0)
      more == Carried(Each(a, LAMBDA u : a[u] + m[u]), 0)
  IN  IF a[Len(a)] < 0 THEN more.limbs ELSE IF less.out < 0 THEN Negate(a, 0) ELSE less.limbs

\* The same modulo m, a multiple of which makes the lowest limb zero.
CoReduceMod(a, b, m, xa, xb) ==
  LET fa == (((((a[1] * xa) % Limb) + ((b[1] * xb) % Limb)) % Limb) * Ninv31(m[1])) % Limb
  IN  FinishMod(Shifted(Carried(Each(a, LAMBDA u : (a[u] * xa) + (b[u] * xb) + (m[u] * fa)), 0)), m)

\* The top two limbs of two integers, from the highest that is not zero in both.
TopLimbs(a, b) ==
  LET top == {j \in 1 .. Len(a) : a[j] # 0 \/ b[j] # 0}
      j == CHOOSE i \in top : \A k \in top : k <= i
      hi(x) == IF j = 1 THEN x[1] ELSE (x[j] * Limb) + x[j - 1]
  IN  IF top = {} THEN <<0, 0>> ELSE <<hi(a), hi(b)>>

\* WordBits steps of the binary algorithm on the top and the bottom of a and b: halve
\* an even number, or the difference with the larger in its place.  Only low
\* bits decide parity and only high bits the order; instead of halving the low
\* part of one, that of the other doubles.
RECURSIVE HalvingSteps(_, _)
HalvingSteps(c, i) ==
  IF i = WordBits THEN c
  ELSE
    LET odd(x) == (x \div 2^i) % 2 = 1
        both == odd(c.al) /\ odd(c.bl)
        cab == both /\ c.ah > c.bh
        cba == both /\ ~(c.ah > c.bh)
        d == IF cab THEN [c EXCEPT !.al = (@ - c.bl) % (2 * Limb), !.ah = @ - c.bh, !.pa = @ - c.qa, !.pb = @ - c.qb]
             ELSE IF cba THEN [c EXCEPT !.bl = (@ - c.al) % (2 * Limb), !.bh = @ - c.ah, !.qa = @ - c.pa, !.qb = @ - c.pb]
             ELSE c
    IN  Apply(LAMBDA b : HalvingSteps(b, i + 1),
          IF cab \/ ~odd(c.al)
          THEN [d EXCEPT !.ah = @ \div 2, !.bl = (2 * @) % (2 * Limb), !.qa = 2 * @, !.qb = 2 * @]
          ELSE [d EXCEPT !.bh = @ \div 2, !.al = (2 * @) % (2 * Limb), !.pa = 2 * @, !.pb = 2 * @])

Flip(neg, x) == IF neg = 1 THEN -x ELSE x
Advanced(z, x, y, c) ==
  LET na == CoReduce(z.a, z.b, c.pa, c.pb)
      nb == CoReduce(z.a, z.b, c.qa, c.qb)
      pa == Flip(na.neg, c.pa)  pb == Flip(na.neg, c.pb)
      qa == Flip(nb.neg, c.qa)  qb == Flip(nb.neg, c.qb)
  IN  [a |-> na.limbs, b |-> nb.limbs,
       u0 |-> CoReduceMod(z.u0, z.u1, y, pa, pb), u1 |-> CoReduceMod(z.u0, z.u1, y, qa, qb),
       v0 |-> CoReduceMod(z.v0, z.v1, x, pa, pb), v1 |-> CoReduceMod(z.v0, z.v1, x, qa, qb)]
RECURSIVE BezoutRounds(_, _, _, _)
BezoutRounds(z, x, y, num) ==
  IF num < WordBits - 1 THEN z
  ELSE LET top == TopLimbs(z.a, z.b)
           c == [al |-> z.a[1], ah |-> top[1], bl |-> z.b[1], bh |-> top[2],
                 pa |-> 1, pb |-> 0, qa |-> 0, qb |-> 1]
       IN  Apply(LAMBDA d : BezoutRounds(d, x, y, num - (WordBits - 1)),
                 Apply(LAMBDA d : Advanced(z, x, y, d), HalvingSteps(c, 0)))

One(len) == [u \in 1 .. len |-> IF u = 1 THEN 1 ELSE 0]
\* u * x - v * y = 1 with u below y and v below x, for odd and coprime x, y.
Bezout(x, y) ==
  LET len == Len(x)
      rounds == BezoutRounds([a |-> x, b |-> y, u0 |-> One(len), u1 |-> y, v0 |-> [u \in 1 .. len |-> 0],
                         v1 |-> [x EXCEPT ![1] = @ - 1]], x, y, (2 * WordBits * len) + WordBits - 1)
  IN  Apply(LAMBDA z : [ok |-> z.a = One(len) /\ x[1] % 2 = 1 /\ y[1] % 2 = 1, u |-> z.u0, v |-> z.v0],
            rounds)

\* The limbs of y * 2^scl, the sign repeated beyond them.
Extended(y, v) == IF v < 1 THEN 0 ELSE IF v <= Len(y) THEN y[v] ELSE IF SignBit(y) = 1 THEN Limb - 1 ELSE 0
Scaled(y, scl, v) == ((Extended(y, v) * 2^scl) % Limb) + (Extended(y, v - 1) \div 2^(WordBits - scl))
AddScaledMulSmall(x, y, k, sch, scl) ==
  IF y = <<>> THEN x
  ELSE SubSeq(x, 1, sch)
       \o Carried([v \in 1 .. Len(x) - sch |-> (Scaled(y, scl, v) * k) + x[v + sch]], 0).limbs
SubScaled(x, y, sch, scl) ==
  IF y = <<>> THEN x
  ELSE SubSeq(x, 1, sch)
       \o Carried([v \in 1 .. Len(x) - sch |-> x[v + sch] - Scaled(y, scl, v)], 0).limbs
OneToPlain(x) == IF x[1] >= 2^(WordBits - 1) THEN x[1] - Limb ELSE x[1]

-----------------------------------------------------------------------------
(* The descent.  A polynomial in residues has one function of residues for *)
(* each of its first primes.                                               *)

\* The coefficients in limbs, and one coefficient's residues.
Rebuilt(f, len, n) ==
  Tabulate(n, LAMBDA v : RebuildCrt([u \in 1 .. len |-> f[u][v]], TRUE))
Reduced(x, n, u) == Tabulate(n, LAMBDA v : ModSmallSigned(x[v], Primes[u]))

\* The values modulo the first len primes of a polynomial in residues of slen:
\* beyond those the integers they stand for are reduced.
Values(f, slen, len, logn, inNtt) ==
  LET n == 2^logn
      plain == Computed([u \in 1 .. slen |-> IF inNtt THEN Intt2(f[u], logn, u) ELSE f[u]])
      values(whole) ==
        Computed([u \in 1 .. len |->
           IF u > slen THEN Ntt2(Reduced(whole, n, u), logn, u)
           ELSE IF inNtt THEN f[u] ELSE Ntt2(f[u], logn, u)])
  IN  Apply(values, Rebuilt(plain, slen, n))

MakeFgStep(f, logn, depth, inNtt, outNtt) ==
  LET half(vals, u) == PolyRecRes(vals[u], 2^logn, Primes[u])
  IN  Apply(LAMBDA vals :
        Computed([u \in 1 .. SmallLen[depth + 1] |->
           IF outNtt THEN half(vals, u) ELSE Apply(LAMBDA h : Intt2(h, logn - 1, u), half(vals, u))]),
        Values(f, SmallLen[depth], SmallLen[depth + 1], logn, inNtt))

RECURSIVE MakeFgFrom(_, _, _, _, _)
MakeFgFrom(f, logn, d, depth, outNtt) ==
  IF d = depth THEN f
  ELSE Apply(LAMBDA h : MakeFgFrom(h, logn, d + 1, depth, outNtt),
             MakeFgStep(f, logn - d, d, d # 0, d + 1 < depth \/ outNtt))
Small(f, n, p) == Tabulate(n, LAMBDA v : ModpSet(f[v], p))
MakeFg(f, logn, depth, outNtt) ==
  LET f0 == Small(f, 2^logn, Primes[1].p)
  IN  IF depth = 0 /\ outNtt THEN <<Ntt2(f0, logn, 1)>>
      ELSE MakeFgFrom(<<f0>>, logn, 0, depth, outNtt)

\* At the bottom f and g are integers, their resultants with X^n + 1.
None == <<>>
SolveDeepest(f, g, logn) ==
  LET len == SmallLen[logn]
      whole(h) == LET r == MakeFg(h, logn, logn, FALSE) IN RebuildCrt([u \in 1 .. len |-> r[u][0]], FALSE)
      made(b) ==
        LET bf == MulSmall(b.v, Q)
            bg == MulSmall(b.u, Q)
        IN  IF ~b.ok \/ bf.out # 0 \/ bg.out # 0 THEN None
            ELSE [F |-> [v \in {0} |-> bf.limbs], G |-> [v \in {0} |-> bg.limbs]]
  IN  Apply(made, Apply(LAMBDA w : Bezout(w[1], w[2]), <<whole(f), whole(g)>>))

-----------------------------------------------------------------------------
(* The way up: F and G of half the degree times the conjugates of g and f, *)
(* less the multiple k of (f, g) that makes them short.  The source finds  *)
(* k by floating-point transforms; here it is the exact quotient, rounded. *)

SumOver(n, F(_)) == LET s[j \in 0 .. n] == IF j = 0 THEN 0 ELSE s[j - 1] + F(j - 1) IN s[n]
PolyMul(a, b, n) ==
  LET coefficient(x, y, i) == SumOver(n, LAMBDA j : IF j <= i THEN x[j] * y[i - j] ELSE -(x[j] * y[n + i - j]))
  IN  Apply(LAMBDA w : Tabulate(n, LAMBDA i : coefficient(w[1], w[2], i)), <<Computed(a), Computed(b)>>)
Adj(a, n) == [i \in 0 .. n - 1 |-> IF i = 0 THEN a[0] ELSE -a[n - i]]
PlusPoly(a, b, n) == [i \in 0 .. n - 1 |-> a[i] + b[i]]

\* a and an integer N with a * d = N: d(-X) times that of d(X) * d(-X), a
\* polynomial in X^2 of half the degree.
RECURSIVE Adjugate(_, _)
Adjugate(d, n) ==
  LET opp == Tabulate(n, LAMBDA i : IF i % 2 = 1 THEN -d[i] ELSE d[i])
      even(sq) == Tabulate(n \div 2, LAMBDA i : sq[2 * i])
      spread(a) == Tabulate(n, LAMBDA i : IF i % 2 = 0 THEN a[i \div 2] ELSE 0)
  IN  IF n = 1 THEN [a |-> [i \in {0} |-> 1], N |-> d[0]]
      ELSE Apply(LAMBDA sub : [a |-> PolyMul(opp, spread(sub.a), n), N |-> sub.N],
                 Apply(LAMBDA h : Adjugate(h, n \div 2), Apply(even, PolyMul(d, opp, n))))

RoundEven(x, d) ==
  (x \div d) + IF 2 * (x % d) > d \/ (2 * (x % d) = d /\ (x \div d) % 2 = 1) THEN 1 ELSE 0
RoundScaled(x, d, scale) ==
  IF scale = 0 THEN RoundEven(x, d) ELSE ((x \div d) + 2^(scale - 1)) \div 2^scale
\* (F * adj f + G * adj g) / (f * adj f + g * adj g) / 2^scale.
Babai(bf, bg, f, g, n, scale) ==
  LET against(x, y) == PlusPoly(PolyMul(x, Adj(f, n), n), PolyMul(y, Adj(g, n), n), n)
      rounded(quo, N) == Tabulate(n, LAMBDA u : RoundScaled(quo[u], N, scale))
  IN  Apply(LAMBDA inv : Apply(LAMBDA quo : rounded(quo, inv.N), PolyMul(against(bf, bg), inv.a, n)),
            Apply(LAMBDA d : Adjugate(d, n), against(f, g)))

\* The integer in limbs, with its sign.
PolyBigToFp(x) ==
  LET v[u \in 1 .. Len(x) + 1] == IF u > Len(x) THEN 0 ELSE x[u] + (Limb * v[u + 1])
      neg == Negate(x, 1)
      w[u \in 1 .. Len(x) + 1] == IF u > Len(x) THEN 0 ELSE neg[u] + (Limb * w[u + 1])
  IN  IF SignBit(x) = 1 THEN -w[1] ELSE v[1]

RECURSIVE FoldedTo(_, _, _)
FoldedTo(n, F(_, _), z) == IF n = 0 THEN z ELSE Apply(LAMBDA y : F(n - 1, y), FoldedTo(n - 1, F, z))

\* x - k * y * 2^(WordBits * sch + scl), one product of coefficients after another, the
\* sign of k turning where the exponent passes n.
PolySubScaled(x, y, k, sch, scl, n) ==
  LET term(i, u, z) == LET v == (i - u) % n
                       IN  AddScaledMulSmall(z, y[v], IF u + v >= n THEN k[u] ELSE -k[u], sch, scl)
  IN  Tabulate(n, LAMBDA i : FoldedTo(n, LAMBDA u, z : term(i, u, z), x[i]))

\* The same with the product computed by transforms, modulo a prime more than
\* y has limbs.
PolySubScaledNtt(x, y, k, glen, sch, scl, logn) ==
  LET n == 2^logn
      times(w, u) == Intt2(Tabulate(n, LAMBDA v : Times(w[1][v], w[2][v], Primes[u])), logn, u)
      product(u) == Apply(LAMBDA w : times(w, u),
                      <<Ntt2(Small(k, n, Primes[u].p), logn, u), Ntt2(Reduced(y, n, u), logn, u)>>)
  IN  Apply(LAMBDA prod : Tabulate(n, LAMBDA i : SubScaled(x[i], prod[i], sch, scl)),
            Rebuilt(Computed([u \in 1 .. glen + 1 |-> product(u)]), glen + 1, n))

\* F' * conj g and G' * conj f modulo a prime: of two neighbouring values each
\* gets the other's factor.
Lifted(half, other, logn, u) ==
  Intt2(Tabulate(2^logn, LAMBDA v :
          Times(other[IF v % 2 = 0 THEN v + 1 ELSE v - 1], half[v \div 2], Primes[u])), logn, u)

\* Shrink F by k while its scale goes down to zero, and the room F is given
\* with it.
RECURSIVE Reduce(_, _, _, _, _)
Reduce(z, f, g, logn, depth) ==
  LET n == 2^logn
      slen == SmallLen[depth]
      cut(x) == Tabulate(n, LAMBDA v : SubSeq(x[v], 1, z.fglen))
      reals(x) == Tabulate(n, LAMBDA v : PolyBigToFp(x[v]))
      multiple(w) == Babai(w[1], w[2], w[3], w[4], n, z.scale)
      less(x, y, k) ==
        IF depth <= PlainBelow
        THEN PolySubScaledNtt(x, y, k, slen, z.scale \div WordBits, z.scale % WordBits, logn)
        ELSE PolySubScaled(x, y, k, z.scale \div WordBits, z.scale % WordBits, n)
      room == z.scale + BitLength[depth][1] + (6 * BitLength[depth][2]) + 10
      bl == IF room < z.maxbl THEN room ELSE z.maxbl
      shrinks == room < z.maxbl /\ z.fglen * WordBits >= bl + WordBits
      next(w, k) == [F |-> less(w[1], f, k), G |-> less(w[2], g, k), maxbl |-> bl,
                     fglen |-> IF shrinks THEN z.fglen - 1 ELSE z.fglen,
                     scale |-> IF z.scale <= Stride THEN 0 ELSE z.scale - Stride]
      step(w, k) ==
        IF \E u \in 0 .. n - 1 : k[u] <= -(Limb - 1) \/ k[u] >= Limb - 1 THEN None
        ELSE IF z.scale <= 0 THEN next(w, k)
        ELSE Apply(LAMBDA x : Reduce(x, f, g, logn, depth), next(w, k))
  IN  Apply(LAMBDA w : Apply(LAMBDA k : step(w, k),
              Apply(multiple, <<reals(w[1]), reals(w[2]), reals(f), reals(g)>>)),
            <<cut(z.F), cut(z.G)>>)

\* The first slen limbs, the sign repeated in those that are missing.
Fitted(x, fglen, slen, n) ==
  Tabulate(n, LAMBDA v : [u \in 1 .. slen |-> Extended(SubSeq(x[v], 1, fglen), u)])

SolveIntermediate(z, f, g, top, depth) ==
  LET logn == top - depth
      n == 2^logn
      slen == SmallLen[depth]
      llen == LargeLen[depth]
      half(x, u) == Ntt2(Reduced(x, n \div 2, u), logn - 1, u)
      plain(x) == Rebuilt(Computed([u \in 1 .. slen |-> Intt2(x[u], logn, u)]), slen, n)
      lifted(x, other) ==
        Apply(LAMBDA v : Rebuilt(Computed([u \in 1 .. llen |-> Apply(LAMBDA h : Lifted(h, v[u], logn, u), half(x, u))]), llen, n),
              Values(other, slen, llen, logn, TRUE))
      reduced(fv, gv) ==
        Apply(LAMBDA w : Reduce(w[1], w[2], w[3], logn, depth),
          <<[F |-> lifted(z.F, gv), G |-> lifted(z.G, fv), fglen |-> llen, maxbl |-> WordBits * llen,
             scale |-> (WordBits * llen) - (BitLength[depth][1] - (6 * BitLength[depth][2]))],
            plain(fv), plain(gv)>>)
      fitted(short) ==
        IF short = None THEN None
        ELSE [F |-> Fitted(short.F, short.fglen, slen, n), G |-> Fitted(short.G, short.fglen, slen, n)]
  IN  Apply(fitted, Apply(LAMBDA w : reduced(w[1], w[2]), <<MakeFg(f, top, depth, TRUE), MakeFg(g, top, depth, TRUE)>>))

\* One level below the top the reduction is done in one pass, on numbers.
RECURSIVE RecResTo(_, _, _, _)
RecResTo(f, n, to, e) == IF n = to THEN f ELSE RecResTo(PolyRecRes(f, n, e), n \div 2, to, e)
SolveDepth1(z, f, g, top) ==
  LET logn == top - 1
      n == 2^logn
      slen == SmallLen[1]
      llen == LargeLen[1]
      vals(h, u) == RecResTo(Ntt2(Small(h, 2 * n, Primes[u].p), top, u), 2 * n, n, Primes[u])
      half(x, u) == Ntt2(Reduced(x, n \div 2, u), logn - 1, u)
      numbers(x, len) == Apply(LAMBDA r : Tabulate(n, LAMBDA v : PolyBigToFp(r[v])), Rebuilt(Computed(x), len, n))
      small(h) == numbers([u \in 1 .. slen |-> Intt2(vals(h, u), logn, u)], slen)
      lifted(x, other) ==
        numbers([u \in 1 .. llen |-> Apply(LAMBDA w : Lifted(w[1], w[2], logn, u), <<half(x, u), vals(other, u)>>)], llen)
      less(x, y) == Tabulate(n, LAMBDA v : x[v] - y[v])
      reduced(w, k) == [F |-> Apply(LAMBDA y : less(w[1], y), PolyMul(k, w[3], n)),
                        G |-> Apply(LAMBDA y : less(w[2], y), PolyMul(k, w[4], n))]
  IN  Apply(LAMBDA w : Apply(LAMBDA k : reduced(w, k), Babai(w[1], w[2], w[3], w[4], n, 0)),
            <<lifted(z.F, g), lifted(z.G, f), small(f), small(g)>>)

\* At the top everything fits in one prime.
SolveDepth0(z, f, g, logn) ==
  LET n == 2^logn
      e == Primes[1]
      p == e.p
      ntt(x, l) == Ntt2(Small(x, 2^l, p), l, 1)
      adj(x) == Apply(LAMBDA y : Ntt2(y, logn, 1), Small(Adj(x, n), n, p))
      lifted(x, other) == Ntt2(Lifted(ntt(x, logn - 1), other, logn, 1), logn, 1)
      norm(x) == Apply(LAMBDA y : Tabulate(n, LAMBDA v : ModpNorm(y[v], p)), Intt2(x, logn, 1))
      dot(a, b, c, d) == norm(Tabulate(n, LAMBDA v : ModpAdd(Times(a[v], b[v], e), Times(c[v], d[v], e), p)))
      quotient(num, den) ==
        Apply(LAMBDA inv : Apply(LAMBDA quo : ntt(Tabulate(n, LAMBDA v : RoundEven(quo[v], inv.N)), logn),
                                 PolyMul(num, inv.a, n)),
              Adjugate(den, n))
      less(x, k, y) == norm(Tabulate(n, LAMBDA v : ModpSub(x[v], Times(k[v], y[v], e), p)))
      \* f and g with their adjoints, then F and G
      reduced(t, w) == Apply(LAMBDA k : [F |-> less(w[1], k, t[1]), G |-> less(w[2], k, t[2])],
                         Apply(LAMBDA q : quotient(q[1], q[2]),
                           <<dot(t[3], w[1], t[4], w[2]), dot(t[3], t[1], t[4], t[2])>>))
  IN  Apply(LAMBDA t : Apply(LAMBDA w : reduced(t, w), <<lifted(z.F, t[2]), lifted(z.G, t[1])>>),
            <<ntt(f, logn), ntt(g, logn), adj(f), adj(g)>>)

\* One level after another; degrees up to four take the general step only.
RECURSIVE SolveFrom(_, _, _, _, _, _)
SolveFrom(z, f, g, top, depth, last) ==
  IF z = None \/ depth = last THEN z
  ELSE Apply(LAMBDA y : SolveFrom(y, f, g, top, depth - 1, last), SolveIntermediate(z, f, g, top, depth - 1))
PolyBigToSmall(x, lim) == \A v \in DOMAIN x : x[v] >= -lim /\ x[v] <= lim

\* f * G - g * F = Q at every root, modulo the first prime.
IsSolution(f, g, z, logn) ==
  LET e == Primes[1]
      ntt(x) == Ntt2(Small(x, 2^logn, e.p), logn, 1)
      holds(w) == \A v \in 0 .. 2^logn - 1 :
        ModpSub(MontyMul(w[1][v], w[4][v], e), MontyMul(w[2][v], w[3][v], e), e.p) = MontyMul(Q, 1, e)
  IN  Apply(holds, <<ntt(f), ntt(g), ntt(z.F), ntt(z.G)>>)

SolveNtru(f, g, logn, lim) ==
  LET plain(x) == Tabulate(2^logn, LAMBDA v : OneToPlain(x[v]))
      solved(low) ==
        IF logn <= 2 THEN [F |-> plain(low.F), G |-> plain(low.G)]
        ELSE Apply(LAMBDA z : SolveDepth0(z, f, g, logn), SolveDepth1(low, f, g, logn))
      checked(z) ==
        IF PolyBigToSmall(z.F, lim) /\ PolyBigToSmall(z.G, lim) /\ IsSolution(f, g, z, logn) THEN z ELSE None
      finished(low) == IF low = None THEN None ELSE Apply(checked, solved(low))
  IN  Apply(finished,
        Apply(LAMBDA deep : SolveFrom(deep, f, g, logn, logn, IF logn <= 2 THEN 0 ELSE 2), SolveDeepest(f, g, logn)))
=============================================================================
