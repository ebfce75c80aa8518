-------------------------------- MODULE Ntru --------------------------------
(***************************************************************************)
(* The two families of NTRU, pqc/src/ntru: arithmetic in Z_q[x]/(x^n - 1)  *)
(* and its quotients, key generation, encryption of a pair [r, m] of       *)
(* ternary polynomials, and a decryption that recovers the pair and says   *)
(* whether it could have been sent.  Words are multiples of q, so a        *)
(* coefficient is kept modulo q.  A packed ciphertext is its n - 1         *)
(* coefficients and what is left of the last byte.                         *)
(***************************************************************************)
EXTENDS Integers, Functions, Sequences, FiniteSets

CONSTANTS N, LogQ,
          FixedWeight \* TRUE for the family HPS, FALSE for HRSS

Q == 2^LogQ
Weight == Q \div 8 - 2
Exps == 0 .. N - 1
Packed == 0 .. N - 2

Sum(f) == SumFunctionOnSet(f, DOMAIN f)
Circulant(a, b) == [k \in Exps |-> Sum([i \in Exps |-> a[(k - i) % N] * b[i]])]
\* The value of an expression, computed where it is named.
Value(x) == CHOOSE v \in {x} : v = x
Reduced(a, m) == Value([k \in Exps |-> a[k] % m])
ModPhi(a, m) == Value([k \in Exps |-> (a[k] - a[N - 1]) % m])

RqMul(a, b) == Reduced(Circulant(a, b), Q)
SqMul(a, b) == ModPhi(Circulant(a, b), Q)
S3Mul(a, b) == ModPhi(Circulant(a, b), 3)

Z3ToZq(a) == [k \in Exps |-> IF a[k] = 2 THEN Q - 1 ELSE a[k]]
ZqToZ3(a) == [k \in Exps |-> IF a[k] % Q = Q - 1 THEN 2 ELSE a[k] % Q]

\* Slip: the representative of the upper half taken modulo 3 as it stands.
RqToS3Uncentred(a) == ModPhi(a, 3)
RqToS3(a) == ModPhi([k \in Exps |-> IF 2 * a[k] >= Q THEN a[k] - Q ELSE a[k]], 3)

-----------------------------------------------------------------------------
Mod2 == INSTANCE DivSteps WITH M <- 2, D <- N - 1, F <- [i \in Exps |-> 1]
Mod3 == INSTANCE DivSteps WITH M <- 3, D <- N - 1, F <- [i \in Exps |-> 1]

\* The input modulo Phi_n, from the highest exponent down.
Reversed(a, m) == [i \in Exps |-> IF i = N - 1 THEN 0 ELSE (a[N - 2 - i] - a[N - 1]) % m]
Unreversed(v) == [i \in Exps |-> IF i = N - 1 THEN 0 ELSE v[N - 2 - i]]

R2Inv(a) == Unreversed(Mod2!Steps(Reversed(a, 2), 1, 2 * (N - 1) - 1).v)
S3Inv(a) == LET end == Mod3!Steps(Reversed(a, 3), 1, 2 * (N - 1) - 1)
            IN  Unreversed(Mod3!Times(end.f[0], end.v))

\* Newton's iteration doubles the precision of an inverse modulo 2.
\* Slip: two doublings, which reach 2^4.
DoublingsTwo == 2
Doublings == 4
Newton(v, a) ==
  LET prod == RqMul(v, a)
  IN  RqMul([k \in Exps |-> (IF k = 0 THEN 2 ELSE 0) - prod[k]], v)
RqInv(a) == LET at[i \in 0 .. Doublings] == IF i = 0 THEN R2Inv(a) ELSE Newton(at[i - 1], a)
            IN  at[Doublings]

-----------------------------------------------------------------------------
Ternary == {a \in [Exps -> 0 .. 2] : a[N - 1] = 0}
Count(a, c) == Cardinality({k \in Exps : a[k] = c})
FixedType == {a \in Ternary : Count(a, 1) = Weight \div 2 /\ Count(a, 2) = Weight \div 2}

\* sample_iid_plus: signs at even exponents flipped where a and x a correlate
\* negatively.
Plus(a) ==
  LET s == [k \in Exps |-> IF a[k] = 2 THEN -1 ELSE a[k]]
      sign == IF Sum([k \in Packed |-> s[k + 1] * s[k]]) < 0 THEN -1 ELSE 1
  IN  [k \in Exps |-> IF k % 2 = 0 THEN (sign * s[k]) % 3 ELSE a[k]]

SecretF == IF FixedWeight THEN Ternary ELSE {Plus(a) : a \in Ternary}
SecretG == IF FixedWeight THEN FixedType ELSE {Plus(a) : a \in Ternary}
Pairs == [r : Ternary, m : IF FixedWeight THEN FixedType ELSE Ternary]

\* g times 3, or times 3 (x - 1).
Spread(g) == IF FixedWeight THEN [k \in Exps |-> 3 * g[k]]
                    ELSE [k \in Exps |-> 3 * ((IF k = 0 THEN 0 ELSE g[k - 1]) - g[k])]

\* lift_hrss: m divided by x - 1 modulo (3, Phi_n), and multiplied again over
\* the larger ring, so that the result is m modulo (3, Phi_n) and has sum zero.
Quotient(a) ==
  LET t == 3 - (N % 3)
      z(i) == ((i - 3) * t) % 3
      Rest(c) == Sum([i \in 3 .. N - 1 |-> a[i] * (z(i) + c)])
      first == <<a[0] * (2 - t) + a[2] * t + Rest(2 * t),
                 a[1] * (2 - t) + Rest(t) + a[0] * (z(N) + t),
                 a[2] * (2 - t) + Rest(0) + a[0] * z(N) + a[1] * (z(N) + t)>>
  IN  \* three places on, twice what lies between is added
      ModPhi([i \in Exps |-> first[(i % 3) + 1] + 2 * Sum([j \in (i % 3) + 1 .. i |-> a[j]])], 3)
LiftHrss(a) ==
  LET b == Z3ToZq(Quotient(a))
  IN  [k \in Exps |-> ((IF k = 0 THEN 0 ELSE b[k - 1]) - b[k]) % Q]
Lift(m) == IF FixedWeight THEN Z3ToZq(m) ELSE LiftHrss(m)

-----------------------------------------------------------------------------
\* Only n - 1 coefficients travel; the last one makes the sum zero.
ToBytes(a) == [k \in Packed |-> a[k] % Q]
SumZero(bytes) == [k \in Exps |-> IF k = N - 1 THEN (-Sum(bytes)) % Q ELSE bytes[k]]
Padded(bytes) == [k \in Exps |-> IF k = N - 1 THEN 0 ELSE bytes[k]]

KeyPair(f, g) ==
  LET fq == Z3ToZq(f)
      gq == Spread(Z3ToZq(g))
      inv == RqInv(RqMul(gq, fq))
  IN  [f |-> f, finv |-> S3Inv(f),
       hinv |-> ToBytes(SqMul(RqMul(inv, fq), fq)),
       h |-> ToBytes(RqMul(RqMul(inv, gq), gq))]

\* What key generation inverts has an inverse, and so the halves of a key are
\* inverse polynomials.
One == [k \in Exps |-> IF k = 0 THEN 1 ELSE 0]
InversionsReturn(f, g) ==
  LET gf == RqMul(Spread(Z3ToZq(g)), Z3ToZq(f))
  IN  /\ RqInv(gf) \in [Exps -> 0 .. Q - 1] /\ SqMul(RqInv(gf), gf) = One
      /\ S3Inv(f) \in [Exps -> 0 .. 2] /\ S3Mul(f, S3Inv(f)) = One
HalvesInvert(key) ==
  /\ key.h \in [Packed -> 0 .. Q - 1] /\ key.hinv \in [Packed -> 0 .. Q - 1]
  /\ SqMul(SumZero(key.h), Padded(key.hinv)) = One

\* What decryption rests on besides: r g + m f over the integers, each with
\* its signs and m lifted, does not wrap.
Signed(a) == [k \in Exps |-> IF a[k] = 2 THEN -1 ELSE a[k]]
SignedLift(m) ==
  IF FixedWeight THEN Signed(m)
  ELSE LET b == Signed(Quotient(m)) IN [k \in Exps |-> (IF k = 0 THEN 0 ELSE b[k - 1]) - b[k]]
NoiseFits(f, g, x) ==
  LET rg == Circulant(Signed(x.r), Spread(Signed(g)))
      mf == Circulant(SignedLift(x.m), Signed(f))
  IN  \A k \in Exps : -Q <= 2 * (rg[k] + mf[k]) /\ 2 * (rg[k] + mf[k]) < Q

\* Bits of the last byte that no coefficient uses.
PadBits == (-(LogQ * (N - 1))) % 8
Encrypt(key, x) ==
  LET prod == RqMul(Z3ToZq(x.r), SumZero(key.h))
      lift == Lift(x.m)
  IN  [core |-> ToBytes([k \in Exps |-> prod[k] + lift[k]]), pad |-> 0]

\* Slip: the unused bits not looked at.
CheckCiphertextNone(c) == TRUE
CheckCiphertext(c) == c.pad = 0
CheckM(m) == FixedWeight => m \in FixedType
CheckR(r) == r[N - 1] = 0 /\ \A k \in Packed : r[k] \in {0, 1, Q - 1}

\* What decryption makes of a ciphertext: the pair, and whether any encryption
\* could have sent it.
Decrypt(key, c) ==
  LET v == SumZero(c.core)
      m == S3Mul(RqToS3(RqMul(v, Z3ToZq(key.f))), key.finv)
      lift == Lift(m)
      r == SqMul([k \in Exps |-> v[k] - lift[k]], Padded(key.hinv))
  IN  [ok |-> CheckCiphertext(c) /\ CheckM(m) /\ CheckR(r),
       x |-> [r |-> ZqToZ3(r), m |-> m]]

\* The secret is the hash of the pair, or of the key's seed and the
\* ciphertext.
Encapsulate(key, x) == [c |-> Encrypt(key, x), ss |-> <<"k", x>>]
Decapsulate(key, prf, c) ==
  LET d == Decrypt(key, c) IN IF d.ok THEN <<"k", d.x>> ELSE <<"prf", prf, c>>

-----------------------------------------------------------------------------
\* sampling.rs: a byte folded to a residue modulo 3.
Fold(r, bits) == (r \div 2^bits) + (r % 2^bits)
Mod3Sample(b) == LET r == Fold(Fold(Fold(b, 4), 2), 2) IN IF r < 3 THEN r ELSE r - 3

\* The lesser and the greater of two signed words, of `w` bits here, from the
\* sign of a difference that wraps.  XOR of words is addition without carry.
Bit(a, j) == (a \div 2^j) % 2
Xor(a, b, w) == Sum([j \in 0 .. w - 1 |-> ((Bit(a, j) + Bit(b, j)) % 2) * 2^j])
And(a, b, w) == Sum([j \in 0 .. w - 1 |-> Bit(a, j) * Bit(b, j) * 2^j])
\* Slip: the sign of the wrapped difference taken as it is.
MinMaxWrapped(a, b, w) ==
  LET c == ((b - a) % 2^w) \div 2^(w - 1)
  IN  IF c = 1 THEN <<b, a>> ELSE <<a, b>>
MinMax(a, b, w) ==
  LET ab == Xor(b, a, w)
      d == (b - a) % 2^w
      sign == Xor(d, And(ab, Xor(d, b, w), w), w) \div 2^(w - 1)
      c == And(IF sign = 1 THEN 2^w - 1 ELSE 0, ab, w)
  IN  <<Xor(a, c, w), Xor(b, c, w)>>

\* crypto_sort_int32 compares the same places whatever they hold: the places
\* it compares, in order, for n words.  The first pass of a distance p takes
\* neighbours at p; a round q of its merge carries the word at j + p past those
\* at j + q, j + q/2, .. j + 2 p, and takes up j where the last round left it.
Seq0(n, Op(_)) == [k \in 1 .. n |-> Op(k - 1)]
TopFrom(start, n) ==
  LET doubled[top \in Nat] == IF top < n - top THEN doubled[2 * top] ELSE top IN doubled[start]
Pairs0(p, n) ==
  LET one(i, k) == <<i + k, i + k + p>>
      from[i \in Nat] ==
        IF i + 2 * p <= n THEN Seq0(p, LAMBDA k : one(i, k)) \o from[i + 2 * p]
        ELSE Seq0(IF n - p > i THEN n - p - i ELSE 0, LAMBDA k : one(i, k))
  IN  from[0]
Chain(j, p, q) ==
  LET past[r \in Nat] == IF r <= p THEN <<>> ELSE <<<<j + p, j + r>>>> \o past[r \div 2]
  IN  past[q]
Chains(first, end, p, q) ==
  LET from[j \in Nat] == IF j >= end THEN <<>> ELSE Chain(j, p, q) \o from[j + 1]
  IN  from[first]
Blocks(n, p, q, first) ==
  LET from[i \in Nat] ==
        IF i + p <= n - q
        THEN [from[i + 2 * p] EXCEPT !.net = Chains(i, i + p, p, q) \o @]
        ELSE [net |-> Chains(i, n - q, p, q), i |-> i, j |-> IF n - q > i THEN n - q ELSE i]
  IN  from[first]
\* Slip: the unfinished block of the round before not taken up.
RoundDropped(n, p, q, i, j) == Blocks(n, p, q, IF j = i THEN i ELSE i + 2 * p)
Round(n, p, q, i, j) ==
  IF j = i THEN Blocks(n, p, q, i)
  ELSE IF n - q < i + p
       THEN [net |-> Chains(j, n - q, p, q), i |-> i, j |-> n - q]
       ELSE [Blocks(n, p, q, i + 2 * p) EXCEPT !.net = Chains(j, i + p, p, q) \o @]

Merge(n, p, top) ==
  LET from[q \in Nat, i \in Nat, j \in Nat] ==
        IF q <= p THEN <<>>
        ELSE LET done == Round(n, p, q, i, j) IN done.net \o from[q \div 2, done.i, done.j]
  IN  from[top, 0, 0]
SortFrom(n, top) ==
  LET net[p \in Nat] == IF p = 0 THEN <<>> ELSE Pairs0(p, n) \o Merge(n, p, top) \o net[p \div 2]
  IN  net[top]
SortInt32(n) == SortFrom(n, TopFrom(1, n))

\* x, numbered from 0, after the comparisons of a net.
Compared(x, i, j) == IF x[i] <= x[j] THEN x ELSE [x EXCEPT ![i] = x[j], ![j] = x[i]]
Through(net, x) ==
  LET after[k \in 0 .. Len(net)] == IF k = 0 THEN x ELSE Compared(after[k - 1], net[k][1], net[k][2])
  IN  after[Len(net)]

\* poly.rs: five ternary coefficients to a byte, read back by products that
\* stand for divisions by 3, 9, 27 and 81.
S3Byte(t) == t[0] + 3 * (t[1] + 3 * (t[2] + 3 * (t[3] + 3 * t[4])))
\* Slip: 57/512 taken for 1/9 with one bit less.
S3DigitsShort(c) ==
  [i \in 0 .. 4 |-> (CASE i = 0 -> c [] i = 1 -> (c * 171) \div 2^9 [] i = 2 -> (c * 28) \div 2^8
                       [] i = 3 -> (c * 19) \div 2^9 [] i = 4 -> (c * 203) \div 2^14) % 3]
S3Digits(c) ==
  [i \in 0 .. 4 |-> (CASE i = 0 -> c [] i = 1 -> (c * 171) \div 2^9 [] i = 2 -> (c * 57) \div 2^9
                       [] i = 3 -> (c * 19) \div 2^9 [] i = 4 -> (c * 203) \div 2^14) % 3]

\* Coefficients poured into a word from above and drained from below, a byte at
\* a time; what is left fills a last byte.
SqToBytes(coefs) ==
  LET drain[acc \in Nat, bits \in Nat, left \in Seq(Nat)] ==
        IF bits >= 8 THEN <<acc % 256>> \o drain[acc \div 256, bits - 8, left]
        ELSE IF left = <<>> THEN IF bits > 0 THEN <<acc % 256>> ELSE <<>>
        ELSE drain[acc + (Head(left) % Q) * 2^bits, bits + LogQ, Tail(left)]
  IN  drain[0, 0, coefs]
SqFromBytes(bytes) ==
  LET fill[acc \in Nat, bits \in Nat, left \in Seq(Nat), count \in Nat] ==
        IF count = 0 THEN <<>>
        ELSE IF bits < LogQ THEN fill[acc + Head(left) * 2^bits, bits + 8, Tail(left), count]
        ELSE <<acc % Q>> \o fill[acc \div Q, bits - LogQ, left, count - 1]
  IN  fill[0, 0, bytes, N - 1]
=============================================================================
