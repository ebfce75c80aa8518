------------------------------ MODULE NtruPrime ------------------------------
(***************************************************************************)
(* Streamlined NTRU Prime, pqc/src/sntrup: Z_q[x]/(x^p - x - 1) with        *)
(* centred coefficients, keys from two inversions, the encryption of a     *)
(* short polynomial by rounding, and the confirmation and re-encryption    *)
(* around it.  Hashes are the tuples they hash, under the prefix byte of   *)
(* the source.  A coded polynomial is its coefficients; `pad` stands for   *)
(* the strings that decode to the same coefficients and are not what       *)
(* encoding produces.                                                      *)
(***************************************************************************)
EXTENDS Integers, Sequences, FiniteSets, Functions

CONSTANTS P, Q, W

Exps == 0 .. P - 1

Centre(x, m) == ((x + (m - 1) \div 2) % m) - ((m - 1) \div 2)

\* The value of an expression, computed where it is named.
Value(x) == CHOOSE v \in {x} : v = x

\* x^p is x + 1, and no product reaches x^(2p).
Mult(a, b, m) ==
  LET ab == Value([k \in 0 .. 2 * P - 1 |->
               SumFunctionOnSet([j \in Exps |-> IF k - j \in Exps THEN a[j] * b[k - j] ELSE 0], Exps)])
  IN  Value([k \in Exps |->
        Centre(ab[k] + ab[k + P] + (IF k = 0 THEN 0 ELSE ab[k + P - 1]), m)])

Modulus(m) == [i \in 0 .. P |-> IF i = 0 THEN 1 ELSE IF i >= P - 1 THEN m - 1 ELSE 0]
F3 == INSTANCE DivSteps WITH M <- 3, D <- P, F <- Modulus(3)
Fq == INSTANCE DivSteps WITH M <- Q, D <- P, F <- Modulus(Q)
Reversed(a, m) == [i \in 0 .. P |-> IF i = P THEN 0 ELSE a[P - 1 - i] % m]

\* What division steps left, when they reached the inverse.
R3Invertible(end) == end.delta = 0
R3Recip(end) == Value([i \in Exps |-> Centre(end.f[0] * end.v[P - 1 - i], 3)])

\* The inverse of 3 f: the cofactor starts at a third.
RqRecip3(f) ==
  LET end == Fq!Steps(Reversed(f, Q), Fq!Recip(3), 2 * P - 1)
  IN  Value([i \in Exps |-> Centre(Fq!Recip(end.f[0]) * end.v[P - 1 - i], Q)])

Small == [Exps -> -1 .. 1]
Weight(a) == Cardinality({i \in Exps : a[i] % 2 = 1})
Short == {a \in Small : Weight(a) = W}

\* Key generation gives up when g has no inverse modulo 3.
NoKey == [h |-> "none"]
KeyPair(f, g) ==
  LET end == F3!Steps(Reversed(g, 3), 1, 2 * P - 1)
  IN  IF R3Invertible(end) THEN [f |-> f, ginv |-> R3Recip(end), h |-> Mult(RqRecip3(f), g, Q)]
                           ELSE NoKey

\* What key generation inverts, modulo 3 and modulo q, has an inverse.
One == [i \in Exps |-> IF i = 0 THEN 1 ELSE 0]
InversionsReturn(f, g) ==
  LET end == F3!Steps(Reversed(g, 3), 1, 2 * P - 1)
  IN  /\ R3Invertible(end)
      /\ R3Recip(end) \in [Exps -> Int] /\ Mult(g, R3Recip(end), 3) = One
      /\ RqRecip3(f) \in [Exps -> Int] /\ Mult([i \in Exps |-> 3 * f[i]], RqRecip3(f), Q) = One

-----------------------------------------------------------------------------
Round(a) == [i \in Exps |-> a[i] - Centre(a[i], 3)]
Encrypt(r, h) == Round(Mult(h, r, Q))

\* A result of the wrong weight becomes w ones.
Decrypt(key, core) ==
  LET cf3 == Value([i \in Exps |-> Centre(3 * Mult(core, key.f, Q)[i], Q)])
      ev == Mult([i \in Exps |-> Centre(cf3[i], 3)], key.ginv, 3)
  IN  IF Weight(ev) = W THEN ev ELSE [i \in Exps |-> IF i < W THEN 1 ELSE 0]

Hide(key, cache, r) ==
  [core |-> Encrypt(r, key.h), pad |-> 0, confirm |-> <<2, <<3, r>>, cache>>]

HashSession(b, r, c) == <<b, <<3, r>>, c>>

Encapsulate(key, cache, r) ==
  LET c == Hide(key, cache, r) IN [c |-> c, ss |-> HashSession(1, r, c)]

\* Slip: the confirmation left out of the comparison.
SameCore(c, d) == [c EXCEPT !.confirm = d.confirm] = d
Same(c, d) == c = d
Decapsulate(sk, ek, cache, rho, c) ==
  LET r == Decrypt(sk, c.core)
  IN  IF Same(c, Hide(ek, cache, r)) THEN HashSession(1, r, c) ELSE HashSession(0, rho, c)

-----------------------------------------------------------------------------
\* encoding.rs: digit i below m[i]; neighbours are joined into one digit of the
\* product, from which bytes are let out while it is too large, and so on with
\* the joined digits.  Lists are numbered from 1.
Threshold == 2^14
Lookahead == 256 * 16383

Ceil256(m) == (m + 255) \div 256

Flush(r, m, limit) == \* the bytes let out, and what is left
  LET left[d \in Nat, n \in Nat] ==
        IF n < limit THEN [out |-> <<>>, r |-> d, m |-> n]
        ELSE [left[d \div 256, Ceil256(n)] EXCEPT !.out = <<d % 256>> \o @]
  IN  left[r, m]

Halves(len) == (len + 1) \div 2
Encode(digits, radices) ==
  LET bytes[r \in Seq(Nat), m \in Seq(Nat)] ==
        LET len == Len(m)
            joined == [k \in 1 .. len \div 2 |->
                         Flush(r[2 * k - 1] + r[2 * k] * m[2 * k - 1], m[2 * k - 1] * m[2 * k], Threshold)]
            outs[k \in 0 .. len \div 2] == IF k = 0 THEN <<>> ELSE outs[k - 1] \o joined[k].out
        IN  IF len = 1 THEN Flush(r[1], m[1], 2).out
            ELSE outs[len \div 2] \o
                 bytes[[k \in 1 .. Halves(len) |-> IF 2 * k <= len THEN joined[k].r ELSE r[len]],
                       [k \in 1 .. Halves(len) |-> IF 2 * k <= len THEN joined[k].m ELSE m[len]]]
  IN  bytes[digits, radices]

\* How many bytes of a joined digit lie below, from the product alone.
\* Slip: a product just above two bytes' worth read as one byte.
BytesBelowLate(mm) == IF mm > 256 * 16384 THEN 2 ELSE IF mm >= Threshold THEN 1 ELSE 0
BytesBelow(mm) == IF mm > Lookahead THEN 2 ELSE IF mm >= Threshold THEN 1 ELSE 0

Decode(bytes, radices) ==
  LET digits[s \in Seq(Nat), m \in Seq(Nat)] ==
        LET len == Len(m)
            mm(k) == m[2 * k - 1] * m[2 * k]
            below(k) == BytesBelow(mm(k))
            pos[k \in 0 .. len \div 2] == IF k = 0 THEN 0 ELSE pos[k - 1] + below(k)
            bottom(k) == CASE below(k) = 0 -> 0
                           [] below(k) = 1 -> s[pos[k - 1] + 1]
                           [] below(k) = 2 -> s[pos[k - 1] + 1] + 256 * s[pos[k - 1] + 2]
            m2 == [k \in 1 .. Halves(len) |->
                     IF 2 * k > len THEN m[len]
                     ELSE CASE below(k) = 0 -> mm(k)
                            [] below(k) = 1 -> Ceil256(mm(k))
                            [] below(k) = 2 -> Ceil256(Ceil256(mm(k)))]
            r2 == digits[SubSeq(s, pos[len \div 2] + 1, Len(s)), m2]
            rr(k) == bottom(k) + 256^below(k) * r2[k]
            digit(i) == LET k == (i + 1) \div 2
                        IN  IF i = len /\ len % 2 = 1 THEN r2[k]
                            ELSE IF i % 2 = 1 THEN rr(k) % m[i] ELSE (rr(k) \div m[i - 1]) % m[i]
        IN  IF len = 1
            THEN <<IF m[1] = 1 THEN 0 ELSE IF m[1] <= 256 THEN s[1] % m[1] ELSE (s[1] + 256 * s[2]) % m[1]>>
            ELSE [i \in 1 .. len |-> digit(i)]
  IN  digits[bytes, radices]

\* The rounded digit: a third of the shifted coefficient, as a multiple of
\* 10923 over 2^15.
\* Slip: 10922, the third rounded down.
RoundedDigitDown(x) == (x * 10922) \div 2^15
RoundedDigit(x) == (x * 10923) \div 2^15
RoundedValue(d, q) == 3 * d - (q - 1) \div 2

\* The places crypto_sort_uint32 compares, in order, for n words.
TopFrom(start, n) ==
  LET doubled[top \in Nat] == IF top < n - top THEN doubled[2 * top] ELSE top IN doubled[start]
Passes(p, lo, n) == SelectSeq([i \in 1 .. n |-> i - 1], LAMBDA i : i < n - lo /\ (i \div p) % 2 = 0)
Rounds(n, p, top) ==
  LET round[q \in Nat] ==
        IF q <= p THEN <<>>
        ELSE LET at == Passes(p, q, n)
             IN  [k \in 1 .. Len(at) |-> <<at[k] + p, at[k] + q>>] \o round[q \div 2]
  IN  round[top]
SortFrom(n, top) ==
  LET net[p \in Nat] ==
        IF p = 0 THEN <<>>
        ELSE LET at == Passes(p, p, n)
             IN  [k \in 1 .. Len(at) |-> <<at[k], at[k] + p>>] \o Rounds(n, p, top) \o net[p \div 2]
  IN  net[top]
SortUint32(n) == IF n < 2 THEN <<>> ELSE SortFrom(n, TopFrom(1, n))

Compared(x, i, j) == IF x[i] <= x[j] THEN x ELSE [x EXCEPT ![i] = x[j], ![j] = x[i]]
Through(net, x) ==
  LET after[k \in 0 .. Len(net)] == IF k = 0 THEN x ELSE Compared(after[k - 1], net[k][1], net[k][2])
  IN  after[Len(net)]

\* Short_fromlist: p random words, the first w of them even and the others one
\* more than a multiple of four, sorted; the two lowest bits are the polynomial.
ShortFromList(words) ==
  LET tagged == [i \in Exps |-> IF i < W THEN words[i] - (words[i] % 2)
                                ELSE words[i] - (words[i] % 4) + 1]
      sorted == Through(SortUint32(P), tagged)
  IN  [i \in Exps |-> (sorted[i] % 4) - 1]
=============================================================================
