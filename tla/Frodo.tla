-------------------------------- MODULE Frodo --------------------------------
(***************************************************************************)
(* FrodoKEM, pqc/src/frodo: matrices of words held row by row in one array *)
(* and addressed by the formulas of the source, encapsulation by a noisy   *)
(* product, and the re-encryption that decapsulation compares with.  A     *)
(* word is kept modulo the word where the source wraps and modulo q where  *)
(* it masks.  The hashes are the tuples they hash.                         *)
(***************************************************************************)
EXTENDS Integers, FiniteSetsExt, Functions, Sequences

CONSTANTS N, Nbar, LogQ,
          ExtractedBits, \* bits of the message in one coefficient
          WordBits       \* 16 in the source

Pow2[n \in Nat] == IF n = 0 THEN 1 ELSE 2 * Pow2[n - 1]
Word == Pow2[WordBits]
Q == Pow2[LogQ]

\* The value of an expression, computed where it is named.
Value(x) == CHOOSE v \in {x} : v = x
Dot(f) == SumFunctionOnSet(f, 0 .. N - 1)

Rows == 0 .. N * Nbar - 1   \* indices of an n by nbar array, or its transpose
Block == 0 .. Nbar * Nbar - 1

\* B = A S + E; S is stored transposed.
MulAddAsPlusE(a, s, e) ==
  Value([x \in Rows |-> LET i == x \div Nbar  k == x % Nbar
                        IN  (e[x] + Dot([j \in 0 .. N - 1 |-> a[i * N + j] * s[k * N + j]])) % Word])

\* B' = S' A + E'.
\* Slip: A taken by rows, as in the product above.
MulAddSaByRows(a, s, e) ==
  Value([x \in Rows |-> LET k == x \div N  i == x % N
                        IN  (e[x] + Dot([j \in 0 .. N - 1 |-> s[k * N + j] * a[i * N + j]])) % Word])
MulAddSaPlusE(a, s, e) ==
  Value([x \in Rows |-> LET k == x \div N  i == x % N
                        IN  (e[x] + Dot([j \in 0 .. N - 1 |-> s[k * N + j] * a[j * N + i]])) % Word])

\* W = B' S.
MulBs(b, s) ==
  Value([x \in Block |-> LET i == x \div Nbar  j == x % Nbar
                         IN  Dot([k \in 0 .. N - 1 |-> b[i * N + k] * s[j * N + k]]) % Q])

\* V = S' B + E''.
MulAddSbPlusE(b, s, e) ==
  Value([x \in Block |-> LET k == x \div Nbar  i == x % Nbar
                         IN  (e[x] + Dot([j \in 0 .. N - 1 |-> s[k * N + j] * b[j * Nbar + i]])) % Q])

\* A chunk of the message in the top bits of a coefficient, and back, rounded.
KeyEncode(chunk) == chunk * Pow2[LogQ - ExtractedBits]
\* Slip: the half that rounds to the nearest left out.
KeyDecodeDown(w) == ((w % Q) \div Pow2[LogQ - ExtractedBits]) % Pow2[ExtractedBits]
KeyDecode(w) ==
  (((w % Q) + Pow2[LogQ - ExtractedBits - 1]) \div Pow2[LogQ - ExtractedBits]) % Pow2[ExtractedBits]

\* Noise from a raw word: how many entries of the table, but the last, its
\* upper bits exceed, read off the sign of a wrapped difference, and the
\* sign from its lowest bit.
SampleN(raw, cdf) ==
  LET prnd == raw \div 2
      sample == MapThenSumSet(LAMBDA i : ((cdf[i] - prnd) % Word) \div Pow2[WordBits - 1], 1 .. Len(cdf) - 1)
  IN  IF raw % 2 = 1 THEN (Word - 1 - sample + 1) % Word ELSE sample

-----------------------------------------------------------------------------
\* The packing of arrays: the low `width` bits of each word, the highest
\* first, cut into pieces of `out` bits.  At each round as many bits as the
\* piece lacks and the word in hand has are moved, and the next word is taken
\* when it is used up.
Low(w, bits) == w % Pow2[bits]
Fresh == [done |-> <<>>, piece |-> 0, b |-> 0, w |-> 0, bits |-> 0]
Cut == [done : Seq(Nat), piece : Nat, b : Nat, w : Nat, bits : Nat]
Repack(words, width, out) ==
  LET rest[ws \in Seq(Nat), st \in Cut] ==
        IF st.b = out THEN rest[ws, [st EXCEPT !.done = Append(@, st.piece), !.b = 0, !.piece = 0]]
        ELSE IF st.bits = 0
             THEN IF ws = <<>> THEN st.done
                  ELSE rest[Tail(ws), [st EXCEPT !.w = Head(ws), !.bits = width]]
             ELSE LET moved == IF out - st.b < st.bits THEN out - st.b ELSE st.bits
                      t == Low(st.w \div Pow2[st.bits - moved], moved)
                  IN  rest[ws, [st EXCEPT !.piece = @ + t * Pow2[out - st.b - moved],
                                          !.b = @ + moved, !.bits = @ - moved]]
  IN  rest[words, Fresh]

Pack(words, lsb) == Repack(words, lsb, 8)
Unpack(bytes, lsb) == Repack(bytes, 8, lsb)

-----------------------------------------------------------------------------
\* The public matrix A, the secret S and the error E make B.
KeyPair(x) == [a |-> x.a, s |-> x.s, b |-> [i \in Rows |-> MulAddAsPlusE(x.a, x.s, x.e)[i] % Q]]

\* Packing keeps the low bits of B'.
Encrypt(ek, mu, r) ==
  LET b == MulAddSaPlusE(ek.a, r.s, r.e)
      v == MulAddSbPlusE(ek.b, r.s, r.f)
  IN  [c1 |-> [i \in Rows |-> b[i] % Q],
       c2 |-> [i \in Block |-> (v[i] + KeyEncode(mu[i])) % Q]]

\* What decryption rests on: what the two products differ by rounds to zero
\* in every coefficient.
NoiseFits(x, r) ==
  \A p \in Block :
    LET k == p \div Nbar
        i == p % Nbar
        half == Pow2[LogQ - ExtractedBits - 1]
    IN  (r.f[p] + Dot([j \in 0 .. N - 1 |-> r.s[k * N + j] * x.e[j * Nbar + i]])
           - Dot([j \in 0 .. N - 1 |-> r.e[k * N + j] * x.s[i * N + j]]) + half) % Q < 2 * half

Decrypt(sk, c) ==
  LET w == MulBs(c.c1, sk.s) IN [i \in Block |-> KeyDecode((c.c2[i] - w[i]) % Q)]

\* The secret is a hash of the ciphertext and of k, or of the seed s that
\* the secret key keeps for a ciphertext that does not come out the same.
Encapsulate(ek, pkh, mu, r) ==
  LET c == Encrypt(ek, mu, r) IN [c |-> c, ss |-> <<c, <<"k", pkh, mu>>>>]

CtVerify(c, d) == c.c1 = d.c1 /\ c.c2 = d.c2

\* coins[mu, pkh] is what the hash of pkh and mu derives.
Decapsulate(sk, ek, pkh, s, c, coins) ==
  LET mu == Decrypt(sk, c)
  IN  <<c, IF CtVerify(c, Encrypt(ek, mu, coins[mu, pkh])) THEN <<"k", pkh, mu>> ELSE <<"s", s>>>>
=============================================================================
