-------------------------------- MODULE MlKem --------------------------------
(***************************************************************************)
(* ML-KEM, pqc/src/mlkem: the rounding of ciphertexts and messages, the    *)
(* coding of integers as bits, the encryption on single residues, and the  *)
(* re-encryption check and implicit rejection around it.  The hashes G and *)
(* J are injective: the secret half of G and the outputs of J are the      *)
(* tuples they hash.                                                       *)
(***************************************************************************)
EXTENDS Integers, FiniteSetsExt

CONSTANTS Q, Du, Dv \* the modulus, the widths of the two parts of a ciphertext

Pow2[n \in Nat] == IF n = 0 THEN 1 ELSE 2 * Pow2[n - 1]

\* Slip: the division truncated.
CompressDown(x, d) == ((x * Pow2[d]) \div Q) % Pow2[d]
Compress(x, d) == ((x * Pow2[d] + Q \div 2) \div Q) % Pow2[d]

\* Slip: the half of the source's rounding left out.
DecompressDown(y, d) == (2 * y * Q) \div (2 * Pow2[d])
Decompress(y, d) == (2 * y * Q + Pow2[d]) \div (2 * Pow2[d])

Bit(x, j) == (x \div Pow2[j]) % 2

\* d bits of each integer in turn, eight to a byte, the lowest first.
ByteEncode(f, d) ==
  [b \in 0 .. (Cardinality(DOMAIN f) * d) \div 8 - 1 |->
     MapThenSumSet(LAMBDA j : Bit(f[(8 * b + j) \div d], (8 * b + j) % d) * Pow2[j], 0 .. 7)]
\* Slip: a bit of the next byte wherever d is no divisor of eight.
ByteDecodeAligned(bytes, d) ==
  [i \in 0 .. (8 * Cardinality(DOMAIN bytes)) \div d - 1 |->
     MapThenSumSet(LAMBDA j : Bit(bytes[(i * d) \div 8], (i * d + j) % 8) * Pow2[j], 0 .. d - 1)]
ByteDecode(bytes, d) ==
  [i \in 0 .. (8 * Cardinality(DOMAIN bytes)) \div d - 1 |->
     MapThenSumSet(LAMBDA j : Bit(bytes[(i * d + j) \div 8], (i * d + j) % 8) * Pow2[j], 0 .. d - 1)]

-----------------------------------------------------------------------------
\* A secret s and an error e make the public t of a row a.
KeyPair(x) == [a |-> x.a, s |-> x.s, t |-> (x.a * x.s + x.e) % Q]

KpkeEncrypt(ek, m, r) ==
  [u |-> Compress((ek.a * r.y + r.e1) % Q, Du),
   v |-> Compress((ek.t * r.y + r.e2 + Decompress(m, 1)) % Q, Dv)]

\* The source subtracts the second part from the product: the message comes
\* out negated, and its bit is the same, since no residue is half-way.
\* Slip: the first part multiplied at its own width.
DecryptUndecompressed(sk, c) == Compress((sk.s * c.u - Decompress(c.v, Dv)) % Q, 1)
KpkeDecrypt(sk, c) ==
  Compress((sk.s * Decompress(c.u, Du) - Decompress(c.v, Dv)) % Q, 1)

\* What decryption rests on: the noise, the compression of both parts
\* included, stays below a quarter of the modulus.
Magnitude(x) == IF x < 0 THEN -x ELSE x
RoundingLoss(d) == (Q + Pow2[d]) \div (2 * Pow2[d])
NoiseFits(x, r) ==
  4 * (Magnitude(x.s * r.e1 - x.e * r.y - r.e2) + Magnitude(x.s) * RoundingLoss(Du) + RoundingLoss(Dv)) + 2 < Q

Ciphertexts == [u : 0 .. Pow2[Du] - 1, v : 0 .. Pow2[Dv] - 1]

SharedSecret(m, h) == <<"K", m, h>>
Rejection(z, c) == <<"J", z, c>>

Encapsulate(ek, h, m, r) == [c |-> KpkeEncrypt(ek, m, r), ss |-> SharedSecret(m, h)]

\* Slip: the decrypted message taken without encrypting it again.
NotReencrypted(ek, m, r, c) == TRUE
Reencrypts(ek, m, r, c) == KpkeEncrypt(ek, m, r) = c

\* coins[m, h] is what G derives.
Decapsulate(sk, ek, h, z, c, coins) ==
  LET m == KpkeDecrypt(sk, c)
  IN  IF Reencrypts(ek, m, coins[m, h], c) THEN SharedSecret(m, h) ELSE Rejection(z, c)
=============================================================================
