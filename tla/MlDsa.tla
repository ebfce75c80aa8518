------------------------------- MODULE MlDsa -------------------------------
(***************************************************************************)
(* ML-DSA's sign_mu loop and verify_mu (pqc/src/mldsa/mod.rs) over one     *)
(* coefficient per polynomial and a matrix of K rows and two columns.      *)
(* Hashes are ideal: mu is the hashed string itself, c~ is <<mu, w1>>, a   *)
(* mask stream is the pair it is seeded with, and SampleInBall's answer    *)
(* is any challenge.  Products with the challenge are integer products, so *)
(* |c * s| <= tau * eta is the source's bound beta.                        *)
(***************************************************************************)
EXTENDS Integers, Sequences, FiniteSets

-----------------------------------------------------------------------------
(***************************************************************************)
(* The per-coefficient rounding of algebra/src/module/rounding.rs.  The    *)
(* masks and selects of the source are branch-free spellings of IF; each   *)
(* definition below is the value they select.                              *)
(***************************************************************************)
CONSTANTS Q,       \* the modulus
          Gamma2,  \* half the width of a rounding cell
          Pow2D    \* 2^d, d the number of dropped bits of t

ASSUME RoundingAssumption ==
  /\ Q \in Nat /\ Gamma2 \in Nat \ {0} /\ Pow2D \in Nat
  /\ Pow2D > 1 /\ Pow2D % 2 = 0 /\ Pow2D <= Q
  \* every parameter set has (q - 1) / (2 gamma2) = 44 or 16 cells
  /\ (Q - 1) % (2 * Gamma2) = 0
  /\ Q - 1 > 2 * Gamma2

Cells == (Q - 1) \div (2 * Gamma2)
Coeffs == 0 .. Q - 1

\* mod_pm: the representative of v in (-alpha/2, alpha/2].
ModPm(v, alpha) == LET r == v % alpha
                   IN  IF r > alpha \div 2 THEN r - alpha ELSE r

Power2Round(a) == LET r0 == ModPm(a, Pow2D)
                  IN  [hi |-> (a - r0) \div Pow2D, lo |-> r0]

\* Slips: the q - 1 boundary case left out; a hint that always moves up.
DecomposeNoEdge(v) ==
  LET a == v % Q
      a0 == ModPm(a, 2 * Gamma2)
  IN  [hi |-> (a - a0) \div (2 * Gamma2), lo |-> a0]

\* decompose, with the cell that q - 1 closes folded into cell 0.
Decompose(v) ==
  LET a == v % Q
      a0 == ModPm(a, 2 * Gamma2)
  IN  IF a - a0 = Q - 1
      THEN [hi |-> 0, lo |-> a0 - 1]
      ELSE [hi |-> (a - a0) \div (2 * Gamma2), lo |-> a0]

HighBits(v) == Decompose(v).hi
LowBits(v) == Decompose(v).lo

MakeHint(z, r) == HighBits(r) # HighBits(r + z)

UseHintUp(a, hint) ==
  IF hint THEN (HighBits(a) + 1) % Cells ELSE HighBits(a)

UseHint(a, hint) ==
  LET d == Decompose(a)
      delta == IF d.lo > 0 THEN 1 ELSE Cells - 1
  IN  IF hint THEN (d.hi + delta) % Cells ELSE d.hi

Abs(v) == IF v < 0 THEN -v ELSE v

-----------------------------------------------------------------------------
(***************************************************************************)
(* The wire form of ML-DSA's hint (pqc/src/mldsa/encoding.rs): the         *)
(* positions of the set bits row after row, zero-padded to omega bytes,    *)
(* then one running count per row.  A row is the set of its positions.     *)
(***************************************************************************)
CONSTANTS N,     \* coefficients in a row, at most the 256 a byte can number
          K,     \* rows
          Omega  \* positions the packing has room for

ASSUME HintAssumption == N \in Nat \ {0} /\ K \in Nat \ {0} /\ Omega \in Nat

Rows == 1 .. K
Hints == [Rows -> SUBSET (0 .. N - 1)]
Malformed == <<>>  \* hint_bit_unpack's None

\* The set bits, [row, position], in the order they are written.
SetBits(h) == {b \in Rows \X (0 .. N - 1) : b[2] \in h[b[1]]}
Upto(h, b) == {a \in SetBits(h) : a[1] < b[1] \/ (a[1] = b[1] /\ a[2] <= b[2])}
HintCount(h) == Cardinality(SetBits(h))

\* hint_bit_pack; the signer calls it with at most omega bits set.
HintBitPack(h) ==
  [n \in 1 .. Omega + K |->
     IF n > Omega THEN Cardinality({b \in SetBits(h) : b[1] <= n - Omega})
     ELSE IF n <= HintCount(h) THEN (CHOOSE b \in SetBits(h) : Cardinality(Upto(h, b)) = n)[2]
     ELSE 0]

\* Slips: counts past omega; rows that all start at 0.
UnpackUncapped(y) ==
  LET count(i) == IF i = 0 THEN 0 ELSE y[Omega + i]
  IN  IF Len(y) # Omega + K \/ \E i \in Rows : count(i) < count(i - 1)
      THEN Malformed
      ELSE [i \in Rows |-> {y[n] : n \in count(i - 1) + 1 .. count(i)}]
UnpackFromZero(y) ==
  IF Len(y) # Omega + K \/ \E i \in Rows : y[Omega + i] > Omega
  THEN Malformed
  ELSE [i \in Rows |-> {y[n] : n \in 1 .. y[Omega + i]}]

\* hint_bit_unpack: the counts may not fall nor pass omega, the positions
\* must lie in a row.
HintBitUnpack(y) ==
  LET count(i) == IF i = 0 THEN 0 ELSE y[Omega + i]
  IN  IF \/ Len(y) # Omega + K
         \/ \E i \in Rows : count(i) < count(i - 1) \/ count(i) > Omega
         \/ \E n \in 1 .. count(K) : y[n] >= N
      THEN Malformed
      ELSE [i \in Rows |-> {y[n] : n \in count(i - 1) + 1 .. count(i)}]

-----------------------------------------------------------------------------
CONSTANTS Eta,         \* bound of the secrets
          Tau,         \* weight of the challenge
          Gamma1,      \* the masks are drawn from -gamma1 + 1 .. gamma1
          Keys,        \* the key pairs: [a, s1, s2]
          Challenges,  \* values of the challenge
          Messages,    \* what may be signed or asked about: [mode, ctx, msg]
          Sessions,    \* which key signs which message
          CtxCap,      \* 256: the first context length refused, and the
                       \* number of values the length byte has
          NonceField   \* 2^16: values of the mask nonce

Cols == 1 .. 2
L == 2
Beta == Tau * Eta
KeyType == [a : [Rows -> [Cols -> Coeffs]],
            s1 : [Cols -> -Eta .. Eta], s2 : [Rows -> -Eta .. Eta]]

ASSUME MlDsaAssumption ==
  /\ Eta \in Nat /\ Tau \in Nat /\ Gamma1 \in Nat
  /\ Beta < Gamma1 /\ Beta < Gamma2 /\ 2 * Gamma1 < Q
  /\ Keys \subseteq KeyType
  /\ Challenges \subseteq -Tau .. Tau
  /\ Messages \subseteq [mode : 0 .. 1, ctx : Seq(0 .. 255), msg : Seq(0 .. 255)]
  /\ Sessions \subseteq Keys \X Messages
  /\ CtxCap \in Nat /\ NonceField \in Nat

VARIABLES key,      \* the signer's key pair
          signed,   \* the message being signed
          phase,    \* where the signer's loop stands
          kappa,    \* the nonce of the next mask
          streams,  \* mask streams expanded so far (history)
          y, c,     \* mask and challenge of the current attempt
          sigma,    \* the signature emitted
          asked,    \* the message the verifier is given
          verdict   \* its answer

vars == <<key, signed, phase, kappa, streams, y, c, sigma, asked, verdict>>

None == <<>>
Masks == [Cols -> -Gamma1 + 1 .. Gamma1]

-----------------------------------------------------------------------------
\* A x for the public matrix A, and t = A s1 + s2 split into t1 and t0.
MatVec(k, x) ==
  [i \in Rows |-> (k.a[i][1] * x[1] + k.a[i][2] * x[2]) % Q]
KeyT(k) == [i \in Rows |-> (MatVec(k, k.s1)[i] + k.s2[i]) % Q]
T1(k) == [i \in Rows |-> Power2Round(KeyT(k)[i]).hi]
T0(k) == [i \in Rows |-> Power2Round(KeyT(k)[i]).lo]

\* M' = mode, context length on one byte, context, message.  mode 0 is the
\* pure interface (message_representative), mode 1 the pre-hashed one.
Frame(m) == <<m.mode, Len(m.ctx) % CtxCap>> \o m.ctx \o m.msg

\* bit_pack / bit_unpack with (gamma1 - 1, gamma1): gamma1 is a power of two,
\* so the chunk has 2 gamma1 values.
BitPackBare(v) == v  \* slip: the offset left out
BitPack(v) == (Gamma1 - v) % (2 * Gamma1)
BitUnpack(chunk) == Gamma1 - chunk

-----------------------------------------------------------------------------
Centered(v) == ModPm(v, Q)

\* z = y + c s1, w = A y, and w - c s2.
Z(k, m, ch) == [j \in Cols |-> (m[j] + ch * k.s1[j]) % Q]
W(k, m) == MatVec(k, m)
WLess(k, m, ch) == [i \in Rows |-> (W(k, m)[i] - ch * k.s2[i]) % Q]
W1(k, m) == [i \in Rows |-> HighBits(W(k, m)[i])]
CT0(k, ch) == [i \in Rows |-> (ch * T0(k)[i]) % Q]

\* Slip: a one-sided r0 gate, which the comment at mod.rs:544-545 warns of.
R0OneSided(k, m, ch) ==
  \A i \in Rows : LowBits(WLess(k, m, ch)[i]) < Gamma2 - Beta

\* The two norm gates.
ZOk(k, m, ch) ==
  \A j \in Cols : Abs(Centered(Z(k, m, ch)[j])) < Gamma1 - Beta
R0Ok(k, m, ch) ==
  \A i \in Rows : Abs(LowBits(WLess(k, m, ch)[i])) < Gamma2 - Beta

\* Slip: the displacement taken the other way.
HintBackwards(k, m, ch) ==
  [i \in Rows |->
     LET r == (WLess(k, m, ch)[i] + CT0(k, ch)[i]) % Q
         z == Centered(ch * k.s2[i] - CT0(k, ch)[i])
     IN  IF MakeHint(-z, r) THEN {0} ELSE {}]

\* MakeHint(c s2 - c t0, w - c s2 + c t0), as the bits of each row.
Hint(k, m, ch) ==
  [i \in Rows |->
     LET r == (WLess(k, m, ch)[i] + CT0(k, ch)[i]) % Q
         z == Centered(ch * k.s2[i] - CT0(k, ch)[i])
     IN  IF MakeHint(z, r) THEN {0} ELSE {}]

\* Slip: the weight of the hint not looked at.
HintOkAnyWeight(k, m, ch) ==
  \A i \in Rows : Abs(Centered(CT0(k, ch)[i])) < Gamma2

HintOk(k, m, ch) ==
  /\ HintCount(Hint(k, m, ch)) <= Omega
  /\ \A i \in Rows : Abs(Centered(CT0(k, ch)[i])) < Gamma2

-----------------------------------------------------------------------------
\* w1' = UseHint(h, A z - c t1 2^d).
W1Verifier(k, z, ch, h) ==
  [i \in Rows |->
     UseHint((MatVec(k, z)[i] - ch * T1(k)[i] * Pow2D) % Q, 0 \in h[i])]

VerifyMu(k, mu, sig) ==
  LET h == HintBitUnpack(sig.h)
      z == [j \in Cols |-> BitUnpack(sig.z[j])]
  IN  /\ h # Malformed
      /\ \A j \in Cols : Abs(z[j]) < Gamma1 - Beta
      /\ <<mu, W1Verifier(k, z, sig.c, h)>> = sig.cTilde

\* Slip: a context of any length let through.
VerifyAnyContext(k, m, sig) == VerifyMu(k, Frame(m), sig)
VerifyCore(k, m, sig) ==
  /\ Len(m.ctx) < CtxCap
  /\ VerifyMu(k, Frame(m), sig)

-----------------------------------------------------------------------------
Init ==
  /\ \E s \in Sessions : key = s[1] /\ signed = s[2]
  /\ phase = "sign" /\ kappa = 0 /\ streams = {}
  /\ y = None /\ c = 0 /\ sigma = None /\ asked = None /\ verdict = FALSE

\* sign_core / sign_hash_mldsa: a long context is a panic.
Sign ==
  /\ phase = "sign"
  /\ phase' = IF Len(signed.ctx) < CtxCap THEN "mask" ELSE "panicked"
  /\ UNCHANGED <<key, signed, kappa, streams, y, c, sigma, asked, verdict>>

\* One attempt of the loop: a mask from L streams, w1, c~ and the challenge.
\* The guard bounds the attempts; the code would wrap the nonce there.
Attempt ==
  /\ phase = "mask" /\ kappa + L <= NonceField
  /\ y' \in Masks
  /\ streams' = streams \cup {(kappa + r) % NonceField : r \in 0 .. L - 1}
  /\ c' \in Challenges
  /\ phase' = "gates"
  /\ UNCHANGED <<key, signed, kappa, sigma, asked, verdict>>

Emit ==
  /\ phase = "gates"
  /\ ZOk(key, y, c) /\ R0Ok(key, y, c) /\ HintOk(key, y, c)
  /\ sigma' = [cTilde |-> <<Frame(signed), W1(key, y)>>,
               c |-> c,  \* SampleInBall(c~)
               z |-> [j \in Cols |-> BitPack(Centered(Z(key, y, c)[j]))],
               h |-> HintBitPack(Hint(key, y, c))]
  /\ phase' = "sent"
  /\ UNCHANGED <<key, signed, kappa, streams, y, c, asked, verdict>>

\* The nonce's next value; the slip steps by one stream.
NextKappaByOne(n) == n + 1
NextKappa(n) == n + L

Retry ==
  /\ phase = "gates"
  /\ ~(ZOk(key, y, c) /\ R0Ok(key, y, c) /\ HintOk(key, y, c))
  /\ kappa' = NextKappa(kappa)
  /\ phase' = "mask" /\ y' = None /\ c' = 0
  /\ UNCHANGED <<key, signed, streams, sigma, asked, verdict>>

\* verify_core / verify_hash_mldsa, for whatever message is claimed.
Verify ==
  /\ phase = "sent"
  /\ asked' \in Messages
  /\ verdict' = VerifyCore(key, asked', sigma)
  /\ phase' = "verified"
  /\ UNCHANGED <<key, signed, kappa, streams, y, c, sigma>>

Next == Sign \/ Attempt \/ Emit \/ Retry \/ Verify

Spec == Init /\ [][Next]_vars

-----------------------------------------------------------------------------
Published == phase \in {"sent", "verified"}
SentZ == [j \in Cols |-> BitUnpack(sigma.z[j])]

TypeOK ==
  /\ key \in Keys /\ signed \in Messages
  /\ phase \in {"sign", "panicked", "mask", "gates", "sent", "verified"}
  /\ kappa \in 0 .. NonceField
  /\ streams \subseteq 0 .. NonceField - 1
  /\ phase \in {"gates", "sent", "verified"} => y \in Masks /\ c \in Challenges
  /\ Published => sigma.z \in [Cols -> 0 .. 2 * Gamma1 - 1]

\* The hint carries the verifier's value, which lacks t0, back to the
\* signer's w1 (mod.rs:553-556).
HintRecoversW1 ==
  Published =>
    W1Verifier(key, SentZ, c, Hint(key, y, c)) = W1(key, y)

\* What the loop emits verifies: the hint also fits its packing, and z and
\* the hint come out of the bytes as they went in.
SignatureVerifies ==
  phase = "verified" /\ asked = signed => verdict

\* A signature of one message answers for no other mode, context or message,
\* however the context and the message split the same bytes.
SignatureBindsMessage ==
  phase = "verified" /\ verdict => asked = signed

\* No attempt rereads a stream an earlier attempt drew its mask from.
FreshMasks ==
  Cardinality(streams) =
    kappa + (IF phase \in {"gates", "sent", "verified"} THEN L ELSE 0)

\* What is published tells nothing of the secrets: for every other s1 there
\* is a mask that yields the same z, and every other s2 the same w1.
PublishedFitsEverySecret ==
  Published =>
    /\ \A j \in Cols : \A s \in -Eta .. Eta :
         SentZ[j] - c * s \in -Gamma1 + 1 .. Gamma1
    /\ \A i \in Rows : \A s \in -Eta .. Eta :
         HighBits(WLess(key, y, c)[i] + c * s) = W1(key, y)[i]
=============================================================================
