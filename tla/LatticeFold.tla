----------------------------- MODULE LatticeFold ------------------------------
(***************************************************************************)
(* The fold-and-decompose proof of zk/src/folding/latticefold.rs over      *)
(* Z_(2^W)[X]/(X^D + 1): two committed vectors are folded into one, its    *)
(* balanced digits are committed, and a challenge drawn after them is      *)
(* answered by one short combination of the digits.  Vectors are single    *)
(* ring elements, and so is the key.                                       *)
(***************************************************************************)
EXTENDS Projection, Functions

CONSTANTS D,
          DigitBits,       \* b; W / b digits
          FoldL1, SplitL1, \* 1-norms of the two challenges
          LatticeKeys, Firsts, Seconds,  \* the key and the two witnesses
          Forged           \* digit commitments of a prover of any kind

Exps == 0 .. D - 1
Polys == [Exps -> Word]
NumDigits == W \div DigitBits

ASSUME LatticeFoldAssumption ==
  /\ D \in Nat \ {0} /\ DigitBits \in 1 .. W - 1 /\ W % DigitBits = 0
  /\ FoldL1 \in Nat /\ SplitL1 \in Nat
  /\ LatticeKeys \subseteq Polys /\ Firsts \subseteq Polys /\ Seconds \subseteq Polys /\ Forged \subseteq Polys

Constant(x) == [k \in Exps |-> IF k = 0 THEN x % Pow2[W] ELSE 0]
Plus(a, b) == [k \in Exps |-> (a[k] + b[k]) % Pow2[W]]
Minus(a, b) == [k \in Exps |-> (a[k] - b[k]) % Pow2[W]]

\* The coefficient at k of X^i b, where X^D = -1.
Turned(i, b, k) == IF i <= k THEN b[k - i] ELSE -b[k - i + D]
Times(a, b) == [k \in Exps |-> SumFunctionOnSet([i \in Exps |-> a[i] * Turned(i, b, k)], Exps) % Pow2[W]]

Short(a, bound) == \A k \in Exps : Norm(a[k]) <= bound
L1(a) == SumFunctionOnSet([k \in Exps |-> Norm(a[k])], Exps)

\* hyperball_challenge: coefficients of size one at most.
Ball(bound) == {a \in [Exps -> {0, 1, Pow2[W] - 1}] : L1(a) <= bound}

-----------------------------------------------------------------------------
Highs(a) == [k \in Exps |-> SplitBalanced(a[k], DigitBits).high]
Lows(a) == [k \in Exps |-> SplitBalanced(a[k], DigitBits).low]

\* decompose_balanced: what is left after the last split is dropped.
DecomposeBalanced(a) ==
  LET left[i \in Nat] == IF i = 0 THEN a ELSE Highs(left[i - 1])
  IN  [i \in 1 .. NumDigits |-> Lows(left[i - 1])]

\* Sum of x^(i-1) s_i, by Horner's rule.
Horner(s, x) ==
  LET acc[n \in 0 .. NumDigits] ==
        IF n = 0 THEN Constant(0) ELSE Plus(Times(acc[n - 1], x), s[NumDigits + 1 - n])
  IN  acc[NumDigits]
Recompose(s) == Horner(s, Constant(Pow2[DigitBits]))

\* Slip: every digit counted once.
BoundOfOnes(l1) == NumDigits * Pow2[DigitBits - 1]
SplittingNormBound(l1) ==
  LET term[n \in Nat] == IF n = 0 THEN 1 ELSE term[n - 1] * l1
      bound[n \in Nat] == IF n = 0 THEN 0 ELSE bound[n - 1] + term[n - 1] * Pow2[DigitBits - 1]
  IN  bound[NumDigits]

-----------------------------------------------------------------------------
\* The key, the splitting challenge zeta, honest and verdict are those of
\* Projection; they serve one protocol or the other.
VARIABLES w1, w2,
          r,        \* the fold challenge
          proof,    \* [cPrime, comms, dTilde], filled in as it is sent
          phase,
          fork      \* a second answer to the same commitments, [zeta, dTilde]

latticeVars == <<key, w1, w2, honest, r, proof, zeta, phase, verdict, fork>>

None == <<>>
C1 == Times(key, w1)
C2 == Times(key, w2)
FoldedCommitment == Plus(C1, Times(r, C2))
FoldedWitness == Plus(w1, Times(r, w2))
Digits == DecomposeBalanced(FoldedWitness)

LatticeInit ==
  /\ key \in LatticeKeys /\ w1 \in Firsts /\ w2 \in Seconds /\ honest \in BOOLEAN
  /\ r = None /\ proof = None /\ zeta = None /\ phase = "fold" /\ verdict = "none" /\ fork = None

\* fold_challenge, on both commitments.
FoldChallenge ==
  /\ phase = "fold" /\ r' \in Ball(FoldL1) /\ phase' = "commit"
  /\ UNCHANGED <<key, w1, w2, honest, proof, zeta, verdict, fork>>

CommitDigits ==
  /\ phase = "commit" /\ honest
  /\ proof' = [cPrime |-> FoldedCommitment, comms |-> [i \in 1 .. NumDigits |-> Times(key, Digits[i])]]
  /\ phase' = "query"
  /\ UNCHANGED <<key, w1, w2, honest, r, zeta, verdict, fork>>

\* External: a proof of another make.
ForgeDigits ==
  /\ phase = "commit" /\ ~honest
  /\ \E cPrime \in Forged \cup {FoldedCommitment}, first \in Forged, rest \in [2 .. NumDigits -> Forged] :
       LET consistent == Minus(cPrime, Horner([i \in 1 .. NumDigits |-> IF i = 1 THEN Constant(0) ELSE rest[i]],
                                              Constant(Pow2[DigitBits])))
       IN  \E c0 \in {first, consistent} :
             proof' = [cPrime |-> cPrime, comms |-> [i \in 1 .. NumDigits |-> IF i = 1 THEN c0 ELSE rest[i]]]
  /\ phase' = "query"
  /\ UNCHANGED <<key, w1, w2, honest, r, zeta, verdict, fork>>

\* splitting_challenge, on all commitments.
SplittingChallenge ==
  /\ phase = "query" /\ zeta' \in Ball(SplitL1) /\ phase' = "answer"
  /\ UNCHANGED <<key, w1, w2, honest, r, proof, verdict, fork>>

Answered(d) == [cPrime |-> proof.cPrime, comms |-> proof.comms, dTilde |-> d]

Answer ==
  /\ phase = "answer" /\ honest
  /\ proof' = Answered(Horner(Digits, zeta)) /\ phase' = "sent"
  /\ UNCHANGED <<key, w1, w2, honest, r, zeta, verdict, fork>>

\* External: the answers with a chance, whatever their length.
Openings(z) ==
  LET commitment == Horner(proof.comms, z)
  IN  {d \in Polys : Times(key, d) = commitment}
ForgeAnswer ==
  /\ phase = "answer" /\ ~honest
  /\ \E d \in Openings(zeta) \cup {Constant(1)} : proof' = Answered(d)
  /\ phase' = "sent"
  /\ UNCHANGED <<key, w1, w2, honest, r, zeta, verdict, fork>>

\* Slips: the digits, or the norm of the answer, not looked at.
AcceptsAnyDigits(z, d) ==
  /\ proof.cPrime = FoldedCommitment
  /\ Horner(proof.comms, z) = Times(key, d)
  /\ Short(d, SplittingNormBound(SplitL1))
AcceptsAnyNorm(z, d) ==
  /\ proof.cPrime = FoldedCommitment
  /\ Recompose(proof.comms) = proof.cPrime
  /\ Horner(proof.comms, z) = Times(key, d)
Accepts(z, d) ==
  /\ proof.cPrime = FoldedCommitment
  /\ Recompose(proof.comms) = proof.cPrime
  /\ Horner(proof.comms, z) = Times(key, d)
  /\ Short(d, SplittingNormBound(SplitL1))

VerifyFold ==
  /\ phase = "sent" /\ phase' = "verified"
  /\ verdict' = IF Accepts(zeta, proof.dTilde) THEN "accept" ELSE "reject"
  /\ UNCHANGED <<key, w1, w2, honest, r, proof, zeta, fork>>

\* External: the prover is asked again for the same commitments, and
\* convinces the verifier again.
Rewind ==
  /\ phase = "verified" /\ verdict = "accept" /\ ~honest /\ fork = None
  /\ \E z \in Ball(SplitL1) \ {zeta} :
       \E d \in Openings(z) : Accepts(z, d) /\ fork' = [zeta |-> z, dTilde |-> d]
  /\ UNCHANGED <<key, w1, w2, honest, r, proof, zeta, phase, verdict>>

LatticeNext ==
  \/ FoldChallenge \/ CommitDigits \/ ForgeDigits \/ SplittingChallenge
  \/ Answer \/ ForgeAnswer \/ VerifyFold \/ Rewind
LatticeSpec == LatticeInit /\ [][LatticeNext]_latticeVars

-----------------------------------------------------------------------------
\* What prove_fold_decompose sends passes all four checks: the digits are
\* exact whatever is dropped at the end, and short enough for the norm gate
\* with every challenge (latticefold.rs:33-36, 74-80, 113-115).
HonestFoldVerifies == phase = "verified" /\ honest => verdict = "accept"

\* Two answers to the same digit commitments open the folded commitment,
\* with the difference of the challenges as a factor (two digits):
\* (zeta - zeta') c' = A e, and e is short, so that the digits were
\* committed before the query and the proof is not only about c'.
Extracted ==
  Plus(Minus(Times(zeta, fork.dTilde), Times(fork.zeta, proof.dTilde)),
       Times(Constant(Pow2[DigitBits]), Minus(proof.dTilde, fork.dTilde)))
ForksOpenTheFold ==
  fork # None /\ NumDigits = 2 =>
    LET slack == Minus(zeta, fork.zeta)
    IN  /\ Times(slack, FoldedCommitment) = Times(key, Extracted)
        /\ Times(slack, proof.comms[2]) = Times(key, Minus(proof.dTilde, fork.dTilde))
        /\ Short(proof.dTilde, SplittingNormBound(SplitL1))
        /\ Short(fork.dTilde, SplittingNormBound(SplitL1))
=============================================================================
