-------------------------------- MODULE Sigma --------------------------------
(***************************************************************************)
(* The two Fiat-Shamir Sigma-protocols of the zk crate, zk/src/sigma/mod.rs *)
(* (Z1, over the ML-DSA ring) and zk/src/sigma/z2.rs (Z2, over Z_2^32):    *)
(* knowledge of a short s with t = A s.  They share the loop and differ in *)
(* three constants, MaskTop, ChecksWitness and SendsHash.                  *)
(*                                                                         *)
(* One coefficient per polynomial.  A challenge is the integer it          *)
(* multiplies that coefficient by, so |c s| <= tau b_s is the source's      *)
(* bound.  The oracle answers a (statement, w) pair by any challenge.      *)
(***************************************************************************)
EXTENDS Integers

CONSTANTS Q,             \* the modulus
          BS, YBound,        \* bounds of the witness and of the mask
          Tau,           \* 1-norm of a challenge
          MaskTop,       \* largest mask coefficient: YBound in Z1, YBound - 1 in Z2
          ChecksWitness, \* Z1 refuses a long witness, Z2 does not look
          SendsHash,     \* Z1 sends c~ along, Z2 does not
          MaxAttempts,   \* 128
          Rows,          \* rows of A
          Keys,          \* the matrices A
          Witnesses,     \* witnesses a prover is called with
          Challenges,    \* answers of the oracle
          Responses      \* the responses of a prover of any kind

Cols == 1 .. 2
Coeffs == 0 .. Q - 1
BZ == YBound - Tau * BS

ASSUME SigmaAssumption ==
  /\ Q \in Nat \ {0} /\ BS \in Nat /\ YBound \in Nat /\ Tau \in Nat
  /\ BZ >= 0 /\ 2 * (YBound + Tau * BS) < Q
  /\ MaskTop \in 0 .. YBound /\ MaxAttempts \in Nat
  /\ Keys \subseteq [Rows -> [Cols -> Coeffs]]
  /\ Witnesses \subseteq [Cols -> Int]
  /\ Challenges \subseteq -Tau .. Tau
  /\ Responses \subseteq [Cols -> Coeffs]

VARIABLES key, s, t,  \* A, the witness and the statement
          phase,      \* where prover, verifier and extractor stand
          attempts,   \* masks rejected so far
          y, c,       \* the mask and the challenge of the proof
          proof,      \* [w, z, cTilde]: what was sent
          asked,      \* the statement the verifier holds
          verdict,    \* its answer
          fork        \* a second answer for the same w, [c, z]

vars == <<key, s, t, phase, attempts, y, c, proof, asked, verdict, fork>>

None == <<>>
Masks == [Cols -> -MaskTop .. MaskTop]
Statements == [Rows -> Coeffs]

-----------------------------------------------------------------------------
MatVec(k, x) == [i \in Rows |-> (k[i][1] * x[1] + k[i][2] * x[2]) % Q]

AbsInfinity(v) == IF v < Q - v THEN v ELSE Q - v
Centered(v) == IF 2 * v > Q THEN v - Q ELSE v
Abs(v) == IF v < 0 THEN -v ELSE v

Short(x) == \A j \in Cols : Abs(x[j]) <= BS

\* Slip: the challenge's product taken off.
ZMinus(x, m, ch) == [j \in Cols |-> (m[j] - ch * x[j]) % Q]
\* z = y + c s.
Z(x, m, ch) == [j \in Cols |-> (m[j] + ch * x[j]) % Q]

\* Slip: the mask's bound for the response's.
FitsMask(z) == \A j \in Cols : AbsInfinity(z[j]) <= YBound
Fits(z) == \A j \in Cols : AbsInfinity(z[j]) <= BZ

\* Slip: the norm of the response not looked at.
AcceptsAnyNorm(k, st, w, ch, z) ==
  MatVec(k, z) = [i \in Rows |-> (w[i] + ch * st[i]) % Q]
\* The norm gate and A z = w + c t, under the oracle's answer ch.
Accepts(k, st, w, ch, z) ==
  /\ Fits(z)
  /\ MatVec(k, z) = [i \in Rows |-> (w[i] + ch * st[i]) % Q]

\* Slip: c~ not compared.
VerifyAnyHash(k, st, ch, p) == Accepts(k, st, p.w, ch, p.z)
\* fs_verify / verify.
Verify(k, st, ch, p) ==
  /\ SendsHash => p.cTilde = <<st, p.w>>
  /\ Accepts(k, st, p.w, ch, p.z)

\* extract.
Extracted(z1, z2) == [j \in Cols |-> (z1[j] - z2[j]) % Q]

-----------------------------------------------------------------------------
Init ==
  /\ key \in Keys /\ s \in Witnesses
  /\ t = MatVec(key, s)
  /\ phase = "start" /\ attempts = 0 /\ y = None /\ c = 0
  /\ proof = None /\ asked = None /\ verdict = FALSE /\ fork = None

Unproved == UNCHANGED <<key, s, t, asked, verdict, fork>>

Start ==
  /\ phase = "start"
  /\ phase' = IF ChecksWitness /\ ~Short(s) THEN "too_long" ELSE "draw"
  /\ UNCHANGED <<attempts, y, c, proof>> /\ Unproved

\* One iteration of the loop: a mask from a fresh seed, w, the oracle's
\* answer, and the response if it fits.
Answer ==
  /\ phase = "draw" /\ attempts < MaxAttempts
  /\ \E m \in Masks, ch \in Challenges :
       /\ Fits(Z(s, m, ch))
       /\ y' = m /\ c' = ch
       /\ proof' = [w |-> MatVec(key, m), z |-> Z(s, m, ch),
                    cTilde |-> <<t, MatVec(key, m)>>]
  /\ phase' = "sent"
  /\ UNCHANGED attempts /\ Unproved

\* Slip: a count that wraps before it reaches the limit.
WrappedAttempt(n) == (n + 1) % MaxAttempts
NextAttempt(n) == n + 1

Retry ==
  /\ phase = "draw" /\ attempts < MaxAttempts
  /\ \E m \in Masks, ch \in Challenges : ~Fits(Z(s, m, ch))
  /\ attempts' = NextAttempt(attempts)
  /\ UNCHANGED <<phase, y, c, proof>> /\ Unproved

\* RejectionLimit.
GiveUp ==
  /\ phase = "draw" /\ attempts = MaxAttempts
  /\ phase' = "limit"
  /\ UNCHANGED <<attempts, y, c, proof>> /\ Unproved

\* External: a prover that follows no protocol sends any w and z.
Forge ==
  /\ phase = "start"
  /\ \E w \in Statements, z \in Responses, ch \in Challenges :
       /\ c' = ch
       /\ proof' = [w |-> w, z |-> z, cTilde |-> <<t, w>>]
  /\ phase' = "forged"
  /\ UNCHANGED <<attempts, y>> /\ Unproved

\* The verifier holds the statement or another one, for which the oracle's
\* answer is another draw.
Check ==
  /\ phase \in {"sent", "forged"}
  /\ \E st \in {t} \cup {MatVec(key, x) : x \in Witnesses}, ch \in Challenges :
       /\ st = t => ch = c
       /\ asked' = st
       /\ verdict' = Verify(key, st, ch, proof)
  /\ phase' = IF phase = "sent" THEN "checked" ELSE "forgery_checked"
  /\ UNCHANGED <<key, s, t, attempts, y, c, proof, fork>>

\* The extractor rewinds the prover to w and has its next answer checked
\* under another challenge.
Rewind ==
  /\ phase \in {"checked", "forgery_checked"} /\ verdict /\ asked = t
  /\ \E ch \in Challenges \ {c}, z \in Responses :
       /\ Accepts(key, t, proof.w, ch, z)
       /\ fork' = [c |-> ch, z |-> z]
  /\ phase' = "forked"
  /\ UNCHANGED <<key, s, t, attempts, y, c, proof, asked, verdict>>

Prove == Start \/ Answer \/ Retry \/ GiveUp

Next == Prove \/ Forge \/ Check \/ Rewind

\* fs_prove is a loop of the calling thread: once called it runs.
Spec == Init /\ [][Next]_vars /\ WF_vars(Prove)

-----------------------------------------------------------------------------
Proved == phase \in {"sent", "checked"}

TypeOK ==
  /\ key \in Keys /\ s \in Witnesses /\ t \in Statements
  /\ phase \in {"start", "too_long", "draw", "sent", "limit", "forged",
                "checked", "forgery_checked", "forked"}
  /\ attempts \in 0 .. MaxAttempts
  /\ Proved => y \in Masks
  /\ phase \in {"sent", "forged", "checked", "forgery_checked", "forked"} =>
       /\ proof.w \in Statements /\ proof.z \in [Cols -> Coeffs]
       /\ c \in Challenges
  /\ phase = "forked" => fork.z \in [Cols -> Coeffs] /\ fork.c \in Challenges

\* An honest proof verifies.
ProofVerifies == phase = "checked" /\ asked = t => verdict

\* A proof is accepted for the statement it was made for and for no other,
\* though c~ is all that ties it to that statement: another challenge may well
\* satisfy the equation for another t.
ProofBindsStatement ==
  SendsHash /\ phase \in {"checked", "forgery_checked"} /\ verdict => asked = t

\* The norm gate leaves nothing of the witness in the response
\* (sigma/mod.rs:43-44, z2.rs:11-13): for every other short witness the mask
\* that yields the same z is one the prover draws.
ResponseHidesWitness ==
  Proved =>
    \A j \in Cols : \A b \in -BS .. BS :
      Centered(proof.z[j]) - c * b \in -MaskTop .. MaskTop

\* Two accepted answers for one w give up a short solution of the relaxed
\* relation A s_ext = v t, whoever gave them.
ExtractorRecovers ==
  phase = "forked" =>
    LET ext == Extracted(proof.z, fork.z)
    IN  /\ MatVec(key, ext) = [i \in Rows |-> ((c - fork.c) * t[i]) % Q]
        /\ \A j \in Cols : AbsInfinity(ext[j]) <= 2 * BZ

\* A prover that is called comes back, with a proof or one of the errors.
CallsReturn == (phase = "draw") ~> (phase \notin {"start", "draw"})

-----------------------------------------------------------------------------
\* The instance that is model-checked: a matrix with short vectors in its
\* kernel, so that a response may be replaced by another short one.
MCKeys == {<<<<1, 4>>>>}
MCShort == {<<1, -1>>, <<0, 1>>, <<-1, -1>>}
MCWitnesses == MCShort \cup {<<2, 0>>}
MCChallenges == {-2, 1, 2}
MCResponses == [Cols -> {v \in Coeffs : AbsInfinity(v) <= BZ + 1}]
=============================================================================
