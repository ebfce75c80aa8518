----------------------------- MODULE FiatShamir -----------------------------
(***************************************************************************)
(* The Fiat-Shamir transcript of algebra/src/crypto/transcript.rs, run the *)
(* way every protocol of the workspace runs it: a prover absorbs labelled  *)
(* data and draws challenges, and a verifier replays the same schedule on  *)
(* a transcript of its own with the data it received, which may differ     *)
(* from the data the prover absorbed.                                      *)
(***************************************************************************)
EXTENDS Xof, FiniteSets

CONSTANTS Domain,      \* the protocol's domain label, as cells
          Labels,      \* labels the protocol absorbs under
          Data,        \* payloads
          Lengths,     \* lengths of a challenge
          MaxSteps     \* bound: steps of one schedule

ASSUME TranscriptAssumption ==
  /\ Domain \in Cells
  /\ Labels \subseteq Cells
  /\ Data \subseteq Cells
  /\ Lengths \subseteq Nat \ {0}
  /\ MaxSteps \in Nat
  \* no label and no payload is longer than its length field can say
  /\ \A l \in Labels : Len(l) < LabelField
  /\ \A d \in Data : Len(d) < DataField

VARIABLES schedule,   \* the steps the prover has taken
          trail,      \* the prover's transcript before and after each step
          proverOut,  \* what each step of the prover returned
          transcript, \* the verifier's transcript
          verifierOut,\* what each step of the verifier returned
          forged      \* the steps whose payload reached the verifier changed

vars == <<schedule, trail, proverOut, transcript, verifierOut, forged>>

AbsorbStep(label, data) ==
  [op |-> "absorb", label |-> label, data |-> data, n |-> 0]
ChallengeStep(n) == [op |-> "challenge", label |-> <<>>, data |-> <<>>, n |-> n]

Steps == {AbsorbStep(l, d) : l \in Labels, d \in Data}
           \cup {ChallengeStep(n) : n \in Lengths}

\* An absorb returns nothing.
Nothing == [of |-> <<>>, from |-> 0, len |-> 0]

\* Transcript::absorb and Transcript::challenge_bytes, state and result.
After(x, step) == IF step.op = "absorb"
                  THEN AbsorbLabeled(x, step.label, step.data)
                  ELSE AfterSqueeze(x, step.n)
Result(x, step) == IF step.op = "absorb" THEN Nothing ELSE Squeezed(x, step.n)

Init == /\ schedule = <<>>
        /\ trail = <<NewXof(Domain)>>
        /\ proverOut = <<>>
        /\ transcript = NewXof(Domain)
        /\ verifierOut = <<>>
        /\ forged = {}

ProverStep(step) ==
  LET x == trail[Len(trail)]
  IN  /\ Len(schedule) < MaxSteps
      /\ schedule' = Append(schedule, step)
      /\ trail' = Append(trail, After(x, step))
      /\ proverOut' = Append(proverOut, Result(x, step))
      /\ UNCHANGED <<transcript, verifierOut, forged>>

\* The verifier replays its next step on the payload it was sent.
Replay(k, step) ==
  /\ transcript' = After(transcript, step)
  /\ verifierOut' = Append(verifierOut, Result(transcript, step))
  /\ forged' = forged \cup (IF step = schedule[k] THEN {} ELSE {k})
  /\ UNCHANGED <<schedule, trail, proverOut>>

VerifierStep ==
  LET k == Len(verifierOut) + 1
  IN  /\ k <= Len(schedule)
      /\ \/ /\ schedule[k].op = "absorb"
            /\ \E received \in Data :
                 Replay(k, AbsorbStep(schedule[k].label, received))
         \/ /\ schedule[k].op = "challenge"
            /\ Replay(k, schedule[k])

Next == \/ \E step \in Steps : ProverStep(step)
        \/ VerifierStep

Spec == Init /\ [][Next]_vars

-----------------------------------------------------------------------------
TypeOK == /\ schedule \in Seq(Steps)
          /\ Len(schedule) <= MaxSteps
          /\ trail \in Seq(Xofs)
          /\ Len(trail) = Len(schedule) + 1
          /\ proverOut \in Seq(Blocks)
          /\ Len(proverOut) = Len(schedule)
          /\ transcript \in Xofs
          /\ verifierOut \in Seq(Blocks)
          /\ Len(verifierOut) <= Len(schedule)
          /\ forged \subseteq 1..Len(verifierOut)

Challenges == {i \in 1..Len(verifierOut) : schedule[i].op = "challenge"}

\* The verifier derives the prover's challenge exactly when every payload up
\* to it arrived unchanged.
ChallengesTellPrefixes ==
  \A i \in Challenges :
    verifierOut[i] = proverOut[i] <=> forged \cap 1..i = {}

\* Once a payload was changed, no later challenge of the verifier shares a
\* byte with any challenge the prover ever drew, at that step or another one.
ForgeryNeverRejoins ==
  \A i \in Challenges : \A j \in 1..Len(proverOut) :
    (forged \cap 1..i # {} /\ schedule[j].op = "challenge")
      => ~Overlap(verifierOut[i], proverOut[j])

\* A challenge binds everything before it (transcript.rs:5-7, "a hash of
\* everything the prover has produced so far"), at its own step and at every
\* later one.  Concatenation is the danger: payloads of different lengths must
\* never slide into each other's place, however their bytes imitate a length.
ChallengeBindsPrefix == ChallengesTellPrefixes /\ ForgeryNeverRejoins

\* No output is handed out twice as two challenges of one transcript
\* (transcript.rs:36-37, "the transcript state advances").
ChallengesAreFresh ==
  \A i, j \in 1..Len(proverOut) :
    (i # j /\ schedule[i].op = "challenge" /\ schedule[j].op = "challenge")
      => ~Overlap(proverOut[i], proverOut[j])
=============================================================================
