------------------------------- MODULE Sumcheck -------------------------------
(***************************************************************************)
(* The sum-check of zk/src/sumcheck/mod.rs between prove, on its pool of   *)
(* workers, or a prover that follows no protocol, and verify, on several   *)
(* claims at once (zk/src/sumcheck/batch.rs).                              *)
(***************************************************************************)
EXTENDS Multilinear, FiniteSets, TLC

(***************************************************************************)
(* The rayon prover, prove_rayon.  While the halves are long, each is      *)
(* summed by a reduction that splits it anywhere and combines neighbouring *)
(* pieces in any order, and the fold overwrites the lower half in place,   *)
(* one element per task, on any number of workers.  Short tables go        *)
(* through the sequential round.                                           *)
(***************************************************************************)
CONSTANTS G,           \* rounds
          ParMinHalf,  \* PAR_MIN_HALF
          Workers      \* threads of the pool

ASSUME PoolAssumption == G \in Nat /\ ParMinHalf \in Nat

VARIABLES table, cur, sent, points, final,
          stage,  \* "round", "sum0", "sum1" or "fold"
          parts,  \* pieces of the half being summed, [from, to, sum]
          low,    \* h0 once it is known
          todo,   \* elements no worker has taken
          held,   \* what a worker has read, <<j, lo, hi>>
          whole   \* history: the table before the fold under way

proof == <<table, sent, points, final>>
pool == <<parts, low, todo, held, whole>>
proverVars == <<proof, cur, stage, pool>>

Idle == <<>>
Half == Pow2[G - Len(sent) - 1]

Single(S) == {[from |-> j, to |-> j, sum |-> cur[j]] : j \in S}

\* A call of prove on some table.
ProveInit ==
  /\ cur = table
  /\ sent = <<>> /\ points = <<>> /\ final = <<>>
  /\ stage = "round" /\ parts = {} /\ low = 0
  /\ todo = {} /\ held = [w \in Workers |-> Idle] /\ whole = <<>>

SequentialRound ==
  /\ stage = "round" /\ Len(sent) < G /\ Half < ParMinHalf
  /\ sent' = Append(sent, Halves(cur, Half))
  /\ \E r \in Ring : /\ points' = Append(points, r)
                     /\ cur' = FoldAt(cur, Half, r)
  /\ UNCHANGED <<table, final, stage, pool>>

StartRound ==
  /\ stage = "round" /\ Len(sent) < G /\ Half >= ParMinHalf
  /\ stage' = "sum0" /\ parts' = Single(0 .. Half - 1)
  /\ UNCHANGED <<proof, cur, low, todo, held, whole>>

\* reduce: two neighbouring pieces become one.
Join ==
  /\ stage \in {"sum0", "sum1"}
  /\ \E a, b \in parts :
       /\ a.to + 1 = b.from
       /\ parts' = (parts \ {a, b})
                     \cup {[from |-> a.from, to |-> b.to, sum |-> (a.sum + b.sum) % Q]}
  /\ UNCHANGED <<proof, cur, stage, low, todo, held, whole>>

\* The first reduction returns before the second is started.
LowSummed ==
  /\ stage = "sum0" /\ \E p \in parts : parts = {p} /\ low' = p.sum
  /\ stage' = "sum1" /\ parts' = Single(Half .. 2 * Half - 1)
  /\ UNCHANGED <<proof, cur, todo, held, whole>>

HighSummed ==
  /\ stage = "sum1"
  /\ \E p \in parts : parts = {p} /\ sent' = Append(sent, <<low, p.sum>>)
  /\ \E r \in Ring : points' = Append(points, r)
  /\ stage' = "fold" /\ todo' = 0 .. Half - 1 /\ whole' = cur /\ parts' = {}
  /\ UNCHANGED <<table, cur, final, low, held>>

\* The round being folded has been sent.
Folded == Pow2[G - Len(sent)]

Fetch(w) ==
  /\ stage = "fold" /\ held[w] = Idle
  /\ \E j \in todo : /\ todo' = todo \ {j}
                     /\ held' = [held EXCEPT ![w] = <<j, cur[j], cur[j + Folded]>>]
  /\ UNCHANGED <<proof, cur, stage, parts, low, whole>>

Store(w) ==
  /\ stage = "fold" /\ held[w] # Idle
  /\ LET task == held[w]
     IN  cur' = [cur EXCEPT ![task[1]] =
                   Interpolate(task[2], task[3], points[Len(points)])]
  /\ held' = [held EXCEPT ![w] = Idle]
  /\ UNCHANGED <<proof, stage, parts, low, todo, whole>>

\* Slip: every element handed out, but not every one written back.
HandedOut == todo = {}
\* for_each returns when every task has run.
AllStored == todo = {} /\ \A w \in Workers : held[w] = Idle

Truncate ==
  /\ stage = "fold" /\ AllStored
  /\ cur' = [j \in 0 .. Folded - 1 |-> cur[j]]
  /\ stage' = "round"
  /\ UNCHANGED <<proof, pool>>

Finish ==
  /\ stage = "round" /\ final = <<>> /\ Len(sent) = G
  /\ final' = <<cur[0]>>
  /\ UNCHANGED <<table, cur, sent, points, stage, pool>>

ProveStep ==
  \/ SequentialRound \/ StartRound \/ Join \/ LowSummed \/ HighSummed
  \/ Truncate \/ Finish
  \/ \E w \in Workers : Fetch(w) \/ Store(w)

-----------------------------------------------------------------------------
\* A round takes effect when its challenge is drawn.
FoldedTable ==
  IF stage = "fold" THEN FoldAt(whole, Folded, points[Len(points)]) ELSE cur

Sequential == INSTANCE SumcheckProver WITH cur <- FoldedTable

-----------------------------------------------------------------------------
(***************************************************************************)
(* verify, against prove or a prover that follows no protocol.  The        *)
(* verifier derives the challenges from the messages it receives, so they  *)
(* are the ones drawn when those messages were sent.                       *)
(***************************************************************************)

CONSTANT Forgeries  \* messages of the other prover

ASSUME ForgeryAssumption == Forgeries \subseteq Ring \X Ring

VARIABLES honest,   \* whether the prover runs prove
          claimed,  \* the sum the verifier was told
          checked,  \* rounds it has gone through
          claim,    \* its running claim
          verdict   \* "none", "accept" or "reject"

verifierVars == <<claimed, checked, claim, verdict>>

Prove == honest /\ ProveStep /\ UNCHANGED <<honest, verifierVars>>

\* External: any messages, any number of rounds, any final value.
Forge ==
  /\ ~honest /\ final = <<>>
  /\ \/ /\ Len(sent) < G
        /\ \E m \in Forgeries : sent' = Append(sent, m)
        /\ \E r \in Ring : points' = Append(points, r)
        /\ UNCHANGED final
     \/ /\ \E v \in Ring : final' = <<v>>
        /\ UNCHANGED <<sent, points>>
  /\ UNCHANGED <<table, cur, stage, pool, honest, verifierVars>>

Reading == final # <<>> /\ verdict = "none"

RightLength == Len(sent) = G

\* Slip: a message's sum not compared with the claim.
AnySum(m, v) == TRUE
Consistent(m, v) == (m[1] + m[2]) % Q = v

\* Slip: the rounds taken for the whole proof.
FinalIgnored(v, c) == TRUE
FinalMatches(v, c) == v = c

CheckRound ==
  /\ Reading /\ RightLength /\ checked < Len(sent)
  /\ LET m == sent[checked + 1]
     IN  /\ Consistent(m, claim)
         /\ claim' = Interpolate(m[1], m[2], points[checked + 1])
  /\ checked' = checked + 1
  /\ UNCHANGED <<proverVars, honest, claimed, verdict>>

Accept ==
  /\ Reading /\ RightLength /\ checked = Len(sent) /\ FinalMatches(final[1], claim)
  /\ verdict' = "accept"
  /\ UNCHANGED <<proverVars, honest, claimed, checked, claim>>

Reject ==
  /\ Reading
  /\ \/ ~RightLength
     \/ checked < Len(sent) /\ ~Consistent(sent[checked + 1], claim)
     \/ checked = Len(sent) /\ ~FinalMatches(final[1], claim)
  /\ verdict' = "reject"
  /\ UNCHANGED <<proverVars, honest, claimed, checked, claim>>

Next == Prove \/ Forge \/ CheckRound \/ Accept \/ Reject

\* A call of verify on a proof of some table.
Init ==
  /\ ProveInit
  /\ honest \in BOOLEAN
  /\ checked = 0 /\ claim = claimed /\ verdict = "none"

-----------------------------------------------------------------------------
\* The table folded at the first n challenges, and the claim after them.
Contracted[n \in 0 .. Len(points)] ==
  IF n = 0 THEN table ELSE FoldAt(Contracted[n - 1], Pow2[G - n], points[n])

Truth(n) == SumOver(Contracted[n], 0 .. Pow2[G - n] - 1)
ClaimAfter(n) ==
  IF n = 0 THEN claimed ELSE Interpolate(sent[n][1], sent[n][2], points[n])

\* A challenge that turned a wrong claim into a right one.
Lucky(n) == ClaimAfter(n - 1) # Truth(n - 1) /\ ClaimAfter(n) = Truth(n)

\* The proof of the rayon prover is the sequential prover's
\* (sumcheck/mod.rs:140-143), however the pool splits, orders and interleaves
\* the work.
ImplementsSequential ==
  [][honest => Sequential!Round \/ Sequential!Finish]_<<table, FoldedTable, sent, points, final>>

\* What prove returns is accepted for the sum of its table and for no other.
HonestSumAccepted ==
  honest /\ verdict # "none" => (verdict = "accept" <=> claimed = Truth(0))

\* The final value is the multilinear polynomial of the table at the
\* challenges, in the order eq_tensor takes them: the caller ties it to its
\* public data there (sumcheck/mod.rs:268-271, 300-301).
FinalIsEvaluation ==
  honest /\ final # <<>> => final[1] = MleAt(table, points)

\* Whatever message a round sends, at most half of the ring turns a wrong
\* claim into a right one, zero divisors included (sumcheck/mod.rs:20-27).
LuckyChallengesAreRare ==
  \A n \in 1 .. checked :
    ClaimAfter(n - 1) # Truth(n - 1) =>
      LET h == Pow2[G - n]
          m == sent[n]
          turned == {r \in Ring : Interpolate(m[1], m[2], r)
                        = SumOver(FoldAt(Contracted[n - 1], h, r), 0 .. h - 1)}
      IN  2 * Cardinality(turned) <= Q

-----------------------------------------------------------------------------
(***************************************************************************)
(* Several claims through one sum-check, zk/src/sumcheck/batch.rs.  The    *)
(* weight gamma is drawn once the claims are absorbed, and the two round   *)
(* loops are those of Sumcheck on the combined table and the combined      *)
(* claim.  verify_batched does not look at the copy of the weight that a   *)
(* proof carries, so the copy is left out.                                 *)
(***************************************************************************)
CONSTANT Batches  \* sequences of [table, eq, claimed]; eq is <<>> or a point

ASSUME BatchesAssumption ==
  \A b \in Batches :
    /\ Len(b) > 0
    /\ b \in Seq([table : [0 .. Pow2[G] - 1 -> Ring], eq : {<<>>} \cup [1 .. G -> Ring],
                  claimed : Ring])

VARIABLES batch,
          gamma   \* the weight the challenger answers with

vars == <<proverVars, honest, verifierVars, batch, gamma>>

\* Slip: the bits of an index taken as the rounds take them.
BitsFromTheTop(idx) == Corner(idx, G)
\* eq_weights reads an index from its lowest bit, the rounds from its highest.
Bits(idx) == [i \in 1 .. G |-> (idx \div Pow2[i - 1]) % 2 = 1]

EqWeight(eq, idx) == IF eq = <<>> THEN 1 ELSE EqTensor(eq, Bits(idx))

\* Slip: the weight not advanced from claim to claim.
WeightStuck(g, i) == 1
Weight(g, i) ==
  LET w[k \in Nat] == IF k = 0 THEN 1 ELSE (w[k - 1] * g) % Q
  IN  w[i - 1]

CombinedTable(b, g) ==
  [idx \in 0 .. Pow2[G] - 1 |->
     SumOver([i \in DOMAIN b |-> Weight(g, i) * EqWeight(b[i].eq, idx) * b[i].table[idx]],
             DOMAIN b)]

\* Slip: weights from gamma on.
CombinedClaimShifted(b, g) ==
  SumOver([i \in DOMAIN b |-> Weight(g, i + 1) * b[i].claimed], DOMAIN b)
CombinedClaim(b, g) ==
  SumOver([i \in DOMAIN b |-> Weight(g, i) * b[i].claimed], DOMAIN b)

BatchInit ==
  /\ batch \in Batches /\ gamma \in Ring
  /\ table = CombinedTable(batch, gamma)
  /\ claimed = CombinedClaim(batch, gamma)
  /\ Init

Spec == BatchInit /\ [][Next /\ UNCHANGED <<batch, gamma>>]_vars

-----------------------------------------------------------------------------
ClaimTruth(c) == SumOver([idx \in 0 .. Pow2[G] - 1 |-> EqWeight(c.eq, idx) * c.table[idx]],
                         0 .. Pow2[G] - 1)
Wrong(b) == {i \in DOMAIN b : b[i].claimed # ClaimTruth(b[i])}
LeastPrime == CHOOSE p \in 2 .. Q : Q % p = 0 /\ \A n \in 2 .. p - 1 : Q % n # 0
Hides(b, g) == CombinedClaim(b, g) = SumOver(CombinedTable(b, g), 0 .. Pow2[G] - 1)

\* A claim under eq(beta, .) is the evaluation of its table at beta read
\* backwards: eq_weights and the rounds disagree on the first bit, and a
\* caller that chains a claim to a challenge point has to turn it round.
EqClaimsEvaluateMirrored ==
  \A i \in DOMAIN batch :
    LET eq == batch[i].eq
    IN  eq # <<>> =>
          ClaimTruth(batch[i]) = MleAt(batch[i].table, [j \in 1 .. G |-> eq[G + 1 - j]])

\* A batch of right claims is accepted with any weight, and a batch run
\* honestly on wrong ones only with a weight that cancels the errors: prove
\* convinces of the sum of its table and of no other.  What the rounds end on,
\* and what a claim under eq is about, are evaluations of the tables at points
\* whose order the callers rely on.
HonestBatchVerifies ==
  HonestSumAccepted /\ FinalIsEvaluation /\ EqClaimsEvaluateMirrored /\ (honest /\ verdict # "none" =>
    /\ Wrong(batch) = {} => verdict = "accept"
    /\ verdict = "accept" => Hides(batch, gamma))

\* Of any ring, at most one weight in p for each claim but one, p being the
\* least prime of the modulus: over a field the bound K / |R| of batch.rs:18-19,
\* and more where the ring has zero divisors.
HidingWeightsAreRare ==
  Wrong(batch) # {} =>
    LeastPrime * Cardinality({g \in Ring : Hides(batch, g)}) <= (Len(batch) - 1) * Q

\* A batch with a wrong claim that ends on the combined polynomial of the
\* tables was accepted by luck, in the weight or in a round (batch.rs:16-23), and
\* such luck is rare.
WrongBatchNeedsLuck ==
  LuckyChallengesAreRare /\ HidingWeightsAreRare /\ (
  verdict = "accept" /\ Wrong(batch) # {} /\ final[1] = MleAt(CombinedTable(batch, gamma), points)
    => Hides(batch, gamma) \/ \E n \in 1 .. G : Lucky(n))

-----------------------------------------------------------------------------
(***************************************************************************)
(* The instance that is model-checked: three claims of two rounds over the *)
(* integers modulo nine, which has zero divisors, the second claim under   *)
(* an eq-polynomial: all right, one wrong, and errors that cancel at some  *)
(* weights, at all of them but few, or at none.  The first round runs on   *)
(* the pool, the second in sequence.                                       *)
(***************************************************************************)
Plain1 == [table |-> 0 :> 1 @@ 1 :> 3 @@ 2 :> 8 @@ 3 :> 0, eq |-> <<>>, claimed |-> 1]
Under == [table |-> 0 :> 2 @@ 1 :> 0 @@ 2 :> 4 @@ 3 :> 7, eq |-> <<2, 4>>, claimed |-> 0]
Plain2 == [table |-> 0 :> 4 @@ 1 :> 4 @@ 2 :> 1 @@ 3 :> 6, eq |-> <<>>, claimed |-> 2]

Off(c, e) == [c EXCEPT !.claimed = (ClaimTruth(c) + e) % Q]

MCBatches ==
  {<<Off(Plain1, e[1]), Off(Under, e[2]), Off(Plain2, e[3])>> :
     e \in {<<0, 0, 0>>, <<0, 1, 0>>, <<1, 8, 0>>, <<0, 3, 3>>, <<2, 1, 1>>}}
MCForgeries == {<<0, 4>>, <<2, 5>>}
=============================================================================
