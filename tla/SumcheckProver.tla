---------------------------- MODULE SumcheckProver ----------------------------
(***************************************************************************)
(* The sum-check prover, zk/src/sumcheck/mod.rs prove_sequential: a round  *)
(* sends the sums of the two halves, then learns its challenge, then folds. *)
(* A challenge is drawn from the transcript of all messages so far; the     *)
(* oracle may answer anything.                                             *)
(***************************************************************************)
EXTENDS Multilinear

CONSTANT G        \* rounds

VARIABLES table,  \* the argument of prove
          cur,    \* the table folded so far
          sent,   \* the messages of the rounds
          points, \* their challenges
          final   \* <<final_eval>> once the proof is made

proverVars == <<table, cur, sent, points, final>>

Half == Pow2[G - Len(sent) - 1]

ProverInit ==
  /\ table \in [0 .. Pow2[G] - 1 -> Ring] /\ cur = table
  /\ sent = <<>> /\ points = <<>> /\ final = <<>>

Round ==
  /\ final = <<>> /\ Len(sent) < G
  /\ sent' = Append(sent, Halves(cur, Half))
  /\ \E r \in Ring : /\ points' = Append(points, r)
                     /\ cur' = FoldAt(cur, Half, r)
  /\ UNCHANGED <<table, final>>

Finish ==
  /\ final = <<>> /\ Len(sent) = G
  /\ final' = <<cur[0]>>
  /\ UNCHANGED <<table, cur, sent, points>>
=============================================================================
