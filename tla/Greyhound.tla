------------------------------- MODULE Greyhound -------------------------------
(***************************************************************************)
(* The polynomial commitment of zk/src/pcs/greyhound.rs, its evaluation    *)
(* proof on ring elements and on packed scalars, and the batch of several  *)
(* claims at one point (zk/src/pcs/batched.rs).  The challenges are drawn  *)
(* after all that their transcripts absorb.  An untruthful prover sends    *)
(* whatever it likes; it wins where the verifier accepts a value the       *)
(* committed polynomial does not take.                                     *)
(***************************************************************************)
EXTENDS QuotientRing, FiniteSets

CONSTANTS Delta,     \* digits of a coefficient
          Word,      \* bits of the words digits are recombined in
          M, R,      \* rows of a column, and columns
          L1PerPoly, MaxBatch

\* A statement: the key [a, b, d], the committed columns of each polynomial,
\* the point, and whether scalars are packed.

Digits(v) ==
  Apply(LAMBDA x : [i \in 1 .. Len(x) * Delta |->
    FromCentered(LAMBDA j : (x[((i - 1) \div Delta) + 1][j] \div 2^((i - 1) % Delta)) % 2)], v)

\* In words, for binary digits: the high bits of any other digit are lost.
RecombineDigits(s) ==
  Apply(LAMBDA x : [i \in 1 .. Len(x) \div Delta |->
    FromCentered(LAMBDA j :
      SumOver(LAMBDA k : (x[(i - 1) * Delta + k][j] * 2^(k - 1)) % 2^Word, 1, Delta) % 2^Word)], s)

RecombineDigitsMod(s) ==
  Apply(LAMBDA x : [i \in 1 .. Len(x) \div Delta |->
    TotalOf(LAMBDA k : Scale(2^(k - 1), x[(i - 1) * Delta + k]), 1, Delta)], s)

DeriveWitness(key, f) ==
  LET s == [i \in 1 .. R |-> Digits(f[i])]
      t == [i \in 1 .. R |-> Digits(MatVec(key.a, s[i]))]
  IN  [s |-> s, t_hat |-> t, u |-> MatVec(key.b, Concat(t))]

\* The weights of a row and of a column at the point.
RECURSIVE ScalarPow(_, _)
ScalarPow(x, n) == IF n = 0 THEN 1 ELSE (x * ScalarPow(x, n - 1)) % Q
RowWeights(st) ==
  IF st.packed THEN [l \in 1 .. M |-> Const(ScalarPow(st.x[0], D * (l - 1)))]
               ELSE PowTable(st.x, M)
PowerElt(x) == FromCentered(LAMBDA k : ScalarPow(x, k))

\* Slip: columns as far apart as they are many.
ClaimOfColumnsApart(st, w) ==
  IF st.packed
  THEN SumOver(LAMBDA i : ScalarPow(st.x[0], D * (M + 1) * (i - 1)) * Pairing(w[i], PowerElt(st.x[0])), 1, R) % Q
  ELSE DotOf(w, [i \in 1 .. R |-> PowTable(st.x, (M + 1) * R)[(i - 1) * (M + 1) + 1]])
ClaimOf(st, w) ==
  IF st.packed
  THEN SumOver(LAMBDA i : ScalarPow(st.x[0], D * M * (i - 1)) * Pairing(w[i], PowerElt(st.x[0])), 1, R) % Q
  ELSE DotOf(w, [i \in 1 .. R |-> PowTable(st.x, M * R)[(i - 1) * M + 1]])

ColumnValues(st, f) == Apply(LAMBDA a : [i \in 1 .. R |-> DotOf(a, f[i])], RowWeights(st))

\* What is absorbed before the challenges of a claim.
ClaimMessage(st, w, y) == [y |-> y, v |-> MatVec(st.key.d, Digits(w)), w_hat |-> Digits(w)]
HonestClaim(st, j) ==
  LET w == ColumnValues(st, st.fs[j]) IN ClaimMessage(st, w, ClaimOf(st, w))

Fold(s, c) == Combination(c, s)
BZ == R * D
BatchZBound(k) == L1PerPoly * k * BZ

Ternary == ShortElements(1)
Challenges == [1 .. R -> Ternary]
Hyperball(k) == {b \in [1 .. k -> Ternary] : L1Norm(b) <= L1PerPoly * k}

-----------------------------------------------------------------------------
\* One claim: greyhound.rs:361-433 and 549-631.
GatesHold(p, bound) ==
  /\ NormWithin(p.w_hat, 1) /\ NormWithin(Concat(p.t_hat), 1)
  /\ NormWithin(p.z, bound)

\* Slips: one of the two links of the values not looked at.
ValuesClaimed(st, y, v, w_hat) == ClaimOf(st, RecombineDigits(w_hat)) = y
ValuesCommitted(st, y, v, w_hat) == MatVec(st.key.d, w_hat) = v
ValuesLinked(st, y, v, w_hat) ==
  /\ MatVec(st.key.d, w_hat) = v
  /\ ClaimOf(st, RecombineDigits(w_hat)) = y
ColumnsLinked(st, u, t_hat) == MatVec(st.key.b, Concat(t_hat)) = u

Verify(st, u, y, v, c, p) ==
  /\ GatesHold(p, BZ)
  /\ ValuesLinked(st, y, v, p.w_hat)
  /\ DotOf(c, RecombineDigits(p.w_hat)) = DotOf(RowWeights(st), RecombineDigitsMod(p.z))
  /\ MatVec(st.key.a, p.z) = Combination(c, [i \in 1 .. R |-> RecombineDigits(p.t_hat[i])])
  /\ ColumnsLinked(st, u, p.t_hat)

\* Several: batched.rs:359-466.
VerifyBatch(st, us, ys, vs, cs, beta, p) ==
  LET k == Len(us)
  IN  /\ k \in 1 .. MaxBatch /\ Len(ys) = k /\ Len(p.w_hat) = k
      /\ \A j \in 1 .. k : NormWithin(p.w_hat[j], 1) /\ NormWithin(Concat(p.t_hat[j]), 1)
      /\ NormWithin(p.z, BatchZBound(k))
      /\ \A j \in 1 .. k : ValuesLinked(st, ys[j], vs[j], p.w_hat[j]) /\ ColumnsLinked(st, us[j], p.t_hat[j])
      /\ Total([j \in 1 .. k |-> Times(beta[j], DotOf(cs[j], RecombineDigits(p.w_hat[j])))])
           = DotOf(RowWeights(st), RecombineDigitsMod(p.z))
      /\ MatVec(st.key.a, p.z) =
           Combination(beta, [j \in 1 .. k |->
             Combination(cs[j], [i \in 1 .. R |-> RecombineDigits(p.t_hat[j][i])])])

-----------------------------------------------------------------------------
\* The moves: each claim and its challenges, the weights of a batch, the
\* proof.  A statement is [key, fs, hats, us, x, packed, batch, others].
Claims(st) == Len(st.fs)
Moves(st) == Claims(st) + (IF st.batch THEN 1 ELSE 0)

Statement(key, fs, x, packed, batch, hats, others) ==
  [key |-> key, fs |-> fs, hats |-> hats, us |-> [j \in 1 .. Len(fs) |-> MatVec(key.b, Concat(hats[j]))],
   x |-> x, packed |-> packed, batch |-> batch, others |-> others]
HonestStatement(key, fs, x, packed, batch) ==
  Statement(key, fs, x, packed, batch, [j \in 1 .. Len(fs) |-> DeriveWitness(key, fs[j]).t_hat], {})

\* Which challenge the verifier's transcripts give after a move.
Coins(st, n, some) == IF n > Claims(st) THEN Hyperball(Claims(st))
                      ELSE IF some = {} THEN Challenges ELSE some

Proof(st, script, claims, hats, ss) ==
  LET zs == [j \in 1 .. Claims(st) |-> Fold(ss[j], script[j].coins)]
  IN  IF st.batch
      THEN [w_hat |-> [j \in 1 .. Claims(st) |-> claims[j].w_hat], t_hat |-> hats,
            z |-> Combination(script[Moves(st)].coins, zs)]
      ELSE [w_hat |-> claims[1].w_hat, t_hat |-> hats[1], z |-> zs[1]]

HonestMove(st, script) ==
  LET n == Len(script) + 1
  IN  IF n <= Claims(st) THEN HonestClaim(st, n)
      ELSE IF n <= Moves(st) THEN <<>>
      ELSE LET ws == [j \in 1 .. Claims(st) |-> DeriveWitness(st.key, st.fs[j])]
           IN  Proof(st, script, [j \in 1 .. Claims(st) |-> HonestClaim(st, j)],
                     [j \in 1 .. Claims(st) |-> ws[j].t_hat], [j \in 1 .. Claims(st) |-> ws[j].s])

Accepts(st, script, p) ==
  IF st.batch
  THEN VerifyBatch(st, st.us, [j \in 1 .. Claims(st) |-> script[j].sent.y],
                   [j \in 1 .. Claims(st) |-> script[j].sent.v],
                   [j \in 1 .. Claims(st) |-> script[j].coins], script[Moves(st)].coins, p)
  ELSE Verify(st, st.us[1], script[1].sent.y, script[1].sent.v, script[1].coins, p)

-----------------------------------------------------------------------------
\* With keys that bind outright (unit matrices) what stands behind a
\* commitment is known: its polynomial, and the values of its columns.
Behind(st, j) == [i \in 1 .. R |-> RecombineDigitsMod(RecombineDigits(st.hats[j][i]))]
ColumnsBehind(st, j) == ColumnValues(st, Behind(st, j))
Holds(st, j, sent) == sent.y = ClaimOf(st, ColumnsBehind(st, j))

\* External: what an untruthful prover may say of claim j: the values of the
\* columns off by something, or digits that are not binary; of several
\* claims, values that are off, each claimed for what it is.
OtherHats(st, j) ==
  LET w == ColumnsBehind(st, j)
      hat == Digits(w)
  IN  {hat} \cup {Digits([w EXCEPT ![i] = Plus(@, d)]) : i \in 1 .. R, d \in st.others}
      \cup {[hat EXCEPT ![i] = FromCentered(LAMBDA k : IF k = 0 THEN -1 ELSE @[k])] :
              i \in IF Claims(st) = 1 THEN 1 .. R * Delta ELSE {}}
OtherClaims(st, j) ==
  {[y |-> y, v |-> MatVec(st.key.d, h), w_hat |-> h] :
     h \in OtherHats(st, j), y \in {ClaimOf(st, RecombineDigits(h)) : h \in OtherHats(st, j)}}
OwnClaims(st, j) == {m \in OtherClaims(st, j) : m.y = ClaimOf(st, RecombineDigits(m.w_hat))}

\* The proofs with a chance: what was claimed, the truth, or columns made for
\* the challenge; the response the key asks for, or one made for the equation
\* of the values alone; another polynomial opened instead.
OtherProofs(st, script) ==
  LET ks == 1 .. Claims(st)
      told == [j \in ks |-> script[j].sent]
      true == [j \in ks |-> [w_hat |-> Digits(ColumnsBehind(st, j))]]
      ts == [j \in ks |-> [i \in 1 .. R |-> RecombineDigits(st.hats[j][i])]]
      impostor == DeriveWitness(st.key, st.fs[1])
      after == IF st.batch THEN {} ELSE {<<[w_hat |-> h]>> : h \in OtherHats(st, 1)}
      sides == {Proof(st, script, ws, st.hats, ts) : ws \in {told, true} \cup after}
      answer(p) == IF st.batch
                   THEN Total([j \in ks |-> Times(script[Moves(st)].coins[j],
                                                  DotOf(script[j].coins, RecombineDigits(p.w_hat[j])))])
                   ELSE DotOf(script[1].coins, RecombineDigits(p.w_hat))
  IN  sides
      \cup {[p EXCEPT !.z = Digits([l \in 1 .. M |-> IF l = 1 THEN answer(p) ELSE Zero])] : p \in sides}
      \cup {Proof(st, script, told, [j \in ks |-> impostor.t_hat], [j \in ks |-> impostor.s])}

OtherMoves(st, script) ==
  LET n == Len(script) + 1
  IN  IF n <= Claims(st) THEN (IF Claims(st) = 1 THEN OtherClaims(st, n) ELSE OwnClaims(st, n))
      ELSE IF n <= Moves(st) THEN {<<>>}
      ELSE OtherProofs(st, script)

\* By how much the combined columns of a claim miss the ones behind it.
Misses(st, j, sent, c) ==
  DotOf(c, [i \in 1 .. R |-> Minus(RecombineDigits(sent.v)[i], ColumnsBehind(st, j)[i])])

\* A false value is accepted by luck alone: challenges drawn after it cancel
\* what it misses, or the weights of a batch what all claims miss together,
\* and of all that could be drawn no more than one in 9 do.
OneInNine(S, T) == 9 * Cardinality(S) <= Cardinality(T)
Cancels(st, script, beta) ==
  Total([j \in 1 .. Claims(st) |-> Times(beta[j], Misses(st, j, script[j].sent, script[j].coins))]) = Zero
LuckyClaim(st, j, m, c) ==
  Misses(st, j, m, c) = Zero /\ OneInNine({d \in Challenges : Misses(st, j, m, d) = Zero}, Challenges)
LuckyWeights(st, script) ==
  /\ st.batch /\ Cancels(st, script, script[Moves(st)].coins)
  /\ OneInNine({beta \in Hyperball(Claims(st)) : Cancels(st, script, beta)}, Hyperball(Claims(st)))
Sound(st, script) ==
  \/ \A j \in 1 .. Claims(st) : Holds(st, j, script[j].sent) \/ LuckyClaim(st, j, script[j].sent, script[j].coins)
  \/ LuckyWeights(st, script)
=============================================================================
