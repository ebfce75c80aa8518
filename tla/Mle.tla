---------------------------------- MODULE Mle ----------------------------------
(***************************************************************************)
(* The openings for any weights of zk/src/pcs/mle.rs: the tall key whose   *)
(* commitment determines its vector, with its batch of claims, and the two *)
(* compressed levels of MleLevels with the bounds of QuadParams.           *)
(***************************************************************************)
EXTENDS Integers, Sequences, FiniteSets, FiniteSetsExt

CONSTANTS Q,                   \* of the tall key, and of the inner level
          QOuter,              \* of the outer level
          Mu, Nu, AugRows, N0, \* the shape of the levels
          Bt, Bu,              \* what they are compressed by
          BEntry, BChi, BC, Sigma, M0

Ring == 0 .. Q - 1
Centered(x, q) == IF 2 * x > q THEN x - q ELSE x
Dot(a, b, q) == MapThenSumSet(LAMBDA i : a[i] * b[i], DOMAIN a) % q
Applied(m, v, q) == [i \in DOMAIN m |-> Dot(m[i], v, q)]
Combined(a, b, x) == [i \in DOMAIN a |-> (a[i] + x * b[i]) % Q]

-----------------------------------------------------------------------------
(***************************************************************************)
(* Elimination, over a prime.  Solving ends at a column without a pivot,   *)
(* the rank passes over it.                                                *)
(***************************************************************************)
InverseOf(x) == CHOOSE y \in Ring : (x * y) % Q = 1
Pivoted(m, p, r, col) ==
  LET n == [m EXCEPT ![p] = m[r], ![r] = m[p]]
      pivot == [j \in DOMAIN n[p] |-> (n[p][j] * InverseOf(n[p][col])) % Q]
  IN  [i \in DOMAIN n |-> IF i = p THEN pivot
                          ELSE [j \in DOMAIN n[i] |-> (n[i][j] - n[i][col] * pivot[j]) % Q]]

RECURSIVE Eliminated(_, _, _, _, _)
Eliminated(m, p, col, cols, strict) ==
  LET free == {r \in p + 1 .. Len(m) : m[r][col] # 0}
  IN  IF col > cols THEN [rank |-> p, m |-> m]
      ELSE IF free # {} THEN Eliminated(Pivoted(m, p + 1, Min(free), col), p + 1, col + 1, cols, strict)
      ELSE IF strict THEN [rank |-> p, m |-> m]
      ELSE Eliminated(m, p, col + 1, cols, strict)

NoSolution == <<>>
Solve(key, c) ==
  LET cols == Len(key[1])
      end == Eliminated([i \in DOMAIN key |-> Append(key[i], c[i])], 0, 1, cols, TRUE)
  IN  IF end.rank < cols THEN NoSolution ELSE [i \in 1 .. cols |-> end.m[i][cols + 1]]
Rank(m) == Eliminated(m, 0, 1, Len(m[1]), FALSE).rank

-----------------------------------------------------------------------------
(***************************************************************************)
(* The tall key.  A statement is [key, f, ws, mask, lies]: the vector, the *)
(* weights of each claim, the mask, and values it may be claimed to have.  *)
(***************************************************************************)
CommitMle(key, f) == Applied(key, f, Q)
Claim(key, c, w) == Dot(w, Solve(key, c), Q)

RECURSIVE GammaPower(_, _)
GammaPower(g, n) == IF n = 0 THEN 1 ELSE (g * GammaPower(g, n - 1)) % Q

\* Slip: every claim with the weight of the first.
EqualWeights(ws, ys, g) ==
  [w |-> [j \in DOMAIN ws[1] |-> Dot([i \in DOMAIN ws |-> ws[i][j]], [i \in DOMAIN ws |-> 1], Q)],
   y |-> Dot(ys, [i \in DOMAIN ys |-> GammaPower(g, i - 1)], Q)]
CombinedClaim(ws, ys, g) ==
  LET gs == [i \in DOMAIN ys |-> GammaPower(g, i - 1)]
  IN  [w |-> [j \in DOMAIN ws[1] |-> Dot([i \in DOMAIN ws |-> ws[i][j]], gs, Q)], y |-> Dot(ys, gs, Q)]

Answer(st, w, x) == [z |-> Combined(st.mask, st.f, x), t |-> Dot(w, st.mask, Q)]

VerifyMle(key, c, cl, d, x, p) ==
  /\ Applied(key, p.z, Q) = Combined(d, c, x)
  /\ Dot(cl.w, p.z, Q) = (p.t + x * cl.y) % Q

MleCom(st) == CommitMle(st.key, st.f)
MleClaim(st, script) == CombinedClaim(st.ws, script[1].sent, script[1].coins)
TrueValues(st) == [i \in DOMAIN st.ws |-> Claim(st.key, MleCom(st), st.ws[i])]

MleMoves == 2
MleCoins == Ring
MleHonestMove(st, script) ==
  CASE script = <<>>    -> TrueValues(st)
    [] Len(script) = 1 -> Applied(st.key, st.mask, Q)
    [] Len(script) = 2 -> Answer(st, MleClaim(st, script).w, script[2].coins)
MleAccepts(st, script, p) ==
  VerifyMle(st.key, MleCom(st), MleClaim(st, script), script[2].sent, script[2].coins, p)

\* External: wrong values, and any value for the mask's.
OtherAnswers(st, w, x) == {[Answer(st, w, x) EXCEPT !.t = t] : t \in Ring}
MleOtherMoves(st, script) ==
  CASE script = <<>>    -> st.lies
    [] Len(script) = 1 -> {Applied(st.key, st.mask, Q)}
    [] Len(script) = 2 -> OtherAnswers(st, MleClaim(st, script).w, script[2].coins)

\* A wrong claim is accepted by the luck of one challenge in Q.
MleSound(st, script) ==
  LET cl == MleClaim(st, script)
  IN  \/ cl.y = Dot(cl.w, st.f, Q)
      \/ Cardinality({x \in Ring : \E p \in OtherAnswers(st, cl.w, x) :
                        VerifyMle(st.key, MleCom(st), cl, script[2].sent, x, p)}) <= 1

-----------------------------------------------------------------------------
(***************************************************************************)
(* Two levels.  A statement is [a, b, d, augs, mask, v1, w0, y]: the keys  *)
(* (b is B', the identity after it left out), the matrices of the blocks   *)
(* and of the mask by columns, the weights, and by how much the value      *)
(* claimed is wrong.                                                       *)
(***************************************************************************)
RandRows == Mu + Nu
Cols == 1 .. N0

RoundDiv(a, b) == LET r == a % b IN IF 2 * r >= b THEN (a \div b) + 1 ELSE a \div b

FPart(col) == SubSeq(col, 1, AugRows)
RPart(col) == SubSeq(col, AugRows + 1, AugRows + RandRows)
MaskApply(b, r) == [i \in 1 .. Mu |-> (Dot(b[i], SubSeq(r, 1, Nu), Q) + r[Nu + i]) % Q]
InnerApply(st, f, r) == Combined(Applied(st.a, f, Q), MaskApply(st.b, r), 1)

Rounded(x) == RoundDiv(Centered(x, Q), Bt)

Flat(ss) == [i \in 1 .. Mu * N0 |-> ss[((i - 1) \div Mu) + 1][((i - 1) % Mu) + 1]]
Stack(st, aug) ==
  Flat([k \in Cols |-> LET t == InnerApply(st, FPart(aug[k]), RPart(aug[k]))
                       IN  [i \in 1 .. Mu |-> Rounded(t[i])]])
OuterCommit(st, stack) ==
  LET u == Applied(st.d, stack, QOuter) IN [i \in DOMAIN u |-> RoundDiv(u[i], Bu)]

\* Blocks are summed as integers, each with its weight, and the mask.
IntegerCombination(ws, parts, mask) ==
  [i \in DOMAIN mask |-> mask[i] + MapThenSumSet(LAMBDA j : ws[j] * parts[j][i], DOMAIN ws)]
Aggregated(st, ws) ==
  [k \in Cols |-> IntegerCombination(ws, [j \in DOMAIN ws |-> st.augs[j][k]], st.mask[k])]

QuadZ(st, aug) == [k \in Cols |-> Dot(st.v1, FPart(aug[k]), Q)]
QuadContract(aug, c) ==
  LET col == [i \in 1 .. AugRows + RandRows |-> Dot(c, [k \in Cols |-> aug[k][i]], Q)]
  IN  [f |-> FPart(col), r |-> RPart(col)]

\* What the instance carries: the commitment of the sum, and its value.
OuterOf(st, ws) ==
  IntegerCombination(ws, [j \in DOMAIN ws |-> OuterCommit(st, Stack(st, st.augs[j]))],
                     OuterCommit(st, Stack(st, st.mask)))
StackOf(st, ws) ==
  IntegerCombination(ws, [j \in DOMAIN ws |-> Stack(st, st.augs[j])], Stack(st, st.mask))
ValueOf(st, aug) == Dot(QuadZ(st, aug), st.w0, Q)

RootUp(n) == CHOOSE r \in 0 .. n : r * r >= n /\ (r = 0 \/ (r - 1) * (r - 1) < n)
NormUp(v) == RootUp(MapThenSumSet(LAMBDA i : v[i] * v[i], DOMAIN v))
IntsOf(v) == [i \in DOMAIN v |-> Centered(v[i], Q)]

InnerResidual(st, c, t_hat, p) ==
  LET t == InnerApply(st, p.f, p.r)
  IN  [i \in 1 .. Mu |->
         Centered((t[i] - Bt * Dot(c, [k \in Cols |-> t_hat[(k - 1) * Mu + i]], Q)) % Q, Q)]
OuterResidual(st, outer, t_hat) ==
  LET u == Applied(st.d, t_hat, QOuter) IN [i \in DOMAIN u |-> Centered((u[i] - Bu * outer[i]) % QOuter, QOuter)]

Kappa == 2 * Mu * N0
QOverBt == (Q + Bt - 1) \div Bt
FreshOuter == QOverBt * RootUp(Mu * N0) + Bu * RootUp(Kappa)
Theorem3 == [b |-> BEntry * RootUp(AugRows) + BChi * RootUp(RandRows) + Bt * RootUp(Mu), o |-> FreshOuter]
Theorem5(in) ==
  [b |-> M0 * BC * in.b + Sigma * RootUp(2 * AugRows) + Sigma * RootUp(2 * RandRows) + Bt * RootUp(Mu),
   o |-> M0 * BC * in.o + FreshOuter]
Theorem6(in) == [b |-> N0 * BC * in.b, o |-> in.o]
Gates == Theorem6(Theorem5(Theorem3))

InnerNormHolds(h, p) == NormUp(IntsOf(p.f)) + NormUp(IntsOf(p.r)) + NormUp(h) <= Gates.b
OuterNormHolds(s, t_hat) == NormUp(s) + NormUp(t_hat) <= Gates.o
Linearity(st, z, c, p) == Dot(p.f, st.v1, Q) = Dot(z, c, Q)
\* Slip: the row contraction not held against the claim.
AnyEvaluation(st, z, y) == TRUE
Evaluation(st, z, y) == Dot(z, st.w0, Q) = y

QuadHolds(st, outer, y, m, c, p) ==
  /\ InnerNormHolds(InnerResidual(st, c, m.t_hat, p), p)
  /\ OuterNormHolds(OuterResidual(st, outer, m.t_hat), m.t_hat)
  /\ Linearity(st, m.z, c, p) /\ Evaluation(st, m.z, y)

ShortCoins(n) == [1 .. n -> -BC .. BC]
LevelsMoves == 2
LevelsCoins(st, script) == ShortCoins(IF script = <<>> THEN Len(st.augs) ELSE N0)

LevelsHonestMove(st, script) ==
  IF script = <<>> THEN <<>>
  ELSE LET aug == Aggregated(st, script[1].coins)
       IN  IF Len(script) = 1 THEN [t_hat |-> StackOf(st, script[1].coins), z |-> QuadZ(st, aug)]
           ELSE QuadContract(aug, script[2].coins)

ClaimedValue(st, ws) == (ValueOf(st, Aggregated(st, ws)) + st.y) % Q
LevelsAccepts(st, script, p) ==
  LET ws == script[1].coins
  IN  QuadHolds(st, OuterOf(st, ws), ClaimedValue(st, ws), script[2].sent, script[2].coins, p)

\* External: row contractions that add up to the claim or do not, another
\* stack, and responses next to the right one.
Nudged(v, e) == {[v EXCEPT ![i] = (@ + e) % Q] : i \in DOMAIN v}
LevelsOtherMoves(st, script) ==
  LET right == LevelsHonestMove(st, script)
  IN  IF script = <<>> THEN {right}
      ELSE IF Len(script) = 1
           THEN {right} \cup {[right EXCEPT !.z = z] : z \in Nudged(right.z, st.y) \cup Nudged(right.z, -st.y)}
                \cup {[right EXCEPT !.t_hat[1] = @ + 1]}
           ELSE {right} \cup {[right EXCEPT !.f = f] : f \in Nudged(right.f, 1) \cup Nudged(right.f, -1)}

\* How many columns share a commitment, in dimensions.
PreimageFreedom(a, b) ==
  AugRows + Nu + Mu
    - Rank([i \in 1 .. Mu |-> a[i] \o b[i] \o [j \in 1 .. Mu |-> IF i = j THEN 1 ELSE 0]])

\* A wrong value is accepted with a second short opening of a commitment, of
\* the stack or of the columns, or by challenges that cancel what is wrong
\* with the row contractions; of all those few do.
LevelsSound(st, script) ==
  LET ws == script[1].coins
      p == script[3].sent
      aug == Aggregated(st, ws)
      misses(c) == Dot(c, script[2].sent.z, Q) # Dot(c, QuadZ(st, aug), Q)
  IN  \/ st.y = 0
      \/ script[2].sent.t_hat # StackOf(st, ws)
      \/ PreimageFreedom(st.a, st.b) > 0 /\ p # QuadContract(aug, script[2].coins)
      \/ /\ ~misses(script[2].coins)
         /\ (2 * BC + 1) * Cardinality({c \in ShortCoins(N0) : ~misses(c)}) <= Cardinality(ShortCoins(N0))

=============================================================================
