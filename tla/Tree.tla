---------------------------------- MODULE Tree ----------------------------------
(***************************************************************************)
(* The hash-tree cycle of zk/src/pcs: the Ajtai tree (tree_commit.rs), the *)
(* norm check and the decomposition (tree_eval.rs), the fold               *)
(* (tree_fold.rs) and the finish with its Greyhound reduction              *)
(* (tree_fin.rs).  Of the sum-checks their claim, point and value are      *)
(* kept: a prover may end one at any value, for the verifiers here compute *)
(* what the value has to be.                                               *)
(***************************************************************************)
EXTENDS Gadgets, FiniteSets

CONSTANTS Rows,        \* of the keys
          Gamma, Beta  \* logarithms: nodes of the last commitment, values of one

Slot == Rows * Alpha
M == Log2(Slot)
-----------------------------------------------------------------------------
(***************************************************************************)
(* The tree.  An opening is [root, layers], layers[1] next to the root.    *)
(***************************************************************************)
Blockwise(key, w, ds) == Concat(Tabulate(Len(ds) \div w, LAMBDA b : MatVec(key, Chunk(ds, w, b))))
Parent(key, ds) == Blockwise(key, 2 * Slot, ds)

RECURSIVE Grow(_, _, _)
Grow(key, ds, above) ==
  LET p == Parent(key, ds)
  IN  IF Len(p) = Rows THEN [root |-> p, layers |-> <<ds>> \o above]
      ELSE Grow(key, Split(p), <<ds>> \o above)
CommitDigits(key, bottom) == Apply(LAMBDA ds : Grow(key, ds, <<>>), bottom)
CommitTree(key, f) == CommitDigits(key, Split(f))

Short(s) == NormWithin(s, Base - 1)
Open(key, o) ==
  /\ o.layers # <<>>
  /\ \A i \in DOMAIN o.layers : Len(o.layers[i]) = 2 ^ i * Slot
  /\ Parent(key, o.layers[1]) = o.root
  /\ \A i \in 2 .. Len(o.layers) : Join(o.layers[i - 1]) = Parent(key, o.layers[i])
  /\ \A i \in DOMAIN o.layers : Short(o.layers[i])
OpenWithMessage(key, o, f) == Open(key, o) /\ Join(o.layers[Len(o.layers)]) = f

-----------------------------------------------------------------------------
(***************************************************************************)
(* Multilinear extensions: points have their highest variable first.       *)
(***************************************************************************)
Bits(j, k) == [i \in 1 .. k |-> (j \div 2 ^ (k - i)) % 2]
RECURSIVE EqOfBits(_, _)
EqOfBits(bits, point) ==
  IF bits = <<>> THEN One
  ELSE Times(IF Head(bits) = 1 THEN Head(point) ELSE Minus(One, Head(point)), EqOfBits(Tail(bits), Tail(point)))
RECURSIVE EqOfPoints(_, _)
EqOfPoints(r, s) ==
  IF r = <<>> THEN One
  ELSE Times(Plus(Times(Head(r), Head(s)), Times(Minus(One, Head(r)), Minus(One, Head(s)))),
             EqOfPoints(Tail(r), Tail(s)))

Concatenated(layers) == Zeros(2 * Slot) \o Concat(layers)
LayerOf(s, level) == SubSeq(s, Slot * 2 ^ level + 1, Slot * 2 ^ (level + 1))
LayerValue(s, level, u) == MleAt(LayerOf(s, level), u)
ConcatenatedPoint(u) == <<One>> \o u

-----------------------------------------------------------------------------
(***************************************************************************)
(* The norm check of a layer claim, at xi and the scalar points r and rn.  *)
(***************************************************************************)
RECURSIVE NormPoly(_, _)
NormPoly(b, x) == IF b = 1 THEN x ELSE (NormPoly(b - 1, x) * ((x - b + 1) * (x + b - 1)) % Q) % Q
NormTable == [x \in 0 .. Q - 1 |-> NormPoly(Base, x)]

RECURSIVE NormBatch(_, _, _)
NormBatch(e, xi, k) == IF k = D THEN 0 ELSE (NormTable[e[k]] + xi * NormBatch(e, xi, k + 1)) % Q
PeakTimes(ch, e) == Times(EqOfPoints(ch.rn, ch.r), Const(NormBatch(e, ch.xi, 0)))

NormCheck(s, level, claim, ch, p) ==
  /\ LayerValue(s, level, claim.u) = claim.v
  /\ \A i \in DOMAIN s : NormBatch(s[i], ch.xi, 0) = 0
  /\ p.y = PeakTimes(ch, p.packed)
  /\ MleAt(s, ch.rn) = p.packed
ProveNorm(s, ch) == Apply(LAMBDA e : [packed |-> e, y |-> PeakTimes(ch, e)], MleAt(s, ch.rn))

-----------------------------------------------------------------------------
(***************************************************************************)
(* Challenges of the fold.  A set is [dense, tau1, tau2].                  *)
(***************************************************************************)
Dense == [dense |-> TRUE, tau1 |-> 0, tau2 |-> 0]
Sparse(t1, t2) == [dense |-> FALSE, tau1 |-> t1, tau2 |-> t2]
Expansion(set) == IF set.dense THEN D ELSE set.tau1 + 2 * set.tau2
DifferenceNorm(set) == IF set.dense THEN 2 ELSE 4

\* The set as it is defined.
SupportOf(c, size) == {k \in Degrees : Abs(c[k]) = size}
Members(set) ==
  IF set.dense THEN [Degrees -> -1 .. 1]
  ELSE {c \in [Degrees -> -2 .. 2] : /\ Cardinality(SupportOf(c, 1)) = set.tau1
                                   /\ Cardinality(SupportOf(c, 2)) = set.tau2}
\* What the sampler makes of signs: the first positions taken are doubled.
Amplified(signs, t2) ==
  [k \in Degrees |-> IF signs[k] = 0 THEN 0
                   ELSE IF Cardinality({j \in 0 .. k - 1 : signs[j] # 0}) < t2 THEN 2 * signs[k] ELSE signs[k]]
SignVectors(weight) == {c \in [Degrees -> -1 .. 1] : Cardinality(SupportOf(c, 1)) = weight}
Sampled(set) ==
  IF set.dense THEN [Degrees -> -1 .. 1]
  ELSE {Amplified(signs, set.tau2) : signs \in SignVectors(set.tau1 + set.tau2)}

Choose(n, k) == Cardinality({S \in SUBSET (1 .. n) : Cardinality(S) = k})
SetSize(set, d) ==
  IF set.dense THEN 3 ^ d
  ELSE Choose(d, set.tau1) * Choose(d - set.tau1, set.tau2) * 2 ^ (set.tau1 + set.tau2)
\* The logarithm, to the nearest integer.
Log2Rounded(n) == IF n * n >= 2 ^ (2 * Log2(n) + 1) THEN Log2(n) + 1 ELSE Log2(n)

DeterministicallyInvertible(set, q, d, e) ==
  /\ e # 0 /\ d % e = 0
  /\ (DifferenceNorm(set) * DifferenceNorm(set) * (d \div e)) ^ (d \div e) < q * q

RECURSIVE PlanesFor(_, _)
PlanesFor(bound, capacity) == IF capacity >= bound THEN 0 ELSE 1 + PlanesFor(bound, capacity * Base)
Shape(k, set) ==
  LET bound == 2 ^ k * Expansion(set) * Base
      planes == IF bound <= 1 THEN 1 ELSE PlanesFor(bound, 1)
  IN  [k |-> k, bound |-> bound, planes |-> planes, padded |-> NextPow2(planes)]
Progresses(sh) == sh.k > Log2(sh.padded) + 1
NextHeight(sh, height) == height - sh.k + 1 + Log2(sh.padded)
ShrinksBy(sh) == IF Progresses(sh) THEN sh.k - 1 - Log2(sh.padded) ELSE 0

-----------------------------------------------------------------------------
(***************************************************************************)
(* The fold of a claim [t, u, v] about a concatenation: k layers are set   *)
(* aside, the 2^k trees under them become one.                             *)
(***************************************************************************)
ChunkOf(layers, k, inner, j) == Chunk(layers[k + inner], 2 ^ inner * Slot, j)
SubtreeVector(layers, k, j) ==
  Concatenated([i \in 1 .. Len(layers) - k |-> ChunkOf(layers, k, i, j)])
\* Slip: the level of a layer left out of its weight.
SubtreeWeightsFlat(height, k, j, u) ==
  Concatenated([i \in 1 .. height - k |->
    TimesVec(EqOfBits(Bits(j - 1, k), SubSeq(u, Len(u) - i - M - k + 1, Len(u))), EqTable(SubSeq(u, Len(u) - i - M + 1, Len(u))))])
SubtreeWeights(height, k, j, u) ==
  Concatenated([i \in 1 .. height - k |->
    LET prefix == [b \in 1 .. height - k - i |-> 0] \o <<1>> \o Bits(j - 1, k)
    IN  TimesVec(EqOfBits(prefix, u), EqTable(SubSeq(u, Len(u) - i - M + 1, Len(u))))])
TopFactor(height, k, u) == EqOfBits([b \in 1 .. height - k |-> 0], u)
TailPoint(height, k, u) == SubSeq(u, height - k + 1, Len(u))

FoldOf(c, parts) == Combination(c, parts)
FoldedRoot(layers, k, c) == FoldOf(c, Tabulate(2 ^ k, LAMBDA j : Join(Chunk(layers[k], Slot, j))))
FoldedLayers(layers, k, c) ==
  Tabulate(Len(layers) - k, LAMBDA i : FoldOf(c, Tabulate(2 ^ k, LAMBDA j : ChunkOf(layers, k, i, j))))

Subtrees(layers, k) == Tabulate(2 ^ k, LAMBDA j : SubtreeVector(layers, k, j))
Weights(height, k, u) == Tabulate(2 ^ k, LAMBDA j : SubtreeWeights(height, k, j, u))
ValuesAt(vs, r) == Apply(LAMBDA eq : Tabulate(Len(vs), LAMBDA j : DotOf(eq, vs[j])), EqTable(r))
SumOfDots(ws, ss) == Total(Tabulate(Len(ws), LAMBDA j : DotOf(ws[j], ss[j])))

ProveFold(key, claim, layers, k, ch) ==
  LET height == Len(layers)
      trees == Subtrees(layers, k)
      ws == Weights(height, k, claim.u)
      values == ValuesAt(trees, ch.r)
      folded == FoldedLayers(layers, k, ch.c)
  IN  [v_top |-> MleAt(Concatenated(SubSeq(layers, 1, k)), TailPoint(height, k, claim.u)),
       v_subs |-> SumOfDots(ws, trees),
       y_subs |-> DotOf(ValuesAt(ws, ch.r), values),
       subs |-> CommitTree(key, Padded(values, 2 ^ k * Rows)),
       root |-> FoldedRoot(layers, k, ch.c), layers |-> folded,
       v_bot |-> MleAt(Concatenated(folded), ch.r)]

TopClaim(claim, layers, k, p) == [t |-> claim.t, u |-> TailPoint(Len(layers), k, claim.u), v |-> p.v_top]
BottomClaim(ch, p) == [t |-> p.root, u |-> ch.r, v |-> p.v_bot]

CheckSplit(claim, height, k, p) ==
  Plus(Times(TopFactor(height, k, claim.u), p.v_top), p.v_subs) = claim.v
SubtreesHold(layers, k, claim, ch, p) ==
  \A trees \in {Subtrees(layers, k)}, ws \in {Weights(Len(layers), k, claim.u)} : \A values \in {ValuesAt(trees, ch.r)} :
    /\ SumOfDots(ws, trees) = p.v_subs
    /\ DotOf(ValuesAt(ws, ch.r), values) = p.y_subs
    /\ \A j \in 1 .. 2 ^ k : Join(Chunk(p.subs.layers[k], Alpha, j)) = <<values[j]>>
BatchedRoot(layers, k, ch, p) ==
  LET rows == PowersOf(ch.eta, Rows)
  IN  DotOf(rows, p.root) = DotOf(ch.c, Tabulate(2 ^ k, LAMBDA j :
        DotOf(Tensor(rows, PowersOf(Base, Alpha)), Chunk(layers[k], Slot, j))))

FoldHolds(key, claim, layers, k, sh, ch, p) ==
  /\ Open(key, [root |-> claim.t, layers |-> layers])
  /\ Len(p.subs.layers) = k /\ Len(p.layers) = Len(layers) - k
  /\ CheckSplit(claim, Len(layers), k, p)
  /\ SubtreesHold(layers, k, claim, ch, p)
  /\ Open(key, p.subs)
  /\ p.root = FoldedRoot(layers, k, ch.c) /\ BatchedRoot(layers, k, ch, p)
  /\ p.layers = FoldedLayers(layers, k, ch.c)
  /\ \A i \in DOMAIN p.layers : NormWithin(p.layers[i], sh.bound)
  /\ MleAt(Concatenated(p.layers), ch.r) = p.v_bot

-----------------------------------------------------------------------------
(***************************************************************************)
(* The decomposition of a concatenation into planes of short digits, which *)
(* are committed to by a tree of their own.                                *)
(***************************************************************************)
SignedDigits(x, p) == LET ds == DigitsOf(Abs(x), p) IN [j \in 1 .. p |-> IF x < 0 THEN -ds[j] ELSE ds[j]]
Fits(s, p) == \A v \in {s} : \A i \in DOMAIN v, k \in Degrees : HasDigits(Abs(Centered(v[i][k])), p)
SplitBalanced(s, p) ==
  Apply(LAMBDA table : Tabulate(p, LAMBDA j : Tabulate(Len(s), LAMBDA i :
          FromCentered(LAMBDA k : table[s[i][k]][j]))),
        [x \in 0 .. Q - 1 |-> SignedDigits(Centered(x), p)])
Recomposed(planes) == Combination(PowersOf(Base, Len(planes)), planes)
Leaves(planes) == Apply(LAMBDA s : Padded(s, NextPow2(Len(s))), Concat(planes))

\* Weights of the batched constraints of a tree, on values and on planes.
QA(key, height, xi) ==
  Concat(Tabulate(Rows, LAMBDA r : Tensor(PowersOf(xi, 2 ^ height), [j \in 1 .. 2 * Slot |-> key[r][j]])))
QG(height, xi, eta) ==
  Padded(Tensor(Tensor(PowersOf(xi, 2 ^ height), PowersOf(eta, Rows)), PowersOf(Base, Alpha)), Slot * 2 ^ (height + 1))
QDecA(key, height, planes, xi) ==
  LET powers == Tensor(PowersOf(Base, planes), PowersOf(xi, 2 ^ height))
  IN  Concat(Tabulate(Rows, LAMBDA r : Tensor(powers, [j \in 1 .. 2 * Slot |-> key[r][j]])))
QDecG(height, planes, xi, eta) == Tensor(PowersOf(Base, planes), QG(height, xi, eta))
Lifted(eta, s) == Tensor(PowersOf(eta, Rows), s)

ProveDecomposition(key, layers, digits, ch) ==
  Apply2(LAMBDA s, planes :
           [planes |-> planes, commitment |-> CommitDigits(key, Leaves(planes)),
            v_a |-> DotOf(Lifted(ch.eta, s), QA(key, Len(layers), ch.xi)),
            v_g |-> DotOf(QDecG(Len(layers), digits, ch.xi, ch.eta), Concat(planes))],
         Concatenated(layers), SplitBalanced(Concatenated(layers), digits))

PlanesHold(key, s, digits, p) ==
  /\ Len(p.planes) = digits /\ \A j \in DOMAIN p.planes : Len(p.planes[j]) = Len(s)
  /\ \A j \in DOMAIN p.planes : Short(p.planes[j]) /\ \A i \in 1 .. 2 * Slot : p.planes[j][i] = Zero
  /\ Open(key, p.commitment)
  /\ p.commitment.layers[Len(p.commitment.layers)] = Leaves(p.planes)
  /\ Recomposed(p.planes) = s
SidesHold(key, s, height, digits, ch, p) ==
  \A flat \in {Concat(p.planes)} :
    /\ DotOf(Lifted(ch.eta, s), QA(key, height, ch.xi)) = p.v_a
    /\ DotOf(Lifted(ch.eta, flat), QDecA(key, height, digits, ch.xi)) = p.v_a
    /\ DotOf(QG(height, ch.xi, ch.eta), s) = p.v_g
    /\ DotOf(QDecG(height, digits, ch.xi, ch.eta), flat) = p.v_g
ConstraintsHold(root, ch, p) ==
  Plus(Times(Const(ch.xi), DotOf(PowersOf(ch.eta, Rows), root)), p.v_g) = p.v_a
MleAtPlanes(planes, u) == DotOf(PowersOf(Base, Len(planes)), ValuesAt(planes, u))

DecompositionHolds(key, claim, layers, digits, ch, p) ==
  \A s \in {Concatenated(layers)} :
    /\ PlanesHold(key, s, digits, p)
    /\ SidesHold(key, s, Len(layers), digits, ch, p)
    /\ ConstraintsHold(claim.t, ch, p)
    /\ MleAtPlanes(p.planes, claim.u) = claim.v
PlanesClaim(p, ch) == [t |-> p.commitment.root, u |-> ch.new, v |-> MleAt(Leaves(p.planes), ch.new)]

-----------------------------------------------------------------------------
(***************************************************************************)
(* The finish.  Claims [kind, opening, u, v] are about concatenations      *)
(* ("te", first) and about last layers ("pe", one more); their             *)
(* concatenations are blocks of one vector, committed in two layers by a   *)
(* key [b1, b2, d].                                                        *)
(***************************************************************************)
Nodes == 2 ^ Gamma
Inner == 2 ^ Beta * Alpha
TopVariables == Gamma + Log2(Slot)

GhCommit(fin, s2) ==
  Apply(LAMBDA s1 : [t |-> MatVec(fin.b1, s1), s1 |-> s1, s2 |-> s2], Split(Blockwise(fin.b2, Inner, s2)))
GhOpen(fin, c) ==
  /\ Len(c.s2) = Nodes * Inner /\ Len(c.s1) = Nodes * Slot /\ Len(c.t) = Rows
  /\ MatVec(fin.b1, c.s1) = c.t
  /\ Join(c.s1) = Blockwise(fin.b2, Inner, c.s2)
  /\ Short(c.s1) /\ Short(c.s2)

HeightOf(claim) == Len(claim.opening.layers)
Width(k) == 2 ^ (k + 1) * Slot
TeClaims(claims) == {i \in DOMAIN claims : claims[i].kind = "te"}
Blocks(claims) == NextPow2(2 * Cardinality(TeClaims(claims)) + 1)
LayoutHolds(k, claims) ==
  LET te == Cardinality(TeClaims(claims))
  IN  /\ Len(claims) = 2 * te + 1 /\ TeClaims(claims) = 1 .. te
      /\ \A i \in DOMAIN claims :
           /\ HeightOf(claims[i]) <= k
           /\ Len(claims[i].u) = HeightOf(claims[i]) + M + (IF claims[i].kind = "te" THEN 1 ELSE 0)

BlockOf(claim) == Concatenated(claim.opening.layers)
ReshapeVector(k, claims) ==
  Padded(Concat([i \in DOMAIN claims |-> Padded(BlockOf(claims[i]), Width(k))]), Blocks(claims) * Width(k))
BlockPoint(k, claim) ==
  Zeros(k - HeightOf(claim)) \o (IF claim.kind = "te" THEN claim.u ELSE ConcatenatedPoint(claim.u))

\* The constraints of every tree, claim i by zeta^(i-1).
ZetaPower(ch, i) == PowersOf(ch.zeta, i)[i]
BatchedRoots(claims, ch) ==
  Total(Tabulate(Len(claims), LAMBDA i :
    Times(Times(ZetaPower(ch, i), Const(ch.xi)), DotOf(PowersOf(ch.eta, Rows), claims[i].opening.root))))
ASide(tree, s, k, claims, ch) ==
  Total(Tabulate(Len(claims), LAMBDA i :
    LET used == 2 ^ HeightOf(claims[i])
        block == Chunk(s, Width(k), i)
        dots == Blockwise(tree, 2 * Slot, SubSeq(block, 1, used * 2 * Slot))
    IN  Times(ZetaPower(ch, i), DotOf(Tensor(PowersOf(ch.xi, used), PowersOf(ch.eta, Rows)), dots))))
QReshapeG(k, claims, ch) ==
  Padded(Concat([i \in DOMAIN claims |->
           Padded(TimesVec(ZetaPower(ch, i), QG(HeightOf(claims[i]), ch.xi, ch.eta)), Width(k))]),
         Blocks(claims) * Width(k))
GSide(s, k, claims, ch) == DotOf(QReshapeG(k, claims, ch), s)

ProveReshape(tree, fin, k, claims, ch) ==
  Apply(LAMBDA s : [commitment |-> GhCommit(fin, s), v_a |-> ASide(tree, s, k, claims, ch), v_g |-> GSide(s, k, claims, ch)],
        ReshapeVector(k, claims))

\* Slip: the claim of a block read as the value of its tree's last layer.
ClaimsOfLayers(s, k, claims) ==
  \A i \in DOMAIN claims : claims[i].kind = "pe" => MleAt(Chunk(s, Width(k), i), BlockPoint(k, claims[i])) = claims[i].v
ClaimsHoldIn(s, k, claims) ==
  \A i \in DOMAIN claims : MleAt(Chunk(s, Width(k), i), BlockPoint(k, claims[i])) = claims[i].v
ReshapeHolds(tree, fin, p, k, claims, ch) ==
  /\ LayoutHolds(k, claims) /\ Nodes * Inner = Blocks(claims) * Width(k)
  /\ p.commitment.s2 = ReshapeVector(k, claims)
  /\ GhOpen(fin, p.commitment)
  /\ \A i \in DOMAIN claims : /\ SubSeq(Chunk(p.commitment.s2, Width(k), i), 1, 2 * Slot) = Zeros(2 * Slot)
                              /\ Open(tree, claims[i].opening)
  /\ p.v_a = ASide(tree, p.commitment.s2, k, claims, ch)
  /\ p.v_g = GSide(p.commitment.s2, k, claims, ch)
  /\ Plus(BatchedRoots(claims, ch), p.v_g) = p.v_a
  /\ ClaimsHoldIn(p.commitment.s2, k, claims)

\* The last claims: values of both layers at r, and linear forms of them at rp.
Forms(ch) == [q |-> EqTable(SubSeq(ch.rp, 1, TopVariables)),
              b |-> EqTable(SubSeq(ch.rp, 1, Gamma)), a |-> EqTable(SubSeq(ch.rp, Gamma + 1, Len(ch.rp)))]
ColumnCombination(a, s2) == Tabulate(Nodes, LAMBDA i : DotOf(a, Chunk(s2, Inner, i)))
SplitForm(a, b, s2) == DotOf(b, ColumnCombination(a, s2))

Finish(reshape, ch) ==
  Apply(LAMBDA f : [reshape |-> reshape, q |-> f.q, a |-> f.a, b |-> f.b,
                    a1 |-> MleAt(reshape.commitment.s1, SubSeq(ch.r, 1, TopVariables)),
                    a2 |-> MleAt(reshape.commitment.s2, ch.r),
                    y1 |-> DotOf(f.q, reshape.commitment.s1), y2 |-> SplitForm(f.a, f.b, reshape.commitment.s2)],
        Forms(ch))
FinHolds(tree, fin, p, k, claims, ch) ==
  LET c == p.reshape.commitment
      f == Forms(ch)
  IN  /\ ReshapeHolds(tree, fin, p.reshape, k, claims, ch)
      /\ MleAt(c.s1, SubSeq(ch.r, 1, TopVariables)) = p.a1 /\ MleAt(c.s2, ch.r) = p.a2
      /\ p.q = f.q /\ p.a = f.a /\ p.b = f.b
      /\ DotOf(p.q, c.s1) = p.y1
      /\ SplitForm(p.a, p.b, c.s2) = p.y2

-----------------------------------------------------------------------------
(***************************************************************************)
(* Greyhound on the two forms of a finish: v is sent, then c is drawn.     *)
(***************************************************************************)
WHat(claim) == Split(ColumnCombination(claim.a, claim.reshape.commitment.s2))
ProveGh(claim, c) ==
  [w |-> WHat(claim), z |-> FoldOf(c, Tabulate(Nodes, LAMBDA i : Chunk(claim.reshape.commitment.s2, Inner, i)))]

RECURSIVE NormSum(_)
NormOf(c) == CHOOSE b \in 0 .. Q : (\E k \in Degrees : Abs(Centered(c[k])) = b) /\ NormWithin(<<c>>, b)
NormSum(c) == IF c = <<>> THEN 0 ELSE NormOf(Head(c)) + NormSum(Tail(c))
FoldedNormBound(c) == D * NormSum(c) * (Base - 1)

Carried(c, s1) == FoldOf(c, Tabulate(Nodes, LAMBDA j : Chunk(Join(s1), Rows, j)))
GhRowsHold(fin, claim, v, c, eta, p) ==
  LET w == Join(p.w)
      side == DotOf(claim.q, claim.reshape.commitment.s1)
      folded == MatVec(fin.b2, p.z)
      carried == Carried(c, claim.reshape.commitment.s1)
      term(row, x) == IF row = 1 THEN Times(eta, x) ELSE Zero
  IN  /\ MatVec(fin.d, p.w) = v
      /\ DotOf(claim.b, w) = claim.y2
      /\ DotOf(c, w) = DotOf(claim.a, p.z)
      /\ side = claim.y1
      /\ \A row \in 1 .. Rows : Plus(Minus(carried[row], folded[row]), term(row, side)) = term(row, claim.y1)
GhHolds(fin, claim, v, c, eta, p) ==
  /\ Short(p.w) /\ NormWithin(p.z, FoldedNormBound(c))
  /\ GhRowsHold(fin, claim, v, c, eta, p)

\* The same as one linear system on (w, s1, z), row after row.
Eq38(fin, claim, v, c, eta) ==
  LET row(w, s, z, b) == [w |-> w, s |-> s, z |-> z, b |-> b]
      digits == PowersOf(Base, Alpha)
      sides(r) == Tabulate(Nodes * Slot, LAMBDA i :
                    LET j == (i - 1) \div Slot  rho == ((i - 1) % Slot) \div Alpha
                        weight == IF rho + 1 = r THEN Times(c[j + 1], digits[((i - 1) % Alpha) + 1]) ELSE Zero
                    IN  IF r = 1 THEN Plus(weight, Times(eta, claim.q[i])) ELSE weight)
      w0 == Zeros(Nodes * Alpha)
      s0 == Zeros(Nodes * Slot)
      z0 == Zeros(Inner)
      dense(m, n) == [j \in 1 .. n |-> m[j]]
  IN  [r \in 1 .. Rows |-> row(dense(fin.d[r], Nodes * Alpha), s0, z0, v[r])]
      \o [r \in 1 .. Rows |-> row(w0, dense(fin.b1[r], Nodes * Slot), z0, claim.reshape.commitment.t[r])]
      \o << row(Tensor(claim.b, digits), s0, z0, claim.y2),
            row(Tensor(c, digits), s0, TimesVec(Const(-1), claim.a), Zero) >>
      \o [r \in 1 .. Rows |-> row(w0, sides(r), TimesVec(Const(-1), dense(fin.b2[r], Inner)),
                                  IF r = 1 THEN Times(eta, claim.y1) ELSE Zero)]
Vanishes(rows, w, s1, z) ==
  \A i \in DOMAIN rows : Total(<<DotOf(rows[i].w, w), DotOf(rows[i].s, s1), DotOf(rows[i].z, z)>>) = rows[i].b

-----------------------------------------------------------------------------
(***************************************************************************)
(* Challenges: what a transcript derives from a seed.                      *)
(***************************************************************************)
Ternary(x) == CASE x % 3 = 0 -> 1 [] x % 3 = 1 -> -1 [] x % 3 = 2 -> 0
RECURSIVE InBall(_, _, _)
InBall(signs, i, seed) ==
  IF i = D THEN signs
  ELSE LET at == Draw(seed, 2 * i) % (i + 1)
       IN  InBall([signs EXCEPT ![i] = signs[at], ![at] = 1 - 2 * (Draw(seed, 2 * i + 1) % 2)], i + 1, seed)
SampleOf(set, seed, j) ==
  FromCentered(LAMBDA k :
    IF set.dense THEN Ternary(Draw(seed, j * D + k))
    ELSE Amplified(InBall([i \in Degrees |-> 0], D - set.tau1 - set.tau2, seed + 5 * j), set.tau2)[k])

Height(st) == Len(st.opening.layers)
NormCh(st, seed) ==
  LET n == Height(st) + 1 + M
  IN  [xi |-> Draw(seed, 1), r |-> ScalarPoint(seed, 1, n), rn |-> ScalarPoint(seed, 20, n)]
FoldCh(st, seed) ==
  [c |-> Tabulate(2 ^ st.k, LAMBDA j : SampleOf(st.set, seed, j)), eta |-> Draw(seed, 3),
   r |-> RingPoint(seed, 10, Height(st) - st.k + 1 + M)]
DecompositionCh(st, seed, digits) ==
  [xi |-> Draw(seed, 1), eta |-> Draw(seed, 2), sub |-> RingPoint(seed, 10, st.k + M),
   new |-> RingPoint(seed, 30, Height(st) - st.k + 1 + Log2(digits) + M)]
FinCh(seed) ==
  LET n == Gamma + Beta + Log2(Alpha)
  IN  [zeta |-> Draw(seed, 1), xi |-> Draw(seed, 2), eta |-> Draw(seed, 3),
       r |-> RingPoint(seed, 5, n), rp |-> RingPoint(seed, 30, n)]
GhCh(seed) == [c |-> Tabulate(Nodes, LAMBDA i : SampleOf(Dense, seed, i)), eta |-> RingElement(seed, 40)]

-----------------------------------------------------------------------------
(***************************************************************************)
(* A cycle.  A statement is [key, fin, opening, kind, u, k, top, set, lie, *)
(* seeds, alters]: a tree, a claim about its last layer or concatenation,  *)
(* how many layers to fold and, at the end, to allow.                      *)
(***************************************************************************)
TrueValue(st) ==
  IF st.kind = "te" THEN MleAt(Concatenated(st.opening.layers), st.u)
  ELSE LayerValue(Concatenated(st.opening.layers), Height(st), st.u)
ShapeOf(st) == Shape(st.k, st.set)

FoldInput(st, script) ==
  [t |-> st.opening.root, v |-> script[1].sent, u |-> IF st.kind = "te" THEN st.u ELSE ConcatenatedPoint(st.u)]
FoldCoins(st, script) == FoldCh(st, script[2].coins)
DecompositionCoins(st, script) == DecompositionCh(st, script[3].coins, ShapeOf(st).padded)
FinCoins(script) == FinCh(script[4].coins)
SideClaims(st, script) ==
  LET fold == script[3].sent
      dec == script[4].sent
      ch == DecompositionCoins(st, script)
      top == TopClaim(FoldInput(st, script), st.opening.layers, st.k, fold)
      new == PlanesClaim(dec, ch)
  IN  << [kind |-> "te", opening |-> [root |-> top.t, layers |-> SubSeq(st.opening.layers, 1, st.k)], u |-> top.u, v |-> top.v],
         [kind |-> "pe", opening |-> fold.subs, u |-> ch.sub, v |-> LayerValue(Concatenated(fold.subs.layers), st.k, ch.sub)],
         [kind |-> "pe", opening |-> dec.commitment, u |-> new.u, v |-> new.v] >>

CycleMoves == 5
CycleCoins(st, script) == st.seeds[Len(script) + 1]
CycleHonestMove(st, script) ==
  CASE Len(script) = 0 -> TrueValue(st)
    [] Len(script) = 1 -> IF st.kind = "te" THEN <<>>
                          ELSE ProveNorm(Concatenated(st.opening.layers), NormCh(st, script[1].coins))
    [] Len(script) = 2 -> ProveFold(st.key, FoldInput(st, script), st.opening.layers, st.k, FoldCoins(st, script))
    [] Len(script) = 3 -> ProveDecomposition(st.key, script[3].sent.layers, ShapeOf(st).padded, DecompositionCoins(st, script))
    [] Len(script) = 4 -> Apply(LAMBDA p : [fin |-> p, v |-> MatVec(st.fin.d, WHat(p))],
                            Finish(ProveReshape(st.key, st.fin, st.top, SideClaims(st, script), FinCoins(script)), FinCoins(script)))
    [] Len(script) = 5 -> ProveGh(script[5].sent.fin, GhCh(script[5].coins).c)
CycleStops(st, script) ==
  IF Len(script) = 3 /\ ~Fits(Concatenated(script[3].sent.layers), ShapeOf(st).padded) THEN "reject" ELSE "go"

CycleAccepts(st, script, p) ==
  LET layers == st.opening.layers
      fold == script[3].sent
      fin == script[5].sent
  IN  /\ st.kind = "pe" => NormCheck(Concatenated(layers), Height(st), [u |-> st.u, v |-> script[1].sent],
                                     NormCh(st, script[1].coins), script[2].sent)
      /\ FoldHolds(st.key, FoldInput(st, script), layers, st.k, ShapeOf(st), FoldCoins(st, script), fold)
      /\ DecompositionHolds(st.key, BottomClaim(FoldCoins(st, script), fold), fold.layers, ShapeOf(st).padded,
                            DecompositionCoins(st, script), script[4].sent)
      /\ FinHolds(st.key, st.fin, fin.fin, st.top, SideClaims(st, script), FinCoins(script))
      /\ GhHolds(st.fin, fin.fin, fin.v, GhCh(script[5].coins).c, GhCh(script[5].coins).eta, p)

\* External: a prover of another make.
Quotient(x, y) == CHOOSE z \in Elements : Times(z, y) = x
OtherFolds(st, h, factor) ==
  {[h EXCEPT !.v_top = Plus(@, IF factor = Zero THEN One ELSE Quotient(st.lie, factor))],
   [h EXCEPT !.v_subs = Plus(@, st.lie)],
   [h EXCEPT !.subs = CommitTree(st.key, [i \in 1 .. Len(Join(@.layers[st.k])) |-> One])],
   [h EXCEPT !.root[1] = Plus(@, One)]}
Recarried(planes) ==
  LET i == CHOOSE i \in DOMAIN planes[1] : Centered(planes[1][i][0]) > 0
      shift(e, x) == Plus(e, Const(x))
  IN  [planes EXCEPT ![1][i] = shift(@, -Base), ![2][i] = shift(@, 1)]
OtherDecompositions(st, h) ==
  {[h EXCEPT !.planes = Recarried(@), !.commitment = CommitDigits(st.key, Leaves(Recarried(h.planes)))],
   [h EXCEPT !.commitment = CommitDigits(st.key, [i \in 1 .. Len(Leaves(h.planes)) |-> Zero])],
   [h EXCEPT !.v_a = Plus(@, One), !.v_g = Plus(@, One)]}
CycleAltered(st, script, h) ==
  CASE Len(script) = 0 -> {Plus(h, st.lie)}
    [] Len(script) = 1 -> {h}
    [] Len(script) = 2 -> OtherFolds(st, h, TopFactor(Height(st), st.k, FoldInput(st, script).u))
    [] Len(script) = 3 -> OtherDecompositions(st, h)
    [] Len(script) = 4 -> {[h EXCEPT !.fin.y2 = Plus(@, st.lie)], [h EXCEPT !.fin.a1 = Plus(@, st.lie)]}
    [] Len(script) = 5 -> {[h EXCEPT !.z[1] = Plus(@, One)]}
CycleOtherMoves(st, script) ==
  Apply(LAMBDA h : IF Len(script) + 1 \in st.alters THEN CycleAltered(st, script, h) ELSE {h},
        CycleHonestMove(st, script))

CycleSound(st, script) == script[1].sent = TrueValue(st)

-----------------------------------------------------------------------------
(***************************************************************************)
(* The reduction alone, of a claim [reshape, q, a, b, y1, y2] to a         *)
(* verifier that does not hold s2.                                         *)
(***************************************************************************)
GhMoves == 1
GhCoins(st) == st.seeds[1]
GhHonestMove(st, script) ==
  IF script = <<>> THEN [y2 |-> st.claim.y2, v |-> MatVec(st.fin.d, WHat(st.claim))]
  ELSE ProveGh(st.claim, GhCh(script[1].coins).c)
GhClaim(st, script) == [st.claim EXCEPT !.y2 = script[1].sent.y2]
GhAccepts(st, script, p) ==
  LET ch == GhCh(script[1].coins) IN GhHolds(st.fin, GhClaim(st, script), script[1].sent.v, ch.c, ch.eta, p)

\* External: digits of other values, next to the right ones.
OtherW(st, j) == Split([ColumnCombination(st.claim.a, st.claim.reshape.commitment.s2) EXCEPT ![j] = Plus(@, One)])
GhOtherMoves(st, script) ==
  IF script = <<>>
  THEN {[y2 |-> y, v |-> MatVec(st.fin.d, OtherW(st, j))] :
          j \in st.others, y \in {st.claim.y2} \cup {Plus(st.claim.y2, st.claim.b[i]) : i \in st.others}}
  ELSE {[GhHonestMove(st, script) EXCEPT !.w = w] : w \in {WHat(st.claim)} \cup {OtherW(st, j) : j \in st.others}}

\* A wrong value is accepted when the challenge of each value moved is zero.
GhSound(st, script) ==
  LET moved == {j \in 1 .. Nodes : Chunk(script[2].sent.w, Alpha, j) # Chunk(WHat(st.claim), Alpha, j)}
  IN  \/ script[1].sent.y2 = st.claim.y2
      \/ moved # {} /\ \A j \in moved : GhCh(script[1].coins).c[j] = Zero
RestatedBy(fin, claim, v, ch, p) ==
  GhRowsHold(fin, claim, v, ch.c, ch.eta, p) /\ MatVec(fin.b1, claim.reshape.commitment.s1) = claim.reshape.commitment.t
  <=> /\ Vanishes(Eq38(fin, claim, v, ch.c, ch.eta), p.w, claim.reshape.commitment.s1, p.z)
      /\ DotOf(claim.q, claim.reshape.commitment.s1) = claim.y1
GhRestated(st, script) ==
  \A ch \in {GhCh(script[1].coins)}, claim \in {GhClaim(st, script)} :
    RestatedBy(st.fin, claim, script[1].sent.v, ch, script[2].sent)
=============================================================================
