---------------------------------- MODULE Pcs ----------------------------------
(***************************************************************************)
(* The commitment protocols of zk/src/pcs.  One of them is in use on some  *)
(* statement; prover and verifier exchange messages and challenges, one    *)
(* challenge after each message for all that was absorbed with it, as a    *)
(* random oracle answers; after the last message the verifier decides.  An *)
(* honest prover may give up on a norm, and of the recursion try another   *)
(* seed.                                                                   *)
(***************************************************************************)
EXTENDS Integers, Sequences

CONSTANTS Statements \* by protocol and kind of prover

CONSTANTS GhQ, GhD, GhDelta, GhWord, GhM, GhR
CONSTANT TrDraw(_, _), SrDraw(_, _)
CONSTANTS DpQ, DpOnes, DpTwos, DpRows, DpLambda, DpSlack, DpRerolls, DpDraw(_, _)

Gh == INSTANCE Greyhound WITH Q <- GhQ, D <- GhD, Delta <- GhDelta, Word <- GhWord,
                              M <- GhM, R <- GhR, L1PerPoly <- 2, MaxBatch <- 2
Dp == INSTANCE DotProduct WITH Q <- DpQ, D <- 2, Ones <- DpOnes, Twos <- DpTwos, OperatorNorm <- 3,
                               Rows <- DpRows, ProjFactor <- DpRows \div 2, Lambda <- DpLambda, SlackNum <- DpSlack, SlackDen <- 30,
                               MaxRerolls <- DpRerolls, Draw <- DpDraw
Ml == INSTANCE Mle WITH Q <- 5, QOuter <- 5, Mu <- 1, Nu <- 1, AugRows <- 1, N0 <- 1, Bt <- 1, Bu <- 1,
                        BEntry <- 1, BChi <- 1, BC <- 1, Sigma <- 1, M0 <- 1
Lv == INSTANCE Mle WITH Q <- 1009, QOuter <- 503, Mu <- 1, Nu <- 1, AugRows <- 2, N0 <- 2, Bt <- 64, Bu <- 4,
                        BEntry <- 1, BChi <- 1, BC <- 1, Sigma <- 1, M0 <- 1
Tr == INSTANCE Tree WITH Q <- 47, D <- 2, Base <- 7, Alpha <- 2, Rows <- 2, Gamma <- 4, Beta <- 3, Draw <- TrDraw
Sr == INSTANCE Structured WITH Q <- 12289, D <- 2, Base <- 3, Alpha <- 9, Rho <- 1, Draw <- SrDraw

-----------------------------------------------------------------------------
(***************************************************************************)
(* The statements: keys, witnesses and evaluation points drawn by small    *)
(* formulas, with what the challenges may be and what a forger may send.   *)
(***************************************************************************)
E(a, b) == [k \in 0 .. 1 |-> IF k = 0 THEN a ELSE b]
GhUnit(n) == [i \in 1 .. n |-> [j \in {i} |-> Gh!One]]
GhAny(n, s) == << [j \in 1 .. n |-> E((s + 3 * j * j) % GhQ, (5 * j + s) % GhQ)] >>
Narrow == [a |-> GhAny(GhM * GhDelta, 2), b |-> GhAny(GhR * GhDelta, 5), d |-> GhAny(GhR * GhDelta, 7)]
Wide == [a |-> GhUnit(GhM * GhDelta), b |-> GhUnit(GhR * GhM * GhDelta * GhDelta), d |-> GhUnit(GhR * GhDelta)]
F1 == << <<E(1, 12), E(0, 3)>>, <<E(5, 5), E(12, 7)>> >>
F2 == << <<E(12, 12), E(12, 12)>>, <<E(12, 12), E(12, 12)>> >>
F3 == << <<E(3, 0), E(9, 1)>>, <<E(0, 0), E(2, 11)>> >>
Some == { <<E(1, 0), E(0, 1)>>, <<E(12, 1), E(1, 1)>>, <<E(0, 0), E(1, 12)>>, <<E(1, 0), E(12, 0)>>, <<E(0,0), E(0,0)>> }
Few == { <<E(12, 1), E(1, 1)>>, <<E(1, 0), E(12, 0)>> }
With(r, some) == [key |-> r.key, fs |-> r.fs, hats |-> r.hats, us |-> r.us, x |-> r.x, packed |-> r.packed, batch |-> r.batch, others |-> r.others, some |-> some]
Others == {E(1, 0), E(0, 12), E(8, 1), E(5, 1)}
Hat(f) == Gh!DeriveWitness(Wide, f).t_hat
Damaged(h) == [h EXCEPT ![1][2] = E(12, 0)]
GhStatements ==
  {[protocol |-> "Greyhound", honest |-> TRUE, st |->
      {With(Gh!HonestStatement(Narrow, <<f>>, x, FALSE, FALSE), {}) : f \in {F1, F2, F3}, x \in {E(2, 0), E(3, 7)}}
      \cup {With(Gh!HonestStatement(Narrow, <<f>>, x, TRUE, FALSE), {}) : f \in {F1, F2, F3}, x \in {E(2,0), E(12,0)}}
      \cup {With(Gh!HonestStatement(Narrow, fs, E(3, 7), FALSE, TRUE), Some) : fs \in {<<F1>>, <<F1, F2>>, <<F2, F2>>}}],
   [protocol |-> "Greyhound", honest |-> FALSE, st |->
      {With(Gh!Statement(Wide, <<F3>>, E(3, 7), FALSE, FALSE, <<h>>, Others), Some) : h \in {Hat(F1), Damaged(Hat(F1))}}
      \cup {With(Gh!Statement(Wide, <<F3>>, E(2,0), TRUE, FALSE, <<h>>, Others), Some) : h \in {Hat(F1)}}
      \cup {With(Gh!Statement(Wide, <<F3>>, E(3, 7), FALSE, TRUE, <<Hat(F1)>>, {E(1, 0)}), Few),
            With(Gh!Statement(Wide, <<F3, F2>>, E(3, 7), FALSE, TRUE, <<Hat(F1), Hat(F2)>>, {E(1, 0)}), Few)}]}

MCDraw(seed, k) == (seed * 5 + k * k * 7 + k * (seed + 3) + ((k * 11) \div 4)) % DpQ

DpStatement(seed, r, n, full, ct, bound, bounds, keys, seeds, composed) ==
  LET s == Dp!SampleWitness(seed, r, n)
      rel == Dp!SampleRelation(seed, r, n, full, ct, bound, s)
      lv == Dp!Level(rel, keys, bounds, 0)
  IN  [rel |-> rel, key |-> keys, bounds |-> bounds, s |-> s, composed |-> composed,
       shape |-> IF composed THEN Dp!DeriveShape(lv) ELSE <<>>, seeds |-> seeds, alters |-> 1 .. 5, reroll |-> 0]
DpHonest(seed, r, n, bound, composed) ==
  LET b == Dp!Bounds(bound, r, n, 1)
  IN  DpStatement(seed, r, n, 1, 1, bound, b, Dp!DrawnKeys(seed, r, n, b, 1, 1, 1),
                  <<{1, 2}, {3, 4}, {5, 6}, {7, 8}, {1, 2}, {3}, {4}, {5, 6}>>, composed)
False(x, seeds) == [x EXCEPT !.rel.full[1].b = Dp!Plus(@, Dp!One), !.seeds = seeds]
False0(x, seeds) == [x EXCEPT !.rel.ct[1].b0 = (@ + 1) % DpQ, !.seeds = seeds]
\* What its other garbage would satisfy.
FalseBy(x, seeds) ==
  LET g == Dp!ShiftAt(Dp!GarbageG(x.s, x.rel.mult, x.rel.rank), <<1, x.rel.mult>>)
      other == Dp!Untriangle(Dp!Triangle(g, x.rel.mult), x.rel.mult)
  IN  [x EXCEPT !.rel.full[1].b = Dp!Lhs(x.rel.full[1], other, x.s), !.seeds = seeds]

DpForged(seed, r, bound, cs) ==
  LET b == Dp!Bounds(bound, r, 1, 1)
      x == DpStatement(seed, r, 1, 1, 1, bound, b, Dp!UnitKeys(r, 1, b), <<>>, FALSE)
  IN  {FalseBy(x, <<{1}, {3}, {5}, cs>>), False(x, <<{1}, {3}, {5}, cs>>), False0(x, <<{1}, {3}, {5}, cs>>), [x EXCEPT !.seeds = <<{1}, {3}, {5}, cs>>]}
DpForgedTwice(seed, bound) ==
  LET x == DpHonest(seed, 1, 1, bound, TRUE)
      ones == <<{1}, {3}, {5}, {7}, {1}, {3}, {4}, {5}>>
  IN  {[y EXCEPT !.alters = {3, 8}] : y \in {False(x, ones), False0(x, ones)}}

DpStatements ==
  {[protocol |-> "DotProduct", honest |-> TRUE, st |->
     {DpHonest(seed, r, 1, 4, FALSE) : seed \in 1 .. 2, r \in {1, 2}} \cup {DpHonest(1, 1, 2, 6, FALSE)} \cup {DpHonest(1, 1, 1, 2, TRUE)}],
   [protocol |-> "DotProduct", honest |-> FALSE, st |-> DpForged(1, 2, 4, {1, 2}) \cup DpForgedTwice(1, 2)]}
Tall == << <<1, 2>>, <<2, 4>>, <<0, 1>>, <<3, 3>> >>
MleStatements(follows, ws) ==
  {[protocol |-> "Mle", honest |-> follows, st |->
     {[key |-> Tall, f |-> f, ws |-> ws, mask |-> mask, lies |-> {[i \in DOMAIN ws |-> 1], [i \in DOMAIN ws |-> i]}] :
        f \in {<<1, 4>>, <<3, 0>>}, mask \in {<<0, 4>>, <<1, 1>>}}]}

Columns == { << <<1, -1, 1, 0>>, <<0, 1, -1, 1>> >>, << <<1, 1, 1, 1>>, <<-1, 1, 0, -1>> >> }
LevelsSt(aug, mask, y) ==
  [a |-> << <<101, 977>> >>, b |-> << <<350>> >>, d |-> << <<3, 440>>, <<77, 12>>, <<250, 251>>, <<9, 500>> >>,
   augs |-> <<aug>>, mask |-> mask, v1 |-> <<4, 1000>>, w0 |-> <<17, 501>>, y |-> y]
LevelsStatements ==
  {[protocol |-> "Levels", honest |-> TRUE, st |-> {LevelsSt(aug, mask, 0) : aug \in Columns, mask \in Columns}],
   [protocol |-> "Levels", honest |-> FALSE, st |-> {LevelsSt(aug, mask, y) : aug \in Columns, mask \in Columns, y \in {0, 17}}]}

MCTrDraw(seed, k) == (seed * seed * 13 + k * k * 7 + k * (5 * seed + 3) + ((k * 11) \div 4) + 17) % 47
TrKey(rows, cols, seed) == [r \in 1 .. rows |-> Tr!RingPoint(seed, 100 * r, cols)]
TrFin == [b1 |-> TrKey(2, 64, 3), b2 |-> TrKey(2, 16, 4), d |-> TrKey(2, 32, 5)]
TrStatement(seed, k, set, height, kind, seeds, alters) ==
  [key |-> TrKey(2, 8, seed), fin |-> TrFin,
   opening |-> Tr!CommitTree(TrKey(2, 8, seed), Tr!RingPoint(seed, 1, 2 ^ height * 2)),
   kind |-> kind, u |-> Tr!RingPoint(seed + 1, 7, height + 2 + (IF kind = "te" THEN 1 ELSE 0)),
   k |-> k, top |-> 3, set |-> set, lie |-> Tr!One, seeds |-> seeds, alters |-> alters]
TrSeeds == <<{1}, {2}, {3}, {4}, {5}>>
TrForged(kind, alters) == TrStatement(2, 1, Tr!Dense, 2, kind, TrSeeds, alters)
\* The claim the reduction starts from is the one an honest cycle ends with.
RECURSIVE TrScript(_, _)
TrScript(s, n) ==
  IF n = 0 THEN <<>>
  ELSE Tr!Apply(LAMBDA sofar : Append(sofar, [sent |-> Tr!CycleHonestMove(s, sofar), coins |-> CHOOSE c \in s.seeds[n] : TRUE]),
                TrScript(s, n - 1))
TrGh(s, seeds, others) == [fin |-> s.fin, claim |-> TrScript(s, 5)[5].sent.fin, seeds |-> <<seeds>>, others |-> others]
TreeStatements ==
  {[protocol |-> "Tree", honest |-> TRUE, st |->
     {TrStatement(1, 1, Tr!Dense, 2, "pe", TrSeeds, {}), TrStatement(2, 2, Tr!Sparse(1, 0), 3, "te", TrSeeds, {})}],
   [protocol |-> "Tree", honest |-> FALSE, st |->
     {TrForged("te", a) : a \in {{1, 3}, {3}, {4}, {5}, {6}}} \cup {TrForged("pe", {1})}],
   [protocol |-> "TreeGh", honest |-> TRUE, st |-> {TrGh(TrForged("te", {}), 1 .. 6, {})}],
   [protocol |-> "TreeGh", honest |-> FALSE, st |-> {TrGh(TrForged("te", {}), 1 .. 6, {1, 2})}]}

MCSrDraw(seed, k) == (seed * 3571 + k * k * 4099 + k * (seed * 977 + 13) + ((k * 11) \div 4) * 5003) % 12289
SrElement(a, b) == E(a % 12289, b % 12289)
SrX == <<SrElement(1, -1), SrElement(0, 1)>>
SrOther == <<SrElement(-1, 0), SrElement(1, 1)>>
SrPoint == <<SrElement(0, -1), SrElement(1, 1)>>
SrClaims(kind) ==
  CASE kind = "aggregate" -> <<[x |-> SrX, f |-> SrOther], [x |-> SrOther, f |-> SrOther]>>
    [] kind = "power" -> <<[x |-> SrX, f |-> <<Sr!One, SrPoint[1]>>]>>
    [] kind = "mle" -> <<[x |-> SrOther, f |-> Sr!EqTensor(SubSeq(SrPoint, 2, 2))]>>
    [] kind = "integer" -> <<[x |-> Sr!Pack(<<1, 0, -1, 1>>), f |-> Sr!PackFunctional(<<1, -1, 1, 1>>)]>>
    [] OTHER -> <<[x |-> SrX, f |-> SrOther]>>
SrSt(kind, srs, lie) ==
  [kind |-> kind, srs |-> srs, claims |-> SrClaims(kind), point |-> IF kind = "mle" THEN SubSeq(SrPoint, 2, 2) ELSE SrPoint,
   alpha |-> IF kind = "mle" THEN 2 ELSE 1, ints |-> Sr!ScalarProduct(<<1, 0, -1, 1>>, <<1, -1, 1, 1>>), lie |-> lie]
SrKinds == {"linear", "power", "mle", "combined", "aggregate", "product", "integer"}
OrbStatements ==
  {[protocol |-> "Orbweaver", honest |-> h, st |->
     {SrSt(kind, srs, SrElement(1, 0)) : kind \in SrKinds, srs \in {Sr!Setup(3, 2, TRUE, TRUE)}}] : h \in BOOLEAN}

PrU == SrElement(2, 5)
PrF(n) == [i \in 1 .. n |-> SrElement(31 * i * i + 7, 1000 * i + 3)]
\* What st.lie is added to, the first claim.
FmnSt(pair, f, rounds, lie) ==
  LET open == Sr!CommitBasis(pair, f)
  IN  [tree |-> FALSE, rounds |-> rounds, kk |-> 2,
       inst |-> [a |-> pair.a, w_inv |-> Sr!RingInverse(pair.w), t |-> open.t, u |-> PrU, z |-> Sr!Plus(Sr!PolyEval(f, PrU), lie),
                 beta |-> Sr!CertifiedBound(pair.trap), ok |-> TRUE, f |-> f, s |-> open.s]]
SlapSt(tree, fs, kk, rounds, lie) ==
  LET proofs == [i \in DOMAIN fs |-> Sr!CommitLeaves(tree, fs[i])]
  IN  [tree |-> TRUE, rounds |-> rounds, kk |-> kk,
       inst |-> [a |-> [j \in DOMAIN tree |-> tree[j].a], w |-> [j \in DOMAIN tree |-> tree[j].w], u |-> PrU,
                 root |-> [i \in DOMAIN fs |-> proofs[i].root],
                 z |-> [i \in DOMAIN fs |-> Sr!Plus(Sr!PolyEval(fs[i], PrU), IF i = 1 THEN lie ELSE Sr!Zero)],
                 beta |-> Sr!TreeBound(tree), ok |-> TRUE, f |-> fs, s |-> [i \in DOMAIN fs |-> Sr!TreeOpenings(proofs[i])]]]
PrisisStatements ==
  {[protocol |-> "Prisis", honest |-> TRUE, st |->
     UNION {{FmnSt(pair, PrF(4), 2, Sr!Zero) : pair \in {Sr!BasisPair(5, 4)}},
            UNION {{SlapSt(tree, <<PrF(8)>>, 2, 2, Sr!Zero), SlapSt(tree, <<PrF(8)>>, 4, 1, Sr!Zero)} : tree \in {Sr!PrisisSetup(1, 3)}},
            {SlapSt(tree, <<PrF(4), PrF(4)>>, 2, 1, Sr!Zero) : tree \in {Sr!PrisisSetup(1, 2)}}}],
   [protocol |-> "Prisis", honest |-> FALSE, st |->
     UNION {{FmnSt(pair, PrF(2), 1, Sr!One) : pair \in {Sr!BasisPair(5, 2)}},
            {SlapSt(tree, <<PrF(4)>>, 2, 1, Sr!One) : tree \in {Sr!PrisisSetup(1, 2)}}}]}

MCStatements == GhStatements \cup DpStatements \cup MleStatements(TRUE, << <<1, 3>>, <<2, 2>> >>) \cup LevelsStatements \cup TreeStatements \cup OrbStatements \cup PrisisStatements
MCFreeMaskValue == MleStatements(FALSE, << <<1, 3>> >>)
MCEvenBase == {[protocol |-> "DotProduct", honest |-> TRUE, st |-> {DpHonest(1, 2, 1, 8, FALSE)}]}
-----------------------------------------------------------------------------
VARIABLES protocol, honest, st, \* the statement
          script,               \* messages and challenges so far
          verdict

vars == <<protocol, honest, st, script, verdict>>

In(p) == protocol = p

Moves == CASE In("Greyhound") -> Gh!Moves(st) [] In("DotProduct") -> Dp!Moves(st)
           [] In("Mle") -> Ml!MleMoves [] In("Levels") -> Lv!LevelsMoves
           [] In("Tree") -> Tr!CycleMoves [] In("TreeGh") -> Tr!GhMoves
           [] In("Orbweaver") -> Sr!OrbMoves(st) [] In("Prisis") -> st.rounds
Coins == CASE In("Greyhound") -> Gh!Coins(st, Len(script) + 1, st.some)
           [] In("DotProduct") -> Dp!Coins(st, script)
           [] In("Mle") -> Ml!MleCoins [] In("Levels") -> Lv!LevelsCoins(st, script)
           [] In("Tree") -> Tr!CycleCoins(st, script) [] In("TreeGh") -> Tr!GhCoins(st)
           [] In("Orbweaver") -> Sr!OrbCoins(st) [] In("Prisis") -> Sr!FoldCoins(st)
Stops == CASE In("DotProduct") -> Dp!Stops(st, script) [] In("Tree") -> Tr!CycleStops(st, script) [] OTHER -> "go"
HonestMove == CASE In("Greyhound") -> Gh!HonestMove(st, script) [] In("DotProduct") -> Dp!HonestMove(st, script)
                [] In("Mle") -> Ml!MleHonestMove(st, script) [] In("Levels") -> Lv!LevelsHonestMove(st, script)
                [] In("Tree") -> Tr!CycleHonestMove(st, script) [] In("TreeGh") -> Tr!GhHonestMove(st, script)
                [] In("Orbweaver") -> Sr!OrbHonestMove(st, script) [] In("Prisis") -> Sr!FoldHonestMove(st, script)
OtherMoves == CASE In("Greyhound") -> Gh!OtherMoves(st, script)
                [] In("DotProduct") -> Dp!OtherMoves(st, script)
                [] In("Mle") -> Ml!MleOtherMoves(st, script) [] In("Levels") -> Lv!LevelsOtherMoves(st, script)
                [] In("Tree") -> Tr!CycleOtherMoves(st, script) [] In("TreeGh") -> Tr!GhOtherMoves(st, script)
                [] In("Orbweaver") -> Sr!OrbOtherMoves(st, script) [] In("Prisis") -> Sr!FoldOtherMoves(st, script)
Accepts(p) == CASE In("Greyhound") -> Gh!Accepts(st, script, p) [] In("DotProduct") -> Dp!Accepts(st, script, p)
                [] In("Mle") -> Ml!MleAccepts(st, script, p) [] In("Levels") -> Lv!LevelsAccepts(st, script, p)
                [] In("Tree") -> Tr!CycleAccepts(st, script, p) [] In("TreeGh") -> Tr!GhAccepts(st, script, p)
                [] In("Orbweaver") -> Sr!OrbAccepts(st, script, p) [] In("Prisis") -> Sr!FoldAccepts(st, script, p)
Sound == CASE In("Greyhound") -> Gh!Sound(st, script) [] In("DotProduct") -> Dp!Sound(st, script)
           [] In("Levels") -> Lv!LevelsSound(st, script)
           [] In("Tree") -> Tr!CycleSound(st, script) [] In("TreeGh") -> Tr!GhSound(st, script)
           [] In("Orbweaver") -> Sr!OrbSound(st, script) [] In("Prisis") -> Sr!FoldSound(st, script)

Init ==
  /\ \E s \in Statements : /\ protocol = s.protocol /\ honest = s.honest
                           /\ st \in s.st
  /\ script = <<>> /\ verdict = "none"

Moved(m) ==
  IF Len(script) < Moves
  THEN /\ \E c \in Coins : script' = Append(script, [sent |-> m, coins |-> c])
       /\ UNCHANGED verdict
  ELSE /\ script' = Append(script, [sent |-> m, coins |-> <<>>])
       /\ verdict' = IF Accepts(m) THEN "accept" ELSE "reject"

Prove == /\ honest /\ verdict = "none" /\ Stops = "go" /\ \E m \in {HonestMove} : Moved(m)
         /\ UNCHANGED <<protocol, honest, st>>

GiveUp == /\ honest /\ verdict = "none"
          /\ verdict' \in {Stops} \ {"go"}
          /\ UNCHANGED <<protocol, honest, st, script>>

\* Only the recursion aborts and starts its second level again.
Reroll == /\ verdict = "abort" /\ Dp!MayReroll(st)
          /\ st' = [st EXCEPT !.reroll = @ + 1]
          /\ script' = SubSeq(script, 1, 4) /\ verdict' = "none"
          /\ UNCHANGED <<protocol, honest>>

\* External: a prover of another make.
Forge == /\ ~honest /\ verdict = "none" /\ \E m \in OtherMoves : Moved(m)
         /\ UNCHANGED <<protocol, honest, st>>

Next == Prove \/ GiveUp \/ Reroll \/ Forge
Spec == Init /\ [][Next]_vars

-----------------------------------------------------------------------------
\* A prover that follows the code and does not give up is never rejected, for
\* any statement, challenge and retry: the gates, the digits, the bounds and
\* the indices of both sides agree (greyhound.rs:361-433, batched.rs:359-466,
\* dotproduct.rs:1984-2255 and 3600-3722).
HonestProofsVerify == honest => verdict # "reject"

\* What an untruthful prover has accepted holds of what it committed to, or
\* the challenges drawn after it spoke cancelled exactly what was wrong; of
\* all challenges those are few (the same lines of the verifiers).
AcceptedClaimsHold == ~honest /\ verdict = "accept" => Sound

\* The relation the recursion hands to its next level holds of an opening
\* exactly when this level's verifier would have taken the opening
\* (dotproduct.rs:3183-3332); so does the one linear system the finish's
\* reduction is restated as (tree_fin.rs:2056-2180).
TargetsRestateOpenings ==
  verdict \in {"accept", "reject"} =>
    /\ In("DotProduct") /\ ~st.composed => Dp!Restated(st, script, {1, 5})
    /\ In("TreeGh") => Tr!GhRestated(st, script)

\* What validate lets pass, split takes: validate rules out that a coefficient
\* exceeds the span (dotproduct.rs:488-490, 530-532).
ValidatedDigitsSplit == In("DotProduct") => verdict # "panic"

\* The claim verification of the openings by a tall key "is **exact**", with
\* "no false accepts" (mle.rs:17-18, api.rs:157-158).
ClaimsAreExact == In("Mle") /\ ~honest /\ verdict = "accept" => Ml!MleSound(st, script)
=============================================================================
