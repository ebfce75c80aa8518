--------------------------------- MODULE Norms ---------------------------------
(***************************************************************************)
(* Exact norms of committed witnesses: zk/src/shortness/tensor_fold.rs,    *)
(* committed_norm.rs, self_ip.rs and exact_l2.rs over the chain of keys of *)
(* zk/src/pcs/leveled.rs.  All foldings use the same two challenges of a   *)
(* round, so that all that is claimed is claimed of what one commitment    *)
(* binds.  A digit is a bit.                                               *)
(***************************************************************************)
EXTENDS Gadgets, FiniteSets

Hermitian(u, v) == Apply2(LAMBDA x, y : TotalOf(LAMBDA i : Times(x[i], SigmaOf(y[i])), 1, Len(x)), u, v)
Ct(x) == x[0]
Left(s) == SubSeq(s, 1, Len(s) \div 2)
Right(s) == SubSeq(s, (Len(s) \div 2) + 1, Len(s))
FoldWith(u, v, c) == AddVec(TimesVec(c[1], u), TimesVec(c[2], v))
RECURSIVE FoldState(_, _)
FoldState(s, cs) ==
  IF cs = <<>> THEN s
  ELSE Apply(LAMBDA t : FoldState(FoldWith(Left(t), Right(t), Head(cs)), Tail(cs)), s)

\* The pool: so many coefficients of size one, the next ones of size two.
Nonzero(c) == {k \in Degrees : c[k] # 0}
Pool(w1, w2) ==
  {c \in ShortElements(2) :
     /\ Cardinality(Nonzero(c)) = w1 + w2
     /\ \A k \in Nonzero(c) : Abs(Centered(c[k])) = (IF Cardinality({i \in Nonzero(c) : i < k}) < w1 THEN 1 ELSE 2)}
Pairs(S) == {<<a, b>> : a, b \in S}

-----------------------------------------------------------------------------
(***************************************************************************)
(* The chain of keys: a witness of blocks is multiplied block by block,    *)
(* written in bits, and so on to the root.  A chain has its keys, from the *)
(* blocks up.                                                              *)
(***************************************************************************)
Levels(chain) == Len(chain)
SetupChain(seed, blocks, perBlock) ==
  Tabulate(Log2(blocks), LAMBDA j : << RingPoint(seed, 50 * j, IF j = 1 THEN 2 * perBlock ELSE 2 * Alpha) >>)
ApplyBlockwise(key, s) == Concat(Tabulate(Len(s) \div Len(key[1]), LAMBDA b : MatVec(key, Chunk(s, Len(key[1]), b))))
RECURSIVE CommitFrom(_, _, _)
CommitFrom(chain, j, s) ==
  Apply(LAMBDA out :
    IF j = Levels(chain) THEN [root |-> out, states |-> <<>>]
    ELSE Apply(LAMBDA bits : Apply(LAMBDA up : [up EXCEPT !.states = <<bits>> \o @], CommitFrom(chain, j + 1, bits)), Split(out)),
    ApplyBlockwise(chain[j], s))
CommitChain(chain, s) == CommitFrom(chain, 1, s)

CheckRoot(chain, msg, cm) == MatVec(chain[Levels(chain)], msg) = cm
\* Slip: the message of the round before is not folded in its halves.
CheckLevelWhole(chain, level, msg, prev, c) == Apply(LAMBDA up : MatVec(chain[level + 1], msg) = Left(up), Join(prev))
CheckLevel(chain, level, msg, prev, c) ==
  Apply(LAMBDA up : MatVec(chain[level + 1], msg) = FoldWith(Left(up), Right(up), c), Join(prev))
\* What a chain sends in a round, and all its checks.
LaneMessage(chain, states, cs) == FoldState(states[Levels(chain) - 1 - Len(cs)], cs)
CheckLane(chain, cm, msgs, cs, tail) ==
  LET rounds == Levels(chain) - 1
  IN  /\ CheckRoot(chain, msgs[1], cm)
      /\ \A i \in 2 .. rounds : CheckLevel(chain, rounds + 1 - i, msgs[i], msgs[i - 1], cs[i - 1])
      /\ CheckLevel(chain, 0, tail, msgs[rounds], cs[rounds])
FoldJoinCommutes(s, c) == Join(FoldWith(Left(s), Right(s), c)) = FoldWith(Join(Left(s)), Join(Right(s)), c)
DecompositionIsExact == Q <= 2 ^ Alpha

-----------------------------------------------------------------------------
(***************************************************************************)
(* Weights of a linear claim that halve with the witness, and the messages *)
(* and checks of a linear and of a bilinear claim.                         *)
(***************************************************************************)
ModPow(x, n) == Apply(LAMBDA p : p[0], PowTable(Const(x), n + 1)[n + 1])
BuildWeights(digits, block, rounds, WeightAt(_), Scaled(_)) ==
  [a0 |-> Tabulate(2 * block, LAMBDA e : FromCentered(LAMBDA t : Scaled(e - 1) * WeightAt(((e - 1) \div digits) * D + t))),
   ratios |-> Tabulate(rounds, LAMBDA j : Const(WeightAt((block \div digits) * D * 2 ^ j)))]
Geometric(base, digits, block, rounds) ==
  BuildWeights(digits, block, rounds, LAMBDA i : ModPow(base, i), LAMBDA e : 2 ^ (e % digits))
RECURSIVE MleValue(_, _)
MleValue(vars, i) ==
  IF i = 0 THEN 1 ELSE ((IF i % 2 = 1 THEN Head(vars) ELSE 1) * MleValue(Tail(vars), i \div 2)) % Q
MultilinearWeights(vars, block, rounds) == BuildWeights(1, block, rounds, LAMBDA i : MleValue(vars, i), LAMBDA e : 1)
RECURSIVE GeometricVars(_, _)
GeometricVars(base, n) == IF n = 0 THEN <<>> ELSE <<base>> \o GeometricVars((base * base) % Q, n - 1)

RECURSIVE Weight(_, _)
Weight(w, outer) ==
  IF outer = 0 THEN w.a0 ELSE Apply(LAMBDA v : v \o TimesVec(w.ratios[outer], v), Weight(w, outer - 1))
WeightRounds(w) == Len(w.ratios)
Beta(w, round) == <<One, w.ratios[WeightRounds(w) + 1 - round]>>

LinearMsg(state, child) == <<Hermitian(Left(state), child), Hermitian(Right(state), child)>>
LinearExpose(beta, msg, claim) == Ct(DotOf(beta, msg)) = claim
\* Slip: of two elements only the constant terms compared.
LinearRecursionConstant(beta, msg, prev, c) == Ct(DotOf(beta, msg)) = Ct(DotOf(c, prev))
LinearRecursion(beta, msg, prev, c) == DotOf(beta, msg) = DotOf(c, prev)
\* Slip: the same.
LinearBaseConstant(state, a0, prev, c) == Ct(Hermitian(state, a0)) = Ct(DotOf(c, prev))
LinearBase(state, a0, prev, c) == Hermitian(state, a0) = DotOf(c, prev)

QuadMsg(u, v) ==
  <<Hermitian(Left(u), Left(v)), Hermitian(Left(u), Right(v)), Hermitian(Right(u), Left(v)), Hermitian(Right(u), Right(v))>>
\* Slip: the products without the conjugate.
QuadWeightsPlain(c) == <<Times(c[1], c[1]), Times(c[1], c[2]), Times(c[2], c[1]), Times(c[2], c[2])>>
QuadWeights(c) ==
  <<Times(c[1], SigmaOf(c[1])), Times(c[1], SigmaOf(c[2])), Times(c[2], SigmaOf(c[1])), Times(c[2], SigmaOf(c[2]))>>
QuadExpose(msg, claim) == (Ct(msg[1]) + Ct(msg[4])) % Q = claim % Q
\* Slip: the same.
QuadCarryConstant(msg, prev, c) == Ct(Plus(msg[1], msg[4])) = Ct(DotOf(QuadWeights(c), prev))
QuadCarry(msg, prev, c) == Plus(msg[1], msg[4]) = DotOf(QuadWeights(c), prev)
QuadBase(u, v, prev, c) == Hermitian(u, v) = DotOf(QuadWeights(c), prev)

\* What the tail of an honest fold may reach.
CoordBound(initial, tOp, rounds) == initial * (2 * tOp) ^ rounds
TailBoundSq(initial, tOp, rounds, baseLen) == 2 * baseLen * CoordBound(initial, tOp, rounds) ^ 2
\* Repetitions of an error of num / den to reach two to the minus bits.
RECURSIVE HalvingsOf(_, _)
HalvingsOf(num, den) == IF 2 * num > den THEN 0 ELSE 1 + HalvingsOf(2 * num, den)
Repetitions(num, den, bits) ==
  LET k == HalvingsOf(num, den)
  IN  IF num = 0 \/ den <= num \/ k = 0 THEN <<>> ELSE <<(bits + k - 1) \div k, k * ((bits + k - 1) \div k)>>

-----------------------------------------------------------------------------
(***************************************************************************)
(* The committed norm: a main witness, and for each repetition of the test *)
(* for bits a vector of its products with a weight, committed in bits.     *)
(***************************************************************************)
DirectRouteAdmissible(sMax) == sMax < Q
MainBundle(chain, s, w, boundSq, tailBoundSq) ==
  Apply(LAMBDA com : [chain |-> chain, s |-> s, root |-> com.root, states |-> com.states, w |-> w,
                      boundSq |-> boundSq, tailBoundSq |-> tailBoundSq], CommitChain(chain, s))
BinaryBundle(chain, tilde, wValue, wDigit, wBinarity, tailBoundSq) ==
  Apply(LAMBDA bits :
    Apply(LAMBDA com : [chain |-> chain, tilde |-> tilde, bits |-> bits, root |-> com.root, states |-> com.states,
                        wValue |-> wValue, wDigit |-> wDigit, wBinarity |-> wBinarity, tailBoundSq |-> tailBoundSq],
          CommitChain(chain, bits)), Split(tilde))
Rounds(main) == Levels(main.chain) - 1
FullWeight(main, w) == Weight(w, Rounds(main))
AuxClaims(main, b) ==
  [alpha |-> Ct(Hermitian(main.s, FullWeight(main, b.wBinarity))), r |-> Ct(Hermitian(main.s, FullWeight(main, b.wValue))),
   rPrime |-> Ct(Hermitian(b.bits, FullWeight(main, b.wDigit)))]
StatementOf(main, binary) ==
  [cm |-> main.root, v |-> Ct(Hermitian(main.s, FullWeight(main, main.w))), b |-> NormSq(main.s),
   aux |-> Tabulate(Len(binary), LAMBDA j : [root |-> binary[j].root, claims |-> AuxClaims(main, binary[j])])]
\* The prover refuses a witness above the bound.
NormClaimed(main) == NormSq(main.s) <= main.boundSq

CommitsOf(main, binary, cs) ==
  [main |-> LaneMessage(main.chain, main.states, cs),
   aux |-> Tabulate(Len(binary), LAMBDA j : LaneMessage(binary[j].chain, binary[j].states, cs))]
RoundMessage(main, binary, cs) ==
  Apply2(LAMBDA state, outer :
    [commit |-> CommitsOf(main, binary, cs),
     linear |-> LinearMsg(state, Weight(main.w, outer)), quad |-> QuadMsg(state, state),
     aux |-> Tabulate(Len(binary), LAMBDA j :
               [lin |-> <<LinearMsg(state, Weight(binary[j].wValue, outer)),
                          LinearMsg(FoldState(binary[j].bits, cs), Weight(binary[j].wDigit, outer)),
                          LinearMsg(state, Weight(binary[j].wBinarity, outer))>>,
                quad |-> QuadMsg(FoldState(binary[j].tilde, cs), state)])],
    FoldState(main.s, cs), Rounds(main) - 1 - Len(cs))
Tails(main, binary, cs) ==
  [main |-> FoldState(main.s, cs), aux |-> Tabulate(Len(binary), LAMBDA j : FoldState(binary[j].bits, cs))]

\* What is claimed: by its family, and 0 for the main witness or the repetition.
AuxFamilies == <<"aux-value", "aux-digit", "aux-binarity">>
LinearIds(binary) == {<<"linear", 0>>} \cup {<<AuxFamilies[k], j>> : k \in 1 .. 3, j \in DOMAIN binary}
QuadIds(binary) == {<<"quadratic", 0>>} \cup {<<"aux-quadratic", j>> : j \in DOMAIN binary}
FamilyIndex(f) == CHOOSE k \in 1 .. 3 : AuxFamilies[k] = f[1]
PairOf(m, f) == IF f[1] = "linear" THEN m.linear ELSE m.aux[f[2]].lin[FamilyIndex(f)]
CrossOf(m, f) == IF f[1] = "quadratic" THEN m.quad ELSE m.aux[f[2]].quad
WeightOf(main, binary, f) ==
  CASE f[1] = "linear" -> main.w [] f[1] = "aux-value" -> binary[f[2]].wValue
    [] f[1] = "aux-digit" -> binary[f[2]].wDigit [] f[1] = "aux-binarity" -> binary[f[2]].wBinarity
ClaimOf(claim, f) ==
  CASE f[1] = "linear" -> claim.v [] f[1] = "quadratic" -> claim.b
    [] f[1] = "aux-value" -> claim.aux[f[2]].claims.r [] f[1] = "aux-digit" -> claim.aux[f[2]].claims.rPrime
    [] OTHER -> claim.aux[f[2]].claims.alpha
ChainOf(main, binary, j) == IF j = 0 THEN main.chain ELSE binary[j].chain
CommitOf(m, j) == IF j = 0 THEN m.commit.main ELSE m.commit.aux[j]
TailOf(t, j) == IF j = 0 THEN t.main ELSE t.aux[j]
RootOf(claim, j) == IF j = 0 THEN claim.cm ELSE claim.aux[j].root
TailBoundOf(main, binary, j) == IF j = 0 THEN main.tailBoundSq ELSE binary[j].tailBoundSq

\* Every check by what it is called, the repetition and the round, 0 for
\* those of the statement; at the end, the number of levels.
StatementReport(main, claim) ==
  {<<"wraparound", 0, 0>> : x \in {0} \ (IF DirectRouteAdmissible(main.boundSq) THEN {0} ELSE {})}
  \cup {<<"statement-bound", 0, 0>> : x \in {y \in {claim.b} : y > main.boundSq}}
  \cup {<<"well-formed", j, 0>> : j \in {i \in DOMAIN claim.aux : claim.aux[i].claims.r # claim.aux[i].claims.rPrime}}
RoundChecks(main, binary, claim, i, m, prev, c) ==
  {<<"commitment", j, i>> : j \in {k \in 0 .. Len(binary) :
     ~(IF i = 1 THEN CheckRoot(ChainOf(main, binary, k), CommitOf(m, k), RootOf(claim, k))
       ELSE CheckLevel(ChainOf(main, binary, k), Levels(main.chain) - i, CommitOf(m, k), CommitOf(prev, k), c))}}
  \cup {<<f[1], f[2], i>> : f \in {g \in LinearIds(binary) :
     LET beta == Beta(WeightOf(main, binary, g), i)
     IN  ~(IF i = 1 THEN LinearExpose(beta, PairOf(m, g), ClaimOf(claim, g))
           ELSE LinearRecursion(beta, PairOf(m, g), PairOf(prev, g), c))}}
  \cup {<<f[1], f[2], i>> : f \in {g \in QuadIds(binary) :
     ~(IF i = 1 THEN QuadExpose(CrossOf(m, g), ClaimOf(claim, g)) ELSE QuadCarry(CrossOf(m, g), CrossOf(prev, g), c))}}
FinalChecks(main, binary, t, prev, c) ==
  {<<"commitment", j, Levels(main.chain)>> : j \in {k \in 0 .. Len(binary) :
     ~CheckLevel(ChainOf(main, binary, k), 0, TailOf(t, k), CommitOf(prev, k), c)}}
  \cup {<<f[1], f[2], Levels(main.chain)>> : f \in {g \in LinearIds(binary) :
     ~LinearBase(TailOf(t, IF g[1] = "aux-digit" THEN g[2] ELSE 0), WeightOf(main, binary, g).a0, PairOf(prev, g), c)}}
  \cup {<<f[1], f[2], Levels(main.chain)>> : f \in {g \in QuadIds(binary) :
     ~QuadBase(IF g[2] = 0 THEN t.main ELSE Join(t.aux[g[2]]), t.main, CrossOf(prev, g), c)}}
  \cup {<<"tail-short", j, Levels(main.chain)>> : j \in {k \in 0 .. Len(binary) : NormSq(TailOf(t, k)) > TailBoundOf(main, binary, k)}}

\* A statement is [main, binary, claim, seeds]: what verifier and prover are
\* set up with, what is claimed, and challenges by round.
CoinsOf(script) == [i \in 1 .. Len(script) |-> script[i].coins]
Report(st, script, t) ==
  StatementReport(st.main, st.claim)
  \cup UNION {RoundChecks(st.main, st.binary, st.claim, i, script[i].sent, IF i = 1 THEN <<>> ELSE script[i - 1].sent,
                          IF i = 1 THEN <<>> ELSE script[i - 1].coins) : i \in DOMAIN script}
  \cup FinalChecks(st.main, st.binary, t, script[Len(script)].sent, script[Len(script)].coins)
NormMoves(st) == Rounds(st.main)
NormCoins(st, script) == IF Len(script) < NormMoves(st) THEN st.seeds[Len(script) + 1] ELSE {}
NormStops(st) == IF NormClaimed(st.main) THEN "go" ELSE "refuse"
NormHonestMove(st, script) ==
  Apply(LAMBDA cs : IF Len(script) < NormMoves(st) THEN RoundMessage(st.main, st.binary, cs) ELSE Tails(st.main, st.binary, cs), CoinsOf(script))
NormAccepts(st, script, t) == Report(st, script, t) = {}

\* External: a prover with false claims of some families st.lies, or that
\* shows another witness than the one committed to, st.shown; what is missing
\* in a round goes to the first slot, or so over two slots that the challenge
\* of two ones cancels it.
TrueMessage(st, cs) == [RoundMessage(st.shown.main, st.shown.binary, cs) EXCEPT !.commit = CommitsOf(st.main, st.binary, cs)]
LinMissing(st, script, m, f) ==
  LET beta == Beta(WeightOf(st.main, st.binary, f), Len(script) + 1)
  IN  IF script = <<>> THEN Const(ClaimOf(st.claim, f) - Ct(DotOf(beta, PairOf(m, f))))
      ELSE Minus(DotOf(script[Len(script)].coins, PairOf(script[Len(script)].sent, f)), DotOf(beta, PairOf(m, f)))
QuadMissing(st, script, m, f) ==
  IF script = <<>> THEN Const(ClaimOf(st.claim, f) - Ct(CrossOf(m, f)[1]) - Ct(CrossOf(m, f)[4]))
  ELSE Minus(DotOf(QuadWeights(script[Len(script)].coins), CrossOf(script[Len(script)].sent, f)), Plus(CrossOf(m, f)[1], CrossOf(m, f)[4]))
ModInverse(x) == CHOOSE y \in 1 .. Q - 1 : (x * y) % Q = 1
PairAdded(pair, x, y) == <<Plus(pair[1], x), Plus(pair[2], y)>>
LinMadeUp(pair, missing, ratio, cancel) ==
  IF ~cancel THEN PairAdded(pair, missing, Zero)
  ELSE Apply(LAMBDA t : PairAdded(pair, Minus(missing, Times(ratio, t)), t), Scale(ModInverse(ratio[0] - 1), missing))
QuadMadeUp(cross, missing, cancel) ==
  [cross EXCEPT ![1] = Plus(@, missing), ![2] = IF cancel THEN Minus(@, missing) ELSE @]
WithPair(m, f, pair) ==
  IF f[1] = "linear" THEN [m EXCEPT !.linear = pair] ELSE [m EXCEPT !.aux[f[2]].lin[FamilyIndex(f)] = pair]
WithCross(m, f, cross) == IF f[1] = "quadratic" THEN [m EXCEPT !.quad = cross] ELSE [m EXCEPT !.aux[f[2]].quad = cross]
RECURSIVE MadeUp(_, _, _, _, _)
MadeUp(st, script, m, fs, cancel) ==
  IF fs = {} THEN m
  ELSE LET f == CHOOSE g \in fs : TRUE
       IN  Apply(LAMBDA n : MadeUp(st, script, n, fs \ {f}, cancel),
             IF f \in LinearIds(st.binary)
             THEN WithPair(m, f, LinMadeUp(PairOf(m, f), LinMissing(st, script, m, f), WeightOf(st.main, st.binary, f).ratios[WeightRounds(st.main.w) - Len(script)], cancel))
             ELSE WithCross(m, f, QuadMadeUp(CrossOf(m, f), QuadMissing(st, script, m, f), cancel)))
\* One place of one message changed in a finished honest proof: [round, id,
\* slot, by, made], with the challenges it was made under.  Nothing sent
\* later is made anew, though every challenge from that round on is drawn
\* anew: it is bound to what was changed.
FinishedMessage(st, made, n) ==
  IF n < NormMoves(st) THEN RoundMessage(st.main, st.binary, SubSeq(made, 1, n)) ELSE Tails(st.main, st.binary, made)
Tampered(m, t) ==
  CASE t.id[1] = "commitment" -> IF t.id[2] = 0 THEN [m EXCEPT !.commit.main[t.slot] = Plus(@, t.by)]
                                 ELSE [m EXCEPT !.commit.aux[t.id[2]][t.slot] = Plus(@, t.by)]
    [] t.id[1] \in {"quadratic", "aux-quadratic"} -> WithCross(m, t.id, [CrossOf(m, t.id) EXCEPT ![t.slot] = Plus(@, t.by)])
    [] OTHER -> WithPair(m, t.id, [PairOf(m, t.id) EXCEPT ![t.slot] = Plus(@, t.by)])
NormOtherMoves(st, script) ==
  Apply(LAMBDA cs :
    IF st.tampers # <<>>
    THEN {IF t.round = Len(script) + 1 THEN Tampered(FinishedMessage(st, t.made, Len(script)), t)
          ELSE FinishedMessage(st, t.made, Len(script)) : t \in {st.tampers[1]}}
    ELSE IF Len(script) = NormMoves(st) THEN {Tails(w.main, w.binary, cs) : w \in {st, st.shown}}
    ELSE {MadeUp(st, script, m, st.lies, cancel) : cancel \in IF st.lies = {} THEN {FALSE} ELSE BOOLEAN, m \in {TrueMessage(st, cs)}},
    CoinsOf(script))

\* By how much a claim misses the witness after n rounds.
LinError(st, script, f, n) ==
  IF n = 0 THEN Const(ClaimOf(st.claim, f) - ClaimOf(StatementOf(st.main, st.binary), f))
  ELSE DotOf(script[n].coins, AddVec(PairOf(script[n].sent, f), TimesVec(Const(-1), PairOf(RoundMessage(st.main, st.binary, SubSeq(CoinsOf(script), 1, n - 1)), f))))
CrossError(st, script, f, n) ==
  AddVec(CrossOf(script[n].sent, f), TimesVec(Const(-1), CrossOf(RoundMessage(st.main, st.binary, SubSeq(CoinsOf(script), 1, n - 1)), f)))
QuadError(st, script, f, n) ==
  IF n > 0 THEN DotOf(QuadWeights(script[n].coins), CrossError(st, script, f, n))
  ELSE Const(ClaimOf(st.claim, f) - (IF f[2] = 0 THEN NormSq(st.main.s) ELSE Ct(Hermitian(st.binary[f[2]].tilde, st.main.s))))
FewOf(S, T) == 2 * Cardinality(S) <= Cardinality(T)
LinLuck(st, script, f, n) ==
  \A x \in {AddVec(PairOf(script[n].sent, f), TimesVec(Const(-1), PairOf(RoundMessage(st.main, st.binary, SubSeq(CoinsOf(script), 1, n - 1)), f)))} :
    FewOf({c \in st.pool : DotOf(c, x) = Zero}, st.pool)
QuadLuck(st, script, f, n) ==
  \A x \in {CrossError(st, script, f, n)} : FewOf({c \in st.pool : DotOf(QuadWeights(c), x) = Zero}, st.pool)
\* A witness of other than bits escapes by its weight, or by the weight of
\* the fingerprint when the products committed are others.
Flat(s) == Concat(Tabulate(Len(s), LAMBDA i : [k \in 1 .. D |-> s[i][k - 1]]))
PolyAt(cs, x) == SumOver(LAMBDA k : cs[k] * ModPow(x, k - 1), 1, Len(cs)) % Q
Bits(s) == \A i \in DOMAIN s, k \in Degrees : s[i][k] \in {0, 1}
NotBits(s) == Apply(LAMBDA cs : [k \in DOMAIN cs |-> cs[k] * (cs[k] - 1)], Flat(s))
OffProducts(s, tilde, alpha) ==
  Apply2(LAMBDA cs, ts : [k \in DOMAIN cs |-> ts[k] - cs[k] * ModPow(alpha, k - 1)], Flat(s), Flat(tilde))
Escapes(cs, x) == PolyAt(cs, x) = 0 /\ \E y \in 1 .. Q - 1 : PolyAt(cs, y) # 0
NormSound(st, script) ==
  LET cut == SubSeq(script, 1, NormMoves(st))
      n == NormMoves(st)
      claimsHold == \A f \in LinearIds(st.binary) : LinError(st, cut, f, 0) = Zero
      quadsHold == \A f \in QuadIds(st.binary) : QuadError(st, cut, f, 0) = Zero
  IN  /\ st.claim.cm = st.main.root
      /\ script[n + 1].sent = Tails(st.main, st.binary, CoinsOf(cut))
      /\ \A f \in LinearIds(st.binary) : LinError(st, cut, f, n) = Zero
      /\ \A f \in QuadIds(st.binary) : QuadError(st, cut, f, n) = Zero
      /\ \A i \in 1 .. n :
           /\ \A f \in LinearIds(st.binary) : LinError(st, cut, f, i - 1) # Zero /\ LinError(st, cut, f, i) = Zero => LinLuck(st, cut, f, i)
           /\ \A f \in QuadIds(st.binary) : QuadError(st, cut, f, i - 1) # Zero /\ QuadError(st, cut, f, i) = Zero => QuadLuck(st, cut, f, i)
      /\ claimsHold /\ quadsHold =>
           \A j \in DOMAIN st.binary :
             Bits(st.main.s) \/ Escapes(NotBits(st.main.s), st.alpha) \/ Escapes(OffProducts(st.main.s, st.binary[j].tilde, st.alpha), st.r)

\* In its own round a place is read by one check, the cross products of a
\* bilinear claim and all but the constant term of the first message by none.
ReadInRound(t) ==
  IF \/ t.id[1] \in {"quadratic", "aux-quadratic"} /\ t.slot \in {2, 3}
     \/ t.id[1] # "commitment" /\ t.round = 1 /\ Ct(t.by) = 0
  THEN {} ELSE {<<t.id[1], t.id[2], t.round>>}
\* What a check of the round after compares with, of a message and a challenge.
Lanes(binary) == {<<"commitment", j>> : j \in 0 .. Len(binary)} \cup LinearIds(binary) \cup QuadIds(binary)
LaneCarries(binary, m, f, c) ==
  CASE f[1] = "commitment" -> Apply(LAMBDA up : FoldWith(Left(up), Right(up), c), Join(CommitOf(m, f[2])))
    [] f \in LinearIds(binary) -> DotOf(c, PairOf(m, f))
    [] f \in QuadIds(binary) -> DotOf(QuadWeights(c), CrossOf(m, f))
\* Challenges that leave a lane's carry at what the honest proof was made for.
Hides(st, script, f, i) ==
  UNION {{c \in st.pool \cup {script[i].coins} : LaneCarries(st.binary, script[i].sent, f, c) = carry} :
     carry \in {LaneCarries(st.binary, FinishedMessage(st, st.tampers[1].made, i - 1), f, st.tampers[1].made[i])}}
ReportsTampers(st, script) ==
  \A t \in {st.tampers[i] : i \in DOMAIN st.tampers}, report \in {Report(st, SubSeq(script, 1, NormMoves(st)), script[NormMoves(st) + 1].sent)} :
    /\ {x \in report : x[3] <= t.round} = ReadInRound(t)
    /\ \A x \in report : x[1] # "tail-short"
    /\ \A f \in Lanes(st.binary), i \in t.round .. NormMoves(st) : \A hides \in {Hides(st, script, f, i)} :
         /\ FewOf(hides, st.pool)
         /\ <<f[1], f[2], i + 1>> \in report <=> script[i].coins \notin hides

-----------------------------------------------------------------------------
(***************************************************************************)
(* The norm alone, of which only constant terms are compared: with short   *)
(* challenges, where nothing binds the witness, or bound to a chain.       *)
(***************************************************************************)
Carried(pi, c) == Ct(DotOf(QuadWeights(c), pi))
RECURSIVE QuadColumn(_, _, _)
QuadColumn(b, pis, cs) ==
  IF pis = <<>> THEN [ok |-> TRUE, carried |-> b]
  ELSE Apply(LAMBDA up : [ok |-> (Ct(Head(pis)[1]) + Ct(Head(pis)[4])) % Q = b /\ up.ok, carried |-> up.carried],
             QuadColumn(Carried(Head(pis), Head(cs)), Tail(pis), Tail(cs)))
QuadColumnHolds(b, pis, cs, tail) ==
  Apply(LAMBDA col : col.ok /\ Ct(Hermitian(tail, tail)) = col.carried, QuadColumn(b, pis, cs))

SelfIpRounds(st) == IF st.bound THEN Levels(st.chain) - 1 ELSE st.rounds
TernaryChallenges == Pairs(ShortElements(1))
SelfIpClaim(s) == Ct(Hermitian(s, s))
BoundChallenges(st, script) == st.seeds[Len(script) + 1]
SelfIpMove(st, cs) ==
  Apply(LAMBDA state : [quad |-> QuadMsg(state, state), commit |-> IF st.bound THEN LaneMessage(st.chain, st.com.states, cs) ELSE <<>>],
        FoldState(st.s, cs))
SelfIpHonestMove(st, script) ==
  Apply(LAMBDA cs : IF Len(script) < SelfIpRounds(st) THEN SelfIpMove(st, cs) ELSE FoldState(st.s, cs), CoinsOf(script))
VerifySelfIp(st, pis, cs, tail) == QuadColumnHolds(st.claim, pis, cs, tail) /\ NormWithin(tail, st.tailBound)
VerifyBound(st, script, pis, cs, tail) ==
  /\ CheckLane(st.chain, st.com.root, [i \in DOMAIN script |-> script[i].sent.commit], cs, tail)
  /\ QuadColumnHolds(st.claim, pis, cs, tail) /\ NormSq(tail) <= st.tailBound
SelfIpAccepts(st, script, tail) ==
  Apply2(LAMBDA pis, cs : IF st.bound THEN VerifyBound(st, script, pis, cs, tail) ELSE VerifySelfIp(st, pis, cs, tail),
         [i \in DOMAIN script |-> script[i].sent.quad], CoinsOf(script))

\* External: as before, of constant terms.
SelfIpMissing(st, script, m) ==
  (IF script = <<>> THEN st.claim ELSE Carried(script[Len(script)].sent.quad, script[Len(script)].coins)) - Ct(m.quad[1]) - Ct(m.quad[4])
SelfIpOtherMoves(st, script) ==
  Apply(LAMBDA m :
    IF Len(script) = SelfIpRounds(st) THEN {m, FoldState(st.other, CoinsOf(script))}
    ELSE {m} \cup {[m EXCEPT !.quad = QuadMadeUp(@, Const(SelfIpMissing(st, script, m)), cancel)] : cancel \in BOOLEAN}, SelfIpHonestMove(st, script))
SelfIpError(st, script, n) ==
  IF n = 0 THEN (st.claim - SelfIpClaim(st.s)) % Q
  ELSE Ct(DotOf(QuadWeights(script[n].coins), AddVec(script[n].sent.quad, TimesVec(Const(-1), SelfIpMove(st, SubSeq(CoinsOf(script), 1, n - 1)).quad))))
SelfIpLuck(st, script, n) ==
  \A x \in {AddVec(script[n].sent.quad, TimesVec(Const(-1), SelfIpMove(st, SubSeq(CoinsOf(script), 1, n - 1)).quad))} :
    FewOf({c \in st.pool : Ct(DotOf(QuadWeights(c), x)) = 0}, st.pool)
SelfIpSound(st, script) ==
  LET n == SelfIpRounds(st)
      cut == SubSeq(script, 1, n)
  IN  /\ st.com = CommitChain(st.chain, st.s)
      /\ script[n + 1].sent = FoldState(st.s, CoinsOf(cut))
      /\ SelfIpError(st, cut, n) = 0
      /\ \A i \in 1 .. n : SelfIpError(st, cut, i - 1) # 0 /\ SelfIpError(st, cut, i) = 0 => SelfIpLuck(st, cut, i)

-----------------------------------------------------------------------------
(***************************************************************************)
(* The integer norm of a response in digit planes: compared directly while *)
(* a residue tells it, or rebuilt from the products of planes, segment by  *)
(* segment.                                                                *)
(***************************************************************************)
Ints(n, F(_)) == SumOver(LAMBDA i : F(i), 1, n)
SquaredNorm(coords) == Ints(Len(coords), LAMBDA i : Centered(coords[i]) * Centered(coords[i]))
IsqrtCeil(n) == CHOOSE r \in 0 .. n : r * r >= n /\ \A s \in 0 .. r - 1 : s * s < n
NormSumGate(parts, max) == Ints(Len(parts), LAMBDA i : IsqrtCeil(Ints(Len(parts[i]), LAMBDA j : parts[i][j] * parts[i][j]))) <= max
ExactL2Gate(coords, claimed, sMax) ==
  DirectRouteAdmissible(sMax) /\ SquaredNorm(coords) = claimed /\ claimed <= sMax

Least(a, b) == IF a < b THEN a ELSE b
SegmentsOf(n, len) == [t \in 1 .. (n + len - 1) \div len |-> <<(t - 1) * len, Least(t * len, n)>>]
SegmentAdmissible(seg, bounds, h, k) == (seg[2] - seg[1]) * bounds[h] * bounds[k] < Q \div 2
PairOrder(segs, planes) == {p \in (1 .. Len(segs)) \X (1 .. planes) \X (1 .. planes) : p[2] <= p[3]}
UDir(n, base, bounds) == n * Ints(Len(bounds), LAMBDA h : base ^ (h - 1) * bounds[h]) ^ 2
\* Slip: the direct route for any bound on the norm.
RouteByReach(uDir, sMax) == IF uDir < Q THEN "direct" ELSE "digit-expanded"
SelectRoute(uDir, sMax) == IF uDir < Q /\ sMax < Q THEN "direct" ELSE "digit-expanded"
IntegerCoordinate(planes, base, u) == Ints(Len(planes), LAMBDA h : base ^ (h - 1) * planes[h][u])
IntegerEnergy(planes, base) == Ints(Len(planes[1]), LAMBDA u : IntegerCoordinate(planes, base, u) ^ 2)
PlanesReduceTo(planes, coords, base) == \A u \in DOMAIN coords : coords[u] = IntegerCoordinate(planes, base, u) % Q
SegmentsAdmissible(segs, bounds) == \A p \in PairOrder(segs, Len(bounds)) : SegmentAdmissible(segs[p[1]], bounds, p[2], p[3])
GramClaims(planes, segs) ==
  [p \in PairOrder(segs, Len(planes)) |-> SumOver(LAMBDA u : planes[p[2]][u + 1] * planes[p[3]][u + 1], segs[p[1]][1], segs[p[1]][2] - 1) % Q]
RECURSIVE EnergyOver(_, _, _)
EnergyOver(claims, base, P) ==
  IF P = {} THEN 0
  ELSE LET p == CHOOSE x \in P : TRUE
       IN  (IF p[2] = p[3] THEN 1 ELSE 2) * base ^ (p[2] + p[3] - 2) * Centered(claims[p]) + EnergyOver(claims, base, P \ {p})
\* A sum below zero is refused.
ReconstructEnergy(claims, base) == EnergyOver(claims, base, DOMAIN claims)
ExactL2GateGram(claims, segs, bounds, base, claimed, sMax) ==
  /\ claimed <= sMax /\ SegmentsAdmissible(segs, bounds)
  /\ ReconstructEnergy(claims, base) >= 0 /\ ReconstructEnergy(claims, base) = claimed
GateByRoute(coords, planes, claimed, sMax, base, segLen, bounds) ==
  IF SelectRoute(UDir(Len(planes[1]), base, bounds), sMax) = "direct" THEN ExactL2Gate(coords, claimed, sMax)
  ELSE \A segs \in {SegmentsOf(Len(planes[1]), segLen)} :
         SegmentsAdmissible(segs, bounds) /\ ExactL2GateGram(GramClaims(planes, segs), segs, bounds, base, claimed, sMax)
ExactL2GateRouted(coords, planes, claimed, sMax, base, segLen, bounds) ==
  PlanesReduceTo(planes, coords, base) /\ GateByRoute(coords, planes, claimed, sMax, base, segLen, bounds)

\* The claim travels in as many bytes as its bound takes, lowest first.
RECURSIVE WireBytes(_)
WireBytes(sMax) == IF sMax < 256 THEN 1 ELSE 1 + WireBytes(sMax \div 256)
EncodeEnergy(sMax, value) == [i \in 1 .. WireBytes(sMax) |-> (value \div 256 ^ (i - 1)) % 256]
Decoded(bytes) == Ints(Len(bytes), LAMBDA i : 256 ^ (i - 1) * bytes[i])
DecodesTo(sMax, bytes, value) == Len(bytes) = WireBytes(sMax) /\ Decoded(bytes) = value /\ value <= sMax

\* One message, the claim; a statement is a response and its parameters.
PlaneEnergy(st) == IntegerEnergy(st.planes, st.base)
SegmentsFit(st) == SegmentsAdmissible(SegmentsOf(Len(st.planes[1]), st.segLen), st.bounds)
RouteHonestMove(st) == EncodeEnergy(st.sMax, PlaneEnergy(st))
RouteStops(st) == IF PlaneEnergy(st) <= st.sMax /\ (SegmentsFit(st) \/ SelectRoute(UDir(Len(st.planes[1]), st.base, st.bounds), st.sMax) = "direct")
                  THEN "go" ELSE "refuse"
RouteOtherMoves(st) == {EncodeEnergy(65535, e) : e \in {PlaneEnergy(st), PlaneEnergy(st) + Q, PlaneEnergy(st) % Q, SquaredNorm(st.coords)}}
                       \cup {EncodeEnergy(st.sMax, e) : e \in {PlaneEnergy(st), PlaneEnergy(st) + Q, PlaneEnergy(st) % Q, SquaredNorm(st.coords)}}
RouteAccepts(st, bytes) ==
  \E claimed \in {Decoded(bytes)} :
    DecodesTo(st.sMax, bytes, claimed) /\ ExactL2GateRouted(st.coords, st.planes, claimed, st.sMax, st.base, st.segLen, st.bounds)
RouteSound(st, script) ==
  /\ script[1].sent = EncodeEnergy(st.sMax, PlaneEnergy(st)) /\ PlaneEnergy(st) <= st.sMax
  /\ \A u \in DOMAIN st.coords : st.coords[u] = IntegerCoordinate(st.planes, st.base, u) % Q

-----------------------------------------------------------------------------
\* What the arguments rest on: digits joined before or after a fold are the
\* same, every residue has its digits, repetitions reach their target
\* (tensor_fold.rs:405-411), and a sum of norms bounds the norm of the sum.
JoinsFold(st) == \A c \in st.pool : FoldJoinCommutes(st.binary[1].bits, c)
TargetsReached ==
  \A den \in 1 .. 8, num \in 0 .. 8, bits \in 0 .. 4 :
    \A r \in {Repetitions(num, den, bits)} :
      IF r = <<>> THEN num = 0 \/ 2 * num > den ELSE num ^ r[1] * 2 ^ r[2] <= den ^ r[1] /\ r[2] >= bits
SumsBound(st) ==
  \A max \in 0 .. 6 :
    NormSumGate(st.planes, max) => Ints(Len(st.planes[1]), LAMBDA u : (st.planes[1][u] + st.planes[2][u]) ^ 2) <= max ^ 2

-----------------------------------------------------------------------------
(***************************************************************************)
(* One of the arguments is in use on some statement; prover and verifier   *)
(* exchange messages and challenges, one challenge after each message for  *)
(* all that was absorbed with it, as a random oracle answers; after the    *)
(* last message the verifier decides.  An honest prover refuses what it    *)
(* cannot show.                                                            *)
(*                                                                         *)
(* The statements that are model-checked, by protocol and kind of prover:  *)
(* witnesses of bits and witnesses that are none, claims that are off, and *)
(* provers that lie in some rounds or tamper with one place of a message.  *)
(***************************************************************************)
E(a, b) == [k \in 0 .. 1 |-> IF k = 0 THEN a ELSE b]
Blocks == 8
Alphas == 2
FingerPoint == 3
Monomials == Pool(1, 0)
AllPairs == Pairs(Monomials)
SomePairs == {c \in AllPairs : c[1] \in {E(1, 0), E(0, 18)}}
BitsWitness == << E(1, 0), E(0, 1), E(1, 1), E(0, 0), E(1, 0), E(0, 0), E(1, 1), E(0, 1) >>
FewBits == << E(1, 0), E(0, 0), E(0, 1), E(0, 0), E(0, 0), E(1, 0), E(0, 0), E(0, 0) >>
NotBitsWitness == << E(1, 0), E(0, 2), E(0, 1), E(18, 0), E(0, 0), E(1, 0), E(0, 0), E(0, 0) >>
Products(s, shift) ==
  Tabulate(Len(s), LAMBDA i : [k \in 0 .. 1 |-> (s[i][k] * ModPow(Alphas, 2 * (i - 1) + k) + (IF i = 1 THEN shift[k] ELSE 0)) % 19])

MainChain == SetupChain(1, Blocks, 1)
AuxChain == SetupChain(2, Blocks, 5)
MainOf(chain, s, bound) == MainBundle(chain, s, Geometric(5, 1, 1, 2), bound, TailBoundSq(1, 1, 2, 2))
BinaryOf(chain, tilde) ==
  BinaryBundle(chain, tilde, Geometric(Alphas * FingerPoint, 1, 1, 2), Geometric(FingerPoint, 5, 5, 2),
                  MultilinearWeights(GeometricVars(Alphas, 4), 1, 2), TailBoundSq(1, 1, 2, 10))
Both(s, tilde, bound) ==
  UNION {{[main |-> MainOf(c, s, bound), binary |-> << BinaryOf(d, tilde) >>] : c \in {MainChain}} : d \in {AuxChain}}
NormSt(own, shown, claim, lies, tampers, seeds) ==
  [main |-> own.main, binary |-> own.binary, shown |-> shown, claim |-> claim, lies |-> lies, tampers |-> tampers,
   seeds |-> seeds, pool |-> AllPairs, alpha |-> Alphas, r |-> FingerPoint]
HonestNorm(s, bound, seeds) ==
  UNION {{NormSt(own, own, claim, {}, <<>>, seeds) : claim \in {StatementOf(own.main, own.binary)}} : own \in Both(s, Products(s, E(0, 0)), bound)}
Bumped(claim, fs) ==
  [claim EXCEPT !.v = IF <<"linear", 0>> \in fs THEN (@ + 1) % 19 ELSE @, !.b = IF <<"quadratic", 0>> \in fs THEN @ + 1 ELSE @,
                !.aux[1].claims = [@ EXCEPT !.alpha = IF <<"aux-binarity", 1>> \in fs THEN (@ + 1) % 19 ELSE @,
                                            !.rPrime = IF <<"aux-digit", 1>> \in fs THEN claim.aux[1].claims.r ELSE @]]
LyingNorm(s, shift, fs, seeds) ==
  UNION {{NormSt(own, own, Bumped(claim, fs), fs, <<>>, seeds) : claim \in {StatementOf(own.main, own.binary)}} : own \in Both(s, Products(s, shift), 18)}
OtherWitness(s, t, seeds) ==
  UNION {UNION {{NormSt(own, shown, [claim EXCEPT !.cm = own.main.root, !.aux[1].root = own.binary[1].root], {}, <<>>, seeds) :
     claim \in {StatementOf(shown.main, shown.binary)}} : own \in Both(s, Products(s, E(0, 0)), 18)} : shown \in Both(t, Products(t, E(0, 0)), 18)}
OnePair == {<<E(0, 1), E(18, 0)>>}
Places == {[round |-> r, id |-> id, slot |-> sl, by |-> by, made |-> <<c, c>>] : c \in OnePair, r \in 1 .. 2, sl \in 1 .. 2, by \in {E(1, 0), E(0, 1)},
             id \in {<<"linear", 0>>, <<"aux-digit", 1>>, <<"aux-value", 1>>, <<"quadratic", 0>>, <<"aux-quadratic", 1>>, <<"commitment", 0>>, <<"commitment", 1>>}}
TamperedNorm(s, drawn) ==
  UNION {{NormSt(own, own, claim, {}, <<p>>, [i \in 1 .. 2 |-> IF i < p.round THEN {p.made[i]} ELSE drawn]) : claim \in {StatementOf(own.main, own.binary)}, p \in Places} : own \in Both(s, Products(s, E(0, 0)), 18)}
NormStatements ==
  {[protocol |-> "CommittedNorm", honest |-> TRUE, st |->
     HonestNorm(BitsWitness, 18, <<SomePairs, SomePairs>>) \cup HonestNorm(FewBits, 18, <<SomePairs, OnePair>>) \cup HonestNorm(BitsWitness, 4, <<SomePairs, OnePair>>)],
   [protocol |-> "CommittedNorm", honest |-> FALSE, st |->
     UNION {LyingNorm(BitsWitness, E(0, 0), fs, <<SomePairs, SomePairs>>) :
              fs \in {{<<"linear", 0>>}, {<<"quadratic", 0>>}, {<<"aux-binarity", 1>>, <<"aux-quadratic", 1>>}}}
     \cup LyingNorm(NotBitsWitness, E(0, 0), {<<"aux-quadratic", 1>>}, <<SomePairs, SomePairs>>)
     \cup LyingNorm(NotBitsWitness, E(8, 0), {<<"aux-digit", 1>>}, <<SomePairs, SomePairs>>)
     \cup LyingNorm(NotBitsWitness, E(8, 0), {}, <<SomePairs, OnePair>>)
     \cup {[x EXCEPT !.claim.cm = <<E(1, 1)>>] :
              x \in LyingNorm(BitsWitness, E(0, 0), {}, <<OnePair, OnePair>>)}
     \cup OtherWitness(BitsWitness, FewBits, <<OnePair, SomePairs>>)
     \cup TamperedNorm(BitsWitness, SomePairs \cup OnePair)]}

SelfIpSt(bound, s, claim, tailBound, other) ==
  UNION {{[bound |-> bound, chain |-> c, com |-> CommitChain(c, s), rounds |-> 1, s |-> s, claim |-> claim, tailBound |-> tailBound,
    other |-> other, pool |-> AllPairs, seeds |-> IF bound THEN <<AllPairs, SomePairs>> ELSE <<TernaryChallenges>>]} : c \in {MainChain}}
Tiny == << E(1, 0), E(0, 1) >>
SelfIpStatements ==
  {[protocol |-> "SelfIp", honest |-> TRUE, st |->
     UNION {SelfIpSt(TRUE, s, SelfIpClaim(s), TailBoundSq(2, 1, 2, 2), s) : s \in {BitsWitness, NotBitsWitness}}
     \cup SelfIpSt(FALSE, NotBitsWitness, SelfIpClaim(NotBitsWitness), 8, NotBitsWitness)],
   [protocol |-> "SelfIp", honest |-> FALSE, st |->
     UNION {SelfIpSt(TRUE, s, (SelfIpClaim(s) + 1) % 19, TailBoundSq(1, 1, 2, 2), FewBits) : s \in {BitsWitness, NotBitsWitness}}
     \cup UNION {{x, [x EXCEPT !.claim = SelfIpClaim(x.s), !.com.root = CommitChain(x.chain, x.other).root]} :
                   x \in SelfIpSt(TRUE, FewBits, SelfIpClaim(BitsWitness), TailBoundSq(1, 1, 2, 2), BitsWitness)}]}

Planes(b1, b2) == {<<p, r>> : p \in [1 .. 2 -> -b1 .. b1], r \in [1 .. 2 -> -b2 .. b2]}
RouteSt(planes, bounds, sMax, segLen, off) ==
  [planes |-> planes, bounds |-> bounds, sMax |-> sMax, segLen |-> segLen, base |-> 4,
   coords |-> [u \in DOMAIN planes[1] |-> (planes[1][u] + 4 * planes[2][u] + (IF u = 1 THEN off ELSE 0)) % 19]]
OnePlane(planes, bounds, base) == [RouteSt(<< <<planes[1]>>, <<planes[2]>> >>, bounds, 18, 1, 0) EXCEPT !.base = base, !.coords = << (planes[1] + base * planes[2]) % 19 >>]
SmallPlanes(b) == {OnePlane(p, <<b, 2>>, 8) : p \in (-b .. b) \X (-2 .. 2)}
RouteStatements ==
  {[protocol |-> "ExactL2", honest |-> TRUE, st |-> {RouteSt(p, <<2, 1>>, m, l, 0) : p \in Planes(2, 1), m \in {18, 300}, l \in 1 .. 2}
                                                  \cup {RouteSt(p, <<2, 0>>, m, 2, 0) : p \in Planes(2, 0), m \in {3, 18, 40}}
                                                  \cup SmallPlanes(2) \cup {[x EXCEPT !.sMax = 400] : x \in SmallPlanes(4)}],
   [protocol |-> "ExactL2", honest |-> FALSE, st |-> {RouteSt(p, <<2, 1>>, m, 1, o) : p \in Planes(2, 1), m \in {18, 300}, o \in 0 .. 1}
                                                  \cup {RouteSt(p, <<2, 0>>, m, 2, 0) : p \in Planes(2, 0), m \in {18, 40}}
                                                  \cup SmallPlanes(2)]}
Statements == NormStatements \cup SelfIpStatements \cup RouteStatements

-----------------------------------------------------------------------------
VARIABLES protocol, honest, st, \* the statement
          script,               \* messages and challenges so far
          verdict

vars == <<protocol, honest, st, script, verdict>>

In(p) == protocol = p

Moves == CASE In("CommittedNorm") -> NormMoves(st) [] In("SelfIp") -> SelfIpRounds(st) [] In("ExactL2") -> 0
Coins == CASE In("CommittedNorm") -> NormCoins(st, script) [] In("SelfIp") -> BoundChallenges(st, script)
Stops == CASE In("CommittedNorm") -> NormStops(st) [] In("ExactL2") -> RouteStops(st) [] OTHER -> "go"
HonestMove == CASE In("CommittedNorm") -> NormHonestMove(st, script) [] In("SelfIp") -> SelfIpHonestMove(st, script)
                [] In("ExactL2") -> RouteHonestMove(st)
OtherMoves == CASE In("CommittedNorm") -> NormOtherMoves(st, script) [] In("SelfIp") -> SelfIpOtherMoves(st, script)
                [] In("ExactL2") -> RouteOtherMoves(st)
Accepts(p) == CASE In("CommittedNorm") -> NormAccepts(st, script, p) [] In("SelfIp") -> SelfIpAccepts(st, script, p)
                [] In("ExactL2") -> RouteAccepts(st, p)
Sound == CASE In("CommittedNorm") -> NormSound(st, script) [] In("SelfIp") -> SelfIpSound(st, script)
           [] In("ExactL2") -> RouteSound(st, script)

Init ==
  /\ \E s \in Statements : protocol = s.protocol /\ honest = s.honest /\ st \in s.st
  /\ script = <<>> /\ verdict = "none"

Moved(m) ==
  IF Len(script) < Moves
  THEN /\ \E c \in Coins : script' = Append(script, [sent |-> m, coins |-> c])
       /\ UNCHANGED verdict
  ELSE /\ script' = Append(script, [sent |-> m, coins |-> <<>>])
       /\ verdict' = IF Accepts(m) THEN "accept" ELSE "reject"

Prove == /\ honest /\ verdict = "none" /\ Stops = "go" /\ \E m \in {HonestMove} : Moved(m)
         /\ UNCHANGED <<protocol, honest, st>>

Refuse == /\ honest /\ verdict = "none"
          /\ verdict' \in {Stops} \ {"go"}
          /\ UNCHANGED <<protocol, honest, st, script>>

\* External: a prover of another make.
Forge == /\ ~honest /\ verdict = "none" /\ \E m \in OtherMoves : Moved(m)
         /\ UNCHANGED <<protocol, honest, st>>

Next == Prove \/ Refuse \/ Forge
Spec == Init /\ [][Next]_vars

-----------------------------------------------------------------------------
\* A prover that follows the code is never rejected, for any statement it
\* takes and any challenges (committed_norm.rs:1051-1431, self_ip.rs:587-646,
\* exact_l2.rs:710-743); and what the arguments rest on holds of it.
Premises == CASE In("CommittedNorm") -> JoinsFold(st) /\ DecompositionIsExact
              [] In("SelfIp") -> TargetsReached [] In("ExactL2") -> SumsBound(st)
HonestNormsVerify == honest => verdict # "reject" /\ (script = <<>> => Premises)

\* What an untruthful prover has accepted holds of the one witness its
\* commitment binds, with all that is claimed of it, or the challenges drawn
\* after it spoke cancelled exactly what was wrong, as few of all do; and an
\* accepted norm is the integer one, whatever route compares it (the same
\* lines).
AcceptedNormsHold == ~honest /\ verdict = "accept" => Sound

\* "One tamper cascades and trips many checks" (committed_norm.rs:104-108):
\* one place changed in a finished honest proof fails the one check of its
\* round that reads it, none if it is a cross product (70-90), and then every
\* check of every later round, since no later message was made for the
\* challenges drawn anew; a lane is spared only where its new challenge folds
\* it to what the old one did, as few of all do.  No tail grows by it
\* (1145-1405, and the exact sets of the test at 1788-1851).
TampersAreReported == In("CommittedNorm") /\ ~honest /\ verdict # "none" => ReportsTampers(st, script)
================================================================================
