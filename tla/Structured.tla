------------------------------ MODULE Structured ------------------------------
(***************************************************************************)
(* Commitments on structured references.  The linear map on powers of a    *)
(* unit of zk/src/pcs/powers_srs.rs: setup from a trapdoor, its window,    *)
(* the openings of a functional with the keys a verifier builds from a     *)
(* point alone, and the combined, aggregated and inner-product checks, as  *)
(* zk/examples/orbweaver.rs composes them.  Polynomials by trapdoored      *)
(* bases: the power basis and the binary tree of zk/src/pcs/prisis.rs over *)
(* the trapdoors of trapdoor.rs, and the foldings of an evaluation claim:  *)
(* slot by slot as zk/examples/fmn.rs runs it, level by level as           *)
(* slap_tree.rs and zk/examples/slap.rs do.  There a key has one row.      *)
(***************************************************************************)
EXTENDS Gadgets, FiniteSets

CONSTANT Rho \* trapdoors and masks are this short; Q is a prime, 1 modulo 2 D

ShortSample(seed, i) == FromCentered(LAMBDA k : (Draw(seed, D * i + k) % (2 * Rho + 1)) - Rho)
ShortVector(seed, from, n) == Tabulate(n, LAMBDA i : ShortSample(seed, from + i))

-----------------------------------------------------------------------------
(***************************************************************************)
(* Inverses: the multiplication by x in columns, with the first unit       *)
(* vector, eliminated.                                                     *)
(***************************************************************************)
FieldInverse(x) == CHOOSE y \in 1 .. Q - 1 : (x * y) % Q = 1
NoInverse == <<>>
RECURSIVE Cleared(_, _)
Cleared(m, c) ==
  IF c = D THEN [k \in Degrees |-> m[k][D]]
  ELSE LET pivots == {r \in c .. D - 1 : m[r][c] # 0}
           r == CHOOSE i \in pivots : \A j \in pivots : i <= j
           n == [m EXCEPT ![c] = m[r], ![r] = m[c]]
           inv == FieldInverse(n[c][c])
           pivot == [j \in 0 .. D |-> (n[c][j] * inv) % Q]
       IN  IF pivots = {} THEN NoInverse
           ELSE Cleared([i \in Degrees |-> IF i = c THEN pivot
                           ELSE [j \in 0 .. D |-> (n[i][j] - n[i][c] * pivot[j]) % Q]], c + 1)
RingInverse(x) ==
  Cleared([i \in Degrees |-> [j \in 0 .. D |-> IF j = D THEN (IF i = 0 THEN 1 ELSE 0) ELSE Times(x, Monomial(j))[i]]], 0)

RECURSIVE SampleUnit(_, _)
SampleUnit(seed, n) ==
  LET v == RingElement(seed, n)
  IN  IF RingInverse(v) # NoInverse THEN v ELSE SampleUnit(seed, n + 1)

RECURSIVE ModPower(_, _)
ModPower(x, n) == IF n = 0 THEN 1 ELSE (x * ModPower(x, n - 1)) % Q
\* The D roots of X^D + 1, the odd powers of one of them.
Omega == CHOOSE x \in 1 .. Q - 1 : ModPower(x, D) = Q - 1
Root(k) == ModPower(Omega, 2 * k + 1)
RECURSIVE Vanishing(_)
Vanishing(support) ==
  IF support = {} THEN One
  ELSE LET k == CHOOSE i \in support : TRUE
       IN  Times(Minus(Const(Root(k)), Monomial(1)), Vanishing(support \ {k}))

-----------------------------------------------------------------------------
(***************************************************************************)
(* Trapdoors: a = (h, g - h R) for short R; a preimage of any target is    *)
(* short, from the digits of what a short mask leaves.                     *)
(***************************************************************************)
ExpandPublic(hat, trap) ==
  hat \o Tabulate(Alpha, LAMBDA j : Minus(Const(Base ^ (j - 1)), DotOf(hat, [i \in DOMAIN trap |-> trap[i][j]])))
TrapGen(seed) ==
  Apply2(LAMBDA hat, trap : [hat |-> hat, trap |-> trap, a |-> ExpandPublic(hat, trap)],
         RingPoint(seed, 0, Alpha), [i \in 1 .. Alpha |-> ShortVector(seed, Alpha * i, Alpha)])
SampPre(tr, target, seed) ==
  Apply2(LAMBDA w, e : AddVec(w, [i \in 1 .. Alpha |-> DotOf(tr.trap[i], e)]) \o e,
         ShortVector(seed, 0, Alpha), Split(<<Minus(target, DotOf(tr.hat, ShortVector(seed, 0, Alpha)))>>))
PreimageNormBound == Rho + Alpha * Rho * D * (Base \div 2)

\* The norms an honest opening meets: of the value, of the proof of
\* knowledge, of the opening proof.
NormBounds(w, alpha_x, alpha_f) ==
  [m |-> w * alpha_x * alpha_f * D,
   k |-> w * alpha_x * PreimageNormBound * D,
   o |-> w * w * alpha_x * alpha_f * PreimageNormBound * D * D]
AggregatedOpeningBound(b, count, op_norm) == b.o * count * op_norm
GatesBelowHalfModulus(b) == \A n \in {b.m, b.k, b.o} : n < Q \div 2

-----------------------------------------------------------------------------
(***************************************************************************)
(* The structured reference: preimages of the powers of v from 1 - w to    *)
(* w - 1, zero left out, and of t times those from 1 to w.                 *)
(***************************************************************************)
Exponents(w) == (1 - w .. w - 1) \ {0}
RECURSIVE PowerOf(_, _)
PowerOf(x, n) == IF n = 0 THEN One ELSE Times(x, PowerOf(x, n - 1))
Power(srs, k) == IF k > 0 THEN PowerOf(srs.v, k) ELSE PowerOf(srs.v_inv, -k)
SetupFrom(open, know, v, t, w, seed) ==
  LET up(k) == Power([v |-> v, v_inv |-> RingInverse(v)], k)
  IN  [a0 |-> open.a, a1 |-> know.a, v |-> v, v_inv |-> RingInverse(v), t |-> t, w |-> w,
       openings |-> [k \in Exponents(w) |-> SampPre(open, up(k), seed + w + k)],
       knowledge |-> [i \in 1 .. w |-> SampPre(know, Times(up(i), t), seed + 10 + i)],
       dual |-> <<>>]
ExtendForInnerProduct(srs, know, seed) ==
  [srs EXCEPT !.dual = [i \in 1 .. srs.w |-> SampPre(know, Times(Power(srs, -i), srs.t), seed + 20 + i)]]
Setup(seed, w, shared, dual) ==
  LET open == TrapGen(seed)
      know == IF shared THEN open ELSE TrapGen(seed + 1)
      srs == SetupFrom(open, know, SampleUnit(seed, 1), Vanishing({k \in Degrees : k < D \div 2}), w, seed)
  IN  IF dual THEN ExtendForInnerProduct(srs, know, seed) ELSE srs

PairsTo(a, u, target) == Len(u) = Len(a) /\ DotOf(a, u) = target
WellFormed(srs) ==
  /\ \A k \in Exponents(srs.w) : PairsTo(srs.a0, srs.openings[k], Power(srs, k))
  /\ \A i \in DOMAIN srs.knowledge : PairsTo(srs.a1, srs.knowledge[i], Times(Power(srs, i), srs.t))
  /\ \A i \in DOMAIN srs.dual : PairsTo(srs.a1, srs.dual[i], Times(Power(srs, -i), srs.t))
\* What arrives is checked for its shape, and the inverse formed again.
FromParts(srs) ==
  /\ RingInverse(srs.v) = srs.v_inv /\ srs.v_inv # NoInverse
  /\ srs.w = Len(srs.knowledge) /\ srs.w > 0
  /\ \A i \in DOMAIN srs.knowledge : Len(srs.knowledge[i]) = Len(srs.a0)

-----------------------------------------------------------------------------
(***************************************************************************)
(* Commitments and openings.  Of the product of the vector at v and the    *)
(* functional at 1 / v, all but the constant coefficient has a preimage.   *)
(***************************************************************************)
CommitAt(srs, x, sign, window) ==
  [c |-> TotalOf(LAMBDA i : Times(x[i], Power(srs, sign * i)), 1, Len(x)), pi1 |-> Combination(x, SubSeq(window, 1, Len(x)))]
Commit(srs, x) == CommitAt(srs, x, 1, srs.knowledge)
CommitDual(srs, x) == CommitAt(srs, x, -1, srs.dual)

LaurentCoefficient(x, f, k) ==
  TotalOf(LAMBDA i : IF i - k \in DOMAIN f THEN Times(x[i], f[i - k]) ELSE Zero, 1, Len(x))
RECURSIVE OpenOver(_, _, _, _)
OpenOver(srs, f, x, K) ==
  IF K = {} THEN Zeros(Len(srs.a0))
  ELSE LET k == CHOOSE i \in K : TRUE
       IN  AddVec(TimesVec(LaurentCoefficient(x, f, k), srs.openings[k]), OpenOver(srs, f, x, K \ {k}))
Open(srs, f, x) == OpenOver(srs, f, x, Exponents(Len(x)))

\* Slip: the functional from v^0 on.
KeyFromZero(srs, f) == TotalOf(LAMBDA i : Times(f[i], Power(srs, 1 - i)), 1, Len(f))
FunctionalKey(srs, f) == TotalOf(LAMBDA i : Times(f[i], Power(srs, -i)), 1, Len(f))
\* The keys of 1, z, z^2, ... and of an equality table, from the point.
RECURSIVE PowerProduct(_, _, _)
PowerProduct(z, v, n) == IF n = 0 THEN One ELSE Times(Plus(z, v), PowerProduct(Times(z, z), Times(v, v), n - 1))
PowerFunctionalKey(srs, z, w) == Times(PowerProduct(z, srs.v, Log2(w)), Power(srs, -w))
RECURSIVE EqProduct(_, _)
EqProduct(point, v) ==
  IF point = <<>> THEN One
  ELSE Times(Plus(Minus(One, Head(point)), Times(Head(point), v)), EqProduct(Tail(point), Times(v, v)))
MultilinearFunctionalKey(srs, point) == Times(EqProduct(point, srs.v_inv), srs.v_inv)
\* Index i takes bit j of i - 1 for the j-th coordinate.
EqTensor(point) ==
  Tabulate(2 ^ Len(point), LAMBDA i :
    LET factor(j) == IF ((i - 1) \div 2 ^ (j - 1)) % 2 = 1 THEN point[j] ELSE Minus(One, point[j])
        upto[j \in 0 .. Len(point)] == IF j = 0 THEN One ELSE Times(upto[j - 1], factor(j))
    IN  upto[Len(point)])

-----------------------------------------------------------------------------
(***************************************************************************)
(* The checks.  A message m claims that the vector behind m.com has the    *)
(* value m.y under the functional of key vk, by the proof m.pi0.           *)
(***************************************************************************)
KnowledgeHolds(srs, com) == DotOf(srs.a1, com.pi1) = Times(com.c, srs.t)
\* Slip: the opening proof of any length.
NormsHoldButOpening(b, m) == NormWithin(<<m.y>>, b.m) /\ NormWithin(m.com.pi1, b.k)
NormsHold(b, m) == NormWithin(<<m.y>>, b.m) /\ NormWithin(m.com.pi1, b.k) /\ NormWithin(m.pi0, b.o)
OpeningHolds(srs, vk, m) == DotOf(srs.a0, m.pi0) = Minus(Times(vk, m.com.c), m.y)
Opens(srs, b, vk, m) == NormsHold(b, m) /\ KnowledgeHolds(srs, m.com) /\ OpeningHolds(srs, vk, m)

\* One key for both proofs: they fold into one equation without c.
CombinedHolds(srs, vk, m) ==
  /\ srs.a0 = srs.a1
  /\ DotOf(srs.a0, [i \in DOMAIN m.pi0 |-> Minus(Times(vk, m.com.pi1[i]), Times(srs.t, m.pi0[i]))]) = Times(m.y, srs.t)

\* Claims ms under keys vks, combined by the challenges h.
Residual(vks, ms, h) == TotalOf(LAMBDA i : Times(h[i], Minus(Times(vks[i], ms[i].com.c), ms[i].y)), 1, Len(ms))
AggregatedHolds(srs, b, residual, pi0) == NormWithin(pi0, b) /\ DotOf(srs.a0, pi0) = residual

\* Two committed vectors; of the proofs of knowledge only the equations.
InnerProductHolds(srs, b, m) ==
  /\ NormWithin(<<m.y>>, b.m) /\ NormWithin(m.pi0, b.o)
  /\ KnowledgeHolds(srs, m.com) /\ KnowledgeHolds(srs, m.dual)
  /\ DotOf(srs.a0, m.pi0) = Minus(Times(m.dual.c, m.com.c), m.y)

\* Vectors of integers are packed D to an element, a functional mirrored:
\* the constant coefficient of the value is the claim over the integers.
Pack(ints) == Tabulate(Len(ints) \div D, LAMBDA i : FromCentered(LAMBDA k : ints[(i - 1) * D + k + 1]))
PackFunctional(ints) == Apply(LAMBDA v : [i \in DOMAIN v |-> SigmaOf(v[i])], Pack(ints))
IntegerClaim(y) == y[0]
ScalarProduct(a, b) == SumOver(LAMBDA i : a[i] * b[i], 1, Len(a)) % Q

-----------------------------------------------------------------------------
(***************************************************************************)
(* The protocols.  A statement is [kind, srs, claims, point, alpha, ints,  *)
(* lie]: claims of a vector x and a functional f of norm alpha at most, in *)
(* the kind "product" the second vector; the point of a functional that is *)
(* built from one; what ints claim; what a forger adds to the first value. *)
(***************************************************************************)
Bounds(st) == NormBounds(Len(st.claims[1].x), 1, st.alpha)
KeyOf(st, claim) ==
  CASE st.kind = "power" -> PowerFunctionalKey(st.srs, st.point[1], Len(claim.x))
    [] st.kind = "mle" -> MultilinearFunctionalKey(st.srs, st.point)
    [] OTHER -> FunctionalKey(st.srs, claim.f)
CheckAlphabet(st) == st.kind \in {"power", "mle"} \/ \A i \in DOMAIN st.claims : NormWithin(st.claims[i].f, st.alpha)

Aggregates(st) == st.kind = "aggregate"
OrbMoves(st) == IF Aggregates(st) THEN 1 ELSE 0
\* Units of operator norm one, a challenge for each claim.
OrbCoins(st) == [DOMAIN st.claims -> {Monomial(i) : i \in Degrees} \cup {Minus(Zero, Monomial(i)) : i \in Degrees}]

Claimed(st, claim) ==
  [com |-> Commit(st.srs, claim.x), y |-> DotOf(claim.f, claim.x), pi0 |-> Open(st.srs, claim.f, claim.x),
   dual |-> IF st.kind = "product" THEN CommitDual(st.srs, claim.f) ELSE <<>>]
Aggregate(h, ms) == Combination(h, [i \in DOMAIN ms |-> ms[i].pi0])
OrbHonestMove(st, script) ==
  IF script = <<>> THEN [i \in DOMAIN st.claims |-> Claimed(st, st.claims[i])]
  ELSE Aggregate(script[1].coins, script[1].sent)

ClaimAccepted(st, m, vk) ==
  IF st.kind = "product" THEN InnerProductHolds(st.srs, Bounds(st), m)
  ELSE /\ Opens(st.srs, Bounds(st), vk, m)
       /\ st.kind = "combined" => CombinedHolds(st.srs, vk, m)
       /\ st.kind = "integer" => IntegerClaim(m.y) = st.ints
\* External: who aggregates has the values and the proofs of knowledge
\* checked claim by claim.
ClaimsFit(srs, b, ms) ==
  \A i \in DOMAIN ms : NormWithin(<<ms[i].y>>, b.m) /\ NormWithin(ms[i].com.pi1, b.k) /\ KnowledgeHolds(srs, ms[i].com)
OrbAccepts(st, script, p) ==
  /\ FromParts(st.srs) /\ WellFormed(st.srs) /\ CheckAlphabet(st)
  /\ IF Aggregates(st)
     THEN ClaimsFit(st.srs, Bounds(st), script[1].sent) /\ AggregatedHolds(st.srs, AggregatedOpeningBound(Bounds(st), Len(st.claims), 1),
            Residual([i \in DOMAIN st.claims |-> KeyOf(st, st.claims[i])], script[1].sent, script[1].coins), p)
     ELSE ClaimAccepted(st, p[1], KeyOf(st, st.claims[1]))

\* External: other values, alone; with a proof that has one long entry; with
\* one that stays short; with another commitment and its proof of knowledge.
FirstUnit(a) == CHOOSE i \in DOMAIN a : RingInverse(a[i]) # NoInverse
Moved(a, pi, by) == [pi EXCEPT ![FirstUnit(a)] = Plus(@, Times(by, RingInverse(a[FirstUnit(a)])))]
OtherClaims(st, m, vk) ==
  {m, [m EXCEPT !.y = Plus(@, st.lie)],
   [m EXCEPT !.y = Plus(@, st.lie), !.pi0 = Moved(st.srs.a0, @, Minus(Zero, st.lie))],
   [m EXCEPT !.y = Plus(@, Times(st.srs.v, st.lie)), !.pi0 = AddVec(@, TimesVec(Minus(Zero, st.lie), st.srs.openings[1]))]}
  \cup (IF st.kind = "product" THEN {}
        ELSE LET off == Times(st.lie, RingInverse(vk))
             IN  {[m EXCEPT !.y = Plus(@, st.lie), !.com.c = Plus(@, off), !.com.pi1 = pi1] :
                    pi1 \in {m.com.pi1, Moved(st.srs.a1, m.com.pi1, Times(off, st.srs.t))}})
OrbOtherMoves(st, script) ==
  IF script = <<>>
  THEN {[ms EXCEPT ![1] = m] : ms \in {OrbHonestMove(st, script)}, m \in OtherClaims(st, Claimed(st, st.claims[1]), KeyOf(st, st.claims[1]))}
  ELSE {p : p \in {OrbHonestMove(st, script)}}
       \cup {Moved(st.srs.a0, OrbHonestMove(st, script), Minus(Zero, Times(script[1].coins[1], st.lie)))}

\* The value is that of a short vector behind the commitment; aggregated, the
\* challenges may cancel what is wrong, for one in D of them at most.
ShortVectors(w) == [1 .. w -> ShortElements(1)]
IsValue(st, claim, m) ==
  \E x \in ShortVectors(Len(claim.x)) : Commit(st.srs, x).c = m.com.c /\ m.y = DotOf(claim.f, x)
Error(st, ms, i) == Minus(ms[i].y, DotOf(st.claims[i].f, st.claims[i].x))
Cancels(st, ms, h) == TotalOf(LAMBDA i : Times(h[i], Error(st, ms, i)), 1, Len(ms)) = Zero
OrbSound(st, script) ==
  IF ~Aggregates(st) THEN IsValue(st, st.claims[1], script[1].sent[1])
  ELSE /\ Cancels(st, script[1].sent, script[1].coins)
       /\ \/ \A i \in DOMAIN st.claims : Error(st, script[1].sent, i) = Zero
          \/ D * Cardinality({h \in OrbCoins(st) : Cancels(st, script[1].sent, h)}) <= Cardinality(OrbCoins(st))

-----------------------------------------------------------------------------
(***************************************************************************)
(* Trapdoors.  A trapdoor is kept by columns, each a preimage of one entry *)
(* of the gadget.                                                          *)
(***************************************************************************)
Mbar == 1
SlotLen == Mbar + Alpha
GadgetEntry(c) == Const(Base ^ (c - 1))
UnitVector(n, i) == [j \in 1 .. n |-> IF j = i THEN One ELSE Zero]
Columns(r) == Tabulate(Alpha, LAMBDA c : [i \in 1 .. Mbar |-> r[i][c]] \o UnitVector(Alpha, c))
Generate(seed) ==
  Apply2(LAMBDA hat, r : [a |-> ExpandPublic(hat, r), trap |-> Columns(r)],
         RingPoint(seed, 0, Mbar), [i \in 1 .. Mbar |-> ShortVector(seed, Alpha * i, Alpha)])

Preimage(trap, target) == Combination(Split(target), trap)
PreimageRandom(b, trap, target, seed) ==
  Apply(LAMBDA p : AddVec(p, Preimage(trap, AddVec(target, TimesVec(Minus(Zero, One), MatVec(b, p))))),
        ShortVector(seed, 0, Len(trap[1])))
GadgetColumn(slots, j) == [i \in 1 .. slots |-> IF (j - 1) \div Alpha = i - 1 THEN GadgetEntry(((j - 1) % Alpha) + 1) ELSE Zero]
TrapdoorRelation(b, trap, slots) == \A j \in DOMAIN trap : MatVec(b, trap[j]) = GadgetColumn(slots, j)
\* What a preimage by this trapdoor may reach.
LargestOf(S) == Apply(LAMBDA T : CHOOSE m \in T : \A n \in T : n <= m, S)
CertifiedBound(trap) ==
  (Base \div 2) * Apply(LAMBDA cols : LargestOf({SumOver(LAMBDA j : L1Norm(<<cols[j][i]>>), 1, Len(cols)) : i \in DOMAIN cols[1]}), trap)

-----------------------------------------------------------------------------
(***************************************************************************)
(* The power basis: slot i sees w^i times the key, and all see one value   *)
(* in digits.                                                              *)
(***************************************************************************)
UnitFromSeed(seed) == Const((Draw(seed, 1) % (Q - 1)) + 1)
BasisRow(a, w, slots, i) ==
  [j \in ((i - 1) * SlotLen + 1 .. i * SlotLen) \cup (slots * SlotLen + 1 .. slots * SlotLen + Alpha) |->
     IF j <= i * SlotLen THEN Times(PowerOf(w, i - 1), a[j - (i - 1) * SlotLen]) ELSE Minus(Zero, GadgetEntry(j - slots * SlotLen))]
RawTrapdoor(td, w_inv, slots) ==
  Tabulate(slots * Alpha, LAMBDA j :
    Apply(LAMBDA i : Zeros((i - 1) * SlotLen)
                     \o Preimage(td.trap, <<Times(PowerOf(w_inv, i - 1), GadgetEntry(((j - 1) % Alpha) + 1))>>)
                     \o Zeros((slots - i) * SlotLen + Alpha), ((j - 1) \div Alpha) + 1))
RandomiseTrapdoor(b, raw, slots, seed) ==
  Tabulate(slots * Alpha, LAMBDA j : PreimageRandom(b, raw, GadgetColumn(slots, j), seed + j))
\* Both trapdoors are asserted to stand for the gadget.
Asserted(b, trap, slots) == Apply(LAMBDA t : IF TrapdoorRelation(b, t, slots) THEN t ELSE <<>>, trap)
BasisPair(seed, slots) ==
  Apply2(LAMBDA td, w :
    Apply(LAMBDA b : [a |-> td.a, w |-> w, b |-> b,
                      trap |-> Asserted(b, Apply(LAMBDA raw : RandomiseTrapdoor(b, raw, slots, seed),
                                                 Asserted(b, Apply(LAMBDA w_inv : RawTrapdoor(td, w_inv, slots), RingInverse(w)), slots)), slots)],
          [i \in 1 .. slots |-> BasisRow(td.a, w, slots, i)]),
    Generate(seed), UnitFromSeed(seed))

\* What a preimage x opens: each slot's vector and the common value.
OpeningOf(x, slots) ==
  [s |-> [i \in 1 .. slots |-> Chunk(x, SlotLen, i)], t |-> Join(SubSeq(x, slots * SlotLen + 1, Len(x)))[1]]
CommitBasis(pair, f) ==
  OpeningOf(Preimage(pair.trap, [i \in DOMAIN f |-> Minus(Zero, Times(f[i], PowerOf(pair.w, i - 1)))]), Len(f))
BasisRelation(a, w_inv, t, f, s) ==
  \A i \in DOMAIN s : Plus(DotOf(a, s[i]), f[i]) = Times(PowerOf(w_inv, i - 1), t)

\* Polynomials split by the residue of the exponent, and folded.
RECURSIVE PolyEval(_, _)
PolyEval(c, u) == IF c = <<>> THEN Zero ELSE Plus(Head(c), Times(u, PolyEval(Tail(c), u)))
PartialEvaluations(c, u, kk) ==
  [i \in 1 .. kk |-> PolyEval([j \in 1 .. Len(c) \div kk |-> c[i + (j - 1) * kk]], u)]
FoldCoeffs(c, alpha) == Tabulate(Len(c) \div Len(alpha), LAMBDA j : DotOf(alpha, Chunk(c, Len(alpha), j)))
FoldOpenings(s, alpha) == Tabulate(Len(s) \div Len(alpha), LAMBDA j : Combination(alpha, Chunk(s, Len(alpha), j)))
\* Slip: the powers of w for those of its inverse.
FoldByPowers(w_inv, alpha, t) == TotalOf(LAMBDA i : Times(alpha[i], Times(PowerOf(RingInverse(w_inv), i - 1), t)), 1, Len(alpha))
FoldCommitment(w_inv, alpha, t) == TotalOf(LAMBDA i : Times(alpha[i], Times(PowerOf(w_inv, i - 1), t)), 1, Len(alpha))

SignedMonomial(e) == IF e < D THEN Monomial(e) ELSE Minus(Zero, Monomial(e - D))
AlphaUnits(power) == {SignedMonomial(e * power) : e \in 0 .. ((2 * D) \div power) - 1}

-----------------------------------------------------------------------------
(***************************************************************************)
(* Folding slot by slot.  An instance [a, w_inv, t, u, z, beta] claims     *)
(* that t is the commitment of f with f(u) = z; st has the prover's f and  *)
(* openings s as well.                                                     *)
(***************************************************************************)
K == 2
FmnFold(inst, partial, alpha) ==
  [inst EXCEPT !.t = FoldCommitment(inst.w_inv, alpha, @), !.z = DotOf(alpha, partial), !.u = PowerOf(@, K), !.w_inv = PowerOf(@, K),
               !.beta = 2 * @, !.ok = @ /\ PolyEval(partial, inst.u) = inst.z,
               !.f = FoldCoeffs(@, alpha), !.s = FoldOpenings(@, alpha)]
FinalNorms(inst, s) == \A i \in DOMAIN s : NormWithin(s[i], inst.beta)
FmnHolds(inst, m) ==
  /\ inst.ok /\ PolyEval(m.f, inst.u) = inst.z
  /\ FinalNorms(inst, m.s) /\ BasisRelation(inst.a, inst.w_inv, inst.t, m.f, m.s)

\* The first weight is one.
FmnCoins == {<<One, alpha>> : alpha \in AlphaUnits(1)}
FmnPartial(inst) == PartialEvaluations(inst.f, PowerOf(inst.u, K), K)

-----------------------------------------------------------------------------
(***************************************************************************)
(* The tree: a node is opened to two children, so that each leaf is the    *)
(* root less what lies on its path.  A level is a basis of two slots.      *)
(***************************************************************************)
BitRev(len, v) == SumOver(LAMBDA i : ((v \div 2 ^ i) % 2) * 2 ^ (len - 1 - i), 0, len - 1)
PrisisSetup(seed, h) == Tabulate(h, LAMBDA j : BasisPair(seed + j, 2))
TreeBound(tree) == LargestOf({CertifiedBound(tree[j].trap) : j \in DOMAIN tree})
NodeOf(level, left, right) == OpeningOf(Preimage(level.trap, <<Minus(Zero, left), Minus(Zero, right)>>), 2)
RECURSIVE Grown(_, _, _)
Grown(tree, j, values) ==
  IF j = 0 THEN [root |-> values[1], nodes |-> <<>>]
  ELSE Apply(LAMBDA ns : Apply(LAMBDA up : [up EXCEPT !.nodes = Append(@, ns)],
                               Grown(tree, j - 1, [p \in DOMAIN ns |-> ns[p].t])),
             Tabulate(2 ^ (j - 1), LAMBDA p : NodeOf(tree[j], values[2 * p - 1], values[2 * p])))
\* Leaves go in by the bits of their index from the lowest; openings are
\* read by that index again.
CommitLeaves(tree, c) == Grown(tree, Len(tree), [i \in DOMAIN c |-> c[BitRev(Len(tree), i - 1) + 1]])
TreeOpenings(proof) ==
  [j \in DOMAIN proof.nodes |->
     Tabulate(2 ^ j, LAMBDA x : proof.nodes[j][BitRev(j - 1, (x - 1) % 2 ^ (j - 1)) + 1].s[((x - 1) \div 2 ^ (j - 1)) + 1])]

\* What the path of an index takes off the root down to some depth.
PathTerm(inst, blocks, index, t) ==
  LET term == DotOf(inst.a[t], blocks[t][(index % 2 ^ t) + 1])
  IN  IF (index \div 2 ^ (t - 1)) % 2 = 1 THEN Times(inst.w[t], term) ELSE term
PathSum(inst, blocks, index, depth) == TotalOf(LAMBDA t : PathTerm(inst, blocks, index, t), 1, depth)

-----------------------------------------------------------------------------
(***************************************************************************)
(* Folding level by level, of r claims kk parts each into r again.         *)
(***************************************************************************)
Claims(inst) == Len(inst.z)
NextU(u, kk) == PowerOf(u, kk)
WeightsFor(alpha, kappa) == [k \in DOMAIN alpha |-> alpha[k][kappa]]
TotalVec(vs) == Combination([i \in DOMAIN vs |-> One], vs)
FoldMulti(inst, alpha, kappa, k) ==
  [t \in 1 .. Len(inst.a) - k |->
     Apply(LAMBDA parts : Tabulate(2 ^ t, LAMBDA x : TotalVec([i \in DOMAIN parts |-> parts[i][x]])),
           [i \in DOMAIN alpha |-> FoldOpenings(inst.s[i][t + k], WeightsFor(alpha[i], kappa))])]
NextRoot(inst, msg, alpha, kappa, k) ==
  TotalOf(LAMBDA i : TotalOf(LAMBDA x : Times(alpha[i][x][kappa], Minus(inst.root[i], PathSum(inst, msg[i].blocks, x - 1, k))), 1, 2 ^ k),
          1, Claims(inst))
BlockNorms(inst, msg) == \A i \in DOMAIN msg : \A t \in DOMAIN msg[i].blocks : \A x \in DOMAIN msg[i].blocks[t] : NormWithin(msg[i].blocks[t][x], inst.beta)
\* Slip: the norms of what is sent go unchecked.
FoldRoundUnchecked(inst, msg, alpha) ==
  LET kk == Len(alpha[1])
      k == Log2(kk)
  IN  [inst EXCEPT
         !.a = SubSeq(@, k + 1, Len(@)), !.w = SubSeq(@, k + 1, Len(@)), !.u = NextU(@, kk), !.beta = @ * Claims(inst) * kk,
         !.ok = @ /\ \A i \in DOMAIN msg : PolyEval(msg[i].z, inst.u) = inst.z[i],
         !.root = [kappa \in DOMAIN @ |-> NextRoot(inst, msg, alpha, kappa, k)],
         !.z = [kappa \in DOMAIN @ |-> TotalOf(LAMBDA i : DotOf(WeightsFor(alpha[i], kappa), msg[i].z), 1, Claims(inst))],
         !.f = [kappa \in DOMAIN @ |-> TotalVec([i \in DOMAIN @ |-> FoldCoeffs(@[i], WeightsFor(alpha[i], kappa))])],
         !.s = [kappa \in DOMAIN @ |-> FoldMulti(inst, alpha, kappa, k)]]
FoldRound(inst, msg, alpha) == [FoldRoundUnchecked(inst, msg, alpha) EXCEPT !.ok = @ /\ BlockNorms(inst, msg)]
ProverRound(inst, kk) ==
  Tabulate(Claims(inst), LAMBDA i : [z |-> PartialEvaluations(inst.f[i], NextU(inst.u, kk), kk), blocks |-> SubSeq(inst.s[i], 1, Log2(kk))])
FinalMessage(inst) == Tabulate(Claims(inst), LAMBDA i : [f |-> inst.f[i], s |-> inst.s[i]])
SlapHolds(inst, m) ==
  /\ inst.ok
  /\ \A i \in DOMAIN m :
       /\ PolyEval(m[i].f, inst.u) = inst.z[i]
       /\ \A j \in DOMAIN m[i].s : \A x \in DOMAIN m[i].s[j] : NormWithin(m[i].s[j][x], inst.beta)
       /\ \A b \in DOMAIN m[i].f : Plus(PathSum(inst, m[i].s, b - 1, Len(inst.a)), m[i].f[b]) = inst.root[i]

\* Weights alternate between two units, all there is for two parts of a claim.
SlapAlpha(r, kk, even, odd) == [i \in 1 .. r |-> [k \in 1 .. kk |-> [kappa \in 1 .. r |-> IF (i + k + kappa) % 2 = 0 THEN even ELSE odd]]]
SlapCoins(r, kk) == {SlapAlpha(r, kk, even, odd) : even, odd \in AlphaUnits(r)}

-----------------------------------------------------------------------------
(***************************************************************************)
(* The protocols: rounds of folding, then what is left in the open.  A     *)
(* statement is [tree, inst, kk, rounds]; kk parts in each round.          *)
(***************************************************************************)
FoldCoins(st) == IF st.tree THEN SlapCoins(Claims(st.inst), st.kk) ELSE FmnCoins
Folded(st, inst, msg, alpha) == IF st.tree THEN FoldRound(inst, msg, alpha) ELSE FmnFold(inst, msg, alpha)
RECURSIVE InstanceAt(_, _, _)
InstanceAt(st, script, n) ==
  IF n = 0 THEN st.inst
  ELSE Apply(LAMBDA inst : Folded(st, inst, script[n].sent, script[n].coins), InstanceAt(st, script, n - 1))
RoundMessage(st, inst) == IF st.tree THEN ProverRound(inst, st.kk) ELSE FmnPartial(inst)
LastMessage(st, inst) == IF st.tree THEN FinalMessage(inst) ELSE [f |-> inst.f, s |-> inst.s]
FoldHonestMove(st, script) ==
  Apply(LAMBDA inst : IF Len(script) < st.rounds THEN RoundMessage(st, inst) ELSE LastMessage(st, inst), InstanceAt(st, script, Len(script)))
FoldAccepts(st, script, m) ==
  Apply(LAMBDA inst : IF st.tree THEN SlapHolds(inst, m) ELSE FmnHolds(inst, m), InstanceAt(st, script, st.rounds))

\* External: a false first claim left alone, moved to the first part, or to both so that
\* one weight of the second part cancels it; in the tree, to the first part
\* with a block that makes up for it; at the end, the first coefficient or
\* all coefficients as they fit, with an opening for them or without.
Misfit(st, inst) == IF st.tree THEN Minus(inst.z[1], PolyEval(inst.f[1], inst.u)) ELSE Minus(inst.z, PolyEval(inst.f, inst.u))
Spread(z, off, part) == [z EXCEPT ![1] = Plus(@, Minus(off[1], Times(part, off[2]))), ![2] = Plus(@, off[2])]
OtherParts(inst, z, misfit) ==
  {Spread(z, off, inst.u) : off \in {<<misfit, Zero>>, <<misfit, Times(misfit, RingInverse(Minus(inst.u, One)))>>}}
Geometric(u, n) == TotalOf(LAMBDA i : PowerOf(u, i), 0, n - 1)
Sunk(inst, m, kk, misfit) ==
  LET off == Times(misfit, RingInverse(Geometric(NextU(inst.u, kk), Len(inst.f[1]) \div kk)))
  IN  [m EXCEPT ![1].z[1] = Plus(@, misfit), ![1].blocks[1][1] = Moved(inst.a[1], @, Minus(Zero, off))]
OtherRound(st, inst, m, misfit) ==
  IF st.tree THEN {[m EXCEPT ![1].z = z] : z \in OtherParts(inst, m[1].z, misfit)} \cup {m, Sunk(inst, m, st.kk, misfit)}
  ELSE OtherParts(inst, m, misfit) \cup {m}
RootOf(inst) == Plus(PathSum(inst, inst.s[1], 0, Len(inst.a)), inst.f[1][1])
OtherLast(st, inst, m, misfit) ==
  IF st.tree
  THEN {m, [m EXCEPT ![1].f[1] = Plus(@, misfit)],
        [m EXCEPT ![1].f[1] = Plus(@, misfit), ![1].s[Len(inst.a)][1] = Moved(inst.a[Len(inst.a)], @, Minus(Zero, misfit))],
        [m EXCEPT ![1].f = [i \in DOMAIN @ |-> Plus(@[i], Minus(inst.root[1], RootOf(inst)))]]}
  ELSE {m, [m EXCEPT !.f[1] = Plus(@, misfit)],
        [m EXCEPT !.f[1] = Plus(@, misfit), !.s[1] = Moved(inst.a, @, Minus(Zero, misfit))]}
FoldOtherMoves(st, script) ==
  Apply(LAMBDA inst : IF Len(script) < st.rounds THEN OtherRound(st, inst, RoundMessage(st, inst), Misfit(st, inst))
                      ELSE OtherLast(st, inst, LastMessage(st, inst), Misfit(st, inst)), InstanceAt(st, script, Len(script)))

\* A claim that misses the committed polynomial becomes one that fits by the
\* weights of some round, few of all there are.
Fits(st, inst) == Misfit(st, inst) = Zero
ErrorsOf(st, inst, msg) ==
  IF st.tree THEN AddVec(msg[1].z, TimesVec(Minus(Zero, One), PartialEvaluations(inst.f[1], NextU(inst.u, st.kk), st.kk)))
  ELSE AddVec(msg, TimesVec(Minus(Zero, One), FmnPartial(inst)))
FirstWeights(st, alpha) == IF st.tree THEN WeightsFor(alpha[1], 1) ELSE alpha
Few(st, errors) == D * Cardinality({alpha \in FoldCoins(st) : DotOf(FirstWeights(st, alpha), errors) = Zero}) <= Cardinality(FoldCoins(st))
FoldSound(st, script) ==
  /\ Fits(st, InstanceAt(st, script, st.rounds))
  /\ \A n \in 1 .. st.rounds : \A inst \in {InstanceAt(st, script, n - 1)} :
       ~Fits(st, inst) /\ Fits(st, InstanceAt(st, script, n)) => Few(st, ErrorsOf(st, inst, script[n].sent))
===============================================================================
