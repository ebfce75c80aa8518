------------------------------ MODULE MCFolding ------------------------------
(***************************************************************************)
(* The two folding schemes, the projection by balanced digits and the norm *)
(* arguments, one of them in a behaviour.  Nova's runs over Z_4, the       *)
(* smallest ring of the code's kind with zero divisors, and gates with     *)
(* units and zero divisors among their coefficients.  LatticeFold's has a  *)
(* unit and a key with kernel vectors, and witnesses with coefficients at  *)
(* the edges of a digit and of the ring; so have the keys of the           *)
(* projection.                                                             *)
(***************************************************************************)
EXTENDS Folding, LatticeFold

VARIABLES protocol, st, script  \* of the norm arguments

Pair(a, b) == [k \in 0 .. 1 |-> IF k = 0 THEN a ELSE b]
\* Public parameters of the norm arguments, from a seed.
NmDraw(seed, k) == (seed * seed * 13 + k * k * 7 + k * (5 * seed + 3) + ((k * 11) \div 4) + 5) % 19
Exact == INSTANCE Norms WITH Q <- 19, D <- 2, Base <- 2, Alpha <- 5, Draw <- NmDraw
MCLatticeKeys == {Pair(3, 2), Pair(2, 4)}
MCFirsts == {Pair(a, b) : a \in {2, 8}, b \in {3, 6, 8}}
MCSeconds == {Pair(1, 7)}
MCForged == {Pair(0, 0), Pair(1, 3), Pair(4, 0)}

MCA == <<<<1, 2>>, <<3, 1>>>>
MCU == <<1, 3>>
MCSel == <<2, 1>>
MCKeyZ == <<1, 3>>
MCKeyE == <<3, 2>>
MCWitnesses == {<<1, 1>>, <<3, 2>>}

foldVars == <<w1, w2, r, proof, phase, fork>>
shortVars == <<w, t, gamma, highBound, sent>>
bothVars == <<key, zeta>>
allVars == <<honest, verdict>>
normVars == <<protocol, st, script>>

\* The others rest while one runs.
NovaRests == inst = [s \in Slots |-> <<>>] /\ last = NoFold /\ damaged = Slots /\ folds = 0
LatticeRests == w1 = 0 /\ w2 = 0 /\ r = 0 /\ proof = 0 /\ phase = "none" /\ fork = <<>>
ProjectionRests == w = 0 /\ t = 0 /\ gamma = 0 /\ highBound = -1 /\ sent = <<>>

NormsRest == protocol = "none" /\ st = 0 /\ script = <<>>

InLattice == phase # "none"
InProjection == highBound # -1
InNorms == protocol # "none"
MCInit ==
  \/ /\ Init /\ LatticeRests /\ ProjectionRests /\ NormsRest
     /\ key = 0 /\ honest = TRUE /\ zeta = 0 /\ verdict = "none"
  \/ LatticeInit /\ NovaRests /\ ProjectionRests /\ NormsRest
  \/ ProjectionInit /\ NovaRests /\ LatticeRests /\ NormsRest
  \/ Exact!Init /\ NovaRests /\ LatticeRests /\ ProjectionRests /\ key = 0 /\ zeta = 0
MCNext ==
  \/ /\ ~InLattice /\ ~InProjection /\ ~InNorms
     /\ Next /\ UNCHANGED <<foldVars, shortVars, bothVars, allVars, normVars>>
  \/ InLattice /\ LatticeNext /\ UNCHANGED <<vars, shortVars, normVars>>
  \/ InProjection /\ ProjectionNext /\ UNCHANGED <<vars, foldVars, normVars>>
  \/ InNorms /\ Exact!Next /\ UNCHANGED <<vars, foldVars, shortVars, bothVars>>
MCSpec == MCInit /\ [][MCNext]_<<vars, foldVars, shortVars, bothVars, allVars, normVars>>

-----------------------------------------------------------------------------
\* A prover that follows the code is never rejected, for any statement it
\* takes and any challenges (committed_norm.rs:1051-1431, self_ip.rs:587-646,
\* exact_l2.rs:710-743); and what the arguments rest on holds of it.
HonestNormsVerify == InNorms => Exact!HonestNormsVerify

\* What an untruthful prover has accepted holds of the one witness its
\* commitment binds, with all that is claimed of it, or the challenges drawn
\* after it spoke cancelled exactly what was wrong, as few of all do; and an
\* accepted norm is the integer one, whatever route compares it (the same
\* lines).
AcceptedNormsHold == InNorms => Exact!AcceptedNormsHold

\* "One tamper cascades and trips many checks" (committed_norm.rs:104-108):
\* one place changed in a finished honest proof fails the one check of its
\* round that reads it, none if it is a cross product (70-90), and then every
\* check of every later round, since no later message was made for the
\* challenges drawn anew; a lane is spared only where its new challenge folds
\* it to what the old one did, as few of all do.  No tail grows by it
\* (1145-1405, and the exact sets of the test at 1788-1851).
TampersAreReported == InNorms => Exact!TampersAreReported
=============================================================================
