------------------------------ MODULE Folding ------------------------------
(***************************************************************************)
(* Nova-style folding of relaxed squaring gates (zk/src/folding/nova.rs):  *)
(* (A_k z)^2 = U_k z[sel_k] + e_k.  Two holders keep an instance each, and *)
(* any instance may be folded into any other, so accumulators meet         *)
(* accumulators and not fresh instances only.  An instance may be damaged  *)
(* between two folds, as one that arrives from elsewhere may be.           *)
(*                                                                         *)
(* A ring element is one residue mod M; the code's ring has M = 2^32 and   *)
(* 64 coefficients, and nothing here depends on more than a commutative    *)
(* ring with zero divisors.  Two variables, two gates, keys of one row.    *)
(***************************************************************************)
EXTENDS Integers

CONSTANTS M,         \* the modulus
          Slots,     \* holders of an instance
          A,         \* gate -> variable -> coefficient
          U,         \* gate -> public output
          Sel,       \* gate -> selected variable
          KeyZ,      \* variable -> coefficient of the witness key
          KeyE,      \* gate -> coefficient of the error key
          Witnesses, \* witnesses an instance is built from
          Challenges,\* values of r
          Errors,    \* by how much a damaged field is off
          MaxFolds   \* bound: folds in a run

Vars == 1 .. 2
Gates == 1 .. 2
Ring == 0 .. M - 1

ASSUME FoldingAssumption ==
  /\ M \in Nat \ {0} /\ MaxFolds \in Nat
  /\ A \in [Gates -> [Vars -> Ring]]
  /\ U \in [Gates -> Ring] /\ Sel \in [Gates -> Vars]
  /\ KeyZ \in [Vars -> Ring] /\ KeyE \in [Gates -> Ring]
  /\ Witnesses \subseteq [Vars -> Ring] /\ Challenges \subseteq Ring
  /\ Errors \subseteq Ring

Instances == [z : [Vars -> Ring], error : [Gates -> Ring], c_z : Ring, c_e : Ring]

VARIABLES inst,     \* slot -> relaxed instance
          last,     \* the fold just made: who, with whom, under which r
          damaged,  \* slots that were damaged since they were last committed,
                    \* or folded with a damaged one
          folds     \* folds made so far

vars == <<inst, last, damaged, folds>>

-----------------------------------------------------------------------------
RowZ(k, z) == A[k][1] * z[1] + A[k][2] * z[2]
CommitWitness(z) == (KeyZ[1] * z[1] + KeyZ[2] * z[2]) % M
CommitError(v) == (KeyE[1] * v[1] + KeyE[2] * v[2]) % M

\* constraint_residuals: what the gates miss by.
Residuals(z) ==
  [k \in Gates |-> (RowZ(k, z) * RowZ(k, z) - U[k] * z[Sel[k]]) % M]

\* An instance whose error is its residual; for a satisfying witness that is
\* FoldKey::satisfying, with error zero.
Relaxed(z) == [z |-> z, error |-> Residuals(z),
               c_z |-> CommitWitness(z), c_e |-> CommitError(Residuals(z))]

\* Slip: the products of one order only.
CrossTermsOnce(z1, z2) ==
  [k \in Gates |-> (RowZ(k, z1) * RowZ(k, z2) - U[k] * z2[Sel[k]]) % M]
CrossTerms(z1, z2) ==
  [k \in Gates |-> (2 * RowZ(k, z1) * RowZ(k, z2) - U[k] * z2[Sel[k]]) % M]

UZSel(z) == [k \in Gates |-> (U[k] * z[Sel[k]]) % M]

\* Slip: the textbook e1 + r T + r^2 e2, which the gates are not linear enough
\* for.
FoldTextbook(i1, i2, r) ==
  LET t == CrossTerms(i1.z, i2.z)
  IN  [z |-> [v \in Vars |-> (i1.z[v] + r * i2.z[v]) % M],
       error |-> [k \in Gates |-> (i1.error[k] + r * t[k] + r * r * i2.error[k]) % M],
       c_z |-> (i1.c_z + r * i2.c_z) % M,
       c_e |-> (i1.c_e + r * r * i2.c_e + r * CommitError(t)) % M]

\* fold: e' is never recomputed from z', nor c_z' and c_e' from z' and e'.
Fold(i1, i2, r) ==
  LET t == CrossTerms(i1.z, i2.z)
      u == UZSel(i2.z)
  IN  [z |-> [v \in Vars |-> (i1.z[v] + r * i2.z[v]) % M],
       error |-> [k \in Gates |->
                    (i1.error[k] + r * t[k] + r * r * (i2.error[k] + u[k])) % M],
       c_z |-> (i1.c_z + r * i2.c_z) % M,
       c_e |-> (i1.c_e + r * r * i2.c_e
                 + r * CommitError(t) + r * r * CommitError(u)) % M]

VerifyFolded(i) ==
  /\ CommitWitness(i.z) = i.c_z
  /\ CommitError(i.error) = i.c_e
  /\ Residuals(i.z) = i.error

-----------------------------------------------------------------------------
NoFold == [on |-> FALSE]

Init == /\ inst \in [Slots -> {Relaxed(z) : z \in Witnesses}]
        /\ last = NoFold /\ damaged = {} /\ folds = 0

Commit(s, z) == /\ inst' = [inst EXCEPT ![s] = Relaxed(z)]
                /\ damaged' = damaged \ {s}
                /\ last' = NoFold
                /\ UNCHANGED folds

FoldInto(s, t, r) ==
  /\ folds < MaxFolds
  /\ inst' = [inst EXCEPT ![s] = Fold(inst[s], inst[t], r)]
  /\ damaged' = IF t \in damaged THEN damaged \cup {s} ELSE damaged
  /\ last' = [on |-> TRUE, into |-> s, from |-> t, r |-> r]
  /\ folds' = folds + 1

\* External: one field of an instance is off by d.  The bound is one damage
\* at a time.
Damage(s, d) ==
  /\ damaged = {}
  /\ \/ \E k \in Gates :
          inst' = [inst EXCEPT ![s].error[k] = (@ + d) % M]
     \/ inst' = [inst EXCEPT ![s].c_z = (@ + d) % M]
     \/ inst' = [inst EXCEPT ![s].c_e = (@ + d) % M]
  /\ damaged' = damaged \cup {s}
  /\ last' = NoFold
  /\ UNCHANGED folds

Next == \E s \in Slots :
          \/ \E z \in Witnesses : Commit(s, z)
          \/ \E t \in Slots, r \in Challenges : FoldInto(s, t, r)
          \/ \E d \in Errors : Damage(s, d)

Spec == Init /\ [][Next]_vars

-----------------------------------------------------------------------------
TypeOK == /\ inst \in [Slots -> Instances]
          /\ damaged \subseteq Slots
          /\ folds \in 0 .. MaxFolds

\* However often and in whatever shape undamaged instances were folded, the
\* result verifies: the homomorphic updates of e, c_z and c_e stay what the
\* folded witness asks for (nova.rs:29-32).
FoldedInstancesVerify ==
  \A s \in Slots \ damaged : VerifyFolded(inst[s])

\* How far an instance is from verifying.
GateGap(i, k) == (i.error[k] - Residuals(i.z)[k]) % M
WitnessGap(i) == (CommitWitness(i.z) - i.c_z) % M
ErrorGap(i) == (CommitError(i.error) - i.c_e) % M

\* A fold hides nothing of what is wrong: the gaps of the left instance are
\* carried whole and those of the right one times r or r^2, so a damaged
\* instance leaves the verdict of a fold only where r annihilates its gap.
FoldCarriesGaps ==
  [][ last'.on =>
        LET left == inst[last'.into]
            right == inst[last'.from]
            out == inst'[last'.into]
            r == last'.r
        IN  /\ \A k \in Gates :
                 GateGap(out, k) = (GateGap(left, k) + r * r * GateGap(right, k)) % M
            /\ WitnessGap(out) = (WitnessGap(left) + r * WitnessGap(right)) % M
            /\ ErrorGap(out) = (ErrorGap(left) + r * r * ErrorGap(right)) % M ]_vars
=============================================================================
