---------------------------- MODULE FoldingProofs ----------------------------
(***************************************************************************)
(* What modules Folding, Projection and LatticeFold say, for every value   *)
(* of their constants.                                                     *)
(*                                                                         *)
(* Of Nova's fold, over every modulus, gate system and key: one identity,  *)
(* the gap of a folded instance is the gap of the left one plus r or r^2   *)
(* times the gap of the right one (GateGaps, WitnessGaps, ErrorGaps).      *)
(* Every claim about chains of folds follows, because an instance verifies *)
(* exactly when its gaps are zero.                                         *)
(*                                                                         *)
(* Of the projection, at every width of a coefficient: a residue stands    *)
(* for the integer of its class around zero, and that is the shortest one  *)
(* of the class (Nearest), which carries the digits of a proof over to the *)
(* vector they recombine to.  The invariant is strengthened with what is   *)
(* on its way (Sent).                                                      *)
(*                                                                         *)
(* Of LatticeFold, for every degree of the ring, key and bound: the ring   *)
(* laws of X^D = -1, from the coefficients up, by which a key goes through *)
(* Horner's rule; the digits are exact because the last carry is a         *)
(* multiple of 2^W; their combination is as short as the gate allows, by   *)
(* induction on Horner's rule.  The invariant is what the prover has sent  *)
(* (FoldInv).                                                              *)
(***************************************************************************)
EXTENDS Folding, LatticeFold, NumberLemmas

LEMMA Facts ==
  /\ M \in Nat /\ M > 0
  /\ \A k \in Gates, v \in Vars : A[k][v] \in Int
  /\ \A k \in Gates : U[k] \in Int /\ Sel[k] \in Vars /\ KeyE[k] \in Int
  /\ \A v \in Vars : KeyZ[v] \in Int
BY FoldingAssumption DEF Ring

LEMMA Ranges ==
  ASSUME NEW i \in Instances
  PROVE  /\ \A v \in Vars : i.z[v] \in Int
         /\ \A k \in Gates : i.error[k] \in Int
         /\ i.c_z \in Int /\ i.c_e \in Int
         /\ \A k \in Gates : RowZ(k, i.z) \in Int
BY Facts DEF Instances, Ring, RowZ, Vars

\* Reducing an integer keeps it in the ring.
LEMMA Reduced == \A a \in Int : a % M \in Ring
<1>1. SUFFICES ASSUME NEW a \in Int PROVE a % M \in Ring
  OBVIOUS
<1>2. QED
  BY Facts, CongMod DEF Ring

LEMMA SmallDifference ==
  ASSUME NEW a \in Ring, NEW b \in Ring PROVE (a - b) % M = 0 <=> a = b
<1>1. M \in Nat /\ M > 0 /\ a \in Int /\ b \in Int /\ 0 <= a /\ a < M /\ 0 <= b /\ b < M
  BY Facts DEF Ring
<1>2. CASE a >= b
  <2>1. PICK d \in Int : d = a - b
    BY <1>1
  <2>2. 0 \in Int /\ 0 <= d /\ d < M /\ d = M * 0 + d
    BY <1>1, <1>2, <2>1
  <2>3. d % M = d
    BY <1>1, <2>2, DivModUnique
  <2>4. QED
    BY <1>1, <2>1, <2>3
<1>3. CASE a < b
  <2>1. PICK d \in Int : d = a - b
    BY <1>1
  <2>2. 0 \in Int /\ -M <= d /\ d < 0 /\ d = M * 0 + d
    BY <1>1, <1>3, <2>1
  <2>3. d % M = d + M
    BY <1>1, <2>2, ModNegative
  <2>4. QED
    BY <1>1, <1>3, <2>1, <2>2, <2>3
<1>4. QED
  BY <1>1, <1>2, <1>3

-----------------------------------------------------------------------------
\* The fold identity of one gate, for whatever represents each residue.
LEMMA GateAlgebra ==
  ASSUME NEW e1 \in Int, NEW e2 \in Int, NEW a1 \in Int, NEW a2 \in Int,
         NEW p1 \in Int, NEW p2 \in Int, NEW rho \in Int, NEW tt \in Int,
         NEW u \in Int, NEW row \in Int, NEW uz \in Int,
         NEW res1 \in Int, NEW res2 \in Int,
         Cong(M, tt, 2 * a1 * a2 - p2), Cong(M, u, p2),
         Cong(M, row, a1 + rho * a2), Cong(M, uz, p1 + rho * p2),
         Cong(M, res1, a1 * a1 - p1), Cong(M, res2, a2 * a2 - p2)
  PROVE  Cong(M, (e1 + rho * tt + rho * rho * (e2 + u)) - (row * row - uz),
                 (e1 - res1) + rho * rho * (e2 - res2))
<1>0. M \in Nat
  BY Facts
<1>a. PICK t0 \in Int : t0 = 2 * a1 * a2 - p2
  <2>1. 2 * a1 * a2 - p2 \in Int
    OBVIOUS
  <2>2. QED
    BY <2>1, Zenon
<1>b. PICK s0 \in Int : s0 = a1 + rho * a2
  OBVIOUS
<1>c. PICK w0 \in Int : w0 = p1 + rho * p2
  OBVIOUS
<1>d. PICK q1 \in Int : q1 = a1 * a1 - p1
  OBVIOUS
<1>e. PICK q2 \in Int : q2 = a2 * a2 - p2
  OBVIOUS
<1>f. PICK rr \in Int : rr = rho * rho
  OBVIOUS
<1>1. /\ t0 \in Int /\ t0 = 2 * a1 * a2 - p2 /\ s0 \in Int /\ s0 = a1 + rho * a2
      /\ w0 \in Int /\ w0 = p1 + rho * p2 /\ q1 \in Int /\ q1 = a1 * a1 - p1
      /\ q2 \in Int /\ q2 = a2 * a2 - p2 /\ rr \in Int /\ rr = rho * rho
  BY <1>a, <1>b, <1>c, <1>d, <1>e, <1>f
<1>2. Cong(M, rho * tt, rho * t0)
  BY <1>0, <1>1, CongScale
<1>3. Cong(M, e2 + u, e2 + p2)
  BY <1>0, CongRefl, CongAdd
<1>4. Cong(M, rr * (e2 + u), rr * (e2 + p2))
  <2>1. PICK x \in Int, y \in Int : x = e2 + u /\ y = e2 + p2
    OBVIOUS
  <2>2. QED
    BY <1>0, <1>1, <1>3, <2>1, CongScale
<1>5. Cong(M, e1 + rho * tt, e1 + rho * t0)
  <2>1. rho * tt \in Int /\ rho * t0 \in Int
    BY <1>1
  <2>2. QED
    BY <1>0, <1>2, <2>1, CongRefl, CongAdd
<1>6. Cong(M, (e1 + rho * tt) + rr * (e2 + u), (e1 + rho * t0) + rr * (e2 + p2))
  <2>1. /\ e1 + rho * tt \in Int /\ e1 + rho * t0 \in Int
        /\ rr * (e2 + u) \in Int /\ rr * (e2 + p2) \in Int
    BY <1>1
  <2>2. QED
    BY <1>0, <1>4, <1>5, <2>1, CongAdd
<1>7. Cong(M, row * row, s0 * s0)
  BY <1>0, <1>1, CongMul
<1>8. Cong(M, row * row - uz, s0 * s0 - w0)
  <2>1. row * row \in Int /\ s0 * s0 \in Int
    BY <1>1
  <2>2. QED
    BY <1>0, <1>1, <1>7, <2>1, CongAdd
<1>9. Cong(M, ((e1 + rho * tt) + rr * (e2 + u)) - (row * row - uz),
              ((e1 + rho * t0) + rr * (e2 + p2)) - (s0 * s0 - w0))
  <2>1. /\ (e1 + rho * tt) + rr * (e2 + u) \in Int
        /\ (e1 + rho * t0) + rr * (e2 + p2) \in Int
        /\ row * row - uz \in Int /\ s0 * s0 - w0 \in Int
    BY <1>1
  <2>2. QED
    BY <1>0, <1>6, <1>8, <2>1, CongAdd
<1>10. Cong(M, (e1 - q1) + rr * (e2 - q2), (e1 - res1) + rr * (e2 - res2))
  <2>1. Cong(M, q1, res1) /\ Cong(M, q2, res2)
    BY <1>0, <1>1, CongSym
  <2>2. Cong(M, e1 - q1, e1 - res1) /\ Cong(M, e2 - q2, e2 - res2)
    BY <1>0, <1>1, <2>1, CongRefl, CongAdd
  <2>3. PICK x1 \in Int, y1 \in Int, x2 \in Int, y2 \in Int :
          x1 = e1 - q1 /\ y1 = e1 - res1 /\ x2 = e2 - q2 /\ y2 = e2 - res2
    BY <1>1
  <2>4. Cong(M, rr * x2, rr * y2)
    BY <1>0, <1>1, <2>2, <2>3, CongScale
  <2>5. rr * x2 \in Int /\ rr * y2 \in Int
    BY <1>1, <2>3
  <2>6. Cong(M, x1 + rr * x2, y1 + rr * y2)
    BY <1>0, <2>2, <2>3, <2>4, <2>5, CongAdd
  <2>7. QED
    BY <2>3, <2>6
<1>11. ((e1 + rho * t0) + rr * (e2 + p2)) - (s0 * s0 - w0)
         = (e1 - q1) + rr * (e2 - q2)
  <2>1. rho * t0 = 2 * (rho * (a1 * a2)) - rho * p2
    BY <1>1
  <2>2. s0 * s0 = a1 * a1 + 2 * (rho * (a1 * a2)) + (rho * rho) * (a2 * a2)
    BY <1>1
  <2>3. rr * (e2 + p2) = rr * e2 + rr * p2
    BY <1>1
  <2>4. rr * (e2 - q2) = rr * e2 - rr * (a2 * a2) + rr * p2
    BY <1>1
  <2>5. QED
    BY <1>1, <2>1, <2>2, <2>3, <2>4
<1>12. QED
  <2>1. /\ ((e1 + rho * tt) + rr * (e2 + u)) - (row * row - uz) \in Int
        /\ (e1 - q1) + rr * (e2 - q2) \in Int
        /\ (e1 - res1) + rr * (e2 - res2) \in Int
    BY <1>1
  <2>2. Cong(M, ((e1 + rho * tt) + rr * (e2 + u)) - (row * row - uz),
                (e1 - res1) + rr * (e2 - res2))
    BY <1>0, <1>9, <1>10, <1>11, <2>1, CongTrans
  <2>3. QED
    BY <1>1, <2>2

-----------------------------------------------------------------------------
\* A public linear form of two entries, of a combination of two vectors.
LEMMA Linear ==
  ASSUME NEW c1 \in Int, NEW c2 \in Int, NEW o1 \in Int, NEW o2 \in Int,
         NEW x1 \in Int, NEW x2 \in Int, NEW y1 \in Int, NEW y2 \in Int,
         NEW rho \in Int, Cong(M, o1, x1 + rho * y1), Cong(M, o2, x2 + rho * y2)
  PROVE  Cong(M, c1 * o1 + c2 * o2, (c1 * x1 + c2 * x2) + rho * (c1 * y1 + c2 * y2))
<1>0. M \in Nat
  BY Facts
<1>1. PICK d1 \in Int : d1 = x1 + rho * y1
  OBVIOUS
<1>2. PICK d2 \in Int : d2 = x2 + rho * y2
  OBVIOUS
<1>3. Cong(M, c1 * o1, c1 * d1) /\ Cong(M, c2 * o2, c2 * d2)
  BY <1>0, <1>1, <1>2, CongScale
<1>4. /\ c1 * o1 \in Int /\ c2 * o2 \in Int /\ c1 * d1 \in Int /\ c2 * d2 \in Int
  BY <1>1, <1>2
<1>5. Cong(M, c1 * o1 + c2 * o2, c1 * d1 + c2 * d2)
  BY <1>0, <1>3, <1>4, CongAdd
<1>6. c1 * d1 + c2 * d2 = (c1 * x1 + c2 * x2) + rho * (c1 * y1 + c2 * y2)
  <2>1. c1 * d1 = c1 * x1 + rho * (c1 * y1) /\ c2 * d2 = c2 * x2 + rho * (c2 * y2)
    BY <1>1, <1>2
  <2>2. rho * (c1 * y1 + c2 * y2) = rho * (c1 * y1) + rho * (c2 * y2)
    OBVIOUS
  <2>3. QED
    BY <2>1, <2>2
<1>7. QED
  BY <1>5, <1>6

\* Each field of a folded instance, up to congruence.
LEMMA FoldFields ==
  ASSUME NEW i1 \in Instances, NEW i2 \in Instances, NEW rho \in Ring
  PROVE  LET out == Fold(i1, i2, rho)
             tt == CrossTerms(i1.z, i2.z)
             u == UZSel(i2.z)
         IN  /\ out \in Instances
             /\ \A v \in Vars : Cong(M, out.z[v], i1.z[v] + rho * i2.z[v])
             /\ \A k \in Gates :
                  /\ tt[k] \in Int /\ u[k] \in Int
                  /\ Cong(M, out.error[k],
                          i1.error[k] + rho * tt[k] + rho * rho * (i2.error[k] + u[k]))
             /\ CommitError(tt) \in Int /\ CommitError(u) \in Int
             /\ Cong(M, out.c_z, i1.c_z + rho * i2.c_z)
             /\ Cong(M, out.c_e, i1.c_e + rho * rho * i2.c_e
                                   + rho * CommitError(tt) + rho * rho * CommitError(u))
<1> DEFINE out == Fold(i1, i2, rho)
           tt == CrossTerms(i1.z, i2.z)
           u == UZSel(i2.z)
<1>0. M \in Nat /\ M > 0 /\ rho \in Int
  BY Facts DEF Ring
<1>1. \A k \in Gates : tt[k] \in Int /\ u[k] \in Int
  <2>1. SUFFICES ASSUME NEW k \in Gates PROVE tt[k] \in Int /\ u[k] \in Int
    OBVIOUS
  <2>2. /\ U[k] \in Int /\ i2.z[Sel[k]] \in Int
        /\ RowZ(k, i1.z) \in Int /\ RowZ(k, i2.z) \in Int
    BY Facts, Ranges
  <2>3. /\ 2 * RowZ(k, i1.z) * RowZ(k, i2.z) - U[k] * i2.z[Sel[k]] \in Int
        /\ U[k] * i2.z[Sel[k]] \in Int
    BY <2>2
  <2>4. /\ tt[k] = (2 * RowZ(k, i1.z) * RowZ(k, i2.z) - U[k] * i2.z[Sel[k]]) % M
        /\ u[k] = (U[k] * i2.z[Sel[k]]) % M
    BY DEF CrossTerms, UZSel
  <2>5. tt[k] \in Ring /\ u[k] \in Ring
    BY <2>3, <2>4, Reduced
  <2>6. QED
    BY <2>5, Facts DEF Ring
<1>2. CommitError(tt) \in Int /\ CommitError(u) \in Int
  <2>1. /\ KeyE[1] \in Int /\ KeyE[2] \in Int /\ tt[1] \in Int /\ tt[2] \in Int
        /\ u[1] \in Int /\ u[2] \in Int
    BY <1>1, Facts DEF Gates
  <2>2. /\ KeyE[1] * tt[1] + KeyE[2] * tt[2] \in Int
        /\ KeyE[1] * u[1] + KeyE[2] * u[2] \in Int
    BY <2>1
  <2>3. CommitError(tt) \in Ring /\ CommitError(u) \in Ring
    BY <2>2, Reduced DEF CommitError
  <2>4. QED
    BY <2>3, Facts DEF Ring
<1>3. \A v \in Vars : /\ i1.z[v] + rho * i2.z[v] \in Int
                      /\ out.z[v] = (i1.z[v] + rho * i2.z[v]) % M
  BY <1>0, Ranges DEF Fold
<1>4. \A k \in Gates :
        /\ i1.error[k] + rho * tt[k] + rho * rho * (i2.error[k] + u[k]) \in Int
        /\ out.error[k]
             = (i1.error[k] + rho * tt[k] + rho * rho * (i2.error[k] + u[k])) % M
  BY <1>0, <1>1, Ranges DEF Fold
<1>5. /\ i1.c_z + rho * i2.c_z \in Int
      /\ out.c_z = (i1.c_z + rho * i2.c_z) % M
  BY <1>0, Ranges DEF Fold
<1>6. /\ i1.c_e + rho * rho * i2.c_e + rho * CommitError(tt) + rho * rho * CommitError(u) \in Int
      /\ out.c_e = (i1.c_e + rho * rho * i2.c_e
                      + rho * CommitError(tt) + rho * rho * CommitError(u)) % M
  BY <1>0, <1>2, Ranges DEF Fold
<1>7. out \in Instances
  <2>1. /\ \A v \in Vars : out.z[v] \in Ring
        /\ \A k \in Gates : out.error[k] \in Ring
        /\ out.c_z \in Ring /\ out.c_e \in Ring
    BY <1>3, <1>4, <1>5, <1>6, Reduced
  <2>2. /\ out = [z |-> out.z, error |-> out.error, c_z |-> out.c_z, c_e |-> out.c_e]
        /\ out.z = [v \in Vars |-> out.z[v]]
        /\ out.error = [k \in Gates |-> out.error[k]]
    BY DEF Fold
  <2>3. out.z \in [Vars -> Ring] /\ out.error \in [Gates -> Ring]
    BY <2>1, <2>2
  <2>4. QED
    BY <2>1, <2>2, <2>3 DEF Instances
<1> HIDE DEF out, tt, u
<1>8. /\ \A v \in Vars : Cong(M, out.z[v], i1.z[v] + rho * i2.z[v])
      /\ \A k \in Gates : Cong(M, out.error[k],
              i1.error[k] + rho * tt[k] + rho * rho * (i2.error[k] + u[k]))
      /\ Cong(M, out.c_z, i1.c_z + rho * i2.c_z)
      /\ Cong(M, out.c_e, i1.c_e + rho * rho * i2.c_e
                            + rho * CommitError(tt) + rho * rho * CommitError(u))
  <2>1. \A a \in Int : Cong(M, a % M, a)
    BY <1>0, CongMod
  <2>2. QED
    BY <1>3, <1>4, <1>5, <1>6, <2>1
<1>9. QED
  BY <1>1, <1>2, <1>7, <1>8 DEF out, tt, u

-----------------------------------------------------------------------------
\* Each gap, up to congruence.
LEMMA GapFacts ==
  ASSUME NEW i \in Instances
  PROVE  /\ \A k \in Gates :
              /\ Residuals(i.z)[k] \in Ring
              /\ GateGap(i, k) \in Int
              /\ Cong(M, GateGap(i, k), i.error[k] - Residuals(i.z)[k])
         /\ CommitWitness(i.z) \in Ring /\ CommitError(i.error) \in Ring
         /\ WitnessGap(i) \in Int /\ ErrorGap(i) \in Int
         /\ Cong(M, WitnessGap(i), CommitWitness(i.z) - i.c_z)
         /\ Cong(M, ErrorGap(i), CommitError(i.error) - i.c_e)
<1>0. M \in Nat /\ M > 0
  BY Facts
<1>1. \A a \in Int : a % M \in Ring /\ a % M \in Int /\ Cong(M, a % M, a)
  <2>1. SUFFICES ASSUME NEW a \in Int
                 PROVE  a % M \in Ring /\ a % M \in Int /\ Cong(M, a % M, a)
    OBVIOUS
  <2>2. a % M \in 0 .. M - 1 /\ Cong(M, a % M, a)
    BY <1>0, CongMod
  <2>3. QED
    BY <1>0, <2>2 DEF Ring
<1>2. \A k \in Gates : Residuals(i.z)[k] \in Ring
  <2>1. SUFFICES ASSUME NEW k \in Gates PROVE Residuals(i.z)[k] \in Ring
    OBVIOUS
  <2>2. RowZ(k, i.z) \in Int /\ U[k] \in Int /\ i.z[Sel[k]] \in Int
    BY Facts, Ranges
  <2>3. RowZ(k, i.z) * RowZ(k, i.z) - U[k] * i.z[Sel[k]] \in Int
    BY <2>2
  <2>4. QED
    BY <1>1, <2>3 DEF Residuals
<1>3. CommitWitness(i.z) \in Ring /\ CommitError(i.error) \in Ring
  <2>1. /\ KeyZ[1] \in Int /\ KeyZ[2] \in Int /\ i.z[1] \in Int /\ i.z[2] \in Int
        /\ KeyE[1] \in Int /\ KeyE[2] \in Int
        /\ i.error[1] \in Int /\ i.error[2] \in Int
    BY Facts, Ranges DEF Vars, Gates
  <2>2. /\ KeyZ[1] * i.z[1] + KeyZ[2] * i.z[2] \in Int
        /\ KeyE[1] * i.error[1] + KeyE[2] * i.error[2] \in Int
    BY <2>1
  <2>3. QED
    BY <1>1, <2>2 DEF CommitWitness, CommitError
<1>4. /\ \A k \in Gates : i.error[k] - Residuals(i.z)[k] \in Int
      /\ CommitWitness(i.z) - i.c_z \in Int
      /\ CommitError(i.error) - i.c_e \in Int
  BY <1>0, <1>2, <1>3, Ranges DEF Ring
<1>5. QED
  BY <1>1, <1>2, <1>3, <1>4 DEF GateGap, WitnessGap, ErrorGap

\* The last step of each gap: the gaps of the parts for what they represent.
LEMMA GapCore ==
  ASSUME NEW x \in Int, NEW d1 \in Int, NEW d2 \in Int, NEW g1 \in Int,
         NEW g2 \in Int, NEW f \in Int,
         Cong(M, x, d1 + f * d2), Cong(M, g1, d1), Cong(M, g2, d2)
  PROVE  Cong(M, x, g1 + f * g2)
<1>0. M \in Nat
  BY Facts
<1>1. Cong(M, d1, g1) /\ Cong(M, d2, g2)
  BY <1>0, CongSym
<1>2. Cong(M, f * d2, f * g2)
  BY <1>0, <1>1, CongScale
<1>3. f * g2 \in Int /\ f * d2 \in Int
  OBVIOUS
<1>4. Cong(M, d1 + f * d2, g1 + f * g2)
  BY <1>0, <1>1, <1>2, <1>3, CongAdd
<1>5. g1 + f * g2 \in Int /\ d1 + f * d2 \in Int
  OBVIOUS
<1>6. QED
  BY <1>0, <1>4, <1>5, CongTrans

LEMMA GapEnd ==
  ASSUME NEW x \in Int, NEW l1 \in Int, NEW l2 \in Int, NEW c1 \in Int,
         NEW c2 \in Int, NEW wa \in Int, NEW wb \in Int, NEW g1 \in Int,
         NEW g2 \in Int, NEW f \in Int,
         Cong(M, x, (l1 - c1) + f * (l2 - c2)),
         Cong(M, wa, l1), Cong(M, wb, l2),
         Cong(M, g1, wa - c1), Cong(M, g2, wb - c2)
  PROVE  Cong(M, x, g1 + f * g2)
<1>0. M \in Nat /\ M > 0
  BY Facts
<1>1. PICK d1 \in Int, d2 \in Int, b1 \in Int, b2 \in Int :
        d1 = l1 - c1 /\ d2 = l2 - c2 /\ b1 = wa - c1 /\ b2 = wb - c2
  OBVIOUS
<1>2. Cong(M, b1, d1) /\ Cong(M, b2, d2)
  BY <1>0, <1>1, CongRefl, CongAdd
<1>3. Cong(M, g1, b1) /\ Cong(M, g2, b2)
  BY <1>1
<1>4. Cong(M, g1, d1) /\ Cong(M, g2, d2)
  BY <1>0, <1>1, <1>2, <1>3, CongTrans
<1>5. Cong(M, x, d1 + f * d2)
  BY <1>1
<1>6. QED
  BY <1>1, <1>4, <1>5, GapCore

LEMMA Ends ==
  ASSUME NEW x \in Int, NEW g1 \in Int, NEW g2 \in Int, NEW f \in Int,
         Cong(M, x, g1 + f * g2)
  PROVE  x % M = (g1 + f * g2) % M
<1>1. g1 + f * g2 \in Int
  OBVIOUS
<1>2. QED
  BY <1>1, Facts, CongSame

LEMMA GateGaps ==
  ASSUME NEW i1 \in Instances, NEW i2 \in Instances, NEW rho \in Ring, NEW k \in Gates
  PROVE  GateGap(Fold(i1, i2, rho), k) = (GateGap(i1, k) + rho * rho * GateGap(i2, k)) % M
<1> DEFINE out == Fold(i1, i2, rho)
           tt == CrossTerms(i1.z, i2.z)
           u == UZSel(i2.z)
           a1 == RowZ(k, i1.z)
           a2 == RowZ(k, i2.z)
           row == RowZ(k, out.z)
           p1 == U[k] * i1.z[Sel[k]]
           p2 == U[k] * i2.z[Sel[k]]
           uz == U[k] * out.z[Sel[k]]
           e1 == i1.error[k]
           e2 == i2.error[k]
           res1 == Residuals(i1.z)[k]
           res2 == Residuals(i2.z)[k]
<1>0. M \in Nat /\ M > 0 /\ rho \in Int
  BY Facts DEF Ring
<1>1. /\ out \in Instances
      /\ \A v \in Vars : Cong(M, out.z[v], i1.z[v] + rho * i2.z[v])
      /\ tt[k] \in Int /\ u[k] \in Int
      /\ Cong(M, out.error[k], e1 + rho * tt[k] + rho * rho * (e2 + u[k]))
  BY FoldFields
<1>2. /\ a1 \in Int /\ a2 \in Int /\ row \in Int /\ e1 \in Int /\ e2 \in Int
      /\ p1 \in Int /\ p2 \in Int /\ uz \in Int /\ out.error[k] \in Int
      /\ Sel[k] \in Vars /\ U[k] \in Int
      /\ i1.z[Sel[k]] \in Int /\ i2.z[Sel[k]] \in Int /\ out.z[Sel[k]] \in Int
  <2>1. /\ a1 \in Int /\ a2 \in Int /\ row \in Int /\ e1 \in Int /\ e2 \in Int
        /\ out.error[k] \in Int /\ Sel[k] \in Vars /\ U[k] \in Int
    BY <1>1, Facts, Ranges
  <2>2. /\ i1.z[Sel[k]] \in Int /\ i2.z[Sel[k]] \in Int /\ out.z[Sel[k]] \in Int
    BY <1>1, <2>1, Ranges
  <2>3. QED
    BY <2>1, <2>2
<1>3. Cong(M, row, a1 + rho * a2)
  <2>1. /\ A[k][1] \in Int /\ A[k][2] \in Int
        /\ out.z[1] \in Int /\ out.z[2] \in Int /\ i1.z[1] \in Int
        /\ i1.z[2] \in Int /\ i2.z[1] \in Int /\ i2.z[2] \in Int
    BY <1>1, Facts, Ranges DEF Vars
  <2>2. /\ Cong(M, out.z[1], i1.z[1] + rho * i2.z[1])
        /\ Cong(M, out.z[2], i1.z[2] + rho * i2.z[2])
    BY <1>1 DEF Vars
  <2>3. QED
    BY <1>0, <2>1, <2>2, Linear DEF RowZ
<1>4. Cong(M, uz, p1 + rho * p2)
  <2>1. PICK d \in Int : d = i1.z[Sel[k]] + rho * i2.z[Sel[k]]
    BY <1>0, <1>2
  <2>2. Cong(M, out.z[Sel[k]], d)
    BY <1>1, <1>2, <2>1
  <2>3. Cong(M, U[k] * out.z[Sel[k]], U[k] * d)
    BY <1>0, <1>2, <2>1, <2>2, CongScale
  <2>4. PICK x \in Int, y \in Int, c \in Int :
          x = i1.z[Sel[k]] /\ y = i2.z[Sel[k]] /\ c = U[k]
    BY <1>2
  <2>5. c * d = c * x + rho * (c * y)
    BY <1>0, <2>1, <2>4
  <2>6. QED
    BY <2>3, <2>4, <2>5
<1>5. Cong(M, tt[k], 2 * a1 * a2 - p2) /\ Cong(M, u[k], p2)
  <2>1. 2 * a1 * a2 - p2 \in Int
    BY <1>2
  <2>2. tt[k] = (2 * a1 * a2 - p2) % M /\ u[k] = p2 % M
    BY DEF CrossTerms, UZSel
  <2>3. QED
    BY <1>0, <1>2, <2>1, <2>2, CongMod
<1>6. /\ res1 \in Int /\ res2 \in Int /\ Residuals(out.z)[k] \in Int
      /\ Cong(M, res1, a1 * a1 - p1) /\ Cong(M, res2, a2 * a2 - p2)
      /\ Cong(M, Residuals(out.z)[k], row * row - uz)
  <2>1. /\ a1 * a1 - p1 \in Int /\ a2 * a2 - p2 \in Int /\ row * row - uz \in Int
    BY <1>2
  <2>2. /\ res1 = (a1 * a1 - p1) % M /\ res2 = (a2 * a2 - p2) % M
        /\ Residuals(out.z)[k] = (row * row - uz) % M
    BY DEF Residuals
  <2>3. \A a \in Int : Cong(M, a % M, a) /\ a % M \in Int
    <3>1. SUFFICES ASSUME NEW a \in Int PROVE Cong(M, a % M, a) /\ a % M \in Int
      OBVIOUS
    <3>2. QED
      BY <1>0, CongMod
  <2>4. QED
    BY <2>1, <2>2, <2>3
<1>7. /\ GateGap(out, k) = (out.error[k] - Residuals(out.z)[k]) % M
      /\ GateGap(i1, k) \in Int /\ GateGap(i2, k) \in Int
      /\ Cong(M, GateGap(i1, k), e1 - res1)
      /\ Cong(M, GateGap(i2, k), e2 - res2)
  BY GapFacts DEF GateGap
<1> HIDE DEF out, tt, u, a1, a2, row, p1, p2, uz, e1, e2, res1, res2
<1>8. Cong(M, (e1 + rho * tt[k] + rho * rho * (e2 + u[k])) - (row * row - uz),
              (e1 - res1) + rho * rho * (e2 - res2))
  BY <1>0, <1>1, <1>2, <1>3, <1>4, <1>5, <1>6, GateAlgebra
<1>9. PICK lhs \in Int : lhs = e1 + rho * tt[k] + rho * rho * (e2 + u[k])
  <2>1. e1 + rho * tt[k] + rho * rho * (e2 + u[k]) \in Int
    BY <1>0, <1>1, <1>2
  <2>2. QED
    BY <2>1, Zenon
<1>10. PICK rhs \in Int : rhs = row * row - uz
  BY <1>2
<1>11. PICK d1 \in Int, d2 \in Int : d1 = e1 - res1 /\ d2 = e2 - res2
  BY <1>2, <1>6
<1>12. PICK o \in Int, q \in Int, g1 \in Int, g2 \in Int, rr \in Int :
         /\ o = out.error[k] /\ q = Residuals(out.z)[k]
         /\ g1 = GateGap(i1, k) /\ g2 = GateGap(i2, k) /\ rr = rho * rho
  BY <1>0, <1>2, <1>6, <1>7
<1>13. Cong(M, o - q, d1 + rr * d2)
  <2>1. Cong(M, o - q, lhs - rhs)
    BY <1>0, <1>1, <1>6, <1>9, <1>10, <1>12, CongAdd
  <2>2. Cong(M, lhs - rhs, d1 + rr * d2)
    BY <1>8, <1>9, <1>10, <1>11, <1>12
  <2>3. o - q \in Int /\ lhs - rhs \in Int /\ d1 + rr * d2 \in Int
    BY <1>9, <1>10, <1>11, <1>12
  <2>4. QED
    BY <1>0, <2>1, <2>2, <2>3, CongTrans
<1>14. (o - q) % M = (g1 + rr * g2) % M
  <2>1. PICK x \in Int : x = o - q
    BY <1>12
  <2>2. /\ d1 \in Int /\ d2 \in Int /\ g1 \in Int /\ g2 \in Int /\ rr \in Int
        /\ Cong(M, x, d1 + rr * d2) /\ Cong(M, g1, d1) /\ Cong(M, g2, d2)
    BY <1>7, <1>11, <1>12, <1>13, <2>1
  <2>3. Cong(M, x, g1 + rr * g2)
    BY <2>1, <2>2, GapCore
  <2>4. x % M = (g1 + rr * g2) % M
    BY <2>2, <2>3, Ends
  <2>5. QED
    BY <2>1, <2>4
<1>15. QED
  BY <1>7, <1>12, <1>14 DEF out

LEMMA WitnessGaps ==
  ASSUME NEW i1 \in Instances, NEW i2 \in Instances, NEW rho \in Ring
  PROVE  WitnessGap(Fold(i1, i2, rho)) = (WitnessGap(i1) + rho * WitnessGap(i2)) % M
<1> DEFINE out == Fold(i1, i2, rho)
           l1 == KeyZ[1] * i1.z[1] + KeyZ[2] * i1.z[2]
           l2 == KeyZ[1] * i2.z[1] + KeyZ[2] * i2.z[2]
           lo == KeyZ[1] * out.z[1] + KeyZ[2] * out.z[2]
<1>0. M \in Nat /\ M > 0 /\ rho \in Int
  BY Facts DEF Ring
<1>1. /\ out \in Instances
      /\ \A v \in Vars : Cong(M, out.z[v], i1.z[v] + rho * i2.z[v])
      /\ Cong(M, out.c_z, i1.c_z + rho * i2.c_z)
  BY FoldFields
<1>2. /\ KeyZ[1] \in Int /\ KeyZ[2] \in Int
      /\ out.z[1] \in Int /\ out.z[2] \in Int /\ i1.z[1] \in Int
      /\ i1.z[2] \in Int /\ i2.z[1] \in Int /\ i2.z[2] \in Int
      /\ out.c_z \in Int /\ i1.c_z \in Int /\ i2.c_z \in Int
  BY <1>1, Facts, Ranges DEF Vars
<1>3. Cong(M, lo, l1 + rho * l2)
  <2>1. /\ Cong(M, out.z[1], i1.z[1] + rho * i2.z[1])
        /\ Cong(M, out.z[2], i1.z[2] + rho * i2.z[2])
    BY <1>1 DEF Vars
  <2>2. QED
    BY <1>0, <1>2, <2>1, Linear
<1>4. /\ l1 \in Int /\ l2 \in Int /\ lo \in Int
      /\ CommitWitness(out.z) = lo % M
      /\ CommitWitness(i1.z) = l1 % M /\ CommitWitness(i2.z) = l2 % M
  BY <1>2 DEF CommitWitness
<1>5. /\ WitnessGap(out) = (CommitWitness(out.z) - out.c_z) % M
      /\ WitnessGap(i1) \in Int /\ WitnessGap(i2) \in Int
      /\ Cong(M, WitnessGap(i1), CommitWitness(i1.z) - i1.c_z)
      /\ Cong(M, WitnessGap(i2), CommitWitness(i2.z) - i2.c_z)
  BY GapFacts DEF WitnessGap
<1> HIDE DEF out, l1, l2, lo
<1>6. PICK ww \in Int, wa \in Int, wb \in Int :
        ww = CommitWitness(out.z) /\ wa = CommitWitness(i1.z) /\ wb = CommitWitness(i2.z)
  <2>1. lo % M \in Int /\ l1 % M \in Int /\ l2 % M \in Int
    BY <1>0, <1>4, CongMod
  <2>2. QED
    BY <1>4, <2>1
<1>7. PICK c \in Int, c1 \in Int, c2 \in Int, g1 \in Int, g2 \in Int :
        /\ c = out.c_z /\ c1 = i1.c_z /\ c2 = i2.c_z
        /\ g1 = WitnessGap(i1) /\ g2 = WitnessGap(i2)
  BY <1>2, <1>5
<1>8. Cong(M, ww, l1 + rho * l2) /\ Cong(M, wa, l1) /\ Cong(M, wb, l2)
  <2>1. Cong(M, ww, lo) /\ Cong(M, wa, l1) /\ Cong(M, wb, l2)
    BY <1>0, <1>4, <1>6, CongMod
  <2>2. l1 + rho * l2 \in Int
    BY <1>0, <1>4
  <2>3. QED
    BY <1>0, <1>3, <1>4, <2>1, <2>2, CongTrans
<1>9. Cong(M, ww - c, (l1 + rho * l2) - (c1 + rho * c2))
  <2>1. l1 + rho * l2 \in Int /\ c1 + rho * c2 \in Int
    BY <1>0, <1>4
  <2>2. Cong(M, c, c1 + rho * c2)
    BY <1>1, <1>7
  <2>3. QED
    BY <1>0, <1>8, <2>1, <2>2, CongAdd
<1>10. (l1 + rho * l2) - (c1 + rho * c2) = (l1 - c1) + rho * (l2 - c2)
  BY <1>0, <1>4
<1>11. (ww - c) % M = (g1 + rho * g2) % M
  <2>1. /\ Cong(M, g1, wa - c1) /\ Cong(M, g2, wb - c2)
    BY <1>5, <1>6, <1>7
  <2>2. PICK x \in Int : x = ww - c
    BY <1>6, <1>7
  <2>3. /\ l1 \in Int /\ l2 \in Int /\ c1 \in Int /\ c2 \in Int /\ wa \in Int
        /\ wb \in Int /\ g1 \in Int /\ g2 \in Int /\ rho \in Int
        /\ Cong(M, x, (l1 - c1) + rho * (l2 - c2))
        /\ Cong(M, wa, l1) /\ Cong(M, wb, l2)
    BY <1>0, <1>4, <1>6, <1>7, <1>8, <1>9, <1>10, <2>2
  <2>4. Cong(M, x, g1 + rho * g2)
    BY <2>1, <2>2, <2>3, GapEnd
  <2>5. PICK y \in Int : y = g1 + rho * g2
    BY <2>3
  <2>6. x % M = y % M
    <3>1. Cong(M, x, y)
      BY <2>4, <2>5
    <3>2. QED
      BY <3>1, Facts, CongSame
  <2>7. QED
    BY <2>2, <2>5, <2>6
<1>12. QED
  BY <1>5, <1>6, <1>7, <1>11 DEF out

LEMMA ErrorGaps ==
  ASSUME NEW i1 \in Instances, NEW i2 \in Instances, NEW rho \in Ring
  PROVE  ErrorGap(Fold(i1, i2, rho)) = (ErrorGap(i1) + rho * rho * ErrorGap(i2)) % M
<1> DEFINE out == Fold(i1, i2, rho)
           tt == CrossTerms(i1.z, i2.z)
           u == UZSel(i2.z)
           L(v) == KeyE[1] * v[1] + KeyE[2] * v[2]
           lo == L(out.error)
           l1 == L(i1.error)
           l2 == L(i2.error)
           lt == L(tt)
           lu == L(u)
           ct == CommitError(tt)
           cu == CommitError(u)
<1>0. M \in Nat /\ M > 0 /\ rho \in Int
  BY Facts DEF Ring
<1>1. /\ out \in Instances
      /\ \A k \in Gates :
           /\ tt[k] \in Int /\ u[k] \in Int
           /\ Cong(M, out.error[k],
                   i1.error[k] + rho * tt[k] + rho * rho * (i2.error[k] + u[k]))
      /\ ct \in Int /\ cu \in Int
      /\ Cong(M, out.c_e, i1.c_e + rho * rho * i2.c_e + rho * ct + rho * rho * cu)
  BY FoldFields
<1>2. PICK rr \in Int : rr = rho * rho
  BY <1>0
<1>3. /\ KeyE[1] \in Int /\ KeyE[2] \in Int
      /\ out.error[1] \in Int /\ out.error[2] \in Int
      /\ i1.error[1] \in Int /\ i1.error[2] \in Int
      /\ i2.error[1] \in Int /\ i2.error[2] \in Int
      /\ tt[1] \in Int /\ tt[2] \in Int /\ u[1] \in Int /\ u[2] \in Int
      /\ out.c_e \in Int /\ i1.c_e \in Int /\ i2.c_e \in Int
  BY <1>1, Facts, Ranges DEF Gates
<1>4. /\ Cong(M, out.error[1], i1.error[1] + rho * tt[1] + rr * (i2.error[1] + u[1]))
      /\ Cong(M, out.error[2], i1.error[2] + rho * tt[2] + rr * (i2.error[2] + u[2]))
  BY <1>1, <1>2 DEF Gates
<1>5. /\ lo \in Int /\ l1 \in Int /\ l2 \in Int /\ lt \in Int /\ lu \in Int
      /\ CommitError(out.error) = lo % M
      /\ CommitError(i1.error) = l1 % M /\ CommitError(i2.error) = l2 % M
      /\ ct = lt % M /\ cu = lu % M
  BY <1>3 DEF CommitError
<1>6. Cong(M, lo, l1 + rho * lt + rr * (l2 + lu))
  <2>1. PICK y1 \in Int : y1 = i1.error[1] + rho * tt[1] + rr * (i2.error[1] + u[1])
    <3>1. i1.error[1] + rho * tt[1] + rr * (i2.error[1] + u[1]) \in Int
      BY <1>0, <1>2, <1>3
    <3>2. QED
      BY <3>1, Zenon
  <2>2. PICK y2 \in Int : y2 = i1.error[2] + rho * tt[2] + rr * (i2.error[2] + u[2])
    <3>1. i1.error[2] + rho * tt[2] + rr * (i2.error[2] + u[2]) \in Int
      BY <1>0, <1>2, <1>3
    <3>2. QED
      BY <3>1, Zenon
  <2>3. PICK k1 \in Int, k2 \in Int, o1 \in Int, o2 \in Int :
          k1 = KeyE[1] /\ k2 = KeyE[2] /\ o1 = out.error[1] /\ o2 = out.error[2]
    BY <1>3
  <2>4. Cong(M, o1, y1) /\ Cong(M, o2, y2)
    BY <1>4, <2>1, <2>2, <2>3
  <2>5. Cong(M, k1 * o1, k1 * y1) /\ Cong(M, k2 * o2, k2 * y2)
    BY <1>0, <2>4, CongScale
  <2>6. Cong(M, k1 * o1 + k2 * o2, k1 * y1 + k2 * y2)
    <3>1. k1 * o1 \in Int /\ k2 * o2 \in Int /\ k1 * y1 \in Int /\ k2 * y2 \in Int
      OBVIOUS
    <3>2. QED
      BY <1>0, <2>5, <3>1, CongAdd
  <2>7. k1 * y1 + k2 * y2 = l1 + rho * lt + rr * (l2 + lu)
    <3>1. PICK a1 \in Int, a2 \in Int, b1 \in Int, b2 \in Int :
            /\ a1 = i1.error[1] /\ a2 = i1.error[2]
            /\ b1 = i2.error[1] /\ b2 = i2.error[2]
      BY <1>3
    <3>2. PICK t1 \in Int, t2 \in Int, u1 \in Int, u2 \in Int :
            t1 = tt[1] /\ t2 = tt[2] /\ u1 = u[1] /\ u2 = u[2]
      BY <1>3
    <3>3. /\ y1 = a1 + rho * t1 + rr * (b1 + u1) /\ y2 = a2 + rho * t2 + rr * (b2 + u2)
          /\ l1 = k1 * a1 + k2 * a2 /\ l2 = k1 * b1 + k2 * b2
          /\ lt = k1 * t1 + k2 * t2 /\ lu = k1 * u1 + k2 * u2
      BY <2>1, <2>2, <2>3, <3>1, <3>2
    <3> HIDE DEF l1, l2, lt, lu
    <3>4. k1 * y1 = k1 * a1 + rho * (k1 * t1) + rr * (k1 * b1) + rr * (k1 * u1)
      BY <1>0, <3>3
    <3>5. k2 * y2 = k2 * a2 + rho * (k2 * t2) + rr * (k2 * b2) + rr * (k2 * u2)
      BY <1>0, <3>3
    <3>6. rho * lt = rho * (k1 * t1) + rho * (k2 * t2)
      BY <1>0, <3>3
    <3>7. rr * (l2 + lu) = rr * (k1 * b1) + rr * (k2 * b2)
                             + rr * (k1 * u1) + rr * (k2 * u2)
      BY <3>3
    <3>8. QED
      BY <1>0, <3>3, <3>4, <3>5, <3>6, <3>7
  <2>8. QED
    BY <2>3, <2>6, <2>7
<1>7. /\ ErrorGap(out) = (CommitError(out.error) - out.c_e) % M
      /\ ErrorGap(i1) \in Int /\ ErrorGap(i2) \in Int
      /\ Cong(M, ErrorGap(i1), CommitError(i1.error) - i1.c_e)
      /\ Cong(M, ErrorGap(i2), CommitError(i2.error) - i2.c_e)
  BY GapFacts DEF ErrorGap
<1> HIDE DEF out, tt, u, lo, l1, l2, lt, lu, ct, cu
<1>8. PICK ww \in Int, wa \in Int, wb \in Int :
        /\ ww = CommitError(out.error)
        /\ wa = CommitError(i1.error) /\ wb = CommitError(i2.error)
  <2>1. lo % M \in Int /\ l1 % M \in Int /\ l2 % M \in Int
    BY <1>0, <1>5, CongMod
  <2>2. QED
    BY <1>5, <2>1
<1>9. PICK c \in Int, c1 \in Int, c2 \in Int, g1 \in Int, g2 \in Int :
        /\ c = out.c_e /\ c1 = i1.c_e /\ c2 = i2.c_e
        /\ g1 = ErrorGap(i1) /\ g2 = ErrorGap(i2)
  BY <1>3, <1>7
<1>10. /\ Cong(M, ww, lo) /\ Cong(M, wa, l1) /\ Cong(M, wb, l2)
       /\ Cong(M, ct, lt) /\ Cong(M, cu, lu) /\ ct \in Int /\ cu \in Int
  BY <1>0, <1>1, <1>5, <1>8, CongMod
<1>11. PICK top \in Int : top = l1 + rho * lt + rr * (l2 + lu)
  <2>1. l1 + rho * lt + rr * (l2 + lu) \in Int
    BY <1>0, <1>5
  <2>2. QED
    BY <2>1, Zenon
<1>12. PICK bot \in Int : bot = c1 + rr * c2 + rho * lt + rr * lu
  <2>1. c1 + rr * c2 + rho * lt + rr * lu \in Int
    BY <1>0, <1>5
  <2>2. QED
    BY <2>1, Zenon
<1>13. Cong(M, c, bot)
  <2>1. Cong(M, rho * ct, rho * lt) /\ Cong(M, rr * cu, rr * lu)
    BY <1>0, <1>5, <1>10, CongScale
  <2>2. PICK x1 \in Int, x2 \in Int, x3 \in Int, x4 \in Int, x0 \in Int :
          /\ x1 = rho * ct /\ x2 = rho * lt /\ x3 = rr * cu /\ x4 = rr * lu
          /\ x0 = c1 + rr * c2
    BY <1>0, <1>5, <1>10
  <2>3. Cong(M, x0 + x1, x0 + x2)
    BY <1>0, <2>1, <2>2, CongRefl, CongAdd
  <2>4. x0 + x1 \in Int /\ x0 + x2 \in Int
    OBVIOUS
  <2>5. Cong(M, (x0 + x1) + x3, (x0 + x2) + x4)
    BY <1>0, <2>1, <2>2, <2>3, <2>4, CongAdd
  <2>6. Cong(M, c, (x0 + x1) + x3)
    BY <1>1, <1>2, <1>9, <2>2
  <2>7. (x0 + x1) + x3 \in Int /\ (x0 + x2) + x4 \in Int
    OBVIOUS
  <2>8. Cong(M, c, (x0 + x2) + x4)
    BY <1>0, <2>5, <2>6, <2>7, CongTrans
  <2>9. QED
    BY <1>12, <2>2, <2>8
<1>14. Cong(M, ww, top)
  BY <1>0, <1>5, <1>6, <1>10, <1>11, CongTrans
<1>15. Cong(M, ww - c, top - bot)
  BY <1>0, <1>13, <1>14, CongAdd
<1>16. top - bot = (l1 - c1) + rr * (l2 - c2)
  <2>1. PICK y \in Int : y = rho * lt
    BY <1>0, <1>5
  <2>2. /\ rr * (l2 + lu) = rr * l2 + rr * lu
        /\ rr * (l2 - c2) = rr * l2 - rr * c2
    BY <1>5
  <2>3. rr * l2 \in Int /\ rr * lu \in Int /\ rr * c2 \in Int
    BY <1>5
  <2>4. QED
    BY <1>5, <1>11, <1>12, <2>1, <2>2, <2>3
<1>17. (ww - c) % M = (g1 + rr * g2) % M
  <2>1. Cong(M, g1, wa - c1) /\ Cong(M, g2, wb - c2)
    BY <1>7, <1>8, <1>9
  <2>2. PICK x \in Int : x = ww - c
    BY <1>8, <1>9
  <2>3. /\ l1 \in Int /\ l2 \in Int /\ c1 \in Int /\ c2 \in Int /\ wa \in Int
        /\ wb \in Int /\ g1 \in Int /\ g2 \in Int /\ rr \in Int
        /\ Cong(M, x, (l1 - c1) + rr * (l2 - c2))
        /\ Cong(M, wa, l1) /\ Cong(M, wb, l2)
    BY <1>2, <1>5, <1>8, <1>9, <1>10, <1>15, <1>16, <2>2
  <2>4. Cong(M, x, g1 + rr * g2)
    BY <2>1, <2>2, <2>3, GapEnd
  <2>5. g1 \in Int /\ g2 \in Int /\ rr \in Int
    BY <1>2, <1>9
  <2>6. PICK y \in Int : y = g1 + rr * g2
    BY <2>5
  <2>7. x % M = y % M
    <3>1. Cong(M, x, y)
      BY <2>4, <2>6
    <3>2. QED
      BY <3>1, Facts, CongSame
  <2>8. QED
    BY <2>2, <2>6, <2>7
<1>18. QED
  BY <1>2, <1>7, <1>8, <1>9, <1>17 DEF out

-----------------------------------------------------------------------------
\* Verifying is having no gap.
LEMMA VerifyGaps ==
  ASSUME NEW i \in Instances
  PROVE  VerifyFolded(i) <=> /\ \A k \in Gates : GateGap(i, k) = 0
                             /\ WitnessGap(i) = 0 /\ ErrorGap(i) = 0
<1>1. /\ \A k \in Gates : Residuals(i.z)[k] \in Ring /\ i.error[k] \in Ring
      /\ CommitWitness(i.z) \in Ring /\ CommitError(i.error) \in Ring
      /\ i.c_z \in Ring /\ i.c_e \in Ring
  BY GapFacts DEF Instances
<1>2. \A k \in Gates : GateGap(i, k) = 0 <=> i.error[k] = Residuals(i.z)[k]
  BY <1>1, SmallDifference DEF GateGap
<1>3. WitnessGap(i) = 0 <=> CommitWitness(i.z) = i.c_z
  BY <1>1, SmallDifference DEF WitnessGap
<1>4. ErrorGap(i) = 0 <=> CommitError(i.error) = i.c_e
  BY <1>1, SmallDifference DEF ErrorGap
<1>5. Residuals(i.z) = i.error <=> \A k \in Gates : i.error[k] = Residuals(i.z)[k]
  <2>1. i.error = [k \in Gates |-> i.error[k]]
    BY DEF Instances
  <2>2. Residuals(i.z) = [k \in Gates |-> Residuals(i.z)[k]]
    BY DEF Residuals
  <2>3. QED
    BY <2>1, <2>2
<1>6. QED
  BY <1>2, <1>3, <1>4, <1>5 DEF VerifyFolded

\* What an instance is built as verifies.
LEMMA RelaxedVerifies ==
  ASSUME NEW z \in [Vars -> Ring]
  PROVE  Relaxed(z) \in Instances /\ VerifyFolded(Relaxed(z))
<1> DEFINE e == Residuals(z)
<1>1. PICK c \in Ring : TRUE
  BY Facts, Reduced
<1>2. \A x \in [Gates -> Ring] :
        [z |-> z, error |-> x, c_z |-> c, c_e |-> c] \in Instances
  BY <1>1 DEF Instances
<1>3. e \in [Gates -> Ring]
  <2>1. \A k \in Gates : Residuals(z)[k] \in Ring
    <3>1. PICK x \in [Gates -> Ring] : TRUE
      <4>1. [k \in Gates |-> c] \in [Gates -> Ring]
        BY <1>1
      <4>2. QED
        BY <4>1
    <3>2. [z |-> z, error |-> x, c_z |-> c, c_e |-> c] \in Instances
      BY <1>2, <3>1
    <3>3. QED
      BY <3>2, GapFacts
  <2>2. e = [k \in Gates |-> e[k]]
    BY DEF Residuals
  <2>3. QED
    BY <2>1, <2>2
<1>4. CommitWitness(z) \in Ring /\ CommitError(e) \in Ring
  <2>1. [z |-> z, error |-> e, c_z |-> c, c_e |-> c] \in Instances
    BY <1>2, <1>3
  <2>2. QED
    BY <2>1, GapFacts
<1>5. QED
  BY <1>3, <1>4 DEF Relaxed, Instances, VerifyFolded

-----------------------------------------------------------------------------
Inv == TypeOK /\ FoldedInstancesVerify

LEMMA InitInv == Init => Inv
<1>1. SUFFICES ASSUME Init PROVE Inv
  OBVIOUS
<1>2. \A z \in Witnesses : Relaxed(z) \in Instances /\ VerifyFolded(Relaxed(z))
  BY RelaxedVerifies, FoldingAssumption
<1>3. \A s \in Slots : inst[s] \in Instances /\ VerifyFolded(inst[s])
  BY <1>1, <1>2 DEF Init
<1>4. inst \in [Slots -> Instances]
  BY <1>1, <1>2 DEF Init
<1>5. QED
  BY <1>1, <1>3, <1>4, FoldingAssumption DEF Inv, TypeOK, FoldedInstancesVerify, Init

LEMMA CommitInv ==
  ASSUME Inv, NEW s \in Slots, NEW z \in Witnesses, Commit(s, z) PROVE Inv'
<1>1. Relaxed(z) \in Instances /\ VerifyFolded(Relaxed(z))
  BY RelaxedVerifies, FoldingAssumption
<1>2. TypeOK'
  BY <1>1 DEF Inv, TypeOK, Commit
<1>3. FoldedInstancesVerify'
  BY <1>1 DEF Inv, TypeOK, FoldedInstancesVerify, Commit
<1>4. QED
  BY <1>2, <1>3 DEF Inv

\* The four gap equations of one fold.
LEMMA FoldGaps ==
  ASSUME NEW i1 \in Instances, NEW i2 \in Instances, NEW rho \in Ring
  PROVE  LET out == Fold(i1, i2, rho)
         IN  /\ out \in Instances
             /\ \A k \in Gates :
                  GateGap(out, k) = (GateGap(i1, k) + rho * rho * GateGap(i2, k)) % M
             /\ WitnessGap(out) = (WitnessGap(i1) + rho * WitnessGap(i2)) % M
             /\ ErrorGap(out) = (ErrorGap(i1) + rho * rho * ErrorGap(i2)) % M
BY FoldFields, GateGaps, WitnessGaps, ErrorGaps

LEMMA FoldVerifies ==
  ASSUME NEW i1 \in Instances, NEW i2 \in Instances, NEW rho \in Ring,
         VerifyFolded(i1), VerifyFolded(i2)
  PROVE  VerifyFolded(Fold(i1, i2, rho))
<1>1. (0 + rho * rho * 0) % M = 0 /\ (0 + rho * 0) % M = 0
  <2>1. rho \in Int /\ M \in Nat /\ M > 0
    BY Facts DEF Ring
  <2>2. 0 + rho * rho * 0 = 0 /\ 0 + rho * 0 = 0
    BY <2>1
  <2>3. 0 \in Int /\ 0 = M * 0 + 0
    BY <2>1
  <2>4. 0 % M = 0
    BY <2>1, <2>3, DivModUnique
  <2>5. QED
    BY <2>2, <2>4
<1>2. /\ \A k \in Gates : GateGap(i1, k) = 0 /\ GateGap(i2, k) = 0
      /\ WitnessGap(i1) = 0 /\ WitnessGap(i2) = 0
      /\ ErrorGap(i1) = 0 /\ ErrorGap(i2) = 0
  BY VerifyGaps
<1>3. QED
  BY <1>1, <1>2, FoldGaps, VerifyGaps

LEMMA FoldKeepsInv ==
  ASSUME Inv, NEW s \in Slots, NEW tt \in Slots, NEW rho \in Challenges,
         FoldInto(s, tt, rho)
  PROVE  Inv'
<1>1. inst[s] \in Instances /\ inst[tt] \in Instances /\ rho \in Ring
  BY FoldingAssumption DEF Inv, TypeOK
<1>2. Fold(inst[s], inst[tt], rho) \in Instances
  BY <1>1, FoldGaps
<1>3. folds \in 0 .. MaxFolds /\ folds < MaxFolds /\ folds' = folds + 1 /\ MaxFolds \in Nat
  BY FoldingAssumption DEF Inv, TypeOK, FoldInto
<1>4. TypeOK'
  <2>1. inst' \in [Slots -> Instances] /\ damaged' \subseteq Slots
    BY <1>2 DEF Inv, TypeOK, FoldInto
  <2>2. folds' \in 0 .. MaxFolds
    BY <1>3
  <2>3. QED
    BY <2>1, <2>2 DEF TypeOK
<1>5. FoldedInstancesVerify'
  <2>1. SUFFICES ASSUME NEW p \in Slots, p \notin damaged' PROVE VerifyFolded(inst'[p])
    BY DEF FoldedInstancesVerify
  <2>2. p \notin damaged /\ VerifyFolded(inst[p])
    BY <2>1 DEF Inv, FoldedInstancesVerify, FoldInto
  <2>3. CASE p # s
    BY <2>2, <2>3 DEF Inv, TypeOK, FoldInto
  <2>4. CASE p = s
    <3>1. tt \notin damaged /\ VerifyFolded(inst[tt])
      BY <2>1, <2>4 DEF Inv, FoldedInstancesVerify, FoldInto
    <3>2. VerifyFolded(Fold(inst[s], inst[tt], rho))
      BY <1>1, <2>2, <2>4, <3>1, FoldVerifies
    <3>3. QED
      BY <2>4, <3>2 DEF Inv, TypeOK, FoldInto
  <2>5. QED
    BY <2>3, <2>4
<1>6. QED
  BY <1>4, <1>5 DEF Inv

LEMMA DamageInv ==
  ASSUME Inv, NEW s \in Slots, NEW d \in Errors, Damage(s, d) PROVE Inv'
<1>0. d \in Int /\ \A a \in Ring : (a + d) % M \in Ring
  <2>1. d \in Int /\ \A a \in Ring : a + d \in Int
    BY FoldingAssumption DEF Ring
  <2>2. QED
    BY <2>1, Reduced
<1>1. inst[s] \in Instances
  BY DEF Inv, TypeOK
<1>2. \A k \in Gates : [inst[s] EXCEPT !.error[k] = (@ + d) % M] \in Instances
  BY <1>0, <1>1 DEF Instances
<1>3. /\ [inst[s] EXCEPT !.c_z = (@ + d) % M] \in Instances
      /\ [inst[s] EXCEPT !.c_e = (@ + d) % M] \in Instances
  BY <1>0, <1>1 DEF Instances
<1>4. PICK i \in Instances : inst' = [inst EXCEPT ![s] = i]
  <2>1. CASE \E k \in Gates : inst' = [inst EXCEPT ![s].error[k] = (@ + d) % M]
    <3>1. PICK k \in Gates : inst' = [inst EXCEPT ![s].error[k] = (@ + d) % M]
      BY <2>1
    <3>2. inst' = [inst EXCEPT ![s] = [inst[s] EXCEPT !.error[k] = (@ + d) % M]]
      BY <3>1 DEF Inv, TypeOK
    <3>3. QED
      BY <1>2, <3>2
  <2>2. CASE \/ inst' = [inst EXCEPT ![s].c_z = (@ + d) % M]
             \/ inst' = [inst EXCEPT ![s].c_e = (@ + d) % M]
    <3>1. \/ inst' = [inst EXCEPT ![s] = [inst[s] EXCEPT !.c_z = (@ + d) % M]]
          \/ inst' = [inst EXCEPT ![s] = [inst[s] EXCEPT !.c_e = (@ + d) % M]]
      BY <2>2 DEF Inv, TypeOK
    <3>2. QED
      BY <1>3, <3>1
  <2>3. QED
    BY <2>1, <2>2 DEF Damage
<1>5. damaged' = damaged \cup {s} /\ folds' = folds
  BY DEF Damage
<1>6. TypeOK'
  BY <1>4, <1>5 DEF Inv, TypeOK
<1>7. FoldedInstancesVerify'
  BY <1>4, <1>5 DEF Inv, TypeOK, FoldedInstancesVerify
<1>8. QED
  BY <1>6, <1>7 DEF Inv

LEMMA NextInv == Inv /\ [Next]_vars => Inv'
<1>1. SUFFICES ASSUME Inv, [Next]_vars PROVE Inv'
  OBVIOUS
<1>2. CASE UNCHANGED vars
  BY <1>1, <1>2 DEF Inv, TypeOK, FoldedInstancesVerify, vars
<1>3. CASE Next
  BY <1>1, <1>3, CommitInv, FoldKeepsInv, DamageInv DEF Next
<1>4. QED
  BY <1>1, <1>2, <1>3

\* Every field of every instance stays reduced modulo M, whatever is folded
\* into whatever and however it was damaged (nova.rs, fold).
THEOREM FoldingTyping == Spec => []TypeOK
<1>1. Inv => TypeOK
  BY DEF Inv
<1>2. QED
  BY InitInv, NextInv, <1>1, PTL DEF Spec

\* Chains of folds of any length and shape verify as long as nothing was
\* damaged: fold's homomorphic updates of e, c_z and c_e agree with what
\* verify_folded recomputes from z.
THEOREM ChainsVerify == Spec => []FoldedInstancesVerify
<1>1. Inv => FoldedInstancesVerify
  BY DEF Inv
<1>2. QED
  BY InitInv, NextInv, <1>1, PTL DEF Spec

\* A fold carries the gaps of both sides, so that verify_folded rejects the
\* result of folding a damaged instance unless r annihilates its gap.
THEOREM FoldsCarryGaps == Spec => FoldCarriesGaps
<1> DEFINE Carries ==
      last'.on =>
        LET left == inst[last'.into]
            right == inst[last'.from]
            out == inst'[last'.into]
            rho == last'.r
        IN  /\ \A k \in Gates :
                 GateGap(out, k) = (GateGap(left, k) + rho * rho * GateGap(right, k)) % M
            /\ WitnessGap(out) = (WitnessGap(left) + rho * WitnessGap(right)) % M
            /\ ErrorGap(out) = (ErrorGap(left) + rho * rho * ErrorGap(right)) % M
<1>1. TypeOK /\ Next => Carries
  <2>1. SUFFICES ASSUME TypeOK, Next, last'.on PROVE Carries
    OBVIOUS
  <2>2. PICK s \in Slots, tt \in Slots, rho \in Challenges : FoldInto(s, tt, rho)
    BY <2>1 DEF Next, Commit, Damage, NoFold
  <2>3. inst[s] \in Instances /\ inst[tt] \in Instances /\ rho \in Ring
    BY <2>1, FoldingAssumption DEF TypeOK
  <2>4. /\ last'.into = s /\ last'.from = tt /\ last'.r = rho
        /\ inst'[s] = Fold(inst[s], inst[tt], rho)
    BY <2>1, <2>2 DEF FoldInto, TypeOK
  <2>5. PICK out : out = Fold(inst[s], inst[tt], rho)
    OBVIOUS
  <2>6. /\ \A k \in Gates :
             GateGap(out, k) = (GateGap(inst[s], k) + rho * rho * GateGap(inst[tt], k)) % M
        /\ WitnessGap(out) = (WitnessGap(inst[s]) + rho * WitnessGap(inst[tt])) % M
        /\ ErrorGap(out) = (ErrorGap(inst[s]) + rho * rho * ErrorGap(inst[tt])) % M
    BY <2>3, <2>5, FoldGaps
  <2>7. inst'[s] = out
    BY <2>4, <2>5
  <2>8. QED
    BY <2>4, <2>6, <2>7
<1>2. TypeOK /\ [Next]_vars => [Carries]_vars
  BY <1>1
<1>3. Spec => [][Next]_vars
  BY DEF Spec
<1>4. QED
  BY <1>2, <1>3, FoldingTyping, PTL DEF FoldCarriesGaps

-----------------------------------------------------------------------------
LEMMA Pow ==
  /\ Pow2[0] = 1
  /\ \A n \in Nat : Pow2[n] \in Nat /\ Pow2[n] > 0 /\ Pow2[n + 1] = 2 * Pow2[n]
BY PowersOfTwo DEF Pow2

LEMMA PowPred ==
  ASSUME NEW n \in Nat, n > 0
  PROVE  n - 1 \in Nat /\ Pow2[n - 1] \in Nat /\ Pow2[n - 1] > 0 /\ Pow2[n] = 2 * Pow2[n - 1]
<1>1. PICK m \in Nat : m = n - 1
  OBVIOUS
<1>2. m + 1 = n
  BY <1>1
<1>3. QED
  BY <1>1, <1>2, Pow

\* A digit that is not the whole word takes at most half of it.
LEMMA PowBelow ==
  ASSUME NEW g \in Nat, NEW n \in Nat, g <= n
  PROVE  Pow2[g] <= Pow2[n]
<1> DEFINE N == {d \in Nat : Pow2[g] <= Pow2[g + d]}
<1>1. 0 \in N
  <2>1. g + 0 = g
    OBVIOUS
  <2>2. QED
    BY <2>1, Pow
<1>2. ASSUME NEW d \in Nat, d \in N PROVE d + 1 \in N
  <2>1. PICK m \in Nat : m = g + d
    OBVIOUS
  <2>2. g + (d + 1) = m + 1
    BY <2>1
  <2>3. Pow2[m + 1] = 2 * Pow2[m] /\ Pow2[m] \in Nat /\ Pow2[g] \in Nat
    BY Pow
  <2>4. QED
    BY <1>2, <2>1, <2>2, <2>3
<1>3. \A d \in Nat : d \in N
  <2> HIDE DEF N
  <2> QED BY <1>1, <1>2, NatSetInduction
<1>4. PICK d \in Nat : d = n - g
  OBVIOUS
<1>5. g + d = n
  BY <1>4
<1>6. QED
  BY <1>3, <1>5

LEMMA PowFacts ==
  /\ W \in Nat /\ W > 1
  /\ Pow2[W] \in Nat /\ Pow2[W] > 0 /\ Pow2[W - 1] \in Nat /\ Pow2[W - 1] > 0
  /\ Pow2[W] = 2 * Pow2[W - 1]
  /\ \A g \in 1 .. W - 1 : /\ Pow2[g] \in Nat /\ Pow2[g - 1] \in Nat /\ Pow2[g - 1] > 0
                           /\ Pow2[g] = 2 * Pow2[g - 1] /\ Pow2[g] <= Pow2[W - 1]
<1>1. W \in Nat /\ W > 1
  BY ProjectionAssumption
<1>2. Pow2[W] = 2 * Pow2[W - 1] /\ W - 1 \in Nat
  BY <1>1, PowPred
<1>3. ASSUME NEW g \in 1 .. W - 1
      PROVE  /\ Pow2[g] \in Nat /\ Pow2[g - 1] \in Nat /\ Pow2[g - 1] > 0
             /\ Pow2[g] = 2 * Pow2[g - 1] /\ Pow2[g] <= Pow2[W - 1]
  <2>1. PICK n \in Nat : n = W - 1
    BY <1>2
  <2>2. g \in Nat /\ g > 0 /\ g <= n
    BY <1>1, <2>1
  <2>3. Pow2[g] <= Pow2[n]
    BY <2>2, PowBelow
  <2>4. QED
    BY <2>1, <2>2, <2>3, PowPred, Pow
<1>4. QED
  BY <1>1, <1>2, <1>3, Pow

-----------------------------------------------------------------------------
\* The integer around zero of a class, and the shortest of it.
Near(m, h, x) == IF x % m > h THEN (x % m) - m ELSE x % m

LEMMA Nearest ==
  ASSUME NEW m \in Nat, NEW h \in Nat, h > 0, m = 2 * h, NEW x \in Int,
         NEW c, c = Near(m, h, x)
  PROVE  /\ x % m \in 0 .. m - 1 /\ c \in Int /\ Cong(m, c, x)
         /\ -h < c /\ c <= h /\ Abs(c) <= Abs(x)
         /\ (-h < x /\ x <= h) => c = x
<1>1. PICK rest \in 0 .. m - 1 : rest = x % m /\ Cong(m, rest, x)
  BY CongMod
<1>2. c = IF rest > h THEN rest - m ELSE rest
  BY <1>1 DEF Near
<1>3. c \in Int /\ -h < c /\ c <= h
  BY <1>2
<1>4. Cong(m, c, x)
  <2>1. PICK e \in Int : rest = x + m * e
    BY <1>1 DEF Cong
  <2>2. m * (e - 1) = m * e - m /\ e - 1 \in Int
    OBVIOUS
  <2>3. c = x + m * e \/ c = x + m * (e - 1)
    BY <1>2, <2>1, <2>2
  <2>4. QED
    BY <2>2, <2>3 DEF Cong
<1>5. ASSUME -h < x, x <= h PROVE c = x
  <2>1. CASE x >= 0
    <3>1. PICK o \in Int : o = 0
      OBVIOUS
    <3>2. x = m * o + x /\ x < m
      BY <1>5, <2>1, <3>1
    <3>3. x % m = x
      BY <2>1, <3>2, DivModUnique
    <3>4. QED
      BY <1>1, <1>2, <1>5, <3>3
  <2>2. CASE x < 0
    <3>1. PICK o \in Int, y \in Int : o = -1 /\ y = x + m
      OBVIOUS
    <3>2. x = m * o + y /\ 0 <= y /\ y < m /\ y > h
      BY <1>5, <2>2, <3>1
    <3>3. x % m = y
      BY <3>2, DivModUnique
    <3>4. QED
      BY <1>1, <1>2, <3>1, <3>2, <3>3
  <2>3. QED
    BY <2>1, <2>2
<1>6. Abs(c) <= Abs(x)
  <2>1. CASE -h < x /\ x <= h
    BY <1>5, <2>1 DEF Abs
  <2>2. CASE ~(-h < x /\ x <= h)
    BY <1>3, <2>2 DEF Abs
  <2>3. QED
    BY <2>1, <2>2
<1>7. QED
  BY <1>1, <1>3, <1>4, <1>5, <1>6

\* The same of a word.
LEMMA CenteredFacts ==
  ASSUME NEW x \in Int
  PROVE  /\ x % Pow2[W] \in Word /\ Centered(x % Pow2[W]) \in Int
         /\ Cong(Pow2[W], Centered(x % Pow2[W]), x)
         /\ -Pow2[W - 1] < Centered(x % Pow2[W]) /\ Centered(x % Pow2[W]) <= Pow2[W - 1]
         /\ Norm(x % Pow2[W]) <= Abs(x)
         /\ (-Pow2[W - 1] < x /\ x <= Pow2[W - 1]) => Centered(x % Pow2[W]) = x
<1>1. PICK m \in Nat, h \in Nat : m = Pow2[W] /\ h = Pow2[W - 1] /\ h > 0 /\ m = 2 * h
  BY PowFacts
<1>2. PICK c : c = Near(m, h, x)
  OBVIOUS
<1>0. m = 2 * h /\ h > 0
  BY <1>1
<1>3. /\ x % m \in 0 .. m - 1 /\ c \in Int /\ Cong(m, c, x)
      /\ -h < c /\ c <= h /\ Abs(c) <= Abs(x)
      /\ (-h < x /\ x <= h) => c = x
  BY <1>0, <1>2, Nearest
<1>4. c = Centered(x % Pow2[W])
  BY <1>1, <1>2 DEF Centered, Near
<1>5. QED
  BY <1>1, <1>3, <1>4 DEF Norm, Word

LEMMA WordFacts ==
  /\ Word \subseteq Int
  /\ \A x \in Word : x % Pow2[W] = x
<1>1. PICK m \in Nat : m = Pow2[W] /\ m > 0
  BY PowFacts
<1>2. ASSUME NEW x \in Word PROVE x \in Int /\ x % m = x
  <2>1. PICK o \in Int : o = 0
    OBVIOUS
  <2>2. x \in Int /\ 0 <= x /\ x < m
    BY <1>1 DEF Word
  <2>3. x = m * o + x
    BY <2>1, <2>2
  <2>4. QED
    BY <2>2, <2>3, DivModUnique
<1>3. QED
  BY <1>1, <1>2

LEMMA SameWord ==
  ASSUME NEW x \in Word, NEW y \in Word, Cong(Pow2[W], x, y)
  PROVE  x = y
<1>1. PICK m \in Nat : m = Pow2[W] /\ m > 0
  BY PowFacts
<1>2. x \in Int /\ y \in Int /\ x % m = x /\ y % m = y
  BY <1>1, WordFacts
<1>3. x % m = y % m
  BY <1>1, <1>2, CongSame
<1>4. QED
  BY <1>2, <1>3

LEMMA OwnRemainder ==
  ASSUME NEW m \in Nat, NEW y \in Int, 0 <= y, y < m
  PROVE  y % m = y
<1>1. PICK z \in Int : z = 0
  OBVIOUS
<1>2. y = m * z + y /\ m > 0
  BY <1>1
<1>3. QED
  BY <1>2, DivModUnique

LEMMA ExactDivision ==
  ASSUME NEW b \in Nat, b > 0, NEW y \in Int, NEW k \in Int, y = b * k
  PROVE  y \div b = k
<1>1. PICK z \in Int : z = 0
  OBVIOUS
<1>2. y = b * k + z /\ 0 <= z /\ z < b
  BY <1>1
<1>3. QED
  BY <1>2, DivModUnique

\* A word is its class around zero.
LEMMA OwnClass ==
  ASSUME NEW x \in Word
  PROVE  /\ x \in Int /\ Centered(x) \in Int /\ Cong(Pow2[W], Centered(x), x)
         /\ Norm(x) = Abs(Centered(x))
<1>1. x \in Int /\ x % Pow2[W] = x
  BY WordFacts
<1>2. QED
  BY <1>1, CenteredFacts DEF Norm

-----------------------------------------------------------------------------
(***************************************************************************)
(* The balanced split: two words that recombine to the one they are of,    *)
(* the low one short.                                                      *)
(***************************************************************************)
LEMMA SplitFacts ==
  ASSUME NEW x \in Word, NEW g \in 1 .. W - 1
  PROVE  /\ SplitBalanced(x, g) \in [high : Word, low : Word]
         /\ Recombined(SplitBalanced(x, g), g) = x
         /\ Norm(SplitBalanced(x, g).low) <= Pow2[g - 1]
<1>1. PICK m \in Nat : m = Pow2[W] /\ m > 0
  BY PowFacts
<1>2. PICK b \in Nat, h \in Nat : b = Pow2[g] /\ h = Pow2[g - 1] /\ h > 0 /\ b = 2 * h
  BY PowFacts
<1>3. PICK c \in Int : c = Centered(x) /\ Cong(m, c, x)
  BY <1>1, OwnClass
<1>4. PICK l : l = Near(b, h, c)
  OBVIOUS
<1>5. b = 2 * h /\ h > 0 /\ b > 0
  BY <1>2
<1>6. l \in Int /\ Cong(b, l, c) /\ -h < l /\ l <= h
  BY <1>4, <1>5, Nearest
<1>7. PICK k \in Int : c - l = b * k /\ (c - l) \div b = k
  <2>1. PICK e \in Int : l = c + b * e
    BY <1>6 DEF Cong
  <2>2. PICK k \in Int : k = -e
    OBVIOUS
  <2>3. b * k = -(b * e)
    BY <2>2
  <2>4. PICK y \in Int : y = c - l
    BY <1>6
  <2>5. y = b * k
    BY <1>6, <2>1, <2>3, <2>4
  <2>6. y \div b = k
    BY <1>5, <2>5, ExactDivision
  <2>7. QED
    BY <2>4, <2>5, <2>6
<1>8. SplitBalanced(x, g) = [high |-> k % m, low |-> l % m]
  BY <1>1, <1>2, <1>3, <1>4, <1>7 DEF SplitBalanced, Near
<1>9. k % m \in Word /\ l % m \in Word /\ Norm(l % m) <= Abs(l)
  BY <1>1, <1>6, CenteredFacts
<1>10. Recombined(SplitBalanced(x, g), g) = x
  <2>1. PICK kh \in Int, lh \in Int : kh = k % m /\ lh = l % m
    BY <1>9, WordFacts
  <2>2. Cong(m, kh, k) /\ Cong(m, lh, l)
    BY <1>1, <1>6, <2>1, CongMod
  <2>3. Cong(m, b * kh, b * k)
    <3>1. PICK e \in Int : kh = k + m * e
      BY <2>2 DEF Cong
    <3>2. b * kh = b * k + m * (b * e) /\ b * e \in Int
      BY <3>1
    <3>3. QED
      BY <3>2 DEF Cong
  <2>4. PICK u \in Int, v \in Int : u = b * kh /\ v = b * k
    OBVIOUS
  <2>5. Cong(m, u + lh, v + l)
    BY <1>6, <2>2, <2>3, <2>4, CongAdd
  <2>6. v + l = c
    BY <1>6, <1>7, <2>4
  <2>7. PICK y \in Int : y = u + lh
    OBVIOUS
  <2>8. Cong(m, y, x)
    BY <1>3, <2>5, <2>6, <2>7, OwnClass, CongTrans
  <2>9. y % m = x % m
    BY <1>1, <2>8, OwnClass, CongSame
  <2>10. Recombined(SplitBalanced(x, g), g) = y % m
    BY <1>1, <1>2, <1>8, <2>1, <2>4, <2>7 DEF Recombined
  <2>11. QED
    BY <1>1, <2>9, <2>10, WordFacts
<1>11. Norm(l % m) <= h
  BY <1>6, <1>9, OwnClass DEF Abs
<1>12. QED
  BY <1>2, <1>8, <1>9, <1>10, <1>11

-----------------------------------------------------------------------------
(***************************************************************************)
(* The argument: types, and what a proof on its way and a verdict are.     *)
(***************************************************************************)
Verdicts == {"none", "accept", "reject"}
ProjectionAccepts(p) == gamma \in 1 .. W - 1 /\ DigitsShort(p) /\ Linked(p)

ProjectionTypeOK ==
  /\ key \in Word /\ w \in Word /\ t \in Word /\ zeta \in Word
  /\ gamma \in 0 .. W + 1 /\ highBound \in Nat /\ honest \in BOOLEAN
  /\ verdict \in Verdicts
  /\ sent = <<>> \/ \E p \in [high : Word, low : Word] : sent = <<p>>

Sent ==
  /\ verdict # "none" => sent # <<>> /\ (verdict = "accept" <=> ProjectionAccepts(sent[1]))
  /\ honest /\ sent # <<>> => gamma \in 1 .. W - 1 /\ sent = <<SplitBalanced(V, gamma)>>

LEMMA VectorType ==
  ASSUME ProjectionTypeOK
  PROVE  V \in Word /\ Commitment \in Word
<1>1. PICK a \in Int, b \in Int : a = w - zeta * t /\ b = key * w
  BY WordFacts DEF ProjectionTypeOK
<1>2. QED
  BY <1>1, CenteredFacts DEF V, Commitment

LEMMA SentInit ==
  ProjectionInit => ProjectionTypeOK /\ Sent
<1>1. SUFFICES ASSUME ProjectionInit PROVE ProjectionTypeOK /\ Sent
  OBVIOUS
<1>2. key \in Word /\ t \in Word /\ zeta \in Word /\ highBound \in Nat
  <2>1. PICK h \in Nat : h = Pow2[W - 1]
    BY PowFacts
  <2>2. QED
    BY <1>1, <2>1, ProjectionAssumption DEF ProjectionInit, Word
<1>3. QED
  BY <1>1, <1>2 DEF ProjectionInit, ProjectionTypeOK, Sent, Verdicts

LEMMA SentStep ==
  ProjectionTypeOK /\ Sent /\ [ProjectionNext]_projectionVars => ProjectionTypeOK' /\ Sent'
<1>1. SUFFICES ASSUME ProjectionTypeOK, Sent, [ProjectionNext]_projectionVars
               PROVE  ProjectionTypeOK' /\ Sent'
  OBVIOUS
<1>2. CASE Prove
  <2>1. /\ honest /\ sent = <<>> /\ gamma \in 1 .. W - 1 /\ sent' = <<SplitBalanced(V, gamma)>>
        /\ UNCHANGED <<key, w, t, zeta, gamma, highBound, honest, verdict>>
    BY <1>2 DEF Prove
  <2>2. SplitBalanced(V, gamma) \in [high : Word, low : Word]
    BY <1>1, <2>1, VectorType, SplitFacts
  <2>3. verdict = "none"
    BY <1>1, <2>1 DEF Sent
  <2>4. V' = V
    BY <2>1 DEF V
  <2>5. ProjectionTypeOK'
    BY <1>1, <2>1, <2>2 DEF ProjectionTypeOK
  <2>6. Sent'
    BY <2>1, <2>3, <2>4 DEF Sent
  <2>7. QED
    BY <2>5, <2>6
<1>3. CASE Forge
  <2>1. /\ ~honest /\ sent = <<>> /\ \E p \in [high : Word, low : Word] : sent' = <<p>>
        /\ UNCHANGED <<key, w, t, zeta, gamma, highBound, honest, verdict>>
    BY <1>3 DEF Forge
  <2>2. verdict = "none"
    BY <1>1, <2>1 DEF Sent
  <2>3. QED
    BY <1>1, <2>1, <2>2 DEF ProjectionTypeOK, Sent
<1>4. CASE Verify
  <2>1. /\ sent # <<>> /\ verdict = "none" /\ verdict' = IF ProjectionAccepts(sent[1]) THEN "accept" ELSE "reject"
        /\ UNCHANGED <<key, w, t, zeta, gamma, highBound, honest, sent>>
    BY <1>4 DEF Verify, ProjectionAccepts
  <2>2. V' = V /\ (ProjectionAccepts(sent[1]))' = ProjectionAccepts(sent[1])
    BY <2>1 DEF V, ProjectionAccepts, DigitsShort, Linked, Commitment
  <2>3. verdict' \in Verdicts /\ verdict' # "none" /\ (verdict' = "accept" <=> ProjectionAccepts(sent[1]))
    BY <2>1 DEF Verdicts
  <2>4. ProjectionTypeOK'
    BY <1>1, <2>1, <2>3 DEF ProjectionTypeOK
  <2>5. Sent'
    BY <1>1, <2>1, <2>2, <2>3 DEF Sent
  <2>6. QED
    BY <2>4, <2>5
<1>5. CASE UNCHANGED projectionVars
  <2>1. UNCHANGED <<key, w, t, zeta, gamma, highBound, honest, sent, verdict>>
    BY <1>5 DEF projectionVars
  <2>2. V' = V /\ (ProjectionAccepts(sent[1]))' = ProjectionAccepts(sent[1])
    BY <2>1 DEF V, ProjectionAccepts, DigitsShort, Linked, Commitment
  <2>3. ProjectionTypeOK'
    BY <1>1, <2>1 DEF ProjectionTypeOK
  <2>4. Sent'
    BY <1>1, <2>1, <2>2 DEF Sent
  <2>5. QED
    BY <2>3, <2>4
<1>6. QED
  BY <1>1, <1>2, <1>3, <1>4, <1>5 DEF ProjectionNext

\* Words stay words, a bound is no negative number, and a proof on its way is
\* two digits: of the code's own prover, those of its split, and a verdict is
\* what the gates say of them (balanced.rs:185-272).
THEOREM ProjectionTyping == ProjectionSpec => [](ProjectionTypeOK /\ Sent)
<1>1. QED
  BY SentInit, SentStep, PTL DEF ProjectionSpec

-----------------------------------------------------------------------------
\* The commitment to the vector, from the public values.
LEMMA VectorLinks ==
  ASSUME ProjectionTypeOK
  PROVE  /\ Cong(Pow2[W], key * V, Commitment - zeta * key * t)
         /\ key * V \in Int /\ Commitment - zeta * key * t \in Int
<1>1. PICK m \in Nat : m = Pow2[W] /\ m > 0
  BY PowFacts
<1>2. key \in Int /\ w \in Int /\ t \in Int /\ zeta \in Int
  BY WordFacts DEF ProjectionTypeOK
<1>3. PICK a \in Int, b \in Int : a = w - zeta * t /\ b = key * w
  BY <1>2
<1>4. PICK v \in Int, c \in Int : v = V /\ c = Commitment /\ Cong(m, v, a) /\ Cong(m, c, b)
  <2>1. V = a % m /\ Commitment = b % m
    BY <1>1, <1>3 DEF V, Commitment
  <2>2. a % m \in Int /\ b % m \in Int /\ Cong(m, a % m, a) /\ Cong(m, b % m, b)
    BY <1>1, CongMod
  <2>3. QED
    BY <2>1, <2>2
<1>5. PICK d \in Int, e \in Int : v = a + m * d /\ c = b + m * e
  BY <1>4 DEF Cong
<1>6. key * v = (c - zeta * key * t) + m * (key * d - e)
  <2>1. key * v = key * a + m * (key * d)
    BY <1>2, <1>5
  <2>2. key * a = b - zeta * key * t
    BY <1>2, <1>3
  <2>3. PICK x \in Int, y \in Int : x = zeta * key * t /\ y = key * d
    BY <1>2
  <2>4. m * (y - e) = m * y - m * e
    OBVIOUS
  <2>5. QED
    BY <1>2, <1>5, <2>1, <2>2, <2>3, <2>4
<1>7. key * d - e \in Int /\ key * v \in Int /\ c - zeta * key * t \in Int
  BY <1>2
<1>8. QED
  BY <1>1, <1>4, <1>6, <1>7 DEF Cong

LEMMA RecombinedType ==
  ASSUME NEW p \in [high : Word, low : Word], NEW g \in 1 .. W - 1
  PROVE  Recombined(p, g) \in Word
<1>1. PICK a \in Int : a = Pow2[g] * p.high + p.low
  <2>1. Pow2[g] \in Nat
    BY PowFacts
  <2>2. p.high \in Int /\ p.low \in Int
    BY WordFacts
  <2>3. Pow2[g] * p.high + p.low \in Int
    BY <2>1, <2>2
  <2>4. QED
    BY <2>3
<1>2. QED
  BY <1>1, CenteredFacts DEF Recombined

\* The honest digits pass the link, whatever the bound.
LEMMA HonestAccepted ==
  ASSUME ProjectionTypeOK, Sent
  PROVE  HonestProjectionVerifies
<1>1. SUFFICES ASSUME sent # <<>>, honest, verdict # "none"
               PROVE  verdict = "accept" <=> Norm(sent[1].high) <= highBound
  BY DEF HonestProjectionVerifies
<1>2. gamma \in 1 .. W - 1 /\ sent[1] = SplitBalanced(V, gamma)
  BY <1>1 DEF Sent
<1>3. Recombined(sent[1], gamma) = V /\ Norm(sent[1].low) <= Pow2[gamma - 1]
  BY <1>2, VectorType, SplitFacts
<1>4. Linked(sent[1])
  <2>1. PICK m \in Nat, a \in Int, b \in Int :
          m = Pow2[W] /\ m > 0 /\ a = key * V /\ b = Commitment - zeta * key * t
    BY PowFacts, VectorLinks
  <2>2. Cong(m, a, b)
    BY <2>1, VectorLinks
  <2>3. a % m = b % m
    BY <2>1, <2>2, CongSame
  <2>4. QED
    BY <1>3, <2>1, <2>3 DEF Linked
<1>5. verdict = "accept" <=> DigitsShort(sent[1])
  BY <1>1, <1>2, <1>4 DEF Sent, ProjectionAccepts
<1>6. QED
  BY <1>3, <1>5 DEF DigitsShort

\* Short digits recombine to a short vector.
LEMMA DigitsBound ==
  ASSUME NEW p \in [high : Word, low : Word], NEW g \in 1 .. W - 1, NEW bound \in Nat,
         Norm(p.high) <= bound, Norm(p.low) <= Pow2[g - 1]
  PROVE  Norm(Recombined(p, g)) <= CertifiedBound(g, bound)
<1>1. PICK m \in Nat : m = Pow2[W] /\ m > 0
  BY PowFacts
<1>2. PICK b \in Nat, h \in Nat : b = Pow2[g] /\ h = Pow2[g - 1]
  BY PowFacts
<1>3. PICK x \in Int, y \in Int : x = p.high /\ y = p.low /\ x \in Word /\ y \in Word
  BY WordFacts
<1>4. PICK c \in Int, d \in Int : /\ c = Centered(x) /\ Cong(m, c, x) /\ Abs(c) <= bound
                                  /\ d = Centered(y) /\ Cong(m, d, y) /\ Abs(d) <= h
  BY <1>1, <1>2, <1>3, OwnClass
<1>5. PICK u \in Int, v \in Int : u = b * c + d /\ v = b * x + y
  OBVIOUS
<1>6. Cong(m, u, v)
  <2>1. PICK i \in Int, j \in Int : c = x + m * i /\ d = y + m * j
    BY <1>4 DEF Cong
  <2>2. b * c = b * x + m * (b * i)
    BY <2>1
  <2>3. PICK k \in Int : k = b * i
    OBVIOUS
  <2>4. m * (k + j) = m * k + m * j
    OBVIOUS
  <2>5. u = v + m * (k + j)
    BY <1>5, <2>1, <2>2, <2>3, <2>4
  <2>6. QED
    BY <2>5 DEF Cong
<1>7. u % m = v % m
  BY <1>1, <1>6, CongSame
<1>8. Recombined(p, g) = u % m
  BY <1>1, <1>2, <1>3, <1>5, <1>7 DEF Recombined
<1>9. Norm(u % m) <= Abs(u)
  BY <1>1, CenteredFacts
<1>10. Abs(u) <= b * bound + h
  <2>1. PICK a \in Nat : a = Abs(c)
    BY DEF Abs
  <2>2. b * a <= b * bound
    BY <1>4, <2>1
  <2>3. -(b * a) <= b * c /\ b * c <= b * a
    BY <2>1 DEF Abs
  <2>4. -h <= d /\ d <= h
    BY <1>4 DEF Abs
  <2>5. PICK bc \in Int, ba \in Int, bb \in Int : bc = b * c /\ ba = b * a /\ bb = b * bound
    OBVIOUS
  <2>6. u = bc + d /\ -ba <= bc /\ bc <= ba /\ ba <= bb
    BY <1>5, <2>2, <2>3, <2>5
  <2>7. -(bb + h) <= u /\ u <= bb + h
    BY <2>4, <2>6
  <2>8. QED
    BY <2>5, <2>7 DEF Abs
<1>11. PICK n \in Int : n = Norm(u % m)
  <2>1. PICK x1 \in Int : x1 = Centered(u % m)
    BY <1>1, CenteredFacts
  <2>2. QED
    BY <2>1 DEF Norm, Abs
<1>12. n <= b * bound + h
  <2>1. PICK a \in Int : a = Abs(u)
    BY DEF Abs
  <2>2. n <= a /\ a <= b * bound + h
    BY <1>9, <1>10, <1>11, <2>1
  <2>3. QED
    BY <2>2
<1>13. QED
  BY <1>2, <1>8, <1>11, <1>12 DEF CertifiedBound

\* An opening that is not the vector's is off by a kernel vector of the key.
LEMMA KernelVector ==
  ASSUME ProjectionTypeOK, NEW x \in Word,
         (key * x) % Pow2[W] = (Commitment - zeta * key * t) % Pow2[W], x # V
  PROVE  (x - V) % Pow2[W] # 0 /\ (key * ((x - V) % Pow2[W])) % Pow2[W] = 0
<1>1. PICK m \in Nat : m = Pow2[W] /\ m > 0
  BY PowFacts
<1>2. PICK v \in Int, q \in Int : v = V /\ q = key /\ v \in Word /\ x \in Int
  BY VectorType, WordFacts DEF ProjectionTypeOK
<1>3. PICK k \in Int, i \in Int : k = (x - V) % m /\ k = (x - v) + m * i
  <2>1. PICK d \in Int : d = x - v
    BY <1>2
  <2>2. d % m \in Int /\ Cong(m, d % m, d)
    BY <1>1, CongMod
  <2>3. PICK i \in Int : d % m = d + m * i
    BY <2>2 DEF Cong
  <2>4. QED
    BY <1>2, <2>1, <2>2, <2>3
<1>4. k # 0
  <2>1. SUFFICES ASSUME k = 0 PROVE FALSE
    OBVIOUS
  <2>2. PICK j \in Int : j = -i
    OBVIOUS
  <2>3. m * j = -(m * i)
    BY <2>2
  <2>4. x = v + m * j
    BY <1>2, <1>3, <2>1, <2>3
  <2>5. Cong(m, x, v)
    BY <2>4 DEF Cong
  <2>6. QED
    BY <1>1, <1>2, <2>5, SameWord
<1>5. PICK a \in Int, b \in Int, c \in Int : a = q * x /\ b = q * v /\ c = Commitment - zeta * key * t
  BY <1>2, VectorLinks
<1>6. Cong(m, a, b)
  <2>1. a % m = c % m
    BY <1>1, <1>2, <1>5
  <2>2. a % m \in Int /\ Cong(m, a % m, a) /\ Cong(m, c % m, c)
    BY <1>1, CongMod
  <2>3. Cong(m, b, c)
    BY <1>1, <1>2, <1>5, VectorLinks
  <2>4. Cong(m, a, c)
    BY <2>1, <2>2, CongSym, CongTrans
  <2>5. QED
    BY <2>3, <2>4, CongSym, CongTrans
<1>7. PICK z \in Int, y \in Int : z = 0 /\ y = q * k
  OBVIOUS
<1>8. Cong(m, y, z)
  <2>1. PICK e \in Int : a = b + m * e
    BY <1>6 DEF Cong
  <2>2. q * k = q * x - q * v + m * (q * i)
    BY <1>2, <1>3
  <2>3. PICK f \in Int : f = q * i
    OBVIOUS
  <2>4. m * (e + f) = m * e + m * f
    OBVIOUS
  <2>5. y = z + m * (e + f)
    BY <1>5, <1>7, <2>1, <2>2, <2>3, <2>4
  <2>6. QED
    BY <2>5 DEF Cong
<1>9. y % m = z % m
  BY <1>1, <1>8, CongSame
<1>10. z % m = z
  <2>1. z = m * z + z
    BY <1>7
  <2>2. QED
    BY <1>1, <1>7, <2>1, DivModUnique
<1>11. QED
  BY <1>1, <1>2, <1>3, <1>4, <1>7, <1>9, <1>10

LEMMA AcceptedBound ==
  ASSUME ProjectionTypeOK, Sent
  PROVE  AcceptedIsBounded
<1>1. SUFFICES ASSUME sent # <<>>, verdict = "accept"
               PROVE  \/ Norm(V) <= CertifiedBound(gamma, highBound)
                      \/ LET k == (Recombined(sent[1], gamma) - V) % Pow2[W]
                         IN  k # 0 /\ (key * k) % Pow2[W] = 0
  BY DEF AcceptedIsBounded
<1>2. gamma \in 1 .. W - 1 /\ DigitsShort(sent[1]) /\ Linked(sent[1])
  BY <1>1 DEF Sent, ProjectionAccepts
<1>3. PICK p \in [high : Word, low : Word] : sent[1] = p
  BY <1>1 DEF ProjectionTypeOK
<1>4. PICK x \in Word : x = Recombined(p, gamma)
  BY <1>2, RecombinedType
<1>5. CASE x = V
  <2>1. Norm(p.high) <= highBound /\ Norm(p.low) <= Pow2[gamma - 1] /\ highBound \in Nat
    BY <1>2, <1>3 DEF DigitsShort, ProjectionTypeOK
  <2>2. QED
    BY <1>2, <1>4, <1>5, <2>1, DigitsBound
<1>6. CASE x # V
  <2>1. (key * x) % Pow2[W] = (Commitment - zeta * key * t) % Pow2[W]
    BY <1>2, <1>3, <1>4 DEF Linked
  <2>2. (x - V) % Pow2[W] # 0 /\ (key * ((x - V) % Pow2[W])) % Pow2[W] = 0
    BY <1>6, <2>1, KernelVector
  <2>3. QED
    BY <1>3, <1>4, <2>2
<1>7. QED
  BY <1>5, <1>6

-----------------------------------------------------------------------------
(***************************************************************************)
(* The slack flavour, for every number of coefficients of a commitment.    *)
(***************************************************************************)
LEMMA SplitExact ==
  ASSUME ProjectionTypeOK
  PROVE  SplitIsExact
<1>1. SUFFICES ASSUME gamma \in Drops
               PROVE  LET s == Split(w, gamma)
                          o == IpaOpen(w, gamma)
                      IN  /\ Join(s.high, gamma, s.low, s.slack) = w
                          /\ s.low \in -Pow2[gamma - 1] + 1 .. Pow2[gamma - 1]
                          /\ s.slack \in {0, Pow2[gamma]}
                          /\ o.high * Pow2[gamma] + o.low
                               = IF w % Pow2[gamma] > Pow2[gamma - 1] THEN w - Pow2[gamma] ELSE w
  BY DEF SplitIsExact, AtStart
<1>2. PICK m \in Nat : m = Pow2[W] /\ m > 0
  BY PowFacts
<1>3. PICK b \in Nat, h \in Nat : b = Pow2[gamma] /\ h = Pow2[gamma - 1] /\ h > 0 /\ b = 2 * h /\ b > 0
  BY <1>1, PowFacts DEF Drops
<1>4. PICK x \in Int : x = w /\ 0 <= x /\ x < m /\ x \in Word
  BY <1>2, WordFacts DEF ProjectionTypeOK, Word
<1>5. PICK q \in Int, rest \in 0 .. b - 1 : q = x \div b /\ rest = x % b /\ x = b * q + rest
  <2>1. x \div b \in Int /\ x % b \in 0 .. b - 1 /\ x = b * (x \div b) + (x % b)
    BY <1>3, DivMod
  <2>2. QED
    BY <2>1
<1>6. PICK c \in Int : c = IF rest > h THEN rest - b ELSE rest
  OBVIOUS
<1>7. /\ Split(w, gamma) = [high |-> q, low |-> c, slack |-> rest - c]
      /\ IpaOpen(w, gamma) = [high |-> q, low |-> c]
  BY <1>3, <1>4, <1>5, <1>6 DEF Split, CenteredLow, IpaOpen
<1>8. c \in -h + 1 .. h /\ rest - c \in {0, b}
  BY <1>3, <1>6
<1>9. PICK y \in Int : y = q * b /\ x = y + rest
  BY <1>5
<1>10. 0 <= y /\ y < m
  <2>1. y < m
    BY <1>4, <1>9
  <2>2. q >= 0
    <3>1. SUFFICES ASSUME q <= -1 PROVE FALSE
      OBVIOUS
    <3>2. b * q <= -b
      BY <1>3, <3>1
    <3>3. x < 0
      BY <1>5, <3>2
    <3>4. QED
      BY <1>4, <3>3
  <2>3. QED
    BY <1>3, <1>9, <2>1, <2>2
<1>11. Join(q, gamma, c, rest - c) = x
  <2>1. y % m = y
    BY <1>10, OwnRemainder
  <2>2. 0 <= rest /\ rest < b /\ rest \in Int
    OBVIOUS
  <2>3. rest % b = rest
    BY <2>2, OwnRemainder
  <2>4. c + (rest - c) = rest
    OBVIOUS
  <2>5. Join(q, gamma, c, rest - c) = (y % m) + (rest % b)
    BY <1>2, <1>3, <1>9, <2>4 DEF Join
  <2>6. QED
    BY <1>9, <2>1, <2>3, <2>5
<1>12. q * b + c = IF rest > h THEN x - b ELSE x
  BY <1>6, <1>9
<1>13. PICK s, o : s = Split(w, gamma) /\ o = IpaOpen(w, gamma)
  OBVIOUS
<1>14. s.high = q /\ s.low = c /\ s.slack = rest - c /\ o.high = q /\ o.low = c
  BY <1>7, <1>13
<1>15. Join(s.high, gamma, s.low, s.slack) = w
  BY <1>4, <1>11, <1>14
<1>16. s.low \in -Pow2[gamma - 1] + 1 .. Pow2[gamma - 1] /\ s.slack \in {0, Pow2[gamma]}
  BY <1>3, <1>8, <1>14
<1>17. o.high * Pow2[gamma] + o.low = IF w % Pow2[gamma] > Pow2[gamma - 1] THEN w - Pow2[gamma] ELSE w
  BY <1>3, <1>4, <1>5, <1>12, <1>14
<1>18. QED
  BY <1>13, <1>15, <1>16, <1>17

\* What the check accepts, for a bound that does not wrap.
LEMMA CheckExact ==
  ASSUME NEW x \in Word, NEW y \in Word, NEW d \in Drops, NEW n \in Nat, n * Pow2[d - 1] < Pow2[W]
  PROVE  ApproxCheck(x, y, n, d) <=>
           \E e \in -(n * Pow2[d - 1]) .. n * Pow2[d - 1] : (x + e) % Pow2[W] = y
<1>1. PICK m \in Nat, k \in Nat : m = Pow2[W] /\ k = Pow2[W - 1] /\ m > 0 /\ k > 0 /\ m = 2 * k
  BY PowFacts
<1>2. PICK s \in Nat : s = n * Pow2[d - 1] /\ s < m
  <2>1. PICK h \in Nat : h = Pow2[d - 1]
    BY PowFacts DEF Drops
  <2>2. n * h \in Nat
    OBVIOUS
  <2>3. QED
    BY <1>1, <2>1, <2>2
<1>3. SlackBound(n, d) = s
  <2>1. 0 <= s /\ s < m
    BY <1>2
  <2>2. s % m = s
    BY <2>1, OwnRemainder
  <2>3. QED
    BY <1>1, <1>2, <2>2 DEF SlackBound
<1>4. x \in Int /\ y \in Int /\ y % m = y
  BY <1>1, WordFacts
<1>d. PICK a \in Int : a = x - y
  BY <1>4
<1>c. PICK c : c = Near(m, k, a)
  OBVIOUS
<1>5. a = x - y /\ c = Near(m, k, a)
  BY <1>d, <1>c
<1>6. m = 2 * k /\ k > 0 /\ m > 0
  BY <1>1
<1>7. c \in Int /\ Cong(m, c, a)
  BY <1>5, <1>6, Nearest
<1>8. ApproxCheck(x, y, n, d) <=> Abs(c) <= s
  BY <1>1, <1>3, <1>5 DEF ApproxCheck, Difference, Near
<1>9. PICK i \in Int : c = a + m * i
  BY <1>7 DEF Cong
<1>10. ASSUME Abs(c) <= s PROVE \E e \in -s .. s : (x + e) % m = y
  <2>1. PICK e \in Int : e = -c /\ e \in -s .. s
    BY <1>7, <1>10 DEF Abs
  <2>2. PICK j \in Int, u \in Int : j = -i /\ u = x + e
    BY <1>4
  <2>3. m * j = -(m * i)
    BY <2>2
  <2>4. u = y + m * j
    BY <1>4, <1>5, <1>9, <2>1, <2>2, <2>3
  <2>5. Cong(m, u, y)
    BY <2>4 DEF Cong
  <2>6. u % m = y % m
    BY <1>4, <1>6, <2>5, CongSame
  <2>7. QED
    BY <1>4, <2>1, <2>2, <2>6
<1>11. ASSUME NEW e \in -s .. s, (x + e) % m = y PROVE Abs(c) <= s
  <2>1. PICK u \in Int, f \in Int : u = x + e /\ f = -e
    BY <1>4
  <2>2. PICK j \in Int : y = u + m * j
    <3>1. Cong(m, u % m, u)
      BY <1>6, CongMod
    <3>2. u % m = y
      BY <1>11, <2>1
    <3>3. QED
      BY <3>1, <3>2 DEF Cong
  <2>3. PICK g \in Int : g = -j /\ m * g = -(m * j)
    <3>1. PICK g \in Int : g = -j
      OBVIOUS
    <3>2. QED
      BY <3>1
  <2>4. a = f + m * g
    BY <1>4, <1>5, <2>1, <2>2, <2>3
  <2>5. Cong(m, a, f)
    BY <2>4 DEF Cong
  <2>6. a % m = f % m
    BY <1>6, <2>5, CongSame
  <2>7. c = Near(m, k, f)
    BY <1>5, <2>6 DEF Near
  <2>8. Abs(c) <= Abs(f)
    BY <1>6, <2>7, Nearest
  <2>9. QED
    BY <1>7, <2>1, <2>8 DEF Abs
<1>12. QED
  BY <1>1, <1>2, <1>8, <1>10, <1>11

LEMMA CheckExactly ==
  ASSUME ProjectionTypeOK
  PROVE  CheckIsDistance
<1>1. SUFFICES ASSUME gamma \in Drops, NEW n \in 1 .. 4, n * Pow2[gamma - 1] < Pow2[W]
               PROVE  /\ \A seen \in Word :
                           ApproxCheck(w, seen, n, gamma) <=>
                             \E e \in -(n * Pow2[gamma - 1]) .. n * Pow2[gamma - 1] : (w + e) % Pow2[W] = seen
                      /\ n > 1 =>
                           LET s == Split(w, gamma)
                           IN  ApproxCheck(w, (s.high * Pow2[gamma] + s.low) % Pow2[W], n, gamma)
  BY DEF CheckIsDistance, AtStart
<1>2. w \in Word /\ n \in Nat
  BY DEF ProjectionTypeOK
<1>3. ASSUME NEW seen \in Word
      PROVE  ApproxCheck(w, seen, n, gamma) <=>
               \E e \in -(n * Pow2[gamma - 1]) .. n * Pow2[gamma - 1] : (w + e) % Pow2[W] = seen
  BY <1>1, <1>2, CheckExact
<1>4. ASSUME n > 1
      PROVE  LET s == Split(w, gamma)
             IN  ApproxCheck(w, (s.high * Pow2[gamma] + s.low) % Pow2[W], n, gamma)
  <2>1. PICK b \in Nat, h \in Nat : b = Pow2[gamma] /\ h = Pow2[gamma - 1] /\ h > 0 /\ b = 2 * h /\ b > 0
    BY <1>1, PowFacts DEF Drops
  <2>2. PICK x \in Int : x = w
    BY <1>2, WordFacts
  <2>3. PICK q \in Int, rest \in 0 .. b - 1 : q = x \div b /\ rest = x % b /\ x = b * q + rest
    <3>1. x \div b \in Int /\ x % b \in 0 .. b - 1 /\ x = b * (x \div b) + (x % b)
      BY <2>1, DivMod
    <3>2. QED
      BY <3>1
  <2>4. PICK l \in Int : l = IF rest > h THEN rest - b ELSE rest
    OBVIOUS
  <2>5. Split(w, gamma).high = q /\ Split(w, gamma).low = l
    BY <2>1, <2>2, <2>3, <2>4 DEF Split, CenteredLow
  <2>6. PICK e \in Int : e = l - rest /\ (e = 0 \/ e = -b)
    BY <2>4
  <2>7. x + e = q * b + l
    BY <2>3, <2>6
  <2>8. e \in -(n * h) .. n * h
    <3>1. PICK k \in Int : k = n * h
      OBVIOUS
    <3>2. b <= k
      BY <1>4, <2>1, <3>1
    <3>3. e \in -k .. k
      BY <2>1, <2>6, <3>2
    <3>4. QED
      BY <3>1, <3>3
  <2>9. PICK seen \in Word : seen = (x + e) % Pow2[W]
    <3>1. PICK y \in Int : y = x + e
      OBVIOUS
    <3>2. QED
      BY <3>1, CenteredFacts
  <2>10. ApproxCheck(w, seen, n, gamma)
    BY <1>3, <2>1, <2>2, <2>8, <2>9
  <2>11. seen = (q * b + l) % Pow2[W]
    BY <2>7, <2>9
  <2>12. QED
    BY <2>1, <2>5, <2>10, <2>11
<1>5. QED
  BY <1>3, <1>4

-----------------------------------------------------------------------------
\* prove_projection convinces the verifier exactly when the bound it is given
\* is the norm of its high digit or more, for every width, key, vector and
\* digit width (balanced.rs:29-30, 82-86, 193-209).
THEOREM HonestProjections == ProjectionSpec => []HonestProjectionVerifies
<1>1. ProjectionTypeOK /\ Sent => HonestProjectionVerifies
  BY HonestAccepted
<1>2. QED
  BY <1>1, ProjectionTyping, PTL

\* An accepted projection bounds its vector by certified_bound or shows a
\* kernel vector of the key; the split of the slack flavour is exact, and its
\* check accepts the neighbourhood it names (balanced.rs:33-38, 74-77;
\* gadget.rs:19-72).
THEOREM AcceptedProjections == ProjectionSpec => []AcceptedProjectionIsBounded
<1>1. ProjectionTypeOK /\ Sent => AcceptedProjectionIsBounded
  BY AcceptedBound, SplitExact, CheckExactly DEF AcceptedProjectionIsBounded
<1>2. QED
  BY <1>1, ProjectionTyping, PTL

-----------------------------------------------------------------------------
(***************************************************************************)
(* The ring Z_(2^W)[X]/(X^D + 1) of module LatticeFold: its product is     *)
(* linear in each factor, commutes, and products from the left change      *)
(* places.  Coefficients are compared modulo 2^W.                          *)
(***************************************************************************)
Conv(a, b, k) == SumFunctionOnSet([i \in Exps |-> a[i] * Turned(i, b, k)], Exps)
ConvPoly(a, b) == [k \in Exps |-> Conv(a, b, k)]

LEMMA RingFacts ==
  /\ D \in Nat /\ D > 0 /\ IsFiniteSet(Exps) /\ Exps \subseteq Int /\ 0 \in Exps
  /\ Pow2[W] \in Nat /\ Pow2[W] > 1
  /\ \A x \in Word : x \in Int
<1>1. D \in Nat /\ D > 0
  BY LatticeFoldAssumption
<1>2. IsFiniteSet(Exps) /\ Exps \subseteq Int /\ 0 \in Exps
  BY <1>1, FS_Interval DEF Exps
<1>3. Pow2[W] \in Nat /\ Pow2[W] > 1
  <2>1. PICK m \in Nat, h \in Nat : m = Pow2[W] /\ h = Pow2[W - 1] /\ m = 2 * h /\ h > 0
    BY PowFacts
  <2>2. m > 1
    BY <2>1
  <2>3. QED
    BY <2>1, <2>2
<1>4. QED
  BY <1>1, <1>2, <1>3, WordFacts

LEMMA Turns ==
  ASSUME NEW i \in Exps, NEW k \in Exps
  PROVE  /\ i <= k => k - i \in Exps
         /\ ~(i <= k) => k - i + D \in Exps
<1>1. D \in Nat /\ i \in Int /\ k \in Int /\ 0 <= i /\ i < D /\ 0 <= k /\ k < D
  BY RingFacts DEF Exps
<1>2. QED
  BY <1>1 DEF Exps

LEMMA TurnedType ==
  ASSUME NEW i \in Exps, NEW k \in Exps, NEW b, \A l \in Exps : b[l] \in Int
  PROVE  Turned(i, b, k) \in Int
BY Turns DEF Turned

\* Turning is linear.
LEMMA TurnedLinear ==
  ASSUME NEW m \in Nat, NEW u \in Int, NEW v \in Int, NEW a, NEW b, NEW c,
         \A l \in Exps : /\ a[l] \in Int /\ b[l] \in Int /\ c[l] \in Int
                         /\ Cong(m, c[l], u * a[l] + v * b[l]),
         NEW i \in Exps, NEW k \in Exps
  PROVE  Cong(m, Turned(i, c, k), u * Turned(i, a, k) + v * Turned(i, b, k))
<1>1. CASE i <= k
  BY <1>1, Turns DEF Turned
<1>2. CASE ~(i <= k)
  <2>1. PICK l \in Exps : l = k - i + D
    BY <1>2, Turns
  <2>2. PICK x \in Int, y \in Int, z \in Int : x = a[l] /\ y = b[l] /\ z = c[l] /\ Cong(m, z, u * x + v * y)
    OBVIOUS
  <2>3. PICK s \in Int : s = -1
    OBVIOUS
  <2>4. u * x + v * y \in Int
    OBVIOUS
  <2>5. Cong(m, s * z, s * (u * x + v * y))
    BY <2>2, <2>4, CongScale
  <2>6. s * z = -z /\ s * (u * x + v * y) = u * (-x) + v * (-y)
    BY <2>3
  <2>7. Turned(i, c, k) = -z /\ Turned(i, a, k) = -x /\ Turned(i, b, k) = -y
    BY <1>2, <2>1, <2>2 DEF Turned
  <2>8. QED
    BY <2>5, <2>6, <2>7
<1>3. QED
  BY <1>1, <1>2

LEMMA TermType ==
  ASSUME NEW x, NEW b, \A l \in Exps : x[l] \in Int /\ b[l] \in Int, NEW k \in Exps
  PROVE  \A i \in Exps : [j \in Exps |-> x[j] * Turned(j, b, k)][i] = x[i] * Turned(i, b, k)
                         /\ x[i] * Turned(i, b, k) \in Int
<1>1. SUFFICES ASSUME NEW i \in Exps PROVE x[i] * Turned(i, b, k) \in Int
  OBVIOUS
<1>2. PICK y \in Int, z \in Int : y = x[i] /\ z = Turned(i, b, k)
  BY TurnedType
<1>3. QED
  BY <1>2

LEMMA ConvType ==
  ASSUME NEW x, NEW b, \A l \in Exps : x[l] \in Int /\ b[l] \in Int, NEW k \in Exps
  PROVE  Conv(x, b, k) \in Int
<1>1. PICK f : f = [i \in Exps |-> x[i] * Turned(i, b, k)]
  OBVIOUS
<1>2. \A i \in Exps : f[i] \in Int
  BY <1>1, TermType
<1>3. QED
  BY <1>1, <1>2, RingFacts, SumType DEF Conv

LEMMA ConvLinear ==
  ASSUME NEW m \in Nat, NEW u \in Int, NEW v \in Int, NEW x, NEW a, NEW b, NEW c,
         \A l \in Exps : /\ x[l] \in Int /\ a[l] \in Int /\ b[l] \in Int /\ c[l] \in Int
                         /\ Cong(m, c[l], u * a[l] + v * b[l]),
         NEW k \in Exps
  PROVE  Cong(m, Conv(x, c, k), u * Conv(x, a, k) + v * Conv(x, b, k))
<1>1. PICK f : f = [i \in Exps |-> x[i] * Turned(i, a, k)]
  OBVIOUS
<1>2. PICK g : g = [i \in Exps |-> x[i] * Turned(i, b, k)]
  OBVIOUS
<1>3. PICK h : h = [i \in Exps |-> x[i] * Turned(i, c, k)]
  OBVIOUS
<1>4. ASSUME NEW i \in Exps
      PROVE  f[i] \in Int /\ g[i] \in Int /\ h[i] \in Int /\ Cong(m, h[i], u * f[i] + v * g[i])
  <2>1. PICK p \in Int, q \in Int, s \in Int, y \in Int :
          p = Turned(i, a, k) /\ q = Turned(i, b, k) /\ s = Turned(i, c, k) /\ y = x[i]
    BY TurnedType
  <2>2. Cong(m, s, u * p + v * q)
    BY <2>1, TurnedLinear
  <2>3. u * p + v * q \in Int
    OBVIOUS
  <2>4. Cong(m, y * s, y * (u * p + v * q))
    BY <2>2, <2>3, CongScale
  <2>5. y * (u * p + v * q) = u * (y * p) + v * (y * q) /\ y * p \in Int /\ y * q \in Int /\ y * s \in Int
    OBVIOUS
  <2>6. f[i] = y * p /\ g[i] = y * q /\ h[i] = y * s
    BY <1>1, <1>2, <1>3, <2>1
  <2>7. QED
    BY <2>4, <2>5, <2>6
<1>5. Cong(m, SumFunctionOnSet(h, Exps), u * SumFunctionOnSet(f, Exps) + v * SumFunctionOnSet(g, Exps))
  BY <1>4, RingFacts, SumLinear
<1>6. QED
  BY <1>1, <1>2, <1>3, <1>5 DEF Conv

\* A shift after a shift, in either order.
Twice(i, j, b, k) == Turned(i, [l \in Exps |-> Turned(j, b, l)], k)

LEMMA TwiceTurns ==
  ASSUME NEW i \in Exps, NEW j \in Exps, NEW k \in Exps, NEW b, \A l \in Exps : b[l] \in Int
  PROVE  Twice(i, j, b, k) \in Int /\ Twice(i, j, b, k) = Twice(j, i, b, k)
<1>1. /\ D \in Int /\ i \in Int /\ j \in Int /\ k \in Int
      /\ 0 <= i /\ i < D /\ 0 <= j /\ j < D /\ 0 <= k /\ k < D
  BY RingFacts DEF Exps
<1>2. PICK g : g = [l \in Exps |-> Turned(j, b, l)]
  OBVIOUS
<1>3. PICK h : h = [l \in Exps |-> Turned(i, b, l)]
  OBVIOUS
<1>4. /\ i <= k => k - i \in Exps
      /\ ~(i <= k) => k - i + D \in Exps
      /\ j <= k => k - j \in Exps
      /\ ~(j <= k) => k - j + D \in Exps
  BY Turns
<1>5. \A l \in Exps : /\ g[l] = IF j <= l THEN b[l - j] ELSE -b[l - j + D]
                      /\ h[l] = IF i <= l THEN b[l - i] ELSE -b[l - i + D]
                      /\ g[l] \in Int /\ h[l] \in Int
  BY <1>2, <1>3, TurnedType DEF Turned
<1>6. Twice(i, j, b, k) = IF i <= k THEN g[k - i] ELSE -g[k - i + D]
  BY <1>2 DEF Twice, Turned
<1>7. Twice(j, i, b, k) = IF j <= k THEN h[k - j] ELSE -h[k - j + D]
  BY <1>3 DEF Twice, Turned
<1>8. Twice(i, j, b, k) \in Int
  BY <1>4, <1>5, <1>6
<1>9. /\ (k - i) - j = k - i - j /\ (k - j) - i = k - i - j
      /\ (k - i + D) - j = k - i - j + D /\ (k - j + D) - i = k - i - j + D
      /\ (k - i) - j + D = k - i - j + D /\ (k - j) - i + D = k - i - j + D
      /\ (k - i + D) - j + D = k - i - j + D + D /\ (k - j + D) - i + D = k - i - j + D + D
  BY <1>1
<1>10. CASE i <= k /\ j <= k
  BY <1>1, <1>4, <1>5, <1>6, <1>7, <1>9, <1>10
<1>11. CASE i <= k /\ ~(j <= k)
  BY <1>1, <1>4, <1>5, <1>6, <1>7, <1>9, <1>11
<1>12. CASE ~(i <= k) /\ j <= k
  BY <1>1, <1>4, <1>5, <1>6, <1>7, <1>9, <1>12
<1>13. CASE ~(i <= k) /\ ~(j <= k)
  BY <1>1, <1>4, <1>5, <1>6, <1>7, <1>9, <1>13
<1>14. QED
  BY <1>8, <1>10, <1>11, <1>12, <1>13

LEMMA TurnedConv ==
  ASSUME NEW c \in Int, NEW a, NEW b, \A l \in Exps : a[l] \in Int /\ b[l] \in Int,
         NEW i \in Exps, NEW k \in Exps
  PROVE  c * Turned(i, ConvPoly(a, b), k)
           = SumFunctionOnSet([j \in Exps |-> c * (a[j] * Twice(i, j, b, k))], Exps)
<1>1. PICK l \in Exps, s \in Int :
        /\ Turned(i, ConvPoly(a, b), k) = s * Conv(a, b, l)
        /\ \A j \in Exps : Twice(i, j, b, k) = s * Turned(j, b, l)
  <2>0. PICK p : p = ConvPoly(a, b)
    OBVIOUS
  <2>1. \A l \in Exps : p[l] = Conv(a, b, l) /\ p[l] \in Int
    BY <2>0, ConvType DEF ConvPoly
  <2>2. \A j, l \in Exps : Turned(j, b, l) \in Int
    BY TurnedType
  <2>3. CASE i <= k
    <3>1. PICK l \in Exps, s \in Int : l = k - i /\ s = 1
      BY <2>3, Turns
    <3>2. Turned(i, p, k) = Conv(a, b, l) /\ Conv(a, b, l) \in Int
      BY <2>1, <2>3, <3>1 DEF Turned
    <3>3. \A j \in Exps : Twice(i, j, b, k) = Turned(j, b, l)
      <4>1. SUFFICES ASSUME NEW j \in Exps PROVE Twice(i, j, b, k) = Turned(j, b, l)
        OBVIOUS
      <4>2. PICK g : g = [e \in Exps |-> Turned(j, b, e)]
        OBVIOUS
      <4>3. Twice(i, j, b, k) = Turned(i, g, k)
        BY <4>2 DEF Twice
      <4>4. Turned(i, g, k) = g[l]
        BY <2>3, <3>1 DEF Turned
      <4>5. QED
        BY <4>2, <4>3, <4>4
    <3>4. \A y \in Int : s * y = y
      BY <3>1
    <3>5. Turned(i, ConvPoly(a, b), k) = s * Conv(a, b, l)
      BY <2>0, <3>2, <3>4
    <3>6. \A j \in Exps : Twice(i, j, b, k) = s * Turned(j, b, l)
      BY <2>2, <3>3, <3>4
    <3>7. QED
      BY <3>5, <3>6
  <2>4. CASE ~(i <= k)
    <3>1. PICK l \in Exps, s \in Int : l = k - i + D /\ s = -1
      BY <2>4, Turns
    <3>2. Turned(i, p, k) = -Conv(a, b, l) /\ Conv(a, b, l) \in Int
      BY <2>1, <2>4, <3>1 DEF Turned
    <3>3. \A j \in Exps : Twice(i, j, b, k) = -Turned(j, b, l)
      <4>1. SUFFICES ASSUME NEW j \in Exps PROVE Twice(i, j, b, k) = -Turned(j, b, l)
        OBVIOUS
      <4>2. PICK g : g = [e \in Exps |-> Turned(j, b, e)]
        OBVIOUS
      <4>3. Twice(i, j, b, k) = Turned(i, g, k)
        BY <4>2 DEF Twice
      <4>4. Turned(i, g, k) = -g[l]
        BY <2>4, <3>1 DEF Turned
      <4>5. QED
        BY <4>2, <4>3, <4>4
    <3>4. \A y \in Int : s * y = -y
      BY <3>1
    <3>5. Turned(i, ConvPoly(a, b), k) = s * Conv(a, b, l)
      BY <2>0, <3>2, <3>4
    <3>6. \A j \in Exps : Twice(i, j, b, k) = s * Turned(j, b, l)
      BY <2>2, <3>3, <3>4
    <3>7. QED
      BY <3>5, <3>6
  <2>5. QED
    BY <2>3, <2>4
<1>2. PICK f : f = [j \in Exps |-> a[j] * Turned(j, b, l)]
  OBVIOUS
<1>3. PICK h : h = [j \in Exps |-> c * (a[j] * Twice(i, j, b, k))]
  OBVIOUS
<1>4. PICK e \in Int : e = c * s
  OBVIOUS
<1>5. PICK z \in Nat : z = 0
  OBVIOUS
<1>6. ASSUME NEW j \in Exps PROVE f[j] \in Int /\ h[j] \in Int /\ Cong(z, h[j], e * f[j])
  <2>1. PICK x \in Int, y \in Int : x = a[j] /\ y = Turned(j, b, l)
    BY TurnedType
  <2>2. f[j] = x * y /\ h[j] = c * (x * (s * y))
    BY <1>1, <1>2, <1>3, <2>1
  <2>3. c * (x * (s * y)) = e * (x * y)
    BY <1>4
  <2>4. PICK u \in Int, v \in Int : u = h[j] /\ v = e * f[j] /\ u = v
    BY <2>2, <2>3
  <2>5. u = v
    BY <2>4
  <2>6. Cong(z, u, v)
    BY <2>5, CongRefl
  <2>7. QED
    BY <2>2, <2>4, <2>6
<1>7. Cong(z, SumFunctionOnSet(h, Exps), e * SumFunctionOnSet(f, Exps))
  BY <1>6, RingFacts, SumScaled
<1>8. PICK S \in Int, H \in Int : S = SumFunctionOnSet(f, Exps) /\ H = SumFunctionOnSet(h, Exps)
  BY <1>6, RingFacts, SumType
<1>9. H = e * S
  <2>1. PICK d \in Int : H = e * S + z * d
    BY <1>7, <1>8 DEF Cong
  <2>2. z * d = 0
    BY <1>5
  <2>3. QED
    BY <2>1, <2>2
<1>10. c * (s * S) = e * S
  BY <1>4
<1>11. Conv(a, b, l) = S
  BY <1>2, <1>8 DEF Conv
<1>12. QED
  BY <1>1, <1>3, <1>8, <1>9, <1>10, <1>11

\* Factors from the left change places.
LEMMA ConvExchange ==
  ASSUME NEW x, NEW a, NEW b, \A l \in Exps : x[l] \in Int /\ a[l] \in Int /\ b[l] \in Int,
         NEW k \in Exps
  PROVE  Conv(x, ConvPoly(a, b), k) = Conv(a, ConvPoly(x, b), k)
<1>1. PICK F : F = [i \in Exps |-> [j \in Exps |-> x[i] * (a[j] * Twice(i, j, b, k))]]
  OBVIOUS
<1>2. \A i, j \in Exps : F[i][j] = x[i] * (a[j] * Twice(i, j, b, k)) /\ F[i][j] \in Int
  <2>1. SUFFICES ASSUME NEW i \in Exps, NEW j \in Exps
                 PROVE  x[i] * (a[j] * Twice(i, j, b, k)) \in Int
    BY <1>1
  <2>2. PICK u \in Int, v \in Int, y \in Int : u = x[i] /\ v = a[j] /\ y = Twice(i, j, b, k)
    BY TwiceTurns
  <2>3. QED
    BY <2>2
<1>3. \A i \in Exps : x[i] * Turned(i, ConvPoly(a, b), k) = SumFunctionOnSet(F[i], Exps)
  <2>1. SUFFICES ASSUME NEW i \in Exps
                 PROVE  x[i] * Turned(i, ConvPoly(a, b), k) = SumFunctionOnSet(F[i], Exps)
    OBVIOUS
  <2>2. PICK u \in Int : u = x[i]
    OBVIOUS
  <2>3. F[i] = [j \in Exps |-> u * (a[j] * Twice(i, j, b, k))]
    BY <1>1, <2>2
  <2>4. u * Turned(i, ConvPoly(a, b), k) = SumFunctionOnSet([j \in Exps |-> u * (a[j] * Twice(i, j, b, k))], Exps)
    BY TurnedConv
  <2>5. QED
    BY <2>2, <2>3, <2>4
<1>4. \A j \in Exps : a[j] * Turned(j, ConvPoly(x, b), k) = SumFunctionOnSet([i \in Exps |-> F[i][j]], Exps)
  <2>1. SUFFICES ASSUME NEW j \in Exps
                 PROVE  a[j] * Turned(j, ConvPoly(x, b), k) = SumFunctionOnSet([i \in Exps |-> F[i][j]], Exps)
    OBVIOUS
  <2>2. PICK u \in Int : u = a[j]
    OBVIOUS
  <2>3. u * Turned(j, ConvPoly(x, b), k) = SumFunctionOnSet([i \in Exps |-> u * (x[i] * Twice(j, i, b, k))], Exps)
    BY TurnedConv
  <2>4. ASSUME NEW i \in Exps PROVE F[i][j] = u * (x[i] * Twice(j, i, b, k))
    <3>1. PICK v \in Int, y \in Int : v = x[i] /\ y = Twice(i, j, b, k) /\ y = Twice(j, i, b, k)
      BY TwiceTurns
    <3>2. v * (u * y) = u * (v * y)
      OBVIOUS
    <3>3. QED
      BY <1>2, <2>2, <3>1, <3>2
  <2>5. [i \in Exps |-> F[i][j]] = [i \in Exps |-> u * (x[i] * Twice(j, i, b, k))]
    BY <2>4
  <2>6. QED
    BY <2>2, <2>3, <2>5
<1>5. Conv(x, ConvPoly(a, b), k) = SumFunctionOnSet([i \in Exps |-> SumFunctionOnSet(F[i], Exps)], Exps)
  <2>1. [i \in Exps |-> x[i] * Turned(i, ConvPoly(a, b), k)] = [i \in Exps |-> SumFunctionOnSet(F[i], Exps)]
    BY <1>3
  <2>2. QED
    BY <2>1 DEF Conv
<1>6. Conv(a, ConvPoly(x, b), k)
        = SumFunctionOnSet([j \in Exps |-> SumFunctionOnSet([i \in Exps |-> F[i][j]], Exps)], Exps)
  <2>1. [j \in Exps |-> a[j] * Turned(j, ConvPoly(x, b), k)]
          = [j \in Exps |-> SumFunctionOnSet([i \in Exps |-> F[i][j]], Exps)]
    BY <1>4
  <2>2. QED
    BY <2>1 DEF Conv
<1>7. SumFunctionOnSet([i \in Exps |-> SumFunctionOnSet(F[i], Exps)], Exps)
        = SumFunctionOnSet([j \in Exps |-> SumFunctionOnSet([i \in Exps |-> F[i][j]], Exps)], Exps)
  <2>1. \A i \in Exps, j \in Exps : F[i][j] \in Int
    BY <1>2
  <2>2. IsFiniteSet(Exps)
    BY RingFacts
  <2>3. QED
    BY <2>1, <2>2, SumExchange
<1>8. QED
  BY <1>5, <1>6, <1>7

LEMMA PolyFacts ==
  ASSUME NEW a \in Polys
  PROVE  \A l \in Exps : a[l] \in Word /\ a[l] \in Int
BY RingFacts DEF Polys

\* Two polynomials with coefficients in the same classes are the same.
LEMMA SamePoly ==
  ASSUME NEW a \in Polys, NEW b \in Polys, \A k \in Exps : Cong(Pow2[W], a[k], b[k])
  PROVE  a = b
<1>1. \A k \in Exps : a[k] = b[k]
  BY PolyFacts, SameWord
<1>2. QED
  BY <1>1 DEF Polys

LEMMA TimesFacts ==
  ASSUME NEW a, NEW b, \A l \in Exps : a[l] \in Int /\ b[l] \in Int
  PROVE  /\ Times(a, b) \in Polys
         /\ \A k \in Exps : Cong(Pow2[W], Times(a, b)[k], Conv(a, b, k))
<1>1. PICK m \in Nat : m = Pow2[W] /\ m > 0
  BY RingFacts
<1>2. Times(a, b) = [k \in Exps |-> Conv(a, b, k) % m]
  BY <1>1 DEF Times, Conv
<1>3. ASSUME NEW k \in Exps PROVE Conv(a, b, k) % m \in Word /\ Cong(m, Conv(a, b, k) % m, Conv(a, b, k))
  <2>1. PICK x \in Int : x = Conv(a, b, k)
    BY ConvType
  <2>2. QED
    BY <1>1, <2>1, CongMod, CenteredFacts
<1>4. QED
  BY <1>1, <1>2, <1>3 DEF Polys

\* The product is linear in its second factor.
LEMMA TimesLinear ==
  ASSUME NEW u \in Int, NEW v \in Int, NEW x \in Polys, NEW a \in Polys, NEW b \in Polys, NEW c \in Polys,
         \A l \in Exps : Cong(Pow2[W], c[l], u * a[l] + v * b[l]),
         NEW k \in Exps
  PROVE  Cong(Pow2[W], Times(x, c)[k], u * Times(x, a)[k] + v * Times(x, b)[k])
<1>1. PICK m \in Nat : m = Pow2[W] /\ m > 0
  BY RingFacts
<1>2. \A l \in Exps : /\ x[l] \in Int /\ a[l] \in Int /\ b[l] \in Int /\ c[l] \in Int
                      /\ Cong(m, c[l], u * a[l] + v * b[l])
  BY <1>1, PolyFacts
<1>3. Cong(m, Conv(x, c, k), u * Conv(x, a, k) + v * Conv(x, b, k))
  BY <1>2, ConvLinear
<1>4. PICK p \in Int, q \in Int, s \in Int : p = Conv(x, a, k) /\ q = Conv(x, b, k) /\ s = Conv(x, c, k)
  BY <1>2, ConvType
<1>5. PICK e \in Int, f \in Int, g \in Int :
        /\ e = Times(x, a)[k] /\ f = Times(x, b)[k] /\ g = Times(x, c)[k]
        /\ Cong(m, e, p) /\ Cong(m, f, q) /\ Cong(m, g, s)
  BY <1>1, <1>2, <1>4, TimesFacts, PolyFacts
<1>6. Cong(m, s, u * p + v * q)
  BY <1>3, <1>4
<1>7. PICK i1 \in Int, i2 \in Int, i3 \in Int, i4 \in Int :
        e = p + m * i1 /\ f = q + m * i2 /\ g = s + m * i3 /\ s = u * p + v * q + m * i4
  BY <1>5, <1>6 DEF Cong
<1>8. u * e = u * p + m * (u * i1) /\ v * f = v * q + m * (v * i2)
  BY <1>7
<1>9. PICK j1 \in Int, j2 \in Int, y1 \in Int, y2 \in Int, z1 \in Int, z2 \in Int :
        /\ j1 = u * i1 /\ j2 = v * i2 /\ y1 = u * p /\ y2 = v * q /\ z1 = u * e /\ z2 = v * f
  OBVIOUS
<1>10. m * (i3 + i4 - j1 - j2) = m * i3 + m * i4 - m * j1 - m * j2 /\ i3 + i4 - j1 - j2 \in Int
  OBVIOUS
<1>11. g = z1 + z2 + m * (i3 + i4 - j1 - j2)
  BY <1>7, <1>8, <1>9, <1>10
<1>12. Cong(m, g, z1 + z2)
  BY <1>10, <1>11 DEF Cong
<1>13. QED
  BY <1>1, <1>5, <1>9, <1>12

LEMMA TimesExchange ==
  ASSUME NEW x \in Polys, NEW a \in Polys, NEW b \in Polys
  PROVE  Times(x, Times(a, b)) = Times(a, Times(x, b))
<1>1. PICK m \in Nat : m = Pow2[W] /\ m > 0
  BY RingFacts
<1>2. \A l \in Exps : x[l] \in Int /\ a[l] \in Int /\ b[l] \in Int
  BY PolyFacts
<1>3. ASSUME NEW y \in Polys, NEW z \in Polys
      PROVE  /\ Times(y, Times(z, b)) \in Polys
             /\ \A k \in Exps : /\ Conv(y, ConvPoly(z, b), k) \in Int
                                /\ Cong(m, Times(y, Times(z, b))[k], Conv(y, ConvPoly(z, b), k))
  <2>1. PICK s, p : s = Times(z, b) /\ p = ConvPoly(z, b)
    OBVIOUS
  <2>2. \A l \in Exps : y[l] \in Int /\ z[l] \in Int /\ b[l] \in Int
    BY PolyFacts
  <2>3. s \in Polys /\ \A k \in Exps : p[k] \in Int /\ s[k] \in Int /\ Cong(m, s[k], p[k])
    <3>1. s \in Polys /\ \A k \in Exps : Cong(m, s[k], Conv(z, b, k))
      BY <1>1, <2>1, <2>2, TimesFacts
    <3>2. \A k \in Exps : p[k] = Conv(z, b, k) /\ p[k] \in Int
      BY <2>1, <2>2, ConvType DEF ConvPoly
    <3>3. QED
      BY <3>1, <3>2, PolyFacts
  <2>4. Times(y, s) \in Polys /\ \A k \in Exps : Cong(m, Times(y, s)[k], Conv(y, s, k))
    BY <1>1, <2>2, <2>3, TimesFacts
  <2>5. ASSUME NEW k \in Exps PROVE Conv(y, p, k) \in Int /\ Cong(m, Times(y, s)[k], Conv(y, p, k))
    <3>1. PICK e \in Int, f \in Int, g \in Int : e = Times(y, s)[k] /\ f = Conv(y, s, k) /\ g = Conv(y, p, k)
      BY <2>2, <2>3, <2>4, ConvType, PolyFacts
    <3>2. PICK u \in Int, v \in Int : u = 1 /\ v = 0
      OBVIOUS
    <3>3. \A l \in Exps : u * p[l] + v * p[l] = p[l]
      BY <2>3, <3>2
    <3>4. \A l \in Exps : /\ y[l] \in Int /\ p[l] \in Int /\ s[l] \in Int
                          /\ Cong(m, s[l], u * p[l] + v * p[l])
      BY <2>2, <2>3, <3>3
    <3>5. Cong(m, Conv(y, s, k), u * Conv(y, p, k) + v * Conv(y, p, k))
      BY <3>4, ConvLinear
    <3>6. u * g + v * g = g
      BY <3>2
    <3>7. Cong(m, f, g)
      BY <3>1, <3>5, <3>6
    <3>8. Cong(m, e, f)
      BY <2>4, <3>1
    <3>9. QED
      BY <3>1, <3>7, <3>8, CongTrans
  <2>6. QED
    BY <2>1, <2>4, <2>5
<1>4. \A k \in Exps : Conv(x, ConvPoly(a, b), k) = Conv(a, ConvPoly(x, b), k)
  BY <1>2, ConvExchange
<1>5. PICK p \in Polys, q \in Polys : p = Times(x, Times(a, b)) /\ q = Times(a, Times(x, b))
  BY <1>3
<1>8. \A k \in Exps : Conv(x, ConvPoly(a, b), k) \in Int /\ Cong(m, p[k], Conv(x, ConvPoly(a, b), k))
  BY <1>3, <1>5
<1>9. \A k \in Exps : Cong(m, q[k], Conv(a, ConvPoly(x, b), k))
  BY <1>3, <1>5
<1>6. ASSUME NEW k \in Exps PROVE Cong(m, p[k], q[k])
  <2>1. PICK e \in Int : e = Conv(x, ConvPoly(a, b), k) /\ e = Conv(a, ConvPoly(x, b), k)
    BY <1>4, <1>8
  <2>a. Cong(m, p[k], e)
    BY <1>8, <2>1
  <2>b. Cong(m, q[k], e)
    BY <1>9, <2>1
  <2>2. p[k] \in Int /\ q[k] \in Int /\ Cong(m, p[k], e) /\ Cong(m, q[k], e)
    BY <2>a, <2>b, PolyFacts
  <2>3. QED
    BY <2>2, CongSym, CongTrans
<1>7. QED
  BY <1>1, <1>5, <1>6, SamePoly

\* The product with a constant scales the coefficients.
LEMMA TimesConstant ==
  ASSUME NEW b \in Polys, NEW c \in Int
  PROVE  /\ Constant(c) \in Polys
         /\ \A k \in Exps : Cong(Pow2[W], Times(b, Constant(c))[k], c * b[k])
<1>1. PICK m \in Nat : m = Pow2[W] /\ m > 0
  BY RingFacts
<1>0. PICK p : p = Constant(c)
  OBVIOUS
<1>2. PICK d \in Int : d = c % m /\ Cong(m, d, c) /\ d \in Word
  <2>1. c % m \in Word /\ Cong(m, c % m, c)
    BY <1>1, CongMod, CenteredFacts
  <2>2. QED
    BY <2>1, RingFacts
<1>3. 0 \in Word
  BY <1>1 DEF Word
<1>4. p = [k \in Exps |-> IF k = 0 THEN d ELSE 0]
  BY <1>0, <1>1, <1>2 DEF Constant
<1>5. p \in Polys
  BY <1>2, <1>3, <1>4 DEF Polys
<1>6. \A l \in Exps : b[l] \in Int /\ p[l] \in Int
  BY <1>5, PolyFacts
<1>7. ASSUME NEW k \in Exps PROVE Cong(m, Times(b, p)[k], c * b[k])
  <2>1. PICK y \in Int : y = b[k]
    BY <1>6
  <2>2. PICK f : f = [i \in Exps |-> b[i] * Turned(i, p, k)]
    OBVIOUS
  <2>3. \A i \in Exps : f[i] \in Int
    BY <1>6, <2>2, TermType
  <2>4. ASSUME NEW i \in Exps PROVE Turned(i, p, k) = IF i = k THEN d ELSE 0
    <3>1. D \in Int /\ i \in Int /\ k \in Int /\ 0 <= i /\ i < D /\ 0 <= k /\ k < D
      BY RingFacts DEF Exps
    <3>2. CASE i <= k
      <4>1. PICK l \in Exps : l = k - i /\ (l = 0 <=> i = k)
        BY <3>1, <3>2, Turns
      <4>2. p[l] = IF i = k THEN d ELSE 0
        BY <1>4, <4>1
      <4>3. QED
        BY <3>2, <4>1, <4>2 DEF Turned
    <3>3. CASE ~(i <= k)
      <4>1. PICK l \in Exps : l = k - i + D /\ l # 0 /\ i # k
        BY <3>1, <3>3, Turns
      <4>2. PICK z \in Int : z = p[l]
        BY <1>4, <4>1
      <4>3. Turned(i, p, k) = -z
        BY <3>3, <4>1, <4>2 DEF Turned
      <4>4. -z = 0 - z
        OBVIOUS
      <4>5. z = 0
        BY <1>4, <4>1, <4>2
      <4>6. 0 - z = 0
        BY <4>5
      <4>7. QED
        BY <4>1, <4>3, <4>4, <4>6
    <3>4. QED
      BY <3>2, <3>3
  <2>5. f[k] = d * y
    <3>1. f[k] = y * d
      BY <2>1, <2>2, <2>4
    <3>2. QED
      BY <3>1
  <2>6. \A i \in Exps : i # k => f[i] = 0
    <3>1. SUFFICES ASSUME NEW i \in Exps, i # k PROVE f[i] = 0
      OBVIOUS
    <3>2. PICK x \in Int : x = b[i]
      BY <1>6
    <3>3. f[i] = x * 0
      BY <2>2, <2>4, <3>1, <3>2
    <3>4. QED
      BY <3>3
  <2>7. PICK rest, g : rest = Exps \ {k} /\ g = [i \in Exps |-> 0]
    OBVIOUS
  <2>8. SumFunctionOnSet(f, Exps) = f[k] + SumFunctionOnSet(f, rest)
    <3>1. \A i \in Exps : SumFunctionOnSet(f, Exps) = f[i] + SumFunctionOnSet(f, Exps \ {i})
      BY <2>3, RingFacts, SumRemove
    <3>2. QED
      BY <2>7, <3>1
  <2>9. SumFunctionOnSet(f, rest) = 0
    <3>1. IsFiniteSet(rest) /\ rest \subseteq Exps
      BY <2>7, RingFacts, FS_Subset
    <3>2. PICK z \in Nat, o \in Int : z = 0 /\ o = 0
      OBVIOUS
    <3>3. \A i \in rest : f[i] \in Int /\ f[i] \in Int /\ Cong(z, f[i], o * f[i])
      <4>1. SUFFICES ASSUME NEW i \in rest PROVE f[i] \in Int /\ Cong(z, f[i], o * f[i])
        OBVIOUS
      <4>2. PICK x \in Int, y1 \in Int : x = f[i] /\ y1 = o * f[i] /\ x = 0 /\ y1 = 0
        <5>1. f[i] = 0
          BY <2>6, <2>7, <3>1
        <5>2. o * f[i] = 0
          BY <3>2, <5>1
        <5>3. QED
          BY <5>1, <5>2
      <4>3. x = y1
        BY <4>2
      <4>4. Cong(z, x, y1)
        BY <4>3, CongRefl
      <4>5. QED
        BY <4>2, <4>4
    <3>4. Cong(z, SumFunctionOnSet(f, rest), o * SumFunctionOnSet(f, rest))
      BY <3>1, <3>3, SumScaled
    <3>5. PICK s \in Int : s = SumFunctionOnSet(f, rest)
      BY <3>1, <3>3, SumType
    <3>6. PICK e \in Int : s = o * s + z * e
      BY <3>4, <3>5 DEF Cong
    <3>7. \A x \in Int : o * x = 0 /\ z * x = 0
      BY <3>2
    <3>8. s = 0 + 0
      BY <3>6, <3>7
    <3>9. QED
      BY <3>5, <3>8
  <2>10. Conv(b, p, k) = d * y
    BY <2>2, <2>5, <2>8, <2>9 DEF Conv
  <2>11. Cong(m, y * d, y * c)
    BY <1>2, CongScale
  <2>12. y * d = d * y /\ y * c = c * y
    BY <1>2
  <2>13. Cong(m, Times(b, p)[k], d * y) /\ Times(b, p)[k] \in Int
    BY <1>1, <1>6, <2>10, TimesFacts, PolyFacts
  <2>14. PICK e1 \in Int, e2 \in Int, e3 \in Int : e1 = Times(b, p)[k] /\ e2 = d * y /\ e3 = c * y
    BY <2>13
  <2>15. Cong(m, e1, e2) /\ Cong(m, e2, e3)
    BY <2>11, <2>12, <2>13, <2>14
  <2>16. Cong(m, e1, e3)
    BY <2>15, CongTrans
  <2>17. QED
    BY <2>1, <2>14, <2>16
<1>8. QED
  BY <1>0, <1>1, <1>5, <1>7

\* The product commutes.
LEMMA PolyCommutes ==
  ASSUME NEW a \in Polys, NEW b \in Polys
  PROVE  Times(a, b) = Times(b, a)
<1>1. PICK e \in Int : e = 1
  OBVIOUS
<1>2. PICK u \in Polys : u = Constant(e)
  BY TimesConstant
<1>3. ASSUME NEW x \in Polys PROVE Times(x, u) = x
  <2>1. \A k \in Exps : x[k] \in Int /\ u[k] \in Int /\ e * x[k] = x[k]
    BY <1>1, PolyFacts
  <2>2. \A k \in Exps : Cong(Pow2[W], Times(x, u)[k], e * x[k])
    BY <1>2, TimesConstant
  <2>3. Times(x, u) \in Polys
    BY <2>1, TimesFacts
  <2>4. QED
    BY <2>1, <2>2, <2>3, SamePoly
<1>4. Times(a, Times(b, u)) = Times(b, Times(a, u))
  BY TimesExchange
<1>5. Times(b, u) = b /\ Times(a, u) = a
  BY <1>3
<1>6. QED
  BY <1>4, <1>5

\* Sums and differences of classes.
LEMMA PlusFacts ==
  ASSUME NEW a \in Polys, NEW b \in Polys
  PROVE  /\ Plus(a, b) \in Polys /\ Minus(a, b) \in Polys
         /\ \A k \in Exps : /\ Cong(Pow2[W], Plus(a, b)[k], a[k] + b[k])
                            /\ Cong(Pow2[W], Minus(a, b)[k], a[k] - b[k])
<1>1. PICK m \in Nat : m = Pow2[W] /\ m > 0
  BY RingFacts
<1>2. /\ Plus(a, b) = [k \in Exps |-> (a[k] + b[k]) % m]
      /\ Minus(a, b) = [k \in Exps |-> (a[k] - b[k]) % m]
  BY <1>1 DEF Plus, Minus
<1>3. ASSUME NEW k \in Exps
      PROVE  /\ (a[k] + b[k]) % m \in Word /\ Cong(m, (a[k] + b[k]) % m, a[k] + b[k])
             /\ (a[k] - b[k]) % m \in Word /\ Cong(m, (a[k] - b[k]) % m, a[k] - b[k])
  <2>1. PICK x \in Int, y \in Int : x = a[k] + b[k] /\ y = a[k] - b[k]
    BY PolyFacts
  <2>2. QED
    BY <1>1, <2>1, CongMod, CenteredFacts
<1>4. QED
  BY <1>1, <1>2, <1>3 DEF Polys

LEMMA PolySums ==
  ASSUME NEW a \in Polys, NEW b \in Polys
  PROVE  Plus(a, b) = Plus(b, a)
<1>1. [k \in Exps |-> (a[k] + b[k]) % Pow2[W]] = [k \in Exps |-> (b[k] + a[k]) % Pow2[W]]
  <2>1. \A k \in Exps : a[k] + b[k] = b[k] + a[k]
    BY PolyFacts
  <2>2. QED
    BY <2>1
<1>2. QED
  BY <1>1 DEF Plus

LEMMA MinusCancels ==
  ASSUME NEW a \in Polys, NEW b \in Polys, NEW c \in Polys
  PROVE  /\ Minus(Plus(a, c), Plus(b, c)) = Minus(a, b)
         /\ Minus(Plus(c, a), Plus(c, b)) = Minus(a, b)
<1>1. PICK m \in Nat : m = Pow2[W] /\ m > 0
  BY RingFacts
<1>2. PICK p \in Polys, q \in Polys, s \in Polys, d \in Polys :
        p = Plus(a, c) /\ q = Plus(b, c) /\ s = Minus(p, q) /\ d = Minus(a, b)
  BY PlusFacts
<1>3. ASSUME NEW k \in Exps PROVE Cong(m, s[k], d[k])
  <2>1. PICK x \in Int, y \in Int, z \in Int, x1 \in Int, y1 \in Int, s1 \in Int, d1 \in Int :
          x = a[k] /\ y = b[k] /\ z = c[k] /\ x1 = p[k] /\ y1 = q[k] /\ s1 = s[k] /\ d1 = d[k]
    BY PolyFacts
  <2>2. Cong(m, x1, x + z) /\ Cong(m, y1, y + z) /\ Cong(m, s1, x1 - y1) /\ Cong(m, d1, x - y)
    BY <1>1, <1>2, <2>1, PlusFacts
  <2>3. PICK i1 \in Int, i2 \in Int, i3 \in Int, i4 \in Int :
          /\ x1 = (x + z) + m * i1 /\ y1 = (y + z) + m * i2
          /\ s1 = (x1 - y1) + m * i3 /\ d1 = (x - y) + m * i4
    BY <2>2 DEF Cong
  <2>4. m * (i1 - i2 + i3 - i4) = m * i1 - m * i2 + m * i3 - m * i4 /\ i1 - i2 + i3 - i4 \in Int
    OBVIOUS
  <2>5. s1 = d1 + m * (i1 - i2 + i3 - i4)
    BY <2>3, <2>4
  <2>6. QED
    BY <2>1, <2>4, <2>5 DEF Cong
<1>4. s = d
  BY <1>1, <1>3, SamePoly
<1>5. Plus(c, a) = p /\ Plus(c, b) = q
  <2>1. Plus(c, a) = Plus(a, c) /\ Plus(c, b) = Plus(b, c)
    BY PolySums
  <2>2. QED
    BY <1>2, <2>1
<1>6. QED
  BY <1>2, <1>4, <1>5

LEMMA TimesType ==
  ASSUME NEW a \in Polys, NEW b \in Polys
  PROVE  Times(a, b) \in Polys
BY PolyFacts, TimesFacts

\* The product distributes over both.
LEMMA TimesPlus ==
  ASSUME NEW x \in Polys, NEW a \in Polys, NEW b \in Polys
  PROVE  /\ Times(x, Plus(a, b)) = Plus(Times(x, a), Times(x, b))
         /\ Times(x, Minus(a, b)) = Minus(Times(x, a), Times(x, b))
<1>1. PICK m \in Nat : m = Pow2[W] /\ m > 0
  BY RingFacts
<1>2. PICK p \in Polys, q \in Polys : p = Times(x, a) /\ q = Times(x, b)
  BY TimesType
<1>3. PICK o \in Int, u \in Int : o = 1 /\ u = -1
  OBVIOUS
<1>5. \A k \in Exps : a[k] \in Int /\ b[k] \in Int /\ p[k] \in Int /\ q[k] \in Int
  BY PolyFacts
<1>4. \A k \in Exps : /\ o * a[k] + o * b[k] = a[k] + b[k] /\ o * a[k] + u * b[k] = a[k] - b[k]
                      /\ o * p[k] + o * q[k] = p[k] + q[k] /\ o * p[k] + u * q[k] = p[k] - q[k]
  <2>1. \A e, f \in Int : o * e + o * f = e + f /\ o * e + u * f = e - f
    BY <1>3
  <2>2. QED
    BY <1>5, <2>1
<1>6. Times(x, Plus(a, b)) = Plus(p, q)
  <2>1. PICK c \in Polys, s \in Polys, d \in Polys : c = Plus(a, b) /\ s = Times(x, c) /\ d = Plus(p, q)
    BY PlusFacts, TimesType
  <2>2. \A k \in Exps : Cong(m, c[k], o * a[k] + o * b[k])
    <3>1. \A k \in Exps : Cong(m, c[k], a[k] + b[k])
      BY <1>1, <2>1, PlusFacts
    <3>2. QED
      BY <1>4, <3>1
  <2>3. \A k \in Exps : Cong(m, s[k], o * p[k] + o * q[k])
    BY <1>1, <1>2, <2>1, <2>2, TimesLinear
  <2>4. \A k \in Exps : Cong(m, s[k], p[k] + q[k]) /\ Cong(m, d[k], p[k] + q[k])
    <3>1. \A k \in Exps : Cong(m, d[k], p[k] + q[k])
      BY <1>1, <2>1, PlusFacts
    <3>2. QED
      BY <1>4, <2>3, <3>1
  <2>5. ASSUME NEW k \in Exps PROVE Cong(m, s[k], d[k])
    <3>1. PICK e \in Int : e = p[k] + q[k]
      BY <1>5
    <3>2. s[k] \in Int /\ d[k] \in Int /\ Cong(m, s[k], e) /\ Cong(m, d[k], e)
      BY <2>4, <3>1, PolyFacts
    <3>3. QED
      BY <3>2, CongSym, CongTrans
  <2>6. QED
    BY <1>1, <2>1, <2>5, SamePoly
<1>7. Times(x, Minus(a, b)) = Minus(p, q)
  <2>1. PICK c \in Polys, s \in Polys, d \in Polys : c = Minus(a, b) /\ s = Times(x, c) /\ d = Minus(p, q)
    BY PlusFacts, TimesType
  <2>2. \A k \in Exps : Cong(m, c[k], o * a[k] + u * b[k])
    <3>1. \A k \in Exps : Cong(m, c[k], a[k] - b[k])
      BY <1>1, <2>1, PlusFacts
    <3>2. QED
      BY <1>4, <3>1
  <2>3. \A k \in Exps : Cong(m, s[k], o * p[k] + u * q[k])
    BY <1>1, <1>2, <2>1, <2>2, TimesLinear
  <2>4. \A k \in Exps : Cong(m, s[k], p[k] - q[k]) /\ Cong(m, d[k], p[k] - q[k])
    <3>1. \A k \in Exps : Cong(m, d[k], p[k] - q[k])
      BY <1>1, <2>1, PlusFacts
    <3>2. QED
      BY <1>4, <2>3, <3>1
  <2>5. ASSUME NEW k \in Exps PROVE Cong(m, s[k], d[k])
    <3>1. PICK e \in Int : e = p[k] - q[k]
      BY <1>5
    <3>2. s[k] \in Int /\ d[k] \in Int /\ Cong(m, s[k], e) /\ Cong(m, d[k], e)
      BY <2>4, <3>1, PolyFacts
    <3>3. QED
      BY <3>2, CongSym, CongTrans
  <2>6. QED
    BY <1>1, <2>1, <2>5, SamePoly
<1>8. QED
  BY <1>2, <1>6, <1>7

\* Factors on the left pass into a product.
LEMMA TimesInto ==
  ASSUME NEW x \in Polys, NEW a \in Polys, NEW b \in Polys
  PROVE  Times(x, Times(a, b)) = Times(Times(x, a), b)
<1>1. Times(a, b) = Times(b, a)
  BY PolyCommutes
<1>2. Times(x, Times(b, a)) = Times(b, Times(x, a))
  BY TimesExchange
<1>3. Times(b, Times(x, a)) = Times(Times(x, a), b)
  BY TimesType, PolyCommutes
<1>4. QED
  BY <1>1, <1>2, <1>3

\* Zero times anything, and plus anything.
LEMMA ZeroLaws ==
  ASSUME NEW a \in Polys
  PROVE  /\ Constant(0) \in Polys /\ \A k \in Exps : Constant(0)[k] = 0
         /\ Times(a, Constant(0)) = Constant(0) /\ Times(Constant(0), a) = Constant(0)
         /\ Plus(Constant(0), a) = a
<1>1. PICK m \in Nat : m = Pow2[W] /\ m > 0
  BY RingFacts
<1>2. PICK z \in Int : z = 0
  OBVIOUS
<1>3. 0 \in Word
  BY <1>1 DEF Word
<1>4. 0 % m = 0
  BY <1>1, <1>3, WordFacts
<1>5. PICK o : o = Constant(0)
  OBVIOUS
<1>6. o = [k \in Exps |-> 0]
  BY <1>1, <1>4, <1>5 DEF Constant
<1>7. o \in Polys /\ \A k \in Exps : o[k] = 0
  BY <1>3, <1>6 DEF Polys
<1>8. Times(a, o) = o
  <2>1. PICK s \in Polys : s = Times(a, o)
    BY <1>7, TimesType
  <2>2. \A k \in Exps : Cong(m, s[k], z * a[k])
    BY <1>1, <1>2, <1>5, <2>1, TimesConstant
  <2>3. \A k \in Exps : z * a[k] = 0
    BY <1>2, PolyFacts
  <2>4. \A k \in Exps : Cong(m, s[k], o[k])
    BY <1>7, <2>2, <2>3
  <2>5. QED
    BY <1>1, <1>7, <2>1, <2>4, SamePoly
<1>9. Times(o, a) = o
  BY <1>7, <1>8, PolyCommutes
<1>10. Plus(o, a) = a
  <2>1. PICK s \in Polys : s = Plus(o, a)
    BY <1>7, PlusFacts
  <2>2. \A k \in Exps : Cong(m, s[k], o[k] + a[k])
    BY <1>1, <1>7, <2>1, PlusFacts
  <2>3. \A k \in Exps : o[k] + a[k] = a[k]
    BY <1>7, PolyFacts
  <2>4. \A k \in Exps : Cong(m, s[k], a[k])
    BY <2>2, <2>3
  <2>5. QED
    BY <1>1, <2>1, <2>4, SamePoly
<1>11. QED
  BY <1>5, <1>7, <1>8, <1>9, <1>10

(***************************************************************************)
(* Horner's rule and the digits of a vector, step by step.                 *)
(***************************************************************************)
LEMMA DigitFacts ==
  /\ NumDigits \in Nat /\ NumDigits > 0 /\ DigitBits \in 1 .. W - 1 /\ NumDigits * DigitBits = W
  /\ Pow2[DigitBits] \in Nat /\ Pow2[DigitBits - 1] \in Nat
<1>1. PICK b \in Nat, n \in Int : b = DigitBits /\ b \in 1 .. W - 1 /\ n = NumDigits /\ W \in Nat
                                  /\ W % b = 0 /\ W = b * n + 0
  <2>1. W \in Nat /\ DigitBits \in 1 .. W - 1 /\ W % DigitBits = 0
    BY LatticeFoldAssumption, ProjectionAssumption
  <2>2. PICK v \in Nat, b \in Nat : v = W /\ b = DigitBits /\ b > 0
    BY <2>1
  <2>3. b > 0
    BY <2>2
  <2>4. v \div b \in Int /\ v = b * (v \div b) + (v % b)
    BY <2>3, DivMod
  <2>5. PICK n \in Int : n = v \div b
    BY <2>4
  <2>6. v = b * n + 0 /\ v % b = 0
    BY <2>1, <2>2, <2>4, <2>5
  <2>7. QED
    BY <2>1, <2>2, <2>5, <2>6 DEF NumDigits
<1>2. n > 0
  <2>1. SUFFICES ASSUME n <= 0 PROVE FALSE
    OBVIOUS
  <2>2. b * n <= 0
    BY <2>1
  <2>3. QED
    BY <1>1, <2>2
<1>3. n * b = W
  BY <1>1
<1>4. QED
  BY <1>1, <1>2, <1>3, PowFacts

HornerStep(s, x, acc) ==
  /\ acc[0] = Constant(0)
  /\ \A n \in 1 .. NumDigits : acc[n] = Plus(Times(acc[n - 1], x), s[NumDigits + 1 - n])

LEMMA HornerSteps ==
  ASSUME NEW s, NEW x
  PROVE  \E acc : HornerStep(s, x, acc) /\ Horner(s, x) = acc[NumDigits]
<1>1. PICK Top \in Nat : Top = NumDigits /\ Top > 0
  BY DigitFacts
<1> DEFINE R == 0 .. Top
           Sums(g) == g = [n \in R |-> IF n = 0 THEN Constant(0) ELSE Plus(Times(g[n - 1], x), s[Top + 1 - n])]
<1>2. \E g : Sums(g)
  <2> DEFINE N == {j \in Nat : \E g : \A n \in 0 .. j :
                     g[n] = IF n = 0 THEN Constant(0) ELSE Plus(Times(g[n - 1], x), s[Top + 1 - n])}
  <2>1. 0 \in N
    <3>1. PICK g : g = [n \in 0 .. 0 |-> Constant(0)]
      OBVIOUS
    <3>2. \A n \in 0 .. 0 : g[n] = IF n = 0 THEN Constant(0) ELSE Plus(Times(g[n - 1], x), s[Top + 1 - n])
      BY <3>1
    <3>3. QED
      BY <3>2
  <2>2. ASSUME NEW j \in Nat, j \in N PROVE j + 1 \in N
    <3>1. PICK g : \A n \in 0 .. j :
                     g[n] = IF n = 0 THEN Constant(0) ELSE Plus(Times(g[n - 1], x), s[Top + 1 - n])
      BY <2>2
    <3>2. PICK f : f = [n \in 0 .. j + 1 |-> IF n = j + 1 THEN Plus(Times(g[j], x), s[Top + 1 - (j + 1)]) ELSE g[n]]
      OBVIOUS
    <3>3. ASSUME NEW n \in 0 .. j + 1
          PROVE  f[n] = IF n = 0 THEN Constant(0) ELSE Plus(Times(f[n - 1], x), s[Top + 1 - n])
      <4>1. CASE n = j + 1
        <5>1. n # 0 /\ n - 1 = j /\ j \in 0 .. j + 1 /\ j # j + 1
          BY <4>1
        <5>2. f[n] = Plus(Times(g[j], x), s[Top + 1 - n]) /\ f[n - 1] = g[j]
          BY <3>2, <4>1, <5>1
        <5>3. QED
          BY <5>1, <5>2
      <4>2. CASE n \in 0 .. j
        <5>1. n # j + 1 /\ (n # 0 => n - 1 \in 0 .. j + 1 /\ n - 1 # j + 1)
          BY <4>2
        <5>2. f[n] = g[n] /\ (n # 0 => f[n - 1] = g[n - 1])
          BY <3>2, <5>1
        <5>3. g[n] = IF n = 0 THEN Constant(0) ELSE Plus(Times(g[n - 1], x), s[Top + 1 - n])
          BY <3>1, <4>2
        <5>4. QED
          BY <5>2, <5>3
      <4>3. QED
        BY <4>1, <4>2
    <3>4. QED
      BY <3>3
  <2>3. \A j \in Nat : j \in N
    <3> HIDE DEF N
    <3> QED BY <2>1, <2>2, NatSetInduction
  <2>4. PICK g : \A n \in R :
                   g[n] = IF n = 0 THEN Constant(0) ELSE Plus(Times(g[n - 1], x), s[Top + 1 - n])
    BY <2>3
  <2>5. PICK f : f = [n \in R |-> g[n]]
    OBVIOUS
  <2>6. ASSUME NEW n \in R
        PROVE  f[n] = IF n = 0 THEN Constant(0) ELSE Plus(Times(f[n - 1], x), s[Top + 1 - n])
    <3>1. n # 0 => n - 1 \in R
      OBVIOUS
    <3>2. f[n] = g[n] /\ (n # 0 => f[n - 1] = g[n - 1])
      BY <2>5, <3>1
    <3>3. g[n] = IF n = 0 THEN Constant(0) ELSE Plus(Times(g[n - 1], x), s[Top + 1 - n])
      BY <2>4
    <3>4. QED
      BY <3>2, <3>3
  <2>7. f = [n \in R |-> f[n]]
    BY <2>5
  <2>8. Sums(f)
    BY <2>6, <2>7, Zenon
  <2>9. QED
    BY <2>8
<1>3. PICK acc : acc = CHOOSE g : Sums(g)
  OBVIOUS
<1>4. Sums(acc)
  BY <1>2, <1>3, Zenon
<1>5. Horner(s, x) = acc[Top]
  BY <1>1, <1>3 DEF Horner
<1>6. acc[0] = Constant(0)
  BY <1>4
<1>7. \A n \in 1 .. Top : acc[n] = Plus(Times(acc[n - 1], x), s[Top + 1 - n])
  BY <1>4
<1>8. QED
  BY <1>1, <1>5, <1>6, <1>7 DEF HornerStep

LEMMA HornerType ==
  ASSUME NEW s \in [1 .. NumDigits -> Polys], NEW x \in Polys, NEW acc, HornerStep(s, x, acc)
  PROVE  \A n \in 0 .. NumDigits : acc[n] \in Polys
<1>1. PICK Top \in Nat : Top = NumDigits
  BY DigitFacts
<1> DEFINE N == {n \in Nat : n <= Top => acc[n] \in Polys}
<1>2. 0 \in N
  BY ZeroLaws, x \in Polys DEF HornerStep
<1>3. ASSUME NEW n \in Nat, n \in N PROVE n + 1 \in N
  <2>1. SUFFICES ASSUME n + 1 <= Top PROVE acc[n + 1] \in Polys
    OBVIOUS
  <2>2. acc[n] \in Polys
    BY <1>3, <2>1
  <2>3. n + 1 \in 1 .. Top /\ (n + 1) - 1 = n /\ Top + 1 - (n + 1) \in 1 .. Top
    BY <2>1
  <2>4. acc[n + 1] = Plus(Times(acc[n], x), s[Top + 1 - (n + 1)])
    BY <1>1, <2>3 DEF HornerStep
  <2>5. s[Top + 1 - (n + 1)] \in Polys
    BY <1>1, <2>3
  <2>6. QED
    BY <2>2, <2>4, <2>5, TimesType, PlusFacts
<1>4. \A n \in Nat : n \in N
  <2> HIDE DEF N
  <2> QED BY <1>2, <1>3, NatSetInduction
<1>5. QED
  BY <1>1, <1>4

\* A common factor passes out of Horner's rule.
LEMMA HornerCommutes ==
  ASSUME NEW s \in [1 .. NumDigits -> Polys], NEW x \in Polys, NEW y \in Polys,
         NEW u, u = [i \in 1 .. NumDigits |-> Times(y, s[i])]
  PROVE  Horner(u, x) = Times(y, Horner(s, x)) /\ Horner(s, x) \in Polys
<1>1. PICK Top \in Nat : Top = NumDigits
  BY DigitFacts
<1>2. PICK acc : HornerStep(s, x, acc) /\ Horner(s, x) = acc[Top]
  BY <1>1, HornerSteps
<1>3. PICK sum : HornerStep(u, x, sum) /\ Horner(u, x) = sum[Top]
  BY <1>1, HornerSteps
<1>4. \A n \in 0 .. Top : acc[n] \in Polys
  BY <1>1, <1>2, HornerType
<1> DEFINE N == {n \in Nat : n <= Top => sum[n] = Times(y, acc[n])}
<1>5. 0 \in N
  <2>1. sum[0] = Constant(0) /\ acc[0] = Constant(0)
    BY <1>2, <1>3 DEF HornerStep
  <2>2. Times(y, Constant(0)) = Constant(0)
    BY ZeroLaws
  <2>3. QED
    BY <2>1, <2>2
<1>6. ASSUME NEW n \in Nat, n \in N PROVE n + 1 \in N
  <2>1. SUFFICES ASSUME n + 1 <= Top PROVE sum[n + 1] = Times(y, acc[n + 1])
    OBVIOUS
  <2>2. PICK i \in 1 .. Top : i = Top + 1 - (n + 1)
    BY <2>1
  <2>3. n \in 0 .. Top /\ n + 1 \in 1 .. Top /\ (n + 1) - 1 = n
    BY <2>1
  <2>4. PICK a \in Polys, d \in Polys : a = acc[n] /\ d = s[i]
    BY <1>1, <1>4, <2>3
  <2>5. sum[n] = Times(y, a)
    BY <1>6, <2>1, <2>4
  <2>6. acc[n + 1] = Plus(Times(a, x), d)
    BY <1>1, <1>2, <2>2, <2>3, <2>4 DEF HornerStep
  <2>7. sum[n + 1] = Plus(Times(Times(y, a), x), Times(y, d))
    <3>1. sum[n + 1] = Plus(Times(sum[n], x), u[i])
      BY <1>1, <1>3, <2>2, <2>3 DEF HornerStep
    <3>2. u[i] = Times(y, d)
      BY <1>1, <2>4
    <3>3. QED
      BY <2>5, <3>1, <3>2
  <2>8. Times(y, Plus(Times(a, x), d)) = Plus(Times(y, Times(a, x)), Times(y, d))
    BY TimesType, TimesPlus
  <2>9. Times(y, Times(a, x)) = Times(Times(y, a), x)
    BY TimesInto
  <2>10. QED
    BY <2>6, <2>7, <2>8, <2>9
<1>7. \A n \in Nat : n \in N
  <2> HIDE DEF N
  <2> QED BY <1>5, <1>6, NatSetInduction
<1>8. sum[Top] = Times(y, acc[Top])
  BY <1>7
<1>9. QED
  BY <1>2, <1>3, <1>4, <1>8

Left(a, left) ==
  /\ left[0] = a /\ \A i \in Nat : left[i + 1] = Highs(left[i])
  /\ DecomposeBalanced(a) = [i \in 1 .. NumDigits |-> Lows(left[i - 1])]

LEMMA LeftExists ==
  ASSUME NEW a
  PROVE  \E left : Left(a, left)
<1> DEFINE Splits(g) == g = [i \in Nat |-> IF i = 0 THEN a ELSE Highs(g[i - 1])]
           Step(g, i) == g[i] = IF i = 0 THEN a ELSE Highs(g[i - 1])
           N == {j \in Nat : \E g : \A i \in 0 .. j : Step(g, i)}
<1>1. 0 \in N
  <2>1. PICK g : g = [i \in 0 .. 0 |-> a]
    OBVIOUS
  <2>2. \A i \in 0 .. 0 : Step(g, i)
    BY <2>1
  <2>3. QED
    BY <2>2
<1>2. ASSUME NEW j \in Nat, j \in N PROVE j + 1 \in N
  <2>1. PICK g : \A i \in 0 .. j : Step(g, i)
    BY <1>2
  <2>2. PICK f : f = [i \in 0 .. j + 1 |-> IF i = j + 1 THEN Highs(g[j]) ELSE g[i]]
    OBVIOUS
  <2>3. ASSUME NEW i \in 0 .. j + 1 PROVE Step(f, i)
    <3>1. CASE i = j + 1
      <4>1. i # 0 /\ i - 1 = j /\ j \in 0 .. j + 1 /\ j # j + 1
        BY <3>1
      <4>2. f[i] = Highs(g[j]) /\ f[i - 1] = g[j]
        BY <2>2, <3>1, <4>1
      <4>3. QED
        BY <4>1, <4>2
    <3>2. CASE i \in 0 .. j
      <4>1. i # j + 1 /\ (i # 0 => i - 1 \in 0 .. j + 1 /\ i - 1 # j + 1)
        BY <3>2
      <4>2. f[i] = g[i] /\ (i # 0 => f[i - 1] = g[i - 1])
        BY <2>2, <4>1
      <4>3. Step(g, i)
        BY <2>1, <3>2
      <4>4. QED
        BY <4>2, <4>3
    <3>3. QED
      BY <3>1, <3>2
  <2>4. QED
    BY <2>3
<1>3. \A j \in Nat : j \in N
  <2> HIDE DEF N
  <2> QED BY <1>1, <1>2, NatSetInduction
<1>4. \E g : Splits(g)
  <2> DEFINE upto == [j \in Nat |-> CHOOSE g : \A i \in 0 .. j : Step(g, i)]
             f == [j \in Nat |-> upto[j][j]]
  <2>1. \A j \in Nat : \A i \in 0 .. j : Step(upto[j], i)
    <3>1. SUFFICES ASSUME NEW j \in Nat
                   PROVE  \A i \in 0 .. j : Step(CHOOSE g : \A l \in 0 .. j : Step(g, l), i)
      OBVIOUS
    <3>2. \E g : \A i \in 0 .. j : Step(g, i)
      BY <1>3
    <3> HIDE DEF Step
    <3>3. QED
      BY <3>2, Zenon
  <2> HIDE DEF upto
  <2> DEFINE S == {i \in Nat : \A j \in Nat : i <= j => upto[j][i] = f[i]}
  <2>2. 0 \in S
    <3>1. \A j \in Nat : 0 \in 0 .. j
      OBVIOUS
    <3>2. \A j \in Nat : upto[j][0] = a
      BY <2>1, <3>1
    <3>3. QED
      BY <3>2
  <2>3. ASSUME NEW i \in Nat, i \in S PROVE i + 1 \in S
    <3>1. ASSUME NEW j \in Nat, i + 1 <= j PROVE upto[j][i + 1] = Highs(f[i])
      <4>1. i + 1 \in 0 .. j /\ i + 1 # 0 /\ (i + 1) - 1 = i /\ i <= j
        BY <3>1
      <4>2. Step(upto[j], i + 1)
        BY <2>1, <4>1
      <4>3. upto[j][i] = f[i]
        BY <2>3, <4>1
      <4>4. QED
        BY <4>1, <4>2, <4>3
    <3>2. f[i + 1] = upto[i + 1][i + 1]
      OBVIOUS
    <3>3. f[i + 1] = Highs(f[i])
      BY <3>1, <3>2
    <3>4. QED
      BY <3>1, <3>3
  <2>4. \A i \in Nat : i \in S
    <3> HIDE DEF S
    <3> QED BY <2>2, <2>3, NatSetInduction
  <2>5. \A i \in Nat : Step(f, i)
    <3>1. SUFFICES ASSUME NEW i \in Nat PROVE Step(f, i)
      OBVIOUS
    <3>2. Step(upto[i], i)
      BY <2>1
    <3>3. i # 0 => i - 1 \in Nat /\ i - 1 <= i
      OBVIOUS
    <3>4. i # 0 => upto[i][i - 1] = f[i - 1]
      BY <2>4, <3>3
    <3>5. QED
      BY <3>2, <3>4
  <2>6. f = [i \in Nat |-> f[i]]
    OBVIOUS
  <2> HIDE DEF f
  <2>7. Splits(f)
    BY <2>5, <2>6, Zenon
  <2>8. QED
    BY <2>7
<1>5. PICK left : left = CHOOSE g : Splits(g)
  OBVIOUS
<1>6. Splits(left)
  BY <1>4, <1>5, Zenon
<1>7. DecomposeBalanced(a) = [i \in 1 .. NumDigits |-> Lows(left[i - 1])]
  BY <1>5 DEF DecomposeBalanced
<1>8. left[0] = a
  BY <1>6
<1>9. ASSUME NEW i \in Nat PROVE left[i + 1] = Highs(left[i])
  <2>1. i + 1 \in Nat /\ i + 1 # 0 /\ (i + 1) - 1 = i
    OBVIOUS
  <2>2. left[i + 1] = Highs(left[(i + 1) - 1])
    BY <1>6, <2>1
  <2>3. QED
    BY <2>1, <2>2
<1>10. QED
  BY <1>7, <1>8, <1>9 DEF Left

LEMMA PowSum ==
  ASSUME NEW x \in Nat
  PROVE  \A y \in Nat : Pow2[x + y] = Pow2[x] * Pow2[y]
<1> DEFINE N == {y \in Nat : Pow2[x + y] = Pow2[x] * Pow2[y]}
<1>1. 0 \in N
  <2>1. x + 0 = x /\ Pow2[x] \in Nat /\ Pow2[0] = 1
    BY Pow
  <2>2. QED
    BY <2>1
<1>2. ASSUME NEW y \in Nat, y \in N PROVE y + 1 \in N
  <2>1. PICK z \in Nat, p \in Nat, q \in Nat, s \in Nat :
          z = x + y /\ p = Pow2[x] /\ q = Pow2[y] /\ s = Pow2[x + y] /\ s = p * q
    <3>1. x + y \in Nat /\ Pow2[x + y] = Pow2[x] * Pow2[y]
      BY <1>2
    <3>2. Pow2[x] \in Nat /\ Pow2[y] \in Nat /\ Pow2[x + y] \in Nat
      BY <3>1, Pow
    <3>3. QED
      BY <3>1, <3>2
  <2>2. x + (y + 1) = z + 1
    BY <2>1
  <2>3. Pow2[z + 1] = 2 * s /\ Pow2[y + 1] = 2 * q
    BY <2>1, Pow
  <2>4. 2 * (p * q) = p * (2 * q)
    OBVIOUS
  <2>5. QED
    BY <2>1, <2>2, <2>3, <2>4
<1>3. \A y \in Nat : y \in N
  <2> HIDE DEF N
  <2> QED BY <1>1, <1>2, NatSetInduction
<1>4. QED
  BY <1>3

\* One split of a vector.
LEMMA SplitPoly ==
  ASSUME NEW a \in Polys
  PROVE  /\ Highs(a) \in Polys /\ Lows(a) \in Polys
         /\ \A k \in Exps : /\ Cong(Pow2[W], a[k], Lows(a)[k] + Pow2[DigitBits] * Highs(a)[k])
                            /\ Norm(Lows(a)[k]) <= Pow2[DigitBits - 1]
<1>1. PICK m \in Nat : m = Pow2[W] /\ m > 0
  BY RingFacts
<1>2. PICK b \in 1 .. W - 1 : b = DigitBits
  BY DigitFacts
<1>3. PICK hs, ls : hs = Highs(a) /\ ls = Lows(a)
  OBVIOUS
<1>4. ASSUME NEW k \in Exps
      PROVE  /\ hs[k] \in Word /\ ls[k] \in Word /\ Norm(ls[k]) <= Pow2[b - 1]
             /\ Cong(m, a[k], ls[k] + Pow2[b] * hs[k])
  <2>1. PICK x \in Word : x = a[k]
    BY PolyFacts
  <2>2. PICK p \in [high : Word, low : Word] : p = SplitBalanced(x, b)
    BY SplitFacts
  <2>3. Recombined(p, b) = x /\ Norm(p.low) <= Pow2[b - 1]
    BY <2>2, SplitFacts
  <2>4. hs[k] = p.high /\ ls[k] = p.low
    BY <1>2, <1>3, <2>1, <2>2 DEF Highs, Lows
  <2>5. PICK g \in Int, h \in Int, l \in Int : g = Pow2[b] /\ h = p.high /\ l = p.low
    <3>1. Pow2[b] \in Int
      BY PowFacts
    <3>2. p.high \in Int /\ p.low \in Int
      BY WordFacts
    <3>3. QED
      BY <3>1, <3>2
  <2>6. PICK y \in Int, e \in Int : y = g * h + l /\ e = l + g * h /\ y = e
    OBVIOUS
  <2>7. x = y % m
    BY <1>1, <2>3, <2>5, <2>6 DEF Recombined
  <2>8. y % m \in Int /\ Cong(m, y % m, y)
    BY <1>1, CongMod
  <2>9. Cong(m, x, e)
    BY <2>6, <2>7, <2>8
  <2>10. QED
    BY <2>1, <2>3, <2>4, <2>5, <2>6, <2>9
<1>5. hs = [k \in Exps |-> hs[k]] /\ ls = [k \in Exps |-> ls[k]]
  BY <1>3 DEF Highs, Lows
<1>6. hs \in Polys /\ ls \in Polys
  BY <1>4, <1>5 DEF Polys
<1>7. QED
  BY <1>1, <1>2, <1>3, <1>4, <1>6

LEMMA LeftType ==
  ASSUME NEW a \in Polys, NEW left, Left(a, left)
  PROVE  \A i \in Nat : left[i] \in Polys
<1> DEFINE N == {i \in Nat : left[i] \in Polys}
<1>1. 0 \in N
  BY DEF Left
<1>2. ASSUME NEW i \in Nat, i \in N PROVE i + 1 \in N
  <2>1. left[i + 1] = Highs(left[i]) /\ left[i] \in Polys
    BY <1>2 DEF Left
  <2>2. Highs(left[i]) \in Polys
    BY <2>1, SplitPoly
  <2>3. QED
    BY <2>1, <2>2
<1>3. \A i \in Nat : i \in N
  <2> HIDE DEF N
  <2> QED BY <1>1, <1>2, NatSetInduction
<1>4. QED
  BY <1>3

\* The digits are balanced words.
LEMMA DigitsType ==
  ASSUME NEW a \in Polys
  PROVE  /\ DecomposeBalanced(a) \in [1 .. NumDigits -> Polys]
         /\ \A i \in 1 .. NumDigits : Short(DecomposeBalanced(a)[i], Pow2[DigitBits - 1])
<1>1. PICK left : Left(a, left)
  BY LeftExists
<1>2. PICK s : s = DecomposeBalanced(a)
  OBVIOUS
<1>3. s = [i \in 1 .. NumDigits |-> Lows(left[i - 1])]
  BY <1>1, <1>2 DEF Left
<1>4. ASSUME NEW i \in 1 .. NumDigits PROVE s[i] \in Polys /\ Short(s[i], Pow2[DigitBits - 1])
  <2>1. NumDigits \in Nat
    BY DigitFacts
  <2>2. PICK j \in Nat : j = i - 1
    BY <2>1
  <2>3. left[j] \in Polys /\ s[i] = Lows(left[j])
    BY <1>1, <1>3, <2>2, LeftType
  <2>4. QED
    BY <2>3, SplitPoly DEF Short
<1>5. QED
  BY <1>2, <1>3, <1>4

\* The digits recombine to the vector: what is dropped after the last split
\* has the whole word below it.
LEMMA DigitsExact ==
  ASSUME NEW a \in Polys
  PROVE  Recompose(DecomposeBalanced(a)) = a
<1>1. PICK m \in Nat, P \in Int : m = Pow2[W] /\ m > 0 /\ P = Pow2[DigitBits]
  BY RingFacts, DigitFacts
<1>2. PICK Top \in Nat, b \in Nat : Top = NumDigits /\ Top > 0 /\ b = DigitBits /\ Top * b = W
  BY DigitFacts, PowFacts
<1>3. PICK left : Left(a, left)
  BY LeftExists
<1>4. PICK s \in [1 .. NumDigits -> Polys] : s = DecomposeBalanced(a)
  BY DigitsType
<1>5. PICK x \in Polys : x = Constant(P)
  BY TimesConstant
<1>6. PICK acc : HornerStep(s, x, acc) /\ Horner(s, x) = acc[Top]
  BY <1>2, HornerSteps
<1>7. /\ \A n \in 0 .. Top : acc[n] \in Polys
      /\ \A i \in Nat : left[i] \in Polys
  BY <1>2, <1>3, <1>6, HornerType, LeftType
<1>8. \A n \in Nat : b * n \in Nat /\ Pow2[b * n] \in Nat
  <2>1. \A n \in Nat : b * n \in Nat
    OBVIOUS
  <2>2. QED
    BY <2>1, Pow
<1> DEFINE Exact(j) == \A k \in Exps : Cong(m, left[Top - j][k], acc[j][k] + Pow2[b * j] * left[Top][k])
           N == {j \in Nat : j <= Top => Exact(j)}
<1>9. 0 \in N
  <2>1. SUFFICES ASSUME NEW k \in Exps PROVE Cong(m, left[Top - 0][k], acc[0][k] + Pow2[b * 0] * left[Top][k])
    OBVIOUS
  <2>2. PICK y \in Int : y = left[Top][k]
    BY <1>7, PolyFacts
  <2>3. Top - 0 = Top /\ b * 0 = 0
    OBVIOUS
  <2>4. acc[0][k] = 0
    BY <1>5, <1>6, ZeroLaws DEF HornerStep
  <2>5. Pow2[0] = 1
    BY Pow
  <2>6. 0 + 1 * y = y
    OBVIOUS
  <2>7. Cong(m, y, y)
    BY CongRefl
  <2>8. QED
    BY <2>2, <2>3, <2>4, <2>5, <2>6, <2>7
<1>10. ASSUME NEW j \in Nat, j \in N PROVE j + 1 \in N
  <2>1. SUFFICES ASSUME j + 1 <= Top, NEW k \in Exps
                 PROVE  Cong(m, left[Top - (j + 1)][k], acc[j + 1][k] + Pow2[b * (j + 1)] * left[Top][k])
    OBVIOUS
  <2>2. Exact(j)
    BY <1>10, <2>1
  <2>3. PICK i \in Nat : i = Top - (j + 1) /\ i + 1 = Top - j /\ i + 1 \in 1 .. Top /\ (i + 1) - 1 = i
                         /\ Top + 1 - (j + 1) = i + 1
    <3>1. Top - (j + 1) \in Nat
      BY <2>1
    <3>2. QED
      BY <3>1
  <2>4. PICK lo \in Polys : lo = Lows(left[i]) /\ s[i + 1] = lo
    <3>1. Lows(left[i]) \in Polys
      BY <1>7, SplitPoly
    <3>2. s[i + 1] = Lows(left[(i + 1) - 1])
      BY <1>2, <1>3, <1>4, <2>3 DEF Left
    <3>3. QED
      BY <2>3, <3>1, <3>2
  <2>5. left[i + 1] = Highs(left[i])
    BY <1>3 DEF Left
  <2>6. acc[j + 1] = Plus(Times(acc[j], x), lo)
    <3>1. j + 1 \in 1 .. Top /\ (j + 1) - 1 = j
      BY <2>1
    <3>2. QED
      BY <1>2, <1>6, <2>3, <2>4, <3>1 DEF HornerStep
  <2>7. PICK q \in Polys : q = Times(acc[j], x)
    BY <1>7, <2>1, TimesType
  <2>8. PICK l0 \in Int, l1 \in Int, e \in Int, d \in Int, f \in Int, g \in Int, z \in Int :
          /\ l0 = left[i][k] /\ l1 = left[i + 1][k] /\ e = lo[k] /\ d = acc[j][k]
          /\ f = q[k] /\ g = acc[j + 1][k] /\ z = left[Top][k]
    <3>1. acc[j] \in Polys /\ acc[j + 1] \in Polys /\ left[i] \in Polys /\ left[i + 1] \in Polys
          /\ left[Top] \in Polys
      BY <1>7, <2>1
    <3>2. QED
      BY <3>1, PolyFacts
  <2>9. Cong(m, l0, e + P * l1)
    BY <1>1, <1>7, <2>4, <2>5, <2>8, SplitPoly
  <2>10. Cong(m, f, P * d)
    <3>1. acc[j] \in Polys
      BY <1>7, <2>1
    <3>2. QED
      BY <1>1, <1>5, <2>7, <2>8, <3>1, TimesConstant
  <2>11. Cong(m, g, f + e)
    BY <1>1, <2>6, <2>7, <2>8, PlusFacts
  <2>12. PICK p1 \in Int, p2 \in Int : p1 = Pow2[b * j] /\ p2 = Pow2[b * (j + 1)] /\ p2 = P * p1
    <3>1. PICK u \in Nat : u = b * j
      BY <1>8
    <3>2. b * (j + 1) = b + u
      BY <3>1
    <3>3. Pow2[b + u] = Pow2[b] * Pow2[u]
      BY PowSum
    <3>4. Pow2[u] \in Nat /\ Pow2[b] \in Nat
      BY Pow
    <3>5. QED
      BY <1>1, <1>2, <3>1, <3>2, <3>3, <3>4
  <2>13. Cong(m, l1, d + p1 * z)
    BY <2>2, <2>3, <2>8, <2>12
  <2>14. Cong(m, l0, g + p2 * z)
    <3>1. PICK i1 \in Int, i2 \in Int, i3 \in Int, i4 \in Int :
            /\ l0 = e + P * l1 + m * i1 /\ f = P * d + m * i2 /\ g = f + e + m * i3
            /\ l1 = d + p1 * z + m * i4
      BY <2>9, <2>10, <2>11, <2>13 DEF Cong
    <3>2. P * l1 = P * d + (P * p1) * z + m * (P * i4)
      BY <3>1
    <3>3. PICK w1x \in Int, w2x \in Int, w3x \in Int : w1x = P * l1 /\ w2x = P * d /\ w3x = p2 * z
      OBVIOUS
    <3>4. PICK i5 \in Int : i5 = P * i4
      OBVIOUS
    <3>5. m * (i1 + i5 - i2 - i3) = m * i1 + m * i5 - m * i2 - m * i3 /\ i1 + i5 - i2 - i3 \in Int
      OBVIOUS
    <3>6. w1x = w2x + w3x + m * i5
      BY <2>12, <3>2, <3>3, <3>4
    <3>7. l0 = (g + w3x) + m * (i1 + i5 - i2 - i3)
      BY <3>1, <3>3, <3>5, <3>6
    <3>8. QED
      BY <3>3, <3>5, <3>7 DEF Cong
  <2>15. QED
    BY <2>3, <2>8, <2>12, <2>14
<1>11. \A j \in Nat : j \in N
  <2> HIDE DEF N
  <2> QED BY <1>9, <1>10, NatSetInduction
<1>12. ASSUME NEW k \in Exps PROVE Cong(m, acc[Top][k], a[k])
  <2>1. Exact(Top)
    BY <1>11
  <2>2. Top - Top = 0 /\ b * Top = W /\ left[0] = a
    BY <1>2, <1>3 DEF Left
  <2>3. PICK y \in Int, z \in Int, e \in Int : y = acc[Top][k] /\ z = left[Top][k] /\ e = a[k]
    <3>1. acc[Top] \in Polys /\ left[Top] \in Polys
      BY <1>7
    <3>2. QED
      BY <3>1, PolyFacts
  <2>4. Cong(m, e, y + m * z)
    BY <1>1, <2>1, <2>2, <2>3
  <2>5. PICK i \in Int : e = y + m * z + m * i
    BY <2>4 DEF Cong
  <2>6. m * (-(z + i)) = -(m * z) - m * i /\ -(z + i) \in Int
    OBVIOUS
  <2>7. y = e + m * (-(z + i))
    BY <2>5, <2>6
  <2>8. QED
    BY <2>3, <2>6, <2>7 DEF Cong
<1>13. acc[Top] = a
  BY <1>1, <1>7, <1>12, SamePoly
<1>14. Recompose(s) = Horner(s, x)
  BY <1>1, <1>5 DEF Recompose
<1>15. QED
  BY <1>4, <1>6, <1>13, <1>14

(***************************************************************************)
(* How long sums and products are.                                         *)
(***************************************************************************)
LEMMA SumBound ==
  ASSUME NEW f, NEW g, NEW S, IsFiniteSet(S),
         \A x \in S : f[x] \in Int /\ g[x] \in Int /\ -g[x] <= f[x] /\ f[x] <= g[x]
  PROVE  /\ SumFunctionOnSet(f, S) \in Int /\ SumFunctionOnSet(g, S) \in Int
         /\ -SumFunctionOnSet(g, S) <= SumFunctionOnSet(f, S)
         /\ SumFunctionOnSet(f, S) <= SumFunctionOnSet(g, S)
<1> DEFINE F(s) == SumFunctionOnSet(f, s)
           G(s) == SumFunctionOnSet(g, s)
           N == {s \in SUBSET S : F(s) \in Int /\ G(s) \in Int /\ -G(s) <= F(s) /\ F(s) <= G(s)}
<1>1. {} \in N
  <2>1. F({}) = 0 /\ G({}) = 0
    BY SumEmpty
  <2>2. \A x \in Int : x = 0 => -x <= 0
    OBVIOUS
  <2> HIDE DEF F, G
  <2>3. QED
    BY <2>1, <2>2
<1>2. ASSUME NEW s \in SUBSET S, s # {}, \A x \in s : s \ {x} \in N
      PROVE  s \in N
  <2>1. IsFiniteSet(s)
    BY FS_Subset
  <2>2. PICK x \in s : TRUE
    BY <1>2
  <2>3. PICK q : q = s \ {x}
    OBVIOUS
  <2>4. \A e \in s : f[e] \in Int
    OBVIOUS
  <2>5. \A e \in s : g[e] \in Int
    OBVIOUS
  <2>6. \A e \in s : F(s) = f[e] + F(s \ {e})
    BY <2>1, <2>4, SumRemove
  <2>7. \A e \in s : G(s) = g[e] + G(s \ {e})
    BY <2>1, <2>5, SumRemove
  <2>8. s \ {x} \in N
    BY <1>2, <2>2
  <2>9. PICK a \in Int, b \in Int, y \in Int, z \in Int :
          /\ a = F(q) /\ b = G(q) /\ y = f[x] /\ z = g[x]
          /\ -b <= a /\ a <= b /\ -z <= y /\ y <= z
    <3>1. F(q) \in Int /\ G(q) \in Int /\ -G(q) <= F(q) /\ F(q) <= G(q)
      BY <2>3, <2>8
    <3>2. f[x] \in Int /\ g[x] \in Int /\ -g[x] <= f[x] /\ f[x] <= g[x]
      BY <2>2
    <3> HIDE DEF F, G
    <3>3. QED
      BY <3>1, <3>2
  <2>10. F(s) = y + a /\ G(s) = z + b
    BY <2>2, <2>3, <2>6, <2>7, <2>9
  <2> HIDE DEF F, G
  <2>11. y + a \in Int /\ z + b \in Int /\ -(z + b) <= y + a /\ y + a <= z + b
    BY <2>9
  <2>12. QED
    BY <2>10, <2>11
<1>3. \A s \in SUBSET S : s \in N
  <2> HIDE DEF N
  <2> QED BY <1>1, <1>2, SetInduction
<1>4. QED
  BY <1>3

LEMMA NormType ==
  ASSUME NEW x \in Word
  PROVE  Norm(x) \in Nat /\ Centered(x) \in Int /\ -Norm(x) <= Centered(x) /\ Centered(x) <= Norm(x)
BY OwnClass DEF Abs

\* A word in the class of a number is no longer than the number.
LEMMA ClassNorm ==
  ASSUME NEW y \in Word, NEW x \in Int, Cong(Pow2[W], y, x), NEW B \in Int, -B <= x, x <= B
  PROVE  Norm(y) <= B
<1>1. PICK m \in Nat : m = Pow2[W] /\ m > 0
  BY RingFacts
<1>2. y \in Int /\ y % m = y
  BY <1>1, WordFacts
<1>3. y = x % m
  BY <1>1, <1>2, CongSame
<1>4. Norm(x % m) <= Abs(x)
  BY <1>1, CenteredFacts
<1>5. Norm(y) \in Nat
  BY NormType
<1>6. Abs(x) \in Int /\ Abs(x) <= B
  BY DEF Abs
<1>7. QED
  BY <1>3, <1>4, <1>5, <1>6

LEMMA ShortPlus ==
  ASSUME NEW a \in Polys, NEW b \in Polys, NEW Aa \in Nat, NEW B \in Nat, Short(a, Aa), Short(b, B)
  PROVE  Short(Plus(a, b), Aa + B)
<1>1. PICK m \in Nat : m = Pow2[W] /\ m > 0
  BY RingFacts
<1>2. PICK p \in Polys : p = Plus(a, b)
  BY PlusFacts
<1>3. ASSUME NEW k \in Exps PROVE Norm(p[k]) <= Aa + B
  <2>1. a[k] \in Word /\ b[k] \in Word /\ p[k] \in Word
    BY PolyFacts
  <2>2. PICK x \in Int, y \in Int, z \in Int : x = a[k] /\ y = b[k] /\ z = p[k]
    BY PolyFacts
  <2>3. PICK c \in Int, d \in Int : c = Centered(x) /\ d = Centered(y) /\ Cong(m, c, x) /\ Cong(m, d, y)
    BY <1>1, <2>1, <2>2, OwnClass
  <2>4. -Aa <= c /\ c <= Aa /\ -B <= d /\ d <= B
    <3>1. Norm(x) <= Aa /\ Norm(y) <= B
      BY <2>2 DEF Short
    <3>2. Norm(x) \in Nat /\ -Norm(x) <= c /\ c <= Norm(x) /\ Norm(y) \in Nat /\ -Norm(y) <= d /\ d <= Norm(y)
      BY <2>1, <2>2, <2>3, NormType
    <3>3. QED
      BY <3>1, <3>2
  <2>5. Cong(m, z, x + y)
    BY <1>1, <1>2, <2>2, PlusFacts
  <2>6. Cong(m, c + d, x + y)
    BY <2>3, CongAdd
  <2>7. PICK e \in Int, f \in Int : e = x + y /\ f = c + d
    OBVIOUS
  <2>8. Cong(m, z, f)
    BY <2>5, <2>6, <2>7, CongSym, CongTrans
  <2>9. PICK C \in Int : C = Aa + B /\ -C <= f /\ f <= C
    BY <2>4, <2>7
  <2>10. Norm(z) <= C
    BY <1>1, <2>1, <2>2, <2>8, <2>9, ClassNorm
  <2>11. QED
    BY <2>2, <2>9, <2>10
<1>4. QED
  BY <1>2, <1>3 DEF Short

\* A product is no longer than the one norm times the other factor.
LEMMA ShortTimes ==
  ASSUME NEW a \in Polys, NEW x \in Polys, NEW B \in Nat, Short(a, B)
  PROVE  L1(x) \in Nat /\ Short(Times(a, x), L1(x) * B)
<1>1. PICK m \in Nat : m = Pow2[W] /\ m > 0
  BY RingFacts
<1>2. PICK c : c = [l \in Exps |-> Centered(a[l])]
  OBVIOUS
<1>3. ASSUME NEW l \in Exps
      PROVE  /\ a[l] \in Int /\ c[l] \in Int /\ Cong(m, a[l], c[l]) /\ -B <= c[l] /\ c[l] <= B
             /\ x[l] \in Int /\ Centered(x[l]) \in Int /\ Cong(m, x[l], Centered(x[l]))
             /\ Norm(x[l]) \in Nat /\ -Norm(x[l]) <= Centered(x[l]) /\ Centered(x[l]) <= Norm(x[l])
  <2>1. a[l] \in Word /\ x[l] \in Word
    BY PolyFacts
  <2>2. PICK y \in Word, d \in Int : y = a[l] /\ d = c[l] /\ d = Centered(y)
    BY <1>2, <2>1, NormType
  <2>3. y \in Int /\ Cong(m, y, d)
    BY <1>1, <2>2, OwnClass, CongSym
  <2>4. Norm(y) <= B /\ Norm(y) \in Nat /\ -Norm(y) <= d /\ d <= Norm(y)
    BY <2>2, NormType DEF Short
  <2>5. -B <= d /\ d <= B
    BY <2>4
  <2>6. PICK z \in Word : z = x[l]
    BY <2>1
  <2>7. z \in Int /\ Centered(z) \in Int /\ Cong(m, Centered(z), z)
    BY <1>1, OwnClass
  <2>8. Cong(m, z, Centered(z))
    BY <2>7, CongSym
  <2>9. QED
    BY <2>2, <2>3, <2>5, <2>6, <2>7, <2>8, NormType
<1>4. PICK norms : norms = [l \in Exps |-> Norm(x[l])]
  OBVIOUS
<1>5. PICK n \in Nat : n = L1(x) /\ n = SumFunctionOnSet(norms, Exps)
  <2>1. PICK zeros : zeros = [l \in Exps |-> 0]
    OBVIOUS
  <2>2. \A l \in Exps : norms[l] \in Int /\ norms[l] \in Nat
    BY <1>3, <1>4
  <2>3. \A l \in Exps : norms[l] \in Int /\ norms[l] \in Int /\ -norms[l] <= norms[l] /\ norms[l] <= norms[l]
    BY <2>2
  <2>4. IsFiniteSet(Exps)
    BY RingFacts
  <2>5. /\ SumFunctionOnSet(norms, Exps) \in Int
        /\ -SumFunctionOnSet(norms, Exps) <= SumFunctionOnSet(norms, Exps)
    BY <2>3, <2>4, SumBound
  <2>6. PICK e \in Int : e = SumFunctionOnSet(norms, Exps) /\ -e <= e
    BY <2>5
  <2>7. e \in Nat
    BY <2>6
  <2>8. QED
    BY <1>4, <2>6, <2>7 DEF L1
<1>6. ASSUME NEW k \in Exps PROVE Norm(Times(x, a)[k]) <= n * B
  <2>1. PICK h : h = [i \in Exps |-> x[i] * Turned(i, a, k)]
    OBVIOUS
  <2>2. PICK f : f = [i \in Exps |-> Centered(x[i]) * Turned(i, c, k)]
    OBVIOUS
  <2>3. PICK g : g = [i \in Exps |-> B * norms[i]]
    OBVIOUS
  <2>4. ASSUME NEW i \in Exps
        PROVE  /\ f[i] \in Int /\ g[i] \in Int /\ h[i] \in Int /\ norms[i] \in Int
               /\ Cong(m, h[i], f[i]) /\ -g[i] <= f[i] /\ f[i] <= g[i]
    <3>1. PICK y \in Int, z \in Int : y = Turned(i, a, k) /\ z = Turned(i, c, k)
      BY <1>3, TurnedType
    <3>2. PICK p \in Int, q \in Int, s \in Nat :
            /\ p = x[i] /\ q = Centered(x[i]) /\ s = norms[i] /\ Cong(m, p, q) /\ -s <= q /\ q <= s
      BY <1>3, <1>4
    <3>3. Cong(m, y, z)
      <4>1. PICK o \in Int, e \in Int : o = 1 /\ e = 0
        OBVIOUS
      <4>2. \A l \in Exps : o * c[l] + e * c[l] = c[l]
        BY <1>3, <4>1
      <4>3. \A l \in Exps : /\ c[l] \in Int /\ c[l] \in Int /\ a[l] \in Int
                            /\ Cong(m, a[l], o * c[l] + e * c[l])
        BY <1>3, <4>2
      <4>4. Cong(m, Turned(i, a, k), o * Turned(i, c, k) + e * Turned(i, c, k))
        BY <4>3, TurnedLinear
      <4>5. o * z + e * z = z
        BY <4>1
      <4>6. QED
        BY <3>1, <4>4, <4>5
    <3>4. -B <= z /\ z <= B
      <4>1. CASE i <= k
        <5>1. PICK l \in Exps : l = k - i
          BY <4>1, Turns
        <5>2. z = c[l]
          BY <3>1, <4>1, <5>1 DEF Turned
        <5>3. QED
          BY <1>3, <5>2
      <4>2. CASE ~(i <= k)
        <5>1. PICK l \in Exps : l = k - i + D
          BY <4>2, Turns
        <5>2. PICK d \in Int : d = c[l] /\ -B <= d /\ d <= B
          BY <1>3
        <5>3. z = -d
          BY <3>1, <4>2, <5>1, <5>2 DEF Turned
        <5>4. QED
          BY <5>2, <5>3
      <4>3. QED
        BY <4>1, <4>2
    <3>5. Cong(m, p * y, q * z)
      BY <3>2, <3>3, CongMul
    <3>6. -(B * s) <= q * z /\ q * z <= B * s
      <4>1. CASE q >= 0
        <5>1. q * z <= q * B /\ q * (-B) <= q * z
          BY <3>4, <4>1
        <5>2. q * B <= s * B
          BY <3>2
        <5>3. PICK u1 \in Int, u2 \in Int, u3 \in Int, u4 \in Int :
                u1 = q * z /\ u2 = q * B /\ u3 = s * B /\ u4 = q * (-B) /\ u4 = -u2 /\ u3 = B * s
          OBVIOUS
        <5>4. QED
          BY <5>1, <5>2, <5>3
      <4>2. CASE q < 0
        <5>0. PICK e \in Nat : e = -q /\ e <= s
          BY <3>2, <4>2
        <5>1. e * z <= e * B /\ e * (-B) <= e * z
          BY <3>4
        <5>2. e * B <= s * B
          BY <5>0
        <5>3. PICK u1 \in Int, u2 \in Int, u3 \in Int, u4 \in Int :
                u1 = e * z /\ u2 = e * B /\ u3 = s * B /\ u4 = e * (-B) /\ u4 = -u2 /\ u3 = B * s
          OBVIOUS
        <5>4. q * z = -u1
          BY <5>0, <5>3
        <5>5. QED
          BY <5>1, <5>2, <5>3, <5>4
      <4>3. QED
        BY <4>1, <4>2
    <3>7. f[i] = q * z /\ g[i] = B * s /\ h[i] = p * y
      BY <2>1, <2>2, <2>3, <3>1, <3>2
    <3>8. q * z \in Int /\ B * s \in Int /\ p * y \in Int
      OBVIOUS
    <3>9. QED
      BY <3>2, <3>5, <3>6, <3>7, <3>8
  <2>5. IsFiniteSet(Exps)
    BY RingFacts
  <2>6. /\ SumFunctionOnSet(f, Exps) \in Int /\ SumFunctionOnSet(g, Exps) \in Int
        /\ -SumFunctionOnSet(g, Exps) <= SumFunctionOnSet(f, Exps)
        /\ SumFunctionOnSet(f, Exps) <= SumFunctionOnSet(g, Exps)
    BY <2>4, <2>5, SumBound
  <2>7. Cong(m, SumFunctionOnSet(h, Exps), SumFunctionOnSet(f, Exps))
    BY <2>4, <2>5, SumCong
  <2>8. SumFunctionOnSet(g, Exps) = B * n
    <3>1. PICK z \in Nat : z = 0
      OBVIOUS
    <3>2. \A i \in Exps : norms[i] \in Int /\ g[i] \in Int /\ Cong(z, g[i], B * norms[i])
      <4>1. SUFFICES ASSUME NEW i \in Exps PROVE Cong(z, g[i], B * norms[i])
        BY <2>4
      <4>2. PICK e \in Int, d \in Int : e = g[i] /\ d = B * norms[i] /\ e = d
        BY <2>3, <2>4
      <4>3. e = d
        BY <4>2
      <4>4. Cong(z, e, d)
        BY <4>3, CongRefl
      <4>5. QED
        BY <4>2, <4>4
    <3>3. Cong(z, SumFunctionOnSet(g, Exps), B * SumFunctionOnSet(norms, Exps))
      <4>1. PICK b \in Int : b = B
        OBVIOUS
      <4>2. \A i \in Exps : norms[i] \in Int /\ g[i] \in Int /\ Cong(z, g[i], b * norms[i])
        BY <3>2, <4>1
      <4>3. Cong(z, SumFunctionOnSet(g, Exps), b * SumFunctionOnSet(norms, Exps))
        BY <2>5, <4>2, SumScaled
      <4>4. QED
        BY <4>1, <4>3
    <3>4. PICK e \in Int : SumFunctionOnSet(g, Exps) = B * n + z * e
      BY <1>5, <3>3 DEF Cong
    <3>5. z * e = 0
      BY <3>1
    <3>6. QED
      BY <3>4, <3>5
  <2>9. PICK y \in Word, hs \in Int, fs \in Int :
          y = Times(x, a)[k] /\ hs = SumFunctionOnSet(h, Exps) /\ fs = SumFunctionOnSet(f, Exps)
    <3>1. \A i \in Exps : h[i] \in Int
      BY <2>4
    <3>2. SumFunctionOnSet(h, Exps) \in Int
      BY <2>5, <3>1, SumType
    <3>3. Times(x, a)[k] \in Word
      BY TimesType, PolyFacts
    <3>4. QED
      BY <2>6, <3>2, <3>3
  <2>10. Cong(m, y, hs)
    <3>1. \A l \in Exps : x[l] \in Int /\ a[l] \in Int
      BY PolyFacts
    <3>2. Conv(x, a, k) = hs
      BY <2>1, <2>9 DEF Conv
    <3>3. QED
      BY <1>1, <2>9, <3>1, <3>2, TimesFacts
  <2>11. PICK C \in Int : C = B * n /\ C = n * B /\ -C <= fs /\ fs <= C
    BY <2>6, <2>8, <2>9
  <2>12. Cong(m, hs, fs) /\ y \in Int
    BY <2>7, <2>9, RingFacts
  <2>13. Cong(m, y, fs)
    BY <2>10, <2>12, CongTrans
  <2>14. Norm(y) <= C
    BY <1>1, <2>11, <2>13, ClassNorm
  <2>15. QED
    BY <2>9, <2>11, <2>14
<1>7. Times(a, x) = Times(x, a)
  BY PolyCommutes
<1>8. QED
  BY <1>5, <1>6, <1>7 DEF Short

\* The bound is what Horner's rule adds up.
LEMMA NormBounds ==
  ASSUME NEW l1 \in Nat
  PROVE  \E bound \in [Nat -> Nat] :
           /\ SplittingNormBound(l1) = bound[NumDigits] /\ bound[0] = 0
           /\ \A n \in Nat : bound[n + 1] = l1 * bound[n] + Pow2[DigitBits - 1]
<1>1. PICK h \in Nat : h = Pow2[DigitBits - 1]
  BY DigitFacts
<1> DEFINE Terms(g) == g = [n \in Nat |-> IF n = 0 THEN 1 ELSE g[n - 1] * l1]
           Totals(c, g) == g = [n \in Nat |-> IF n = 0 THEN 0 ELSE g[n - 1] + c[n - 1] * h]
<1>2. PICK term : Terms(term) /\ \A n \in Nat : term[n] \in Nat
  PROOF
  <2> DEFINE f == [p \in Nat \X Nat |-> p[2] * l1]
  <2>1. PICK g : Recursion(1, f, Nat, g)
    BY RecursionExists
  <2>2. g[0] = 1 /\ \A n \in Nat : n # 0 => g[n] = f[<<n, g[n - 1]>>]
    BY <2>1 DEF Recursion
  <2> DEFINE N == {n \in Nat : g[n] \in Nat}
  <2>3. 0 \in N
    BY <2>2
  <2>4. ASSUME NEW n \in Nat, n \in N PROVE n + 1 \in N
    <3>1. n + 1 \in Nat /\ n + 1 # 0 /\ (n + 1) - 1 = n
      OBVIOUS
    <3>2. g[n + 1] = f[<<n + 1, g[n]>>]
      BY <2>2, <3>1
    <3>3. g[n + 1] = g[n] * l1
      BY <2>4, <3>1, <3>2
    <3>4. QED
      BY <2>4, <3>3
  <2>5. \A n \in Nat : n \in N
    <3> HIDE DEF N
    <3> QED BY <2>3, <2>4, NatSetInduction
  <2>6. \A n \in Nat : g[n] = IF n = 0 THEN 1 ELSE g[n - 1] * l1
    <3>1. SUFFICES ASSUME NEW n \in Nat, n # 0 PROVE g[n] = g[n - 1] * l1
      BY <2>2
    <3>2. n - 1 \in Nat /\ g[n - 1] \in Nat
      BY <2>5, <3>1
    <3>3. QED
      BY <2>2, <3>1, <3>2
  <2>7. g = [n \in Nat |-> g[n]]
    BY <2>1 DEF Recursion
  <2> HIDE DEF f
  <2>8. Terms(g)
    BY <2>6, <2>7, Zenon
  <2>9. QED
    BY <2>5, <2>8
<1>3. ASSUME NEW c, \A n \in Nat : c[n] \in Nat
      PROVE  \E g : Totals(c, g)
  <2> DEFINE f == [p \in Nat \X Nat |-> p[2] + c[p[1] - 1] * h]
  <2>1. PICK g : Recursion(0, f, Nat, g)
    BY RecursionExists
  <2>2. g[0] = 0 /\ \A n \in Nat : n # 0 => g[n] = f[<<n, g[n - 1]>>]
    BY <2>1 DEF Recursion
  <2> DEFINE N == {n \in Nat : g[n] \in Nat}
  <2>3. 0 \in N
    BY <2>2
  <2>4. ASSUME NEW n \in Nat, n \in N PROVE n + 1 \in N
    <3>1. n + 1 \in Nat /\ n + 1 # 0 /\ (n + 1) - 1 = n
      OBVIOUS
    <3>2. g[n + 1] = f[<<n + 1, g[n]>>]
      BY <2>2, <3>1
    <3>3. g[n + 1] = g[n] + c[n] * h
      BY <2>4, <3>1, <3>2
    <3>4. c[n] \in Nat
      BY <1>3
    <3>5. QED
      BY <2>4, <3>3, <3>4
  <2>5. \A n \in Nat : n \in N
    <3> HIDE DEF N
    <3> QED BY <2>3, <2>4, NatSetInduction
  <2>6. \A n \in Nat : g[n] = IF n = 0 THEN 0 ELSE g[n - 1] + c[n - 1] * h
    <3>1. SUFFICES ASSUME NEW n \in Nat, n # 0 PROVE g[n] = g[n - 1] + c[n - 1] * h
      BY <2>2
    <3>2. n - 1 \in Nat /\ g[n - 1] \in Nat
      BY <2>5, <3>1
    <3>3. QED
      BY <2>2, <3>1, <3>2
  <2>7. g = [n \in Nat |-> g[n]]
    BY <2>1 DEF Recursion
  <2> HIDE DEF f
  <2>8. Totals(c, g)
    BY <2>6, <2>7, Zenon
  <2>9. QED
    BY <2>8
<1>4. PICK tt : tt = CHOOSE g : Terms(g)
  OBVIOUS
<1>5. Terms(tt)
  BY <1>2, <1>4, Zenon
<1>6. tt[0] = 1 /\ \A n \in Nat : tt[n + 1] = tt[n] * l1
  <2>1. \A n \in Nat : tt[n] = IF n = 0 THEN 1 ELSE tt[n - 1] * l1
    BY <1>5
  <2>2. \A n \in Nat : n + 1 \in Nat /\ n + 1 # 0 /\ (n + 1) - 1 = n
    OBVIOUS
  <2>3. QED
    BY <2>1, <2>2
<1>7. \A n \in Nat : tt[n] \in Nat
  <2> DEFINE N == {n \in Nat : tt[n] \in Nat}
  <2>1. 0 \in N
    BY <1>6
  <2>2. ASSUME NEW n \in Nat, n \in N PROVE n + 1 \in N
    <3>1. tt[n + 1] = tt[n] * l1 /\ tt[n] \in Nat
      BY <1>6, <2>2
    <3>2. QED
      BY <3>1
  <2>3. \A n \in Nat : n \in N
    <3> HIDE DEF N
    <3> QED BY <2>1, <2>2, NatSetInduction
  <2>4. QED
    BY <2>3
<1>8. PICK bb : bb = CHOOSE g : Totals(tt, g)
  OBVIOUS
<1>9. Totals(tt, bb)
  <2>1. \E g : Totals(tt, g)
    BY <1>3, <1>7
  <2>2. QED
    BY <1>8, <2>1, Zenon
<1>10. bb[0] = 0 /\ \A n \in Nat : bb[n + 1] = bb[n] + tt[n] * h
  <2>1. \A n \in Nat : bb[n] = IF n = 0 THEN 0 ELSE bb[n - 1] + tt[n - 1] * h
    BY <1>9
  <2>2. \A n \in Nat : n + 1 \in Nat /\ n + 1 # 0 /\ (n + 1) - 1 = n
    OBVIOUS
  <2>3. QED
    BY <2>1, <2>2
<1>11. SplittingNormBound(l1) = bb[NumDigits]
  BY <1>1, <1>4, <1>8 DEF SplittingNormBound
<1> DEFINE N == {n \in Nat : bb[n] \in Nat /\ bb[n + 1] = l1 * bb[n] + h}
<1>12. 0 \in N
  <2>1. bb[0 + 1] = 0 + 1 * h /\ bb[0] = 0
    BY <1>6, <1>10
  <2>2. 0 + 1 * h = l1 * 0 + h
    OBVIOUS
  <2>3. QED
    BY <2>1, <2>2
<1>13. ASSUME NEW n \in Nat, n \in N PROVE n + 1 \in N
  <2>1. PICK b0 \in Nat, t0 \in Nat, b1 \in Nat : b0 = bb[n] /\ t0 = tt[n] /\ b1 = bb[n + 1] /\ b1 = l1 * b0 + h
    <3>1. bb[n] \in Nat /\ tt[n] \in Nat /\ bb[n + 1] = l1 * bb[n] + h
      BY <1>7, <1>13
    <3>2. l1 * bb[n] + h \in Nat
      BY <3>1
    <3>3. QED
      BY <3>1, <3>2
  <2>2. b1 = b0 + t0 * h
    BY <1>10, <2>1
  <2>3. bb[(n + 1) + 1] = b1 + (t0 * l1) * h
    <3>1. PICK i \in Nat : i = n + 1
      OBVIOUS
    <3>2. bb[i + 1] = bb[i] + tt[i] * h /\ bb[i] = b1 /\ tt[i] = t0 * l1
      BY <1>6, <1>10, <2>1, <3>1
    <3>3. QED
      BY <3>1, <3>2
  <2>4. l1 * b1 = l1 * b0 + (t0 * l1) * h
    BY <2>2
  <2>5. bb[(n + 1) + 1] = l1 * b1 + h
    <3>1. PICK x \in Int, y \in Int, z \in Int : x = l1 * b0 /\ y = (t0 * l1) * h /\ z = l1 * b1
      OBVIOUS
    <3>2. QED
      BY <2>1, <2>3, <2>4, <3>1
  <2>6. n + 1 \in Nat /\ bb[n + 1] \in Nat /\ bb[(n + 1) + 1] = l1 * bb[n + 1] + h
    BY <2>1, <2>5
  <2>7. QED
    BY <2>6
<1>14. \A n \in Nat : n \in N
  <2> HIDE DEF N
  <2> QED BY <1>12, <1>13, NatSetInduction
<1>15. PICK bound : bound = [n \in Nat |-> bb[n]]
  OBVIOUS
<1>16. bound \in [Nat -> Nat] /\ \A n \in Nat : bound[n] = bb[n]
  BY <1>14, <1>15
<1>17. NumDigits \in Nat /\ \A n \in Nat : n + 1 \in Nat
  BY DigitFacts
<1>18. bound[0] = 0 /\ SplittingNormBound(l1) = bound[NumDigits]
  BY <1>10, <1>11, <1>16, <1>17
<1>19. \A n \in Nat : bound[n + 1] = l1 * bound[n] + h
  BY <1>14, <1>16, <1>17
<1>20. QED
  BY <1>1, <1>16, <1>18, <1>19

LEMMA BallFacts ==
  ASSUME NEW l1 \in Nat, NEW x \in Ball(l1)
  PROVE  x \in Polys /\ L1(x) <= l1
<1>1. PICK m \in Nat : m = Pow2[W] /\ m > 1
  BY RingFacts
<1>2. {0, 1, m - 1} \subseteq Word
  BY <1>1 DEF Word
<1>3. QED
  BY <1>1, <1>2 DEF Ball, Polys

\* The honest answer passes the gate, for every challenge.
LEMMA AnswerShort ==
  ASSUME NEW a \in Polys, NEW l1 \in Nat, NEW x \in Ball(l1)
  PROVE  Short(Horner(DecomposeBalanced(a), x), SplittingNormBound(l1))
<1>1. PICK Top \in Nat, h \in Nat : Top = NumDigits /\ h = Pow2[DigitBits - 1]
  BY DigitFacts
<1>2. PICK s \in [1 .. NumDigits -> Polys] : s = DecomposeBalanced(a)
  BY DigitsType
<1>3. \A i \in 1 .. Top : s[i] \in Polys /\ Short(s[i], h)
  BY <1>1, <1>2, DigitsType
<1>4. x \in Polys /\ L1(x) <= l1
  BY BallFacts
<1>5. PICK acc : HornerStep(s, x, acc) /\ Horner(s, x) = acc[Top]
  BY <1>1, HornerSteps
<1>6. \A n \in 0 .. Top : acc[n] \in Polys
  BY <1>1, <1>4, <1>5, HornerType
<1>7. PICK bound \in [Nat -> Nat] :
        /\ SplittingNormBound(l1) = bound[Top] /\ bound[0] = 0
        /\ \A n \in Nat : bound[n + 1] = l1 * bound[n] + h
  BY <1>1, NormBounds
<1> DEFINE N == {n \in Nat : n <= Top => Short(acc[n], bound[n])}
<1>8. 0 \in N
  <2>1. acc[0] = Constant(0) /\ \A k \in Exps : Constant(0)[k] = 0
    BY <1>4, <1>5, ZeroLaws DEF HornerStep
  <2>2. Norm(0) = 0
    <3>1. PICK h1 \in Nat : h1 = Pow2[W - 1]
      BY PowFacts
    <3>2. Centered(0) = 0
      BY <3>1 DEF Centered
    <3>3. QED
      BY <3>2 DEF Norm, Abs
  <2>3. \A k \in Exps : Norm(acc[0][k]) = 0
    BY <2>1, <2>2
  <2>4. bound[0] = 0
    BY <1>7
  <2>5. Short(acc[0], 0)
    BY <2>3 DEF Short
  <2>6. QED
    BY <2>4, <2>5
<1>9. ASSUME NEW n \in Nat, n \in N PROVE n + 1 \in N
  <2>1. SUFFICES ASSUME n + 1 <= Top PROVE Short(acc[n + 1], bound[n + 1])
    OBVIOUS
  <2>2. PICK i \in 1 .. Top : i = Top + 1 - (n + 1)
    BY <2>1
  <2>3. n \in 0 .. Top /\ n + 1 \in 1 .. Top /\ (n + 1) - 1 = n
    BY <2>1
  <2>4. PICK p \in Polys, d \in Polys, b \in Nat : p = acc[n] /\ d = s[i] /\ b = bound[n]
    BY <1>3, <1>6, <2>3
  <2>5. Short(p, b) /\ Short(d, h)
    BY <1>3, <1>9, <2>1, <2>4
  <2>6. PICK l \in Nat : l = L1(x) /\ l <= l1 /\ Short(Times(p, x), l * b)
    BY <1>4, <2>5, ShortTimes
  <2>7. PICK c \in Nat : c = l * b /\ c <= l1 * b
    <3>1. PICK d1 \in Nat : l1 = l + d1
      <4>1. l <= l1
        BY <2>6
      <4>2. PICK d2 \in Int : d2 = l1 - l
        OBVIOUS
      <4>3. d2 \in Nat /\ l1 = l + d2
        BY <4>1, <4>2
      <4>4. QED
        BY <4>3
    <3>2. l1 * b = l * b + d1 * b
      BY <3>1
    <3>3. l * b \in Nat /\ d1 * b \in Nat
      OBVIOUS
    <3>4. l * b <= l1 * b
      BY <3>2, <3>3
    <3>5. QED
      BY <3>3, <3>4
  <2>8. PICK q \in Polys : q = Plus(Times(p, x), d)
    BY <1>4, TimesType, PlusFacts
  <2>9. Short(q, c + h)
    <3>1. Times(p, x) \in Polys /\ Short(Times(p, x), c)
      BY <1>4, <2>6, <2>7, TimesType
    <3>2. QED
      BY <2>5, <2>8, <3>1, ShortPlus
  <2>10. PICK e \in Int : e = l1 * b
    OBVIOUS
  <2>11. acc[n + 1] = q
    BY <1>1, <1>5, <2>2, <2>3, <2>4, <2>8 DEF HornerStep
  <2>12. bound[n + 1] = e + h /\ c + h <= e + h
    <3>1. bound[n + 1] = l1 * bound[n] + h
      BY <1>7
    <3>2. bound[n + 1] = e + h
      BY <2>4, <2>10, <3>1
    <3>3. QED
      BY <2>7, <2>10, <3>2
  <2>13. ASSUME NEW k \in Exps PROVE Norm(q[k]) <= e + h
    <3>1. q[k] \in Word
      BY PolyFacts
    <3>2. Norm(q[k]) \in Nat
      BY <3>1, NormType
    <3>3. Norm(q[k]) <= c + h
      BY <2>9 DEF Short
    <3>4. QED
      BY <2>12, <3>2, <3>3
  <2>14. QED
    BY <2>11, <2>12, <2>13 DEF Short
<1>10. \A n \in Nat : n \in N
  <2> HIDE DEF N
  <2> QED BY <1>8, <1>9, NatSetInduction
<1>11. QED
  BY <1>2, <1>5, <1>7, <1>10

-----------------------------------------------------------------------------
(***************************************************************************)
(* The fold: what is committed, drawn and answered, by whom.               *)
(***************************************************************************)
FoldBase ==
  /\ key \in Polys /\ w1 \in Polys /\ w2 \in Polys /\ honest \in BOOLEAN
  /\ phase \in {"fold", "commit", "query", "answer", "sent", "verified"}

\* By phases: what has been sent so far.
FoldSent ==
  /\ phase # "fold" => r \in Ball(FoldL1)
  /\ phase \notin {"fold", "commit"} =>
       /\ proof.cPrime \in Polys /\ proof.comms \in [1 .. NumDigits -> Polys]
       /\ honest => /\ proof.cPrime = FoldedCommitment
                    /\ proof.comms = [i \in 1 .. NumDigits |-> Times(key, Digits[i])]
  /\ phase \in {"answer", "sent", "verified"} => zeta \in Ball(SplitL1)
  /\ phase \in {"sent", "verified"} =>
       /\ proof.dTilde \in Polys
       /\ honest => proof.dTilde = Horner(Digits, zeta)

FoldJudged ==
  /\ phase = "verified" => (verdict = "accept" <=> Accepts(zeta, proof.dTilde))
  /\ phase # "verified" => fork = None
  /\ fork # None => /\ verdict = "accept"
                    /\ fork.zeta \in Ball(SplitL1) /\ fork.dTilde \in Polys
                    /\ Accepts(fork.zeta, fork.dTilde)

FoldInv == FoldBase /\ FoldSent /\ FoldJudged

LEMMA FoldedType ==
  ASSUME FoldBase, r \in Ball(FoldL1)
  PROVE  /\ C1 \in Polys /\ C2 \in Polys /\ FoldedCommitment \in Polys /\ FoldedWitness \in Polys
         /\ Digits \in [1 .. NumDigits -> Polys]
         /\ FoldedCommitment = Times(key, FoldedWitness)
<1>1. r \in Polys /\ key \in Polys /\ w1 \in Polys /\ w2 \in Polys
  BY BallFacts, LatticeFoldAssumption DEF FoldBase
<1>2. C1 \in Polys /\ C2 \in Polys /\ FoldedCommitment \in Polys /\ FoldedWitness \in Polys
  BY <1>1, TimesType, PlusFacts DEF C1, C2, FoldedCommitment, FoldedWitness
<1>3. Digits \in [1 .. NumDigits -> Polys]
  BY <1>2, DigitsType DEF Digits
<1>4. FoldedCommitment = Times(key, FoldedWitness)
  <2>1. Times(r, w2) \in Polys
    BY <1>1, TimesType
  <2>2. Times(key, Plus(w1, Times(r, w2))) = Plus(Times(key, w1), Times(key, Times(r, w2)))
    BY <1>1, <2>1, TimesPlus
  <2>3. Times(key, Times(r, w2)) = Times(r, Times(key, w2))
    BY <1>1, TimesExchange
  <2>4. QED
    BY <2>2, <2>3 DEF FoldedCommitment, FoldedWitness, C1, C2
<1>5. QED
  BY <1>2, <1>3, <1>4

LEMMA FoldInit ==
  LatticeInit => FoldInv
<1>1. SUFFICES ASSUME LatticeInit PROVE FoldInv
  OBVIOUS
<1>2. FoldBase
  BY <1>1, LatticeFoldAssumption DEF LatticeInit, FoldBase
<1>3. phase = "fold" /\ fork = None
  BY <1>1 DEF LatticeInit
<1>4. QED
  BY <1>2, <1>3 DEF FoldInv, FoldSent, FoldJudged

LEMMA HornerIn ==
  ASSUME NEW s \in [1 .. NumDigits -> Polys], NEW x \in Polys
  PROVE  Horner(s, x) \in Polys
<1>1. PICK acc : HornerStep(s, x, acc) /\ Horner(s, x) = acc[NumDigits]
  BY HornerSteps
<1>2. NumDigits \in 0 .. NumDigits
  BY DigitFacts
<1>3. QED
  BY <1>1, <1>2, HornerType

\* What the code's own prover has sent is accepted.
LEMMA HonestAccepts ==
  ASSUME FoldBase, FoldSent, phase \in {"sent", "verified"}, honest
  PROVE  Accepts(zeta, proof.dTilde)
<1>1. /\ r \in Ball(FoldL1) /\ zeta \in Ball(SplitL1)
      /\ proof.cPrime = FoldedCommitment
      /\ proof.comms = [i \in 1 .. NumDigits |-> Times(key, Digits[i])]
      /\ proof.dTilde = Horner(Digits, zeta)
  BY DEF FoldSent
<1>2. FoldedWitness \in Polys /\ Digits \in [1 .. NumDigits -> Polys] /\ FoldedCommitment = Times(key, FoldedWitness)
  BY <1>1, FoldedType
<1>3. key \in Polys /\ zeta \in Polys /\ FoldL1 \in Nat /\ SplitL1 \in Nat
  BY <1>1, BallFacts, LatticeFoldAssumption DEF FoldBase
<1>4. PICK comms : comms = [i \in 1 .. NumDigits |-> Times(key, Digits[i])] /\ comms = proof.comms
  BY <1>1
<1>5. PICK s \in [1 .. NumDigits -> Polys] : s = Digits
  BY <1>2
<1>6. comms = [i \in 1 .. NumDigits |-> Times(key, s[i])]
  BY <1>4, <1>5
<1>7. Recompose(proof.comms) = proof.cPrime
  <2>1. PICK x \in Polys, P \in Int : P = Pow2[DigitBits] /\ x = Constant(P)
    <3>1. Pow2[DigitBits] \in Int
      BY DigitFacts
    <3>2. QED
      BY <1>3, <3>1, TimesConstant
  <2>2. Horner(comms, x) = Times(key, Horner(s, x))
    BY <1>3, <1>6, HornerCommutes
  <2>3. Recompose(s) = FoldedWitness
    BY <1>2, <1>5, DigitsExact DEF Digits
  <2>4. Recompose(comms) = Horner(comms, x) /\ Recompose(s) = Horner(s, x)
    BY <2>1 DEF Recompose
  <2>5. QED
    BY <1>1, <1>2, <1>4, <2>2, <2>3, <2>4
<1>8. Horner(proof.comms, zeta) = Times(key, proof.dTilde)
  <2>1. Horner(comms, zeta) = Times(key, Horner(s, zeta))
    BY <1>3, <1>6, HornerCommutes
  <2>2. QED
    BY <1>1, <1>4, <1>5, <2>1
<1>9. Short(proof.dTilde, SplittingNormBound(SplitL1))
  BY <1>1, <1>2, <1>3, AnswerShort DEF Digits
<1>10. QED
  BY <1>1, <1>7, <1>8, <1>9 DEF Accepts

\* The terms of the fold change only with what they are of.
LEMMA FoldFrame ==
  ASSUME UNCHANGED <<key, w1, w2, r>>
  PROVE  FoldedCommitment' = FoldedCommitment /\ FoldedWitness' = FoldedWitness /\ Digits' = Digits
<1>1. C1' = C1 /\ C2' = C2
  BY DEF C1, C2, Times
<1>2. FoldedCommitment' = FoldedCommitment /\ FoldedWitness' = FoldedWitness
  BY <1>1 DEF FoldedCommitment, FoldedWitness
<1>3. QED
  BY <1>2 DEF Digits

LEMMA FoldStep ==
  FoldInv /\ [LatticeNext]_latticeVars => FoldInv'
<1>1. SUFFICES ASSUME FoldBase, FoldSent, FoldJudged, [LatticeNext]_latticeVars
               PROVE  FoldBase' /\ FoldSent' /\ FoldJudged'
  BY DEF FoldInv
<1>2. CASE FoldChallenge
  <2>1. /\ phase = "fold" /\ r' \in Ball(FoldL1) /\ phase' = "commit"
        /\ UNCHANGED <<key, w1, w2, honest, proof, zeta, verdict, fork>>
    BY <1>2 DEF FoldChallenge
  <2>2. FoldBase'
    BY <1>1, <2>1 DEF FoldBase
  <2>3. FoldSent'
    BY <2>1 DEF FoldSent
  <2>4. FoldJudged'
    BY <1>1, <2>1 DEF FoldJudged
  <2>5. QED
    BY <2>2, <2>3, <2>4
<1>3. CASE CommitDigits
  <2>1. /\ phase = "commit" /\ honest /\ phase' = "query"
        /\ proof' = [cPrime |-> FoldedCommitment, comms |-> [i \in 1 .. NumDigits |-> Times(key, Digits[i])]]
        /\ UNCHANGED <<key, w1, w2, honest, r, zeta, verdict, fork>>
    BY <1>3 DEF CommitDigits
  <2>2. FoldBase'
    BY <1>1, <2>1 DEF FoldBase
  <2>3. r \in Ball(FoldL1)
    BY <1>1, <2>1 DEF FoldSent
  <2>4. FoldedCommitment' = FoldedCommitment /\ Digits' = Digits
    BY <2>1, FoldFrame
  <2>5. PICK comms : comms = [i \in 1 .. NumDigits |-> Times(key, Digits[i])]
    OBVIOUS
  <2>6. comms \in [1 .. NumDigits -> Polys]
    <3>1. Digits \in [1 .. NumDigits -> Polys] /\ key \in Polys
      BY <1>1, <2>3, FoldedType DEF FoldBase
    <3>2. \A i \in 1 .. NumDigits : Times(key, Digits[i]) \in Polys
      BY <3>1, TimesType
    <3>3. QED
      BY <2>5, <3>2
  <2>7. proof'.cPrime = FoldedCommitment /\ proof'.comms = comms /\ FoldedCommitment \in Polys
    BY <1>1, <2>1, <2>3, <2>5, FoldedType
  <2>8. proof'.comms = [i \in 1 .. NumDigits |-> Times(key', Digits'[i])]
    BY <2>1, <2>4, <2>5, <2>7
  <2>9. FoldSent'
    BY <2>1, <2>3, <2>4, <2>6, <2>7, <2>8 DEF FoldSent
  <2>10. FoldJudged'
    BY <1>1, <2>1 DEF FoldJudged
  <2>11. QED
    BY <2>2, <2>9, <2>10
<1>4. CASE ForgeDigits
  <2>1. /\ phase = "commit" /\ ~honest /\ phase' = "query"
        /\ UNCHANGED <<key, w1, w2, honest, r, zeta, verdict, fork>>
    BY <1>4 DEF ForgeDigits
  <2>2. FoldBase'
    BY <1>1, <2>1 DEF FoldBase
  <2>3. r \in Ball(FoldL1)
    BY <1>1, <2>1 DEF FoldSent
  <2>4. PICK cPrime \in Forged \cup {FoldedCommitment}, first \in Forged, rest \in [2 .. NumDigits -> Forged] :
          LET consistent == Minus(cPrime, Horner([i \in 1 .. NumDigits |-> IF i = 1 THEN Constant(0) ELSE rest[i]],
                                                 Constant(Pow2[DigitBits])))
          IN  \E c0 \in {first, consistent} :
                proof' = [cPrime |-> cPrime, comms |-> [i \in 1 .. NumDigits |-> IF i = 1 THEN c0 ELSE rest[i]]]
    BY <1>4 DEF ForgeDigits
  <2>5. PICK s, x : /\ s = [i \in 1 .. NumDigits |-> IF i = 1 THEN Constant(0) ELSE rest[i]]
                    /\ x = Constant(Pow2[DigitBits])
    OBVIOUS
  <2>6. PICK c0 \in {first, Minus(cPrime, Horner(s, x))} :
          proof' = [cPrime |-> cPrime, comms |-> [i \in 1 .. NumDigits |-> IF i = 1 THEN c0 ELSE rest[i]]]
    BY <2>4, <2>5
  <2>7. key \in Polys /\ Forged \subseteq Polys /\ cPrime \in Polys /\ first \in Polys
    BY <1>1, <2>3, FoldedType, LatticeFoldAssumption DEF FoldBase
  <2>8. \A i \in 1 .. NumDigits : i # 1 => rest[i] \in Polys
    <3>1. \A i \in 1 .. NumDigits : i # 1 => i \in 2 .. NumDigits
      BY DigitFacts
    <3>2. QED
      BY <2>7, <3>1
  <2>9. s \in [1 .. NumDigits -> Polys] /\ x \in Polys
    <3>1. Constant(0) \in Polys
      BY <2>7, ZeroLaws
    <3>2. Pow2[DigitBits] \in Int
      BY DigitFacts
    <3>3. x \in Polys
      BY <2>5, <2>7, <3>2, TimesConstant
    <3>4. QED
      BY <2>5, <2>8, <3>1, <3>3
  <2>10. Minus(cPrime, Horner(s, x)) \in Polys
    BY <2>7, <2>9, HornerIn, PlusFacts
  <2>11. c0 \in Polys
    BY <2>7, <2>10
  <2>12. proof'.cPrime \in Polys /\ proof'.comms \in [1 .. NumDigits -> Polys]
    <3>1. PICK comms : comms = [i \in 1 .. NumDigits |-> IF i = 1 THEN c0 ELSE rest[i]]
      OBVIOUS
    <3>2. comms \in [1 .. NumDigits -> Polys]
      BY <2>8, <2>11, <3>1
    <3>3. proof'.cPrime = cPrime /\ proof'.comms = comms
      BY <2>6, <3>1
    <3>4. QED
      BY <2>7, <3>2, <3>3
  <2>13. FoldSent'
    BY <2>1, <2>3, <2>12 DEF FoldSent
  <2>14. FoldJudged'
    BY <1>1, <2>1 DEF FoldJudged
  <2>15. QED
    BY <2>2, <2>13, <2>14
<1>5. CASE SplittingChallenge
  <2>1. /\ phase = "query" /\ zeta' \in Ball(SplitL1) /\ phase' = "answer"
        /\ UNCHANGED <<key, w1, w2, honest, r, proof, verdict, fork>>
    BY <1>5 DEF SplittingChallenge
  <2>2. FoldBase'
    BY <1>1, <2>1 DEF FoldBase
  <2>3. FoldedCommitment' = FoldedCommitment /\ Digits' = Digits
    BY <2>1, FoldFrame
  <2>4. FoldSent'
    BY <1>1, <2>1, <2>3 DEF FoldSent
  <2>5. FoldJudged'
    BY <1>1, <2>1 DEF FoldJudged
  <2>6. QED
    BY <2>2, <2>4, <2>5
<1>6. CASE Answer
  <2>1. /\ phase = "answer" /\ honest /\ phase' = "sent" /\ proof' = Answered(Horner(Digits, zeta))
        /\ UNCHANGED <<key, w1, w2, honest, r, zeta, verdict, fork>>
    BY <1>6 DEF Answer
  <2>2. FoldBase'
    BY <1>1, <2>1 DEF FoldBase
  <2>3. r \in Ball(FoldL1) /\ zeta \in Ball(SplitL1)
    BY <1>1, <2>1 DEF FoldSent
  <2>4. FoldedCommitment' = FoldedCommitment /\ Digits' = Digits
    BY <2>1, FoldFrame
  <2>5. Horner(Digits, zeta) \in Polys
    BY <1>1, <2>3, FoldedType, BallFacts, HornerIn, LatticeFoldAssumption
  <2>6. proof'.cPrime = proof.cPrime /\ proof'.comms = proof.comms /\ proof'.dTilde = Horner(Digits, zeta)
    BY <2>1 DEF Answered
  <2>7. FoldSent'
    BY <1>1, <2>1, <2>3, <2>4, <2>5, <2>6 DEF FoldSent
  <2>8. FoldJudged'
    BY <1>1, <2>1 DEF FoldJudged
  <2>9. QED
    BY <2>2, <2>7, <2>8
<1>7. CASE ForgeAnswer
  <2>1. /\ phase = "answer" /\ ~honest /\ phase' = "sent"
        /\ \E d \in Openings(zeta) \cup {Constant(1)} : proof' = Answered(d)
        /\ UNCHANGED <<key, w1, w2, honest, r, zeta, verdict, fork>>
    BY <1>7 DEF ForgeAnswer
  <2>2. FoldBase'
    BY <1>1, <2>1 DEF FoldBase
  <2>3. r \in Ball(FoldL1) /\ zeta \in Ball(SplitL1) /\ key \in Polys
    BY <1>1, <2>1 DEF FoldSent, FoldBase
  <2>4. PICK d \in Polys : proof' = Answered(d)
    <3>1. Constant(1) \in Polys
      BY <2>3, TimesConstant
    <3>2. Openings(zeta) \subseteq Polys
      BY DEF Openings
    <3>3. QED
      BY <2>1, <3>1, <3>2
  <2>5. proof'.cPrime = proof.cPrime /\ proof'.comms = proof.comms /\ proof'.dTilde = d
    BY <2>4 DEF Answered
  <2>6. FoldSent'
    BY <1>1, <2>1, <2>3, <2>5 DEF FoldSent
  <2>7. FoldJudged'
    BY <1>1, <2>1 DEF FoldJudged
  <2>8. QED
    BY <2>2, <2>6, <2>7
<1>8. CASE VerifyFold
  <2>1. /\ phase = "sent" /\ phase' = "verified"
        /\ verdict' = IF Accepts(zeta, proof.dTilde) THEN "accept" ELSE "reject"
        /\ UNCHANGED <<key, w1, w2, honest, r, proof, zeta, fork>>
    BY <1>8 DEF VerifyFold
  <2>2. FoldBase'
    BY <1>1, <2>1 DEF FoldBase
  <2>3. FoldedCommitment' = FoldedCommitment /\ Digits' = Digits
    BY <2>1, FoldFrame
  <2>4. FoldSent'
    BY <1>1, <2>1, <2>3 DEF FoldSent
  <2>5. Accepts(zeta, proof.dTilde)' <=> Accepts(zeta, proof.dTilde)
    BY <2>1, <2>3 DEF Accepts
  <2>6. fork' = None
    BY <1>1, <2>1 DEF FoldJudged
  <2>7. FoldJudged'
    BY <2>1, <2>5, <2>6 DEF FoldJudged
  <2>8. QED
    BY <2>2, <2>4, <2>7
<1>9. CASE Rewind
  <2>1. /\ phase = "verified" /\ verdict = "accept"
        /\ \E z \in Ball(SplitL1) \ {zeta} :
             \E d \in Openings(z) : Accepts(z, d) /\ fork' = [zeta |-> z, dTilde |-> d]
        /\ UNCHANGED <<key, w1, w2, honest, r, proof, zeta, phase, verdict>>
    BY <1>9 DEF Rewind
  <2>2. FoldBase'
    BY <1>1, <2>1 DEF FoldBase
  <2>3. FoldedCommitment' = FoldedCommitment /\ Digits' = Digits
    BY <2>1, FoldFrame
  <2>4. FoldSent'
    BY <1>1, <2>1, <2>3 DEF FoldSent
  <2>5. PICK z \in Ball(SplitL1), d \in Polys : Accepts(z, d) /\ fork' = [zeta |-> z, dTilde |-> d]
    BY <2>1 DEF Openings
  <2>6. fork'.zeta = z /\ fork'.dTilde = d
    BY <2>5
  <2>7. /\ Accepts(zeta, proof.dTilde)' <=> Accepts(zeta, proof.dTilde)
        /\ Accepts(fork.zeta, fork.dTilde)'
    BY <2>1, <2>3, <2>5, <2>6 DEF Accepts
  <2>8. FoldJudged'
    BY <1>1, <2>1, <2>5, <2>6, <2>7 DEF FoldJudged
  <2>9. QED
    BY <2>2, <2>4, <2>8
<1>10. CASE UNCHANGED latticeVars
  <2>1. UNCHANGED <<key, w1, w2, honest, r, proof, zeta, phase, verdict, fork>>
    BY <1>10 DEF latticeVars
  <2>2. FoldedCommitment' = FoldedCommitment /\ Digits' = Digits
    BY <2>1, FoldFrame
  <2>3. FoldBase'
    BY <1>1, <2>1 DEF FoldBase
  <2>4. FoldSent'
    BY <1>1, <2>1, <2>2 DEF FoldSent
  <2>5. /\ Accepts(zeta, proof.dTilde)' <=> Accepts(zeta, proof.dTilde)
        /\ Accepts(fork.zeta, fork.dTilde)' <=> Accepts(fork.zeta, fork.dTilde)
    BY <2>1, <2>2 DEF Accepts
  <2>6. FoldJudged'
    BY <1>1, <2>1, <2>5 DEF FoldJudged
  <2>7. QED
    BY <2>3, <2>4, <2>6
<1>11. QED
  BY <1>1, <1>2, <1>3, <1>4, <1>5, <1>6, <1>7, <1>8, <1>9, <1>10 DEF LatticeNext

\* Keys, witnesses, challenges, commitments and answers stay polynomials of
\* their kinds; what the code's own prover has sent is its folded commitment,
\* the commitments to its digits and their combination, and a verdict, as a
\* second answer, is what the four checks say (latticefold.rs:253-345).
THEOREM LatticeTyping == LatticeSpec => []FoldInv
<1>1. QED
  BY FoldInit, FoldStep, PTL DEF LatticeSpec

\* What prove_fold_decompose sends is accepted, for every modulus, degree,
\* digit width that divides it, key, witnesses and challenges: the digits
\* recompose exactly, and Horner's rule keeps their combination below the
\* bound the verifier computes (latticefold.rs:33-36, 74-80).
THEOREM HonestFolds == LatticeSpec => []HonestFoldVerifies
<1>1. FoldInv => HonestFoldVerifies
  <2>1. SUFFICES ASSUME FoldInv, phase = "verified", honest PROVE verdict = "accept"
    BY DEF HonestFoldVerifies
  <2>2. Accepts(zeta, proof.dTilde)
    BY <2>1, HonestAccepts DEF FoldInv
  <2>3. QED
    BY <2>1, <2>2 DEF FoldInv, FoldJudged
<1>2. QED
  BY <1>1, LatticeTyping, PTL

\* Horner's rule on two digits.
LEMMA HornerOfTwo ==
  ASSUME NumDigits = 2, NEW s \in [1 .. NumDigits -> Polys], NEW x \in Polys
  PROVE  /\ s[1] \in Polys /\ s[2] \in Polys
         /\ Horner(s, x) = Plus(Times(s[2], x), s[1])
<1>1. PICK acc : HornerStep(s, x, acc) /\ Horner(s, x) = acc[2]
  BY HornerSteps
<1>2. s[1] \in Polys /\ s[2] \in Polys
  OBVIOUS
<1>3. /\ 1 \in 1 .. NumDigits /\ 2 \in 1 .. NumDigits /\ 1 - 1 = 0 /\ 2 - 1 = 1
      /\ NumDigits + 1 - 1 = 2 /\ NumDigits + 1 - 2 = 1
  OBVIOUS
<1>4. /\ acc[0] = Constant(0)
      /\ acc[1] = Plus(Times(acc[1 - 1], x), s[NumDigits + 1 - 1])
      /\ acc[2] = Plus(Times(acc[2 - 1], x), s[NumDigits + 1 - 2])
  BY <1>1, <1>3 DEF HornerStep
<1>5. acc[1] = s[2]
  <2>1. acc[1] = Plus(Times(Constant(0), x), s[2])
    BY <1>3, <1>4
  <2>2. Times(Constant(0), x) = Constant(0)
    BY ZeroLaws
  <2>3. Plus(Constant(0), s[2]) = s[2]
    BY <1>2, ZeroLaws
  <2>4. QED
    BY <2>1, <2>2, <2>3
<1>6. acc[2] = Plus(Times(acc[1], x), s[1])
  BY <1>3, <1>4
<1>7. QED
  BY <1>1, <1>2, <1>5, <1>6

\* The two answers, by the laws of the ring: a, b are the challenges, d, e the
\* answers, c1, c2 the digit commitments and B the base.
Answers(k, a, b, d, e, c1, c2) ==
  Times(k, d) = Plus(Times(c2, a), c1) /\ Times(k, e) = Plus(Times(c2, b), c1)
Opens(k, a, b, d, e, c1, c2, B) ==
  /\ Times(Minus(a, b), c2) = Times(k, Minus(d, e))
  /\ Times(Minus(a, b), Plus(Times(c2, B), c1))
       = Times(k, Plus(Minus(Times(a, e), Times(b, d)), Times(B, Minus(d, e))))

LEMMA ForkAlgebra ==
  ASSUME NEW k \in Polys, NEW a \in Polys, NEW b \in Polys, NEW d \in Polys, NEW e \in Polys,
         NEW c1 \in Polys, NEW c2 \in Polys, NEW B \in Polys, Answers(k, a, b, d, e, c1, c2)
  PROVE  Opens(k, a, b, d, e, c1, c2, B)
<1>0. Times(k, d) = Plus(Times(c2, a), c1) /\ Times(k, e) = Plus(Times(c2, b), c1)
  BY DEF Answers
<1>1. PICK f \in Polys : f = Minus(a, b)
  BY PlusFacts
<1>2. PICK g \in Polys : g = Minus(d, e)
  BY PlusFacts
<1>3. PICK ca \in Polys, cb \in Polys : ca = Times(c2, a) /\ cb = Times(c2, b)
  BY TimesType
<1>4. Times(f, c2) = Times(k, g)
  <2>1. Times(k, g) = Minus(Times(k, d), Times(k, e))
    BY <1>2, TimesPlus
  <2>2. Minus(Plus(ca, c1), Plus(cb, c1)) = Minus(ca, cb)
    BY MinusCancels
  <2>3. Times(c2, f) = Minus(ca, cb)
    BY <1>1, <1>3, TimesPlus
  <2>4. Times(c2, f) = Times(f, c2)
    BY PolyCommutes
  <2>5. QED
    BY <1>0, <1>3, <2>1, <2>2, <2>3, <2>4
<1>5. PICK ae \in Polys, bd \in Polys, m \in Polys, Bg \in Polys :
        ae = Times(a, e) /\ bd = Times(b, d) /\ m = Minus(ae, bd) /\ Bg = Times(B, g)
  <2>1. Times(a, e) \in Polys /\ Times(b, d) \in Polys /\ Times(B, g) \in Polys
    BY TimesType
  <2>2. QED
    BY <2>1, PlusFacts
<1>6. Times(k, m) = Times(f, c1)
  <2>1. PICK t1 \in Polys, a1 \in Polys, b1 \in Polys :
          t1 = Times(a, cb) /\ a1 = Times(a, c1) /\ b1 = Times(b, c1)
    BY TimesType
  <2>2. Times(k, ae) = Plus(t1, a1)
    <3>1. Times(k, ae) = Times(a, Times(k, e))
      BY <1>5, TimesExchange
    <3>2. Times(a, Plus(cb, c1)) = Plus(Times(a, cb), Times(a, c1))
      BY TimesPlus
    <3>3. QED
      BY <1>0, <1>3, <2>1, <3>1, <3>2
  <2>3. Times(k, bd) = Plus(t1, b1)
    <3>1. Times(k, bd) = Times(b, Times(k, d))
      BY <1>5, TimesExchange
    <3>2. Times(b, Plus(ca, c1)) = Plus(Times(b, ca), Times(b, c1))
      BY TimesPlus
    <3>3. Times(b, ca) = t1
      <4>1. ca = Times(a, c2) /\ cb = Times(b, c2)
        BY <1>3, PolyCommutes
      <4>2. Times(b, Times(a, c2)) = Times(a, Times(b, c2))
        BY TimesExchange
      <4>3. QED
        BY <2>1, <4>1, <4>2
    <3>4. QED
      BY <1>0, <1>3, <2>1, <3>1, <3>2, <3>3
  <2>4. Times(k, m) = Minus(Times(k, ae), Times(k, bd))
    BY <1>5, TimesPlus
  <2>5. Minus(Plus(t1, a1), Plus(t1, b1)) = Minus(a1, b1)
    BY MinusCancels
  <2>6. Times(c1, f) = Minus(Times(c1, a), Times(c1, b))
    BY <1>1, TimesPlus
  <2>7. Times(c1, a) = a1 /\ Times(c1, b) = b1 /\ Times(c1, f) = Times(f, c1)
    BY <2>1, PolyCommutes
  <2>8. QED
    BY <2>2, <2>3, <2>4, <2>5, <2>6, <2>7
<1>7. Times(k, Bg) = Times(f, Times(c2, B))
  <2>1. Times(k, Bg) = Times(B, Times(k, g))
    BY <1>5, TimesExchange
  <2>2. Times(B, Times(f, c2)) = Times(f, Times(B, c2))
    BY TimesExchange
  <2>3. Times(B, c2) = Times(c2, B)
    BY PolyCommutes
  <2>4. QED
    BY <1>4, <2>1, <2>2, <2>3
<1>8. Times(f, Plus(Times(c2, B), c1)) = Times(k, Plus(m, Bg))
  <2>1. PICK cB \in Polys : cB = Times(c2, B)
    BY TimesType
  <2>2. Times(k, Plus(m, Bg)) = Plus(Times(k, m), Times(k, Bg))
    BY TimesPlus
  <2>3. Times(f, Plus(cB, c1)) = Plus(Times(f, cB), Times(f, c1))
    BY TimesPlus
  <2>4. Plus(Times(f, cB), Times(f, c1)) = Plus(Times(f, c1), Times(f, cB))
    BY TimesType, PolySums
  <2>5. QED
    BY <1>6, <1>7, <2>1, <2>2, <2>3, <2>4
<1>9. QED
  BY <1>1, <1>2, <1>4, <1>5, <1>8 DEF Opens

\* Two accepted answers to the same digit commitments open the folded
\* commitment up to the difference of their challenges, for every modulus,
\* degree, key and commitments, whoever made them (latticefold.rs:113-115).
THEOREM ForksOpen == LatticeSpec => []ForksOpenTheFold
<1>1. FoldInv => ForksOpenTheFold
  <2>1. SUFFICES ASSUME FoldInv, fork # None, NumDigits = 2
                 PROVE  LET slack == Minus(zeta, fork.zeta)
                        IN  /\ Times(slack, FoldedCommitment) = Times(key, Extracted)
                            /\ Times(slack, proof.comms[2]) = Times(key, Minus(proof.dTilde, fork.dTilde))
                            /\ Short(proof.dTilde, SplittingNormBound(SplitL1))
                            /\ Short(fork.dTilde, SplittingNormBound(SplitL1))
    BY DEF ForksOpenTheFold
  <2>2. /\ phase = "verified" /\ Accepts(zeta, proof.dTilde) /\ Accepts(fork.zeta, fork.dTilde)
        /\ zeta \in Ball(SplitL1) /\ fork.zeta \in Ball(SplitL1) /\ fork.dTilde \in Polys
        /\ proof.dTilde \in Polys /\ proof.comms \in [1 .. NumDigits -> Polys]
        /\ key \in Polys
    BY <2>1 DEF FoldInv, FoldBase, FoldSent, FoldJudged
  <2>3. PICK a \in Polys, b \in Polys, d \in Polys, e \in Polys, k \in Polys :
          a = zeta /\ b = fork.zeta /\ d = proof.dTilde /\ e = fork.dTilde /\ k = key
    BY <2>2, BallFacts, LatticeFoldAssumption
  <2>4. PICK s \in [1 .. NumDigits -> Polys] : s = proof.comms
    BY <2>2
  <2>5. PICK B \in Polys, P \in Int : P = Pow2[DigitBits] /\ B = Constant(P)
    <3>1. Pow2[DigitBits] \in Int
      BY DigitFacts
    <3>2. QED
      BY <2>3, <3>1, TimesConstant
  <2>6. /\ Horner(s, a) = Times(k, d) /\ Horner(s, b) = Times(k, e)
        /\ Horner(s, B) = FoldedCommitment
        /\ Short(d, SplittingNormBound(SplitL1)) /\ Short(e, SplittingNormBound(SplitL1))
    BY <2>2, <2>3, <2>4, <2>5 DEF Accepts, Recompose
  <2>7. PICK c1 \in Polys, c2 \in Polys : c1 = s[1] /\ c2 = s[2]
    BY <2>1
  <2>8. \A x \in Polys : Horner(s, x) = Plus(Times(c2, x), c1)
    BY <2>1, <2>7, HornerOfTwo
  <2>9. Times(k, d) = Plus(Times(c2, a), c1) /\ Times(k, e) = Plus(Times(c2, b), c1)
        /\ FoldedCommitment = Plus(Times(c2, B), c1)
    BY <2>6, <2>8
  <2>10. /\ Times(Minus(a, b), c2) = Times(k, Minus(d, e))
         /\ Times(Minus(a, b), Plus(Times(c2, B), c1))
              = Times(k, Plus(Minus(Times(a, e), Times(b, d)), Times(B, Minus(d, e))))
    <3>1. Answers(k, a, b, d, e, c1, c2)
      BY <2>9 DEF Answers
    <3>2. Opens(k, a, b, d, e, c1, c2, B)
      BY <3>1, ForkAlgebra
    <3>3. QED
      BY <3>2 DEF Opens
  <2>11. Extracted = Plus(Minus(Times(a, e), Times(b, d)), Times(B, Minus(d, e)))
    BY <2>3, <2>5 DEF Extracted
  <2>12. QED
    BY <2>3, <2>4, <2>6, <2>7, <2>9, <2>10, <2>11
<1>2. QED
  BY <1>1, LatticeTyping, PTL
===============================================================================
