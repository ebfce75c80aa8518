----------------------------- MODULE SigmaProofs -----------------------------
(***************************************************************************)
(* Proofs about module Sigma for every modulus, bound, matrix, witness and *)
(* set of challenges.  Sides of an equation are compared modulo Q (Eqm);   *)
(* the norms need only that responses lie within BZ and challenges within  *)
(* Tau.                                                                     *)
(***************************************************************************)
EXTENDS Sigma, NumberLemmas

Eqm(a, b) == Cong(Q, a, b)

LEMMA Consts ==
  /\ Q \in Nat /\ Q > 0 /\ BS \in Nat /\ YBound \in Nat /\ Tau \in Nat
  /\ MaskTop \in Nat /\ MaskTop <= YBound /\ MaxAttempts \in Nat
  /\ BZ \in Nat /\ 2 * BZ < Q
<1>1. Tau * BS \in Nat
  BY SigmaAssumption
<1>2. QED
  BY <1>1, SigmaAssumption DEF BZ

LEMMA EqmTrans ==
  ASSUME NEW a \in Int, NEW b \in Int, NEW d \in Int, Eqm(a, b), Eqm(b, d)
  PROVE  Eqm(a, d)
BY Consts, CongTrans DEF Eqm

LEMMA EqmSym ==
  ASSUME NEW a \in Int, NEW b \in Int, Eqm(a, b) PROVE Eqm(b, a)
BY Consts, CongSym DEF Eqm

LEMMA EqmAdd ==
  ASSUME NEW a \in Int, NEW b \in Int, NEW d \in Int, NEW g \in Int,
         Eqm(a, b), Eqm(d, g)
  PROVE  Eqm(a + d, b + g) /\ Eqm(a - d, b - g)
BY Consts, CongAdd DEF Eqm

LEMMA EqmMul ==
  ASSUME NEW a \in Int, NEW b \in Int, NEW x \in Int, Eqm(a, b)
  PROVE  Eqm(x * a, x * b)
BY Consts, CongScale DEF Eqm

LEMMA EqmMod ==
  ASSUME NEW a \in Int
  PROVE  a % Q \in Coeffs /\ a % Q \in Int /\ Eqm(a % Q, a) /\ Eqm(a, a % Q)
<1>1. a % Q \in 0 .. Q - 1 /\ Cong(Q, a % Q, a)
  BY Consts, CongMod
<1>2. a % Q \in Int
  BY <1>1, Consts
<1>3. Cong(Q, a, a % Q)
  BY <1>1, <1>2, Consts, CongSym
<1>4. QED
  BY <1>1, <1>2, <1>3 DEF Eqm, Coeffs

LEMMA EqmSame ==
  ASSUME NEW a \in Int, NEW b \in Int, Eqm(a, b) PROVE a % Q = b % Q
BY Consts, CongSame DEF Eqm

LEMMA SameEqm ==
  ASSUME NEW a \in Int, NEW b \in Int, a % Q = b % Q PROVE Eqm(a, b)
<1>1. Eqm(a, a % Q) /\ Eqm(b % Q, b) /\ a % Q \in Int
  BY EqmMod
<1>2. QED
  BY <1>1, EqmTrans

\* One row of A applied to a pair.
Row(a, b, x, z) == a * x + b * z

LEMMA RowInt ==
  ASSUME NEW a \in Int, NEW b \in Int, NEW x \in Int, NEW z \in Int
  PROVE  Row(a, b, x, z) \in Int
BY DEF Row

LEMMA RowEqm ==
  ASSUME NEW a \in Int, NEW b \in Int, NEW x \in Int, NEW z \in Int,
         NEW xx \in Int, NEW zz \in Int, Eqm(x, xx), Eqm(z, zz)
  PROVE  Eqm(Row(a, b, x, z), Row(a, b, xx, zz))
<1>1. Eqm(a * x, a * xx) /\ Eqm(b * z, b * zz)
  BY EqmMul
<1>2. a * x \in Int /\ a * xx \in Int /\ b * z \in Int /\ b * zz \in Int
  OBVIOUS
<1>3. QED
  BY <1>1, <1>2, EqmAdd DEF Row

LEMMA RowMinus ==
  ASSUME NEW a \in Int, NEW b \in Int, NEW x1 \in Int, NEW x2 \in Int,
         NEW m1 \in Int, NEW m2 \in Int,
         NEW e1 \in Int, NEW e2 \in Int, e1 = m1 - x1, e2 = m2 - x2
  PROVE  Row(a, b, e1, e2) = Row(a, b, m1, m2) - Row(a, b, x1, x2)
<1>1. a * e1 = a * m1 - a * x1 /\ b * e2 = b * m2 - b * x2
  OBVIOUS
<1>2. a * m1 \in Int /\ a * x1 \in Int /\ b * m2 \in Int /\ b * x2 \in Int
  OBVIOUS
<1>3. QED
  BY <1>1, <1>2 DEF Row

Lin(m, ch, x) == m + ch * x

SameRow(a, b, x1, x2, m1, m2, ch) ==
  Row(a, b, Lin(m1, ch, x1) % Q, Lin(m2, ch, x2) % Q) % Q
    = Lin(Row(a, b, m1, m2) % Q, ch, Row(a, b, x1, x2) % Q) % Q

\* A (m + c x) = A m + c A x, one row, every value reduced.
LEMMA ResponseRow ==
  ASSUME NEW a \in Int, NEW b \in Int, NEW x1 \in Int, NEW x2 \in Int,
         NEW m1 \in Int, NEW m2 \in Int, NEW ch \in Int
  PROVE  SameRow(a, b, x1, x2, m1, m2, ch)
<1>a. PICK v1 \in Int, v2 \in Int : v1 = m1 + ch * x1 /\ v2 = m2 + ch * x2
  OBVIOUS
<1>b. PICK rm \in Int, rx \in Int : rm = Row(a, b, m1, m2) /\ rx = Row(a, b, x1, x2)
  BY RowInt
<1>1. v1 \in Int /\ v2 \in Int /\ rm \in Int /\ rx \in Int
  BY <1>a, <1>b
<1>2. Row(a, b, v1, v2) = rm + ch * rx
  <2>1. a * (ch * x1) = ch * (a * x1) /\ b * (ch * x2) = ch * (b * x2)
    OBVIOUS
  <2>2. a * v1 = a * m1 + a * (ch * x1) /\ b * v2 = b * m2 + b * (ch * x2)
    BY <1>a
  <2>3. ch * (a * x1 + b * x2) = ch * (a * x1) + ch * (b * x2)
    OBVIOUS
  <2>4. a * m1 \in Int /\ a * x1 \in Int /\ b * m2 \in Int /\ b * x2 \in Int
        /\ a * (ch * x1) \in Int /\ b * (ch * x2) \in Int
    OBVIOUS
  <2>5. QED
    BY <1>b, <2>1, <2>2, <2>3, <2>4 DEF Row
<1>3. v1 % Q \in Int /\ v2 % Q \in Int /\ Eqm(v1 % Q, v1) /\ Eqm(v2 % Q, v2)
  BY <1>1, EqmMod
<1>4. Eqm(Row(a, b, v1 % Q, v2 % Q), Row(a, b, v1, v2))
  BY <1>1, <1>3, RowEqm
<1>5. rm % Q \in Int /\ rx % Q \in Int /\ Eqm(rm, rm % Q) /\ Eqm(rx, rx % Q)
  BY <1>1, EqmMod
<1>6. Eqm(ch * rx, ch * (rx % Q))
  BY <1>1, <1>5, EqmMul
<1>7. ch * rx \in Int /\ ch * (rx % Q) \in Int
  BY <1>1, <1>5
<1>8. Eqm(rm + ch * rx, (rm % Q) + ch * (rx % Q))
  BY <1>1, <1>5, <1>6, <1>7, EqmAdd
<1>9. Row(a, b, v1 % Q, v2 % Q) \in Int /\ rm + ch * rx \in Int
      /\ (rm % Q) + ch * (rx % Q) \in Int
  <2>1. Row(a, b, v1 % Q, v2 % Q) \in Int
    BY <1>3, RowInt
  <2>2. rm + ch * rx \in Int
    BY <1>1, <1>7
  <2>3. (rm % Q) + ch * (rx % Q) \in Int
    BY <1>5, <1>7
  <2>4. QED
    BY <2>1, <2>2, <2>3
<1>10. Eqm(Row(a, b, v1 % Q, v2 % Q), (rm % Q) + ch * (rx % Q))
  BY <1>2, <1>4, <1>8, <1>9, EqmTrans
<1>11. QED
  BY <1>9, <1>10, <1>a, <1>b, EqmSame DEF Lin, SameRow

ForkSolves(a, b, z1, z2, u1, u2, cc, d, tt) ==
  Row(a, b, (z1 - u1) % Q, (z2 - u2) % Q) % Q = ((cc - d) * tt) % Q

\* Two accepted rows with the same w: their difference is a row of
\* A (z - u) = (c - d) t.
LEMMA ForkRow ==
  ASSUME NEW a \in Int, NEW b \in Int, NEW z1 \in Int, NEW z2 \in Int,
         NEW u1 \in Int, NEW u2 \in Int, NEW cc \in Int, NEW d \in Int,
         NEW w \in Int, NEW tt \in Int,
         Row(a, b, z1, z2) % Q = Lin(w, cc, tt) % Q,
         Row(a, b, u1, u2) % Q = Lin(w, d, tt) % Q
  PROVE  ForkSolves(a, b, z1, z2, u1, u2, cc, d, tt)
<1>a. PICK e1 \in Int, e2 \in Int : e1 = z1 - u1 /\ e2 = z2 - u2
  OBVIOUS
<1>b. PICK rz \in Int, ru \in Int : rz = Row(a, b, z1, z2) /\ ru = Row(a, b, u1, u2)
  BY RowInt
<1>c. PICK wc \in Int, wd \in Int : wc = w + cc * tt /\ wd = w + d * tt
  OBVIOUS
<1>1. /\ e1 \in Int /\ e2 \in Int /\ rz \in Int /\ ru \in Int
      /\ wc \in Int /\ wd \in Int
  BY <1>a, <1>b, <1>c
<1>2. Row(a, b, e1, e2) = rz - ru
  BY <1>a, <1>b, RowMinus
<1>3. wc - wd = (cc - d) * tt
  <2>1. (cc - d) * tt = cc * tt - d * tt
    OBVIOUS
  <2>2. cc * tt \in Int /\ d * tt \in Int
    OBVIOUS
  <2>3. QED
    BY <1>c, <2>1, <2>2
<1>4. rz % Q = wc % Q /\ ru % Q = wd % Q
  BY <1>b, <1>c DEF Lin
<1>5. Eqm(rz, wc) /\ Eqm(ru, wd)
  BY <1>1, <1>4, SameEqm
<1>6. Eqm(rz - ru, wc - wd)
  BY <1>1, <1>5, EqmAdd
<1>7. e1 % Q \in Int /\ e2 % Q \in Int /\ Eqm(e1 % Q, e1) /\ Eqm(e2 % Q, e2)
  BY <1>1, EqmMod
<1>8. Eqm(Row(a, b, e1 % Q, e2 % Q), Row(a, b, e1, e2))
  BY <1>1, <1>7, RowEqm
<1>9. Row(a, b, e1 % Q, e2 % Q) \in Int /\ rz - ru \in Int /\ wc - wd \in Int
  BY <1>1, <1>7, RowInt
<1>10. Eqm(Row(a, b, e1 % Q, e2 % Q), wc - wd)
  BY <1>2, <1>6, <1>8, <1>9, EqmTrans
<1>11. Row(a, b, e1 % Q, e2 % Q) % Q = (wc - wd) % Q
  BY <1>9, <1>10, EqmSame
<1>12. QED
  BY <1>3, <1>11, <1>a DEF ForkSolves

-----------------------------------------------------------------------------
LEMMA Sizes ==
  ASSUME NEW ch \in Challenges
  PROVE  ch \in Int /\ ch \in -Tau .. Tau
BY SigmaAssumption, Consts

LEMMA KeyInt ==
  ASSUME NEW k \in Keys, NEW i \in Rows
  PROVE  k[i] \in [Cols -> Coeffs] /\ k[i][1] \in Int /\ k[i][2] \in Int
<1>1. k \in [Rows -> [Cols -> Coeffs]]
  BY SigmaAssumption
<1>2. k[i] \in [Cols -> Coeffs]
  BY <1>1
<1>3. QED
  BY <1>2, Consts DEF Cols, Coeffs

LEMMA PairInt ==
  /\ \A x \in Witnesses : x[1] \in Int /\ x[2] \in Int
  /\ \A m \in Masks : m[1] \in Int /\ m[2] \in Int
  /\ \A z \in [Cols -> Coeffs] : z[1] \in Int /\ z[2] \in Int
BY SigmaAssumption, Consts DEF Masks, Cols, Coeffs

LEMMA MatVecRow ==
  ASSUME NEW k, NEW x, NEW i \in Rows
  PROVE  MatVec(k, x)[i] = Row(k[i][1], k[i][2], x[1], x[2]) % Q
BY DEF MatVec, Row

LEMMA MatVecType ==
  ASSUME NEW k \in Keys, NEW x, x[1] \in Int, x[2] \in Int
  PROVE  MatVec(k, x) \in Statements
<1>1. SUFFICES ASSUME NEW i \in Rows
               PROVE  (k[i][1] * x[1] + k[i][2] * x[2]) % Q \in Coeffs
  BY DEF MatVec, Statements
<1>2. k[i][1] * x[1] + k[i][2] * x[2] \in Int
  BY KeyInt
<1>3. QED
  BY <1>2, EqmMod

LEMMA ZType ==
  ASSUME NEW x \in Witnesses, NEW m \in Masks, NEW ch \in Challenges
  PROVE  /\ Z(x, m, ch) \in [Cols -> Coeffs]
         /\ Z(x, m, ch)[1] = (m[1] + ch * x[1]) % Q
         /\ Z(x, m, ch)[2] = (m[2] + ch * x[2]) % Q
<1>1. ASSUME NEW j \in Cols PROVE (m[j] + ch * x[j]) % Q \in Coeffs
  <2>1. j = 1 \/ j = 2
    BY DEF Cols
  <2>2. m[j] + ch * x[j] \in Int
    BY <2>1, PairInt, Sizes
  <2>3. QED
    BY <2>2, EqmMod
<1>2. QED
  BY <1>1 DEF Z, Cols

\* An honest response satisfies the verifier's equation.
LEMMA HonestEquation ==
  ASSUME NEW k \in Keys, NEW x \in Witnesses, NEW m \in Masks, NEW ch \in Challenges
  PROVE  MatVec(k, Z(x, m, ch))
           = [i \in Rows |-> (MatVec(k, m)[i] + ch * MatVec(k, x)[i]) % Q]
<1>1. SUFFICES ASSUME NEW i \in Rows
      PROVE  MatVec(k, Z(x, m, ch))[i] = (MatVec(k, m)[i] + ch * MatVec(k, x)[i]) % Q
  BY DEF MatVec
<1>2. PICK a \in Int, b \in Int : a = k[i][1] /\ b = k[i][2]
  BY KeyInt
<1>3. PICK x1 \in Int, x2 \in Int : x1 = x[1] /\ x2 = x[2]
  BY PairInt
<1>4. PICK m1 \in Int, m2 \in Int : m1 = m[1] /\ m2 = m[2]
  BY PairInt
<1>a. Z(x, m, ch)[1] = Lin(m1, ch, x1) % Q /\ Z(x, m, ch)[2] = Lin(m2, ch, x2) % Q
  BY <1>3, <1>4, ZType DEF Lin
<1>5. MatVec(k, Z(x, m, ch))[i]
        = Row(a, b, Lin(m1, ch, x1) % Q, Lin(m2, ch, x2) % Q) % Q
  BY <1>2, <1>a, MatVecRow
<1>6. /\ MatVec(k, m)[i] = Row(a, b, m1, m2) % Q
      /\ MatVec(k, x)[i] = Row(a, b, x1, x2) % Q
  BY <1>2, <1>3, <1>4, MatVecRow
<1>7. ch \in Int
  BY Sizes
<1>8. SameRow(a, b, x1, x2, m1, m2, ch)
  BY <1>2, <1>3, <1>4, <1>7, ResponseRow
<1>9. QED
  BY <1>5, <1>6, <1>8 DEF Lin, SameRow

\* Two accepted responses to one w solve the relaxed relation.
LEMMA ForkEquation ==
  ASSUME NEW k \in Keys, NEW st \in Statements, NEW w \in Statements,
         NEW z \in [Cols -> Coeffs], NEW u \in [Cols -> Coeffs],
         NEW cc \in Challenges, NEW d \in Challenges,
         Accepts(k, st, w, cc, z), Accepts(k, st, w, d, u)
  PROVE  MatVec(k, Extracted(z, u)) = [i \in Rows |-> ((cc - d) * st[i]) % Q]
<1>1. SUFFICES ASSUME NEW i \in Rows
      PROVE  MatVec(k, Extracted(z, u))[i] = ((cc - d) * st[i]) % Q
  BY DEF MatVec
<1>2. PICK a \in Int, b \in Int : a = k[i][1] /\ b = k[i][2]
  BY KeyInt
<1>3. PICK z1 \in Int, z2 \in Int : z1 = z[1] /\ z2 = z[2]
  BY PairInt
<1>4. PICK u1 \in Int, u2 \in Int : u1 = u[1] /\ u2 = u[2]
  BY PairInt
<1>5. PICK wi \in Int, ti \in Int : wi = w[i] /\ ti = st[i]
  BY Consts DEF Statements, Coeffs
<1>6. cc \in Int /\ d \in Int
  BY Sizes
<1>7. MatVec(k, z)[i] = Lin(wi, cc, ti) % Q /\ MatVec(k, u)[i] = Lin(wi, d, ti) % Q
  BY <1>5 DEF Accepts, Lin
<1>8. Row(a, b, z1, z2) % Q = Lin(wi, cc, ti) % Q
      /\ Row(a, b, u1, u2) % Q = Lin(wi, d, ti) % Q
  BY <1>2, <1>3, <1>4, <1>7, MatVecRow
<1>9. ForkSolves(a, b, z1, z2, u1, u2, cc, d, ti)
  BY <1>2, <1>3, <1>4, <1>5, <1>6, <1>8, ForkRow
<1>10. Extracted(z, u)[1] = (z1 - u1) % Q /\ Extracted(z, u)[2] = (z2 - u2) % Q
  BY <1>3, <1>4 DEF Extracted, Cols
<1>11. MatVec(k, Extracted(z, u))[i] = Row(a, b, (z1 - u1) % Q, (z2 - u2) % Q) % Q
  BY <1>2, <1>10, MatVecRow
<1>12. QED
  BY <1>5, <1>9, <1>11 DEF ForkSolves

-----------------------------------------------------------------------------
\* A coefficient within BZ of 0 modulo Q.
LEMMA SmallCoeff ==
  ASSUME NEW v \in Coeffs, AbsInfinity(v) <= BZ
  PROVE  /\ Centered(v) \in -BZ .. BZ
         /\ v = Centered(v) \/ v = Centered(v) + Q
BY Consts DEF AbsInfinity, Centered, Coeffs

LEMMA SmallForm ==
  ASSUME NEW v \in Coeffs, AbsInfinity(v) <= BZ
  PROVE  \E v0 \in Int, e \in Int : -BZ <= v0 /\ v0 <= BZ /\ v = Q * e + v0
<1>1. PICK v0 \in Int : v0 = Centered(v) /\ -BZ <= v0 /\ v0 <= BZ
  BY SmallCoeff, Consts
<1>2. CASE v = v0
  <2>1. v = Q * 0 + v0
    BY <1>1, <1>2, Consts
  <2>2. QED
    BY <1>1, <2>1
<1>3. CASE v = v0 + Q
  <2>1. v = Q * 1 + v0
    BY <1>1, <1>3, Consts
  <2>2. QED
    BY <1>1, <2>1
<1>4. QED
  BY <1>1, <1>2, <1>3, SmallCoeff

LEMMA DifferenceIsSmall ==
  ASSUME NEW v \in Coeffs, NEW u \in Coeffs,
         AbsInfinity(v) <= BZ, AbsInfinity(u) <= BZ
  PROVE  AbsInfinity((v - u) % Q) <= 2 * BZ
<1>1. PICK v0 \in Int, e \in Int : -BZ <= v0 /\ v0 <= BZ /\ v = Q * e + v0 
  BY SmallForm
<1>2. PICK u0 \in Int, f \in Int : -BZ <= u0 /\ u0 <= BZ /\ u = Q * f + u0 
  BY SmallForm
<1>3. PICK r \in Int, g \in Int : r = v0 - u0 /\ g = e - f
  BY <1>1, <1>2
<1>4. PICK x \in Int : /\ x = v - u /\ x = Q * g + r
                       /\ -(2 * BZ) <= r /\ r <= 2 * BZ
  <2>1. Q * g = Q * e - Q * f
    BY <1>1, <1>2, <1>3, Consts
  <2>2. Q * e \in Int /\ Q * f \in Int /\ v \in Int /\ u \in Int
    BY <1>1, <1>2, Consts DEF Coeffs
  <2>3. QED
    BY <2>1, <2>2, <1>1, <1>2, <1>3, Consts
<1>a. /\ x \in Int /\ g \in Int /\ r \in Int /\ Q \in Nat /\ Q > 0
      /\ -Q <= r /\ r < Q /\ x = Q * g + r
  BY <1>3, <1>4, Consts
<1>5. CASE r >= 0
  <2>1. x % Q = r
    BY <1>a, <1>5, DivModUnique
  <2>2. QED
    BY <2>1, <1>3, <1>4, <1>5, Consts DEF AbsInfinity
<1>6. CASE r < 0
  <2>1. PICK h \in Int, u1 \in Int : h = g - 1 /\ u1 = r + Q
    BY <1>a
  <2>a. Q * h = Q * g - Q
    BY <1>a, <2>1
  <2>b. /\ x = Q * h + u1 /\ 0 <= u1 /\ u1 < Q
        /\ x \in Int /\ h \in Int /\ u1 \in Int /\ Q \in Nat /\ Q > 0
    <3>1. Q * g \in Int
      BY <1>a
    <3>2. QED
      BY <3>1, <1>a, <1>6, <2>1, <2>a
  <2>c. x % Q = u1
    BY <2>b, DivModUnique
  <2>d. QED
    BY <2>1, <2>c, <1>3, <1>4, <1>6, Consts DEF AbsInfinity
<1>7. QED
  BY <1>3, <1>5, <1>6

LEMMA ProductIsSmall ==
  ASSUME NEW ch \in -Tau .. Tau, NEW b \in -BS .. BS
  PROVE  ch * b \in Int /\ -(Tau * BS) <= ch * b /\ ch * b <= Tau * BS
<1>1. ch \in Int /\ b \in Int /\ Tau \in Nat /\ BS \in Nat
  BY Consts
<1>2. ASSUME NEW p \in Nat, NEW r \in Nat, p <= Tau, r <= BS
      PROVE  p * r \in Nat /\ p * r <= Tau * BS
  <2>1. p * r <= Tau * r
    BY <1>1, <1>2
  <2>2. Tau * r <= Tau * BS
    BY <1>1, <1>2
  <2>3. p * r \in Nat /\ Tau * r \in Nat /\ Tau * BS \in Nat
    BY <1>1
  <2>4. QED
    BY <2>1, <2>2, <2>3
<1>3. PICK p \in Nat, r \in Nat : /\ p <= Tau /\ r <= BS
                                  /\ ch = p \/ ch = -p
                                  /\ b = r \/ b = -r
  BY <1>1
<1>4. p * r \in Nat /\ p * r <= Tau * BS
  BY <1>2, <1>3
<1>5. ch * b = p * r \/ ch * b = -(p * r)
  BY <1>3
<1>6. QED
  BY <1>1, <1>4, <1>5

-----------------------------------------------------------------------------
\* What the phases say of the proof in flight.
SentIsHonest ==
  Proved =>
    /\ y \in Masks /\ c \in Challenges
    /\ proof = [w |-> MatVec(key, y), z |-> Z(s, y, c),
                cTilde |-> <<t, MatVec(key, y)>>]
    /\ Fits(proof.z)

HashNamesStatement ==
  phase \in {"sent", "forged", "checked", "forgery_checked"} =>
    proof.cTilde = <<t, proof.w>>

AcceptedFits ==
  phase \in {"checked", "forgery_checked", "forked"} /\ verdict /\ asked = t =>
    Accepts(key, t, proof.w, c, proof.z)

ForkFits ==
  phase = "forked" =>
    /\ verdict /\ asked = t
    /\ Accepts(key, t, proof.w, fork.c, fork.z)

IInv == /\ TypeOK /\ t = MatVec(key, s) /\ SentIsHonest /\ HashNamesStatement
        /\ AcceptedFits /\ ForkFits /\ ProofVerifies /\ ProofBindsStatement

LEMMA StatementType ==
  ASSUME NEW k \in Keys
  PROVE  /\ \A x \in Witnesses : MatVec(k, x) \in Statements
         /\ \A m \in Masks : MatVec(k, m) \in Statements
BY PairInt, MatVecType

LEMMA IInvInit == Init => IInv
<1>1. SUFFICES ASSUME Init PROVE IInv
  OBVIOUS
<1>2. TypeOK
  BY <1>1, StatementType, Consts DEF Init, TypeOK, Proved
<1>3. QED
  BY <1>1, <1>2 DEF Init, IInv, Proved, SentIsHonest, HashNamesStatement,
                    AcceptedFits, ForkFits, ProofVerifies, ProofBindsStatement

LEMMA IInvStep == IInv /\ [Next]_vars => IInv'
<1>1. SUFFICES ASSUME IInv, [Next]_vars PROVE IInv'
  OBVIOUS
<1> USE <1>1
<1>2. CASE UNCHANGED vars
  BY <1>2 DEF vars, IInv, TypeOK, Proved, SentIsHonest, HashNamesStatement,
              AcceptedFits, ForkFits, ProofVerifies, ProofBindsStatement
<1>3. CASE Start \/ Retry \/ GiveUp
  <2>1. /\ UNCHANGED <<key, s, t, y, c, proof, asked, verdict, fork>>
        /\ attempts' \in 0 .. MaxAttempts
        /\ phase' \in {"too_long", "draw", "limit"}
    BY <1>3, Consts DEF Start, Retry, GiveUp, Unproved, NextAttempt, IInv, TypeOK
  <2>2. TypeOK'
    BY <2>1 DEF IInv, TypeOK, Proved
  <2>3. QED
    BY <2>1, <2>2 DEF IInv, Proved, SentIsHonest, HashNamesStatement,
                      AcceptedFits, ForkFits, ProofVerifies, ProofBindsStatement
<1>4. CASE Answer
  <2>1. PICK m \in Masks, ch \in Challenges :
          /\ Fits(Z(s, m, ch))
          /\ y' = m /\ c' = ch
          /\ proof' = [w |-> MatVec(key, m), z |-> Z(s, m, ch),
                       cTilde |-> <<t, MatVec(key, m)>>]
    BY <1>4 DEF Answer
  <2>2. /\ phase' = "sent" /\ phase = "draw"
        /\ UNCHANGED <<key, s, t, attempts, asked, verdict, fork>>
    BY <1>4 DEF Answer, Unproved
  <2>3. key \in Keys /\ s \in Witnesses
    BY DEF IInv, TypeOK
  <2>4. /\ proof'.w = MatVec(key, m) /\ proof'.z = Z(s, m, ch)
        /\ proof'.cTilde = <<t, proof'.w>>
        /\ proof'.w \in Statements /\ proof'.z \in [Cols -> Coeffs]
    BY <2>1, <2>3, StatementType, ZType
  <2>5. TypeOK'
    BY <2>1, <2>2, <2>4 DEF IInv, TypeOK, Proved
  <2>6. SentIsHonest'
    BY <2>1, <2>2, <2>4 DEF SentIsHonest
  <2>7. QED
    BY <2>2, <2>4, <2>5, <2>6 DEF IInv, Proved, HashNamesStatement,
           AcceptedFits, ForkFits, ProofVerifies, ProofBindsStatement
<1>5. CASE Forge
  <2>1. PICK w \in Statements, z \in Responses, ch \in Challenges :
          c' = ch /\ proof' = [w |-> w, z |-> z, cTilde |-> <<t, w>>]
    BY <1>5 DEF Forge
  <2>2. /\ phase' = "forged" /\ phase = "start"
        /\ UNCHANGED <<key, s, t, attempts, y, asked, verdict, fork>>
    BY <1>5 DEF Forge, Unproved
  <2>3. /\ proof'.w \in Statements /\ proof'.z \in [Cols -> Coeffs]
        /\ proof'.cTilde = <<t, proof'.w>>
    BY <2>1, SigmaAssumption
  <2>4. TypeOK'
    BY <2>1, <2>2, <2>3 DEF IInv, TypeOK, Proved
  <2>5. QED
    BY <2>2, <2>3, <2>4 DEF IInv, Proved, SentIsHonest, HashNamesStatement,
           AcceptedFits, ForkFits, ProofVerifies, ProofBindsStatement
<1>6. CASE Check
  <2>1. PICK st \in {t} \cup {MatVec(key, x) : x \in Witnesses}, ch \in Challenges :
          /\ st = t => ch = c
          /\ asked' = st
          /\ verdict' = Verify(key, st, ch, proof)
    BY <1>6 DEF Check
  <2>2. /\ phase \in {"sent", "forged"}
        /\ phase' = IF phase = "sent" THEN "checked" ELSE "forgery_checked"
        /\ UNCHANGED <<key, s, t, attempts, y, c, proof, fork>>
    BY <1>6 DEF Check
  <2>3. TypeOK'
    BY <2>2 DEF IInv, TypeOK, Proved
  <2>4. SentIsHonest'
    BY <2>2 DEF IInv, SentIsHonest, Proved
  <2>5. HashNamesStatement' /\ proof.cTilde = <<t, proof.w>>
    BY <2>2 DEF IInv, HashNamesStatement
  <2>6. AcceptedFits' /\ ForkFits'
    BY <2>1, <2>2 DEF AcceptedFits, ForkFits, Verify
  <2>7. ProofBindsStatement'
    <3>1. SendsHash /\ verdict' => proof.cTilde = <<st, proof.w>>
      BY <2>1 DEF Verify
    <3>2. QED
      BY <2>1, <2>2, <2>5, <3>1 DEF ProofBindsStatement
  <2>8. ProofVerifies'
    <3>1. SUFFICES ASSUME phase' = "checked", st = t PROVE Verify(key, t, c, proof)
      BY <2>1, <2>2 DEF ProofVerifies
    <3>2. phase = "sent"
      BY <2>2, <3>1
    <3>3. /\ y \in Masks /\ c \in Challenges
          /\ proof.w = MatVec(key, y) /\ proof.z = Z(s, y, c) /\ Fits(proof.z)
          /\ key \in Keys /\ s \in Witnesses /\ t = MatVec(key, s)
      BY <3>2 DEF IInv, TypeOK, SentIsHonest, Proved
    <3>4. MatVec(key, proof.z) = [i \in Rows |-> (proof.w[i] + c * t[i]) % Q]
      BY <3>3, HonestEquation
    <3>5. QED
      BY <2>5, <3>3, <3>4 DEF Verify, Accepts
  <2>9. t' = MatVec(key', s')
    BY <2>2 DEF IInv
  <2>10. QED
    BY <2>3, <2>4, <2>5, <2>6, <2>7, <2>8, <2>9 DEF IInv
<1>7. CASE Rewind
  <2>1. PICK ch \in Challenges \ {c}, z \in Responses :
          Accepts(key, t, proof.w, ch, z) /\ fork' = [c |-> ch, z |-> z]
    BY <1>7 DEF Rewind
  <2>2. /\ phase \in {"checked", "forgery_checked"} /\ verdict /\ asked = t
        /\ phase' = "forked"
        /\ UNCHANGED <<key, s, t, attempts, y, c, proof, asked, verdict>>
    BY <1>7 DEF Rewind
  <2>3. /\ fork'.c = ch /\ fork'.z = z
        /\ fork'.c \in Challenges /\ fork'.z \in [Cols -> Coeffs]
    BY <2>1, SigmaAssumption
  <2>4. TypeOK'
    BY <2>2, <2>3 DEF IInv, TypeOK, Proved
  <2>5. AcceptedFits' /\ ForkFits'
    BY <2>1, <2>2, <2>3 DEF IInv, AcceptedFits, ForkFits
  <2>6. QED
    BY <2>2, <2>4, <2>5 DEF IInv, Proved, SentIsHonest, HashNamesStatement,
                            ProofVerifies, ProofBindsStatement
<1>8. QED
  BY <1>2, <1>3, <1>4, <1>5, <1>6, <1>7 DEF Next, Prove

LEMMA Invariance == Spec => []IInv
BY IInvInit, IInvStep, PTL DEF Spec

-----------------------------------------------------------------------------
\* Prover, verifier and extractor keep their types (sigma/mod.rs:99-206).
THEOREM Typing == Spec => []TypeOK
<1>1. IInv => TypeOK
  BY DEF IInv
<1>2. QED
  BY <1>1, Invariance, PTL

\* fs_verify accepts what fs_prove returns, for every modulus, key, witness,
\* mask and challenge.
THEOREM HonestProofsVerify == Spec => []ProofVerifies
<1>1. IInv => ProofVerifies
  BY DEF IInv
<1>2. QED
  BY <1>1, Invariance, PTL

\* fs_verify accepts a proof that carries c~ for one statement only, whoever
\* made the proof (sigma/mod.rs:114-122).
THEOREM ProofsNameTheirStatement == Spec => []ProofBindsStatement
<1>1. IInv => ProofBindsStatement
  BY DEF IInv
<1>2. QED
  BY <1>1, Invariance, PTL

\* Where masks reach the bound B_Z is computed from, as in fs_prove
\* (sigma/mod.rs:158-181), a response is possible for every short witness.
THEOREM ResponsesHideTheWitness ==
  ASSUME MaskTop = YBound
  PROVE  Spec => []ResponseHidesWitness
<1>1. ASSUME IInv PROVE ResponseHidesWitness
  <2>1. SUFFICES ASSUME Proved, NEW j \in Cols, NEW b \in -BS .. BS
                 PROVE  Centered(proof.z[j]) - c * b \in -MaskTop .. MaskTop
    BY DEF ResponseHidesWitness
  <2>2. /\ proof.z \in [Cols -> Coeffs] /\ c \in Challenges /\ Fits(proof.z)
    BY <1>1, <2>1 DEF IInv, TypeOK, SentIsHonest, Proved
  <2>3. proof.z[j] \in Coeffs /\ AbsInfinity(proof.z[j]) <= BZ
    BY <2>2 DEF Fits
  <2>4. PICK z0 \in Int : z0 = Centered(proof.z[j]) /\ -BZ <= z0 /\ z0 <= BZ
    BY <2>3, SmallCoeff, Consts
  <2>5. PICK p \in Int : p = c * b /\ -(Tau * BS) <= p /\ p <= Tau * BS
    BY <2>2, Sizes, ProductIsSmall
  <2>6. Tau * BS \in Int /\ BZ = YBound - Tau * BS
    BY Consts DEF BZ
  <2>7. -YBound <= z0 - p /\ z0 - p <= YBound /\ z0 - p \in Int
    BY <2>4, <2>5, <2>6, Consts
  <2>8. QED
    BY <2>4, <2>5, <2>7, Consts
<1>2. QED
  BY <1>1, Invariance, PTL

\* Two accepted responses for one mask commitment give a solution of the
\* relaxed relation within twice the response bound (sigma/mod.rs:192-206).
THEOREM ForksGiveTheWitness == Spec => []ExtractorRecovers
<1>1. ASSUME IInv PROVE ExtractorRecovers
  <2>1. SUFFICES ASSUME phase = "forked"
        PROVE /\ MatVec(key, Extracted(proof.z, fork.z))
                    = [i \in Rows |-> ((c - fork.c) * t[i]) % Q]
              /\ \A j \in Cols : AbsInfinity(Extracted(proof.z, fork.z)[j]) <= 2 * BZ
    BY DEF ExtractorRecovers
  <2>2. /\ key \in Keys /\ t \in Statements /\ proof.w \in Statements
        /\ proof.z \in [Cols -> Coeffs] /\ fork.z \in [Cols -> Coeffs]
        /\ c \in Challenges /\ fork.c \in Challenges
    BY <1>1, <2>1 DEF IInv, TypeOK
  <2>3. /\ Accepts(key, t, proof.w, c, proof.z)
        /\ Accepts(key, t, proof.w, fork.c, fork.z)
    BY <1>1, <2>1 DEF IInv, AcceptedFits, ForkFits
  <2>4. MatVec(key, Extracted(proof.z, fork.z))
          = [i \in Rows |-> ((c - fork.c) * t[i]) % Q]
    BY <2>2, <2>3, ForkEquation
  <2>5. ASSUME NEW j \in Cols
        PROVE  AbsInfinity(Extracted(proof.z, fork.z)[j]) <= 2 * BZ
    <3>1. /\ proof.z[j] \in Coeffs /\ fork.z[j] \in Coeffs
          /\ AbsInfinity(proof.z[j]) <= BZ /\ AbsInfinity(fork.z[j]) <= BZ
      BY <2>2, <2>3 DEF Accepts, Fits
    <3>2. AbsInfinity((proof.z[j] - fork.z[j]) % Q) <= 2 * BZ
      BY <3>1, DifferenceIsSmall
    <3>3. QED
      BY <3>2 DEF Extracted
  <2>6. QED
    BY <2>4, <2>5
<1>2. QED
  BY <1>1, Invariance, PTL
=============================================================================
