---------------------------- MODULE MlDsaProofs ----------------------------
(***************************************************************************)
(* Proofs about module MlDsa for every modulus, rounding width, secret     *)
(* bound, challenge set, key and mask.                                     *)
(*                                                                         *)
(* Everything the two sides compute is known only modulo q, so the         *)
(* argument runs on congruences (Eqm): the verifier's value is the         *)
(* signer's w - c s2 + c t0 (VerifierValue), and w - c s2 sits so deep in  *)
(* its rounding cell that neither c s2 nor any other secret could have     *)
(* moved it out (Inner).                                                   *)
(***************************************************************************)
EXTENDS MlDsa, NumberLemmas, FiniteSetTheorems, SequenceTheorems

(***************************************************************************)
(* Rounding, for every modulus, cell width and dropped bit count.  Cell    *)
(* coordinates are the argument: a coefficient sits at exactly one offset  *)
(* in exactly one cell (CellUnique), and a displacement of at most gamma2  *)
(* leads to the same or to a neighbouring cell, on the side the offset     *)
(* leans to.                                                               *)
(***************************************************************************)
Alpha == 2 * Gamma2

LEMMA CellsFact ==
  /\ Alpha \in Nat /\ Alpha >= 2 /\ Gamma2 \in Nat /\ Gamma2 >= 1
  /\ Cells \in Nat /\ Cells >= 2 /\ Q \in Nat /\ Q > 0
  /\ Q = Cells * Alpha + 1
<1>1. Q \in Nat /\ Gamma2 \in Nat /\ Gamma2 >= 1 /\ (Q - 1) % Alpha = 0
      /\ Q - 1 > Alpha /\ Alpha \in Nat /\ Alpha = 2 * Gamma2
  BY RoundingAssumption DEF Alpha
<1>2. /\ (Q - 1) \div Alpha \in Int
      /\ Q - 1 = Alpha * ((Q - 1) \div Alpha) + ((Q - 1) % Alpha)
  BY <1>1, DivMod
<1>3. Cells = (Q - 1) \div Alpha
  BY DEF Cells, Alpha
<1>4. Cells \in Int /\ Q - 1 = Alpha * Cells
  BY <1>1, <1>2, <1>3
<1>5. Cells >= 2
  BY <1>1, <1>4
<1>6. QED
  BY <1>1, <1>4, <1>5

\* mod_pm returns the one representative in the centered interval.
LEMMA ModPmUnique ==
  ASSUME NEW v \in Int, NEW k \in Int, NEW l \in -Gamma2 + 1 .. Gamma2,
         v = Alpha * k + l
  PROVE  ModPm(v, 2 * Gamma2) = l
<1>1. Alpha \in Nat /\ Alpha >= 2 /\ Gamma2 \in Nat /\ Alpha = 2 * Gamma2
  BY CellsFact DEF Alpha
<1>2. Alpha \div 2 = Gamma2
  BY <1>1
<1>3. CASE l >= 0
  <2>1. v % Alpha = l
    BY <1>1, <1>3, DivModUnique
  <2>2. QED
    BY <1>1, <1>2, <1>3, <2>1 DEF ModPm, Alpha
<1>4. CASE l < 0
  <2>1. l \in Int /\ -Alpha <= l /\ Alpha > 0 /\ Alpha \in Nat
    BY <1>1
  <2>2. v % Alpha = l + Alpha
    BY <1>4, <2>1, ModNegative
  <2>3. QED
    BY <1>1, <1>2, <1>4, <2>2 DEF ModPm, Alpha
<1>5. QED
  BY <1>3, <1>4

\* A cell and an offset in it; only cell 0 reaches down to -gamma2, because
\* the cell that q - 1 closes is folded into it.
IsCell(h, l) == /\ h \in 0 .. Cells - 1
                /\ l \in -Gamma2 .. Gamma2
                /\ l = -Gamma2 => h = 0

\* Cell coordinates are unique: whatever number represents the coefficient
\* at offset l of cell h, decompose returns (h, l).
LEMMA CellUnique ==
  ASSUME NEW h, NEW l, IsCell(h, l), NEW v \in Int, NEW e \in Int,
         v = Q * e + (h * Alpha + l)
  PROVE  Decompose(v) = [hi |-> h, lo |-> l]
<1>1. /\ Alpha \in Nat /\ Alpha >= 2 /\ Alpha = 2 * Gamma2 /\ Gamma2 \in Nat
      /\ Cells \in Nat /\ Cells >= 2 /\ Q \in Nat /\ Q > 0 /\ Q = Cells * Alpha + 1
  BY CellsFact DEF Alpha
<1>2. /\ h \in Int /\ l \in Int /\ 0 <= h /\ h <= Cells - 1
      /\ -Gamma2 <= l /\ l <= Gamma2
  BY <1>1 DEF IsCell
<1>3. h * Alpha \in Int /\ h * Alpha <= (Cells - 1) * Alpha /\ 0 <= h * Alpha
      /\ (Cells - 1) * Alpha = Q - 1 - Alpha
      /\ (h >= 1 => h * Alpha >= Alpha)
  BY <1>1, <1>2
<1>4. CASE h * Alpha + l >= 0
  <2> DEFINE a == h * Alpha + l
  <2>1. a \in 0 .. Q - 1
    BY <1>1, <1>2, <1>3, <1>4
  <2>2. v % Q = a
    <3>1. v = Q * e + a /\ a \in Int /\ 0 <= a /\ a < Q
      BY <1>1, <2>1
    <3> HIDE DEF a
    <3>2. QED
      BY <1>1, <3>1, DivModUnique
  <2>3. l \in -Gamma2 + 1 .. Gamma2
    BY <1>1, <1>2, <1>3, <1>4 DEF IsCell
  <2>4. a = Alpha * h + l /\ a \in Int
    BY <1>1, <1>2
  <2> HIDE DEF a
  <2>5. ModPm(a, 2 * Gamma2) = l
    BY <1>2, <2>3, <2>4, ModPmUnique
  <2>6. a - l = Alpha * h /\ a - l # Q - 1
    BY <1>1, <1>2, <1>3, <2>4
  <2>7. (a - l) \div (2 * Gamma2) = h
    <3>1. a - l = Alpha * h + 0 /\ a - l \in Int /\ 0 \in 0 .. Alpha - 1
      BY <1>1, <1>2, <2>6
    <3>2. (a - l) \div Alpha = h
      BY <1>1, <1>2, <3>1, DivModUnique
    <3>3. QED
      BY <3>2 DEF Alpha
  <2>8. QED
    BY <2>2, <2>5, <2>6, <2>7 DEF Decompose
<1>5. CASE h * Alpha + l < 0
  <2>1. h = 0 /\ l < 0
    BY <1>1, <1>2, <1>3, <1>5 DEF IsCell
  <2> DEFINE a == Q + l
  <2>2. v = Q * e + l /\ -Q <= l
    BY <1>1, <1>2, <1>3, <2>1
  <2>3. v % Q = a
    <3>1. Q \in Nat /\ Q > 0 /\ l \in Int /\ l < 0
      BY <1>1, <1>2, <2>1
    <3>2. v % Q = l + Q
      BY <2>2, <3>1, ModNegative
    <3>3. QED
      BY <1>1, <1>2, <3>2
  <2>4. a = Alpha * Cells + (l + 1) /\ a \in Int
        /\ l + 1 \in -Gamma2 + 1 .. Gamma2
    BY <1>1, <1>2, <2>1
  <2> HIDE DEF a
  <2>5. ModPm(a, 2 * Gamma2) = l + 1
    <3> DEFINE j == l + 1
    <3>1. a = Alpha * Cells + j /\ j \in -Gamma2 + 1 .. Gamma2 /\ Cells \in Int
      BY <1>1, <2>4
    <3> HIDE DEF j
    <3>2. ModPm(a, 2 * Gamma2) = j
      BY <2>4, <3>1, ModPmUnique
    <3>3. QED
      BY <3>2 DEF j
  <2>6. a - (l + 1) = Q - 1
    BY <1>1, <1>2, <2>4
  <2>7. (l + 1) - 1 = l
    BY <1>2
  <2>8. QED
    BY <2>1, <2>3, <2>5, <2>6, <2>7 DEF Decompose
<1>6. QED
  BY <1>1, <1>2, <1>3, <1>4, <1>5

\* Every number has cell coordinates.
LEMMA CellExists ==
  ASSUME NEW v \in Int
  PROVE  \E h, l \in Int : \E e \in Int :
           /\ IsCell(h, l)
           /\ v = Q * e + (h * Alpha + l)
<1>1. /\ Alpha \in Nat /\ Alpha >= 2 /\ Alpha = 2 * Gamma2 /\ Gamma2 \in Nat
      /\ Cells \in Nat /\ Cells >= 2 /\ Q \in Nat /\ Q > 0 /\ Q = Cells * Alpha + 1
  BY CellsFact DEF Alpha
<1> DEFINE e == v \div Q
           a == v % Q
           h == a \div Alpha
           l == a % Alpha
<1>2. e \in Int /\ a \in 0 .. Q - 1 /\ v = Q * e + a
  <2>1. Q \in Nat /\ Q > 0
    BY <1>1
  <2>2. QED
    BY <2>1, DivMod
<1> HIDE DEF e, a
<1>3. h \in Int /\ l \in 0 .. Alpha - 1 /\ a = Alpha * h + l
  <2>1. a \in Int /\ Alpha \in Nat /\ Alpha > 0
    BY <1>1, <1>2
  <2>2. QED
    BY <2>1, DivMod
<1> HIDE DEF h, l
<1>4. Alpha * h <= Alpha * Cells /\ Alpha * h > -Alpha
  BY <1>1, <1>2, <1>3
<1>5. 0 <= h /\ h <= Cells
  BY <1>1, <1>3, <1>4
<1>6. Alpha * h \in Int /\ Alpha * h = h * Alpha /\ v = Q * e + (h * Alpha + l)
  BY <1>1, <1>2, <1>3
<1>7. CASE l <= Gamma2 /\ h < Cells
  <2>1. IsCell(h, l) /\ l \in Int
    BY <1>1, <1>3, <1>5, <1>7 DEF IsCell
  <2>2. QED
    BY <1>2, <1>3, <1>6, <2>1
<1>8. CASE l > Gamma2 /\ h < Cells - 1
  <2>1. IsCell(h + 1, l - Alpha) /\ h + 1 \in Int /\ l - Alpha \in Int
    BY <1>1, <1>3, <1>5, <1>8 DEF IsCell
  <2>2. (h + 1) * Alpha + (l - Alpha) = h * Alpha + l
    BY <1>1, <1>3
  <2>3. QED
    BY <1>2, <1>6, <2>1, <2>2
<1>9. CASE l > Gamma2 /\ h = Cells - 1
  <2>1. IsCell(0, l - Alpha - 1) /\ l - Alpha - 1 \in Int
    BY <1>1, <1>3, <1>9 DEF IsCell
  <2>2. h * Alpha + l = Q + (0 * Alpha + (l - Alpha - 1))
    BY <1>1, <1>3, <1>9
  <2>3. v = Q * (e + 1) + (0 * Alpha + (l - Alpha - 1)) /\ e + 1 \in Int
    BY <1>1, <1>2, <1>3, <1>6, <2>2
  <2>4. QED
    BY <2>1, <2>3
<1>10. CASE h = Cells
  <2>1. l = 0
    BY <1>1, <1>2, <1>3, <1>10
  <2>2. IsCell(0, -1)
    BY <1>1 DEF IsCell
  <2>3. v = Q * (e + 1) + (0 * Alpha + (-1)) /\ e + 1 \in Int
    BY <1>1, <1>2, <1>3, <1>6, <1>10, <2>1
  <2>4. QED
    BY <2>2, <2>3
<1>11. QED
  BY <1>1, <1>3, <1>5, <1>7, <1>8, <1>9, <1>10

\* The next cell on the side an offset leans to, around the ring.
Neighbour(h, l) == (h + (IF l > 0 THEN 1 ELSE Cells - 1)) % Cells

LEMMA NeighbourIs ==
  ASSUME NEW h \in 0 .. Cells - 1, NEW l \in Int
  PROVE  /\ l > 0 /\ h < Cells - 1 => Neighbour(h, l) = h + 1
         /\ l > 0 /\ h = Cells - 1 => Neighbour(h, l) = 0
         /\ l <= 0 /\ h > 0 => Neighbour(h, l) = h - 1
         /\ l <= 0 /\ h = 0 => Neighbour(h, l) = Cells - 1
<1>1. Cells \in Nat /\ Cells >= 2 /\ h \in Int
  BY CellsFact
<1>2. CASE l > 0
  BY <1>1, <1>2 DEF Neighbour
<1>3. CASE l <= 0
  <2>1. Neighbour(h, l) = (h + Cells - 1) % Cells
    BY <1>1, <1>3 DEF Neighbour
  <2>2. CASE h = 0
    BY <1>1, <1>3, <2>1, <2>2
  <2>3. CASE h > 0
    <3>1. h - 1 \in Int /\ 0 <= h - 1 /\ h - 1 < Cells /\ h + Cells - 1 \in Int
          /\ Cells > 0 /\ h + Cells - 1 = Cells * 1 + (h - 1)
      BY <1>1, <2>3
    <3>2. (h + Cells - 1) % Cells = h - 1
      BY <1>1, <2>3
    <3>3. QED
      BY <1>1, <1>3, <2>1, <2>3, <3>2
  <2>4. QED
    BY <1>1, <2>2, <2>3
<1>4. QED
  BY <1>1, <1>2, <1>3

\* A displacement of at most gamma2 stays in its cell or enters the
\* neighbour its offset leans to.
LEMMA Displaced ==
  ASSUME NEW h, NEW l, IsCell(h, l), NEW v \in Int, NEW e \in Int,
         v = Q * e + (h * Alpha + l), NEW z \in -Gamma2 .. Gamma2
  PROVE  HighBits(v + z) \in {h, Neighbour(h, l)}
<1>1. /\ Alpha \in Nat /\ Alpha >= 2 /\ Alpha = 2 * Gamma2 /\ Gamma2 \in Nat
      /\ Cells \in Nat /\ Cells >= 2 /\ Q \in Nat /\ Q > 0 /\ Q = Cells * Alpha + 1
  BY CellsFact DEF Alpha
<1>2. /\ h \in Int /\ l \in Int /\ 0 <= h /\ h <= Cells - 1
      /\ -Gamma2 <= l /\ l <= Gamma2 /\ h \in 0 .. Cells - 1
      /\ z \in Int /\ -Gamma2 <= z /\ z <= Gamma2
      /\ v + z \in Int
  BY <1>1 DEF IsCell
<1>3. v + z = Q * e + (h * Alpha + (l + z))
  BY <1>1, <1>2
<1>4. CASE IsCell(h, l + z)
  <2>1. Decompose(v + z) = [hi |-> h, lo |-> l + z]
    BY <1>2, <1>3, <1>4, CellUnique
  <2>2. QED
    BY <2>1 DEF HighBits
<1>5. CASE l + z > Gamma2
  <2>1. l > 0
    BY <1>1, <1>2, <1>5
  <2>2. CASE h < Cells - 1
    <3>1. IsCell(h + 1, l + z - Alpha)
      BY <1>1, <1>2, <1>5, <2>2 DEF IsCell
    <3>2. v + z = Q * e + ((h + 1) * Alpha + (l + z - Alpha))
      BY <1>1, <1>2, <1>3
    <3>3. Decompose(v + z) = [hi |-> h + 1, lo |-> l + z - Alpha]
      BY <1>2, <3>1, <3>2, CellUnique
    <3>4. QED
      BY <1>2, <2>1, <2>2, <3>3, NeighbourIs DEF HighBits
  <2>3. CASE h = Cells - 1
    <3>1. IsCell(0, l + z - Alpha - 1)
      BY <1>1, <1>2, <1>5 DEF IsCell
    <3>2. h * Alpha = Q - 1 - Alpha
      BY <1>1, <2>3
    <3>3. v + z = Q * (e + 1) + (0 * Alpha + (l + z - Alpha - 1))
      BY <1>1, <1>2, <1>3, <3>2
    <3>4. Decompose(v + z) = [hi |-> 0, lo |-> l + z - Alpha - 1]
      BY <1>2, <3>1, <3>3, CellUnique
    <3>5. QED
      BY <1>2, <2>1, <2>3, <3>4, NeighbourIs DEF HighBits
  <2>4. QED
    BY <1>1, <1>2, <2>2, <2>3
<1>6. CASE l + z < -Gamma2 \/ (l + z = -Gamma2 /\ h # 0)
  <2>1. l <= 0
    BY <1>1, <1>2, <1>6
  <2>2. CASE h > 0
    <3>1. IsCell(h - 1, l + z + Alpha)
      BY <1>1, <1>2, <1>6, <2>2 DEF IsCell
    <3>2. v + z = Q * e + ((h - 1) * Alpha + (l + z + Alpha))
      BY <1>1, <1>2, <1>3
    <3>3. Decompose(v + z) = [hi |-> h - 1, lo |-> l + z + Alpha]
      BY <1>2, <3>1, <3>2, CellUnique
    <3>4. QED
      BY <1>2, <2>1, <2>2, <3>3, NeighbourIs DEF HighBits
  <2>3. CASE h = 0
    <3>1. IsCell(Cells - 1, l + z + Alpha + 1)
      BY <1>1, <1>2, <1>6, <2>3 DEF IsCell
    <3>2. (Cells - 1) * Alpha = Q - 1 - Alpha /\ h * Alpha = 0
      BY <1>1, <2>3
    <3>3. v + z = Q * (e - 1) + ((Cells - 1) * Alpha + (l + z + Alpha + 1))
      BY <1>1, <1>2, <1>3, <3>2
    <3>4. Decompose(v + z) = [hi |-> Cells - 1, lo |-> l + z + Alpha + 1]
      BY <1>2, <3>1, <3>3, CellUnique
    <3>5. QED
      BY <1>2, <2>1, <2>3, <3>4, NeighbourIs DEF HighBits
  <2>4. QED
    BY <1>1, <1>2, <2>2, <2>3
<1>7. (l + z > Gamma2 \/ l + z < -Gamma2 \/ (l + z = -Gamma2 /\ h # 0))
      \/ IsCell(h, l + z)
  <2>1. Gamma2 \in Int /\ l + z \in Int /\ h \in 0 .. Cells - 1
    BY <1>1, <1>2
  <2>2. QED
    BY <2>1 DEF IsCell
<1>8. QED
  BY <1>4, <1>5, <1>6, <1>7

-----------------------------------------------------------------------------
\* The high and the low part of any number carry it modulo q, and stay in
\* the ranges their packed forms have room for.
THEOREM DecomposeRecombines ==
  ASSUME NEW v \in Int
  PROVE  /\ (HighBits(v) * (2 * Gamma2) + LowBits(v)) % Q = v % Q
         /\ HighBits(v) \in 0 .. Cells - 1
         /\ LowBits(v) \in -Gamma2 .. Gamma2
<1>1. PICK h \in Int, l \in Int, e \in Int :
        IsCell(h, l) /\ v = Q * e + (h * Alpha + l)
  BY CellExists
<1>2. Decompose(v) = [hi |-> h, lo |-> l]
  BY <1>1, CellUnique
<1>3. HighBits(v) = h /\ LowBits(v) = l
  BY <1>2 DEF HighBits, LowBits
<1>4. h * Alpha + l \in Int /\ Q \in Nat /\ Q > 0
  BY <1>1, CellsFact
<1>5. (h * Alpha + l) % Q = v % Q
  <2>1. PICK w \in Int : w = h * Alpha + l
    BY <1>4
  <2>2. /\ w % Q \in 0 .. Q - 1 /\ w \div Q \in Int
        /\ w = Q * (w \div Q) + (w % Q)
    BY <1>4, <2>1, DivMod
  <2>3. PICK j \in Int, s \in Int : j = (w \div Q) + e /\ s = w % Q
    BY <1>1, <2>2
  <2>4. v = Q * j + s /\ 0 <= s /\ s < Q /\ j \in Int /\ s \in Int
    <3>1. PICK k \in Int : k = w \div Q
      BY <2>2
    <3>2. v = Q * e + (Q * k + s) /\ j = k + e
      BY <1>1, <2>1, <2>2, <2>3, <3>1
    <3>3. Q * (k + e) = Q * k + Q * e
      BY <1>1, <1>4, <3>1
    <3>4. Q * k \in Int /\ Q * e \in Int /\ s \in Int
      BY <1>1, <1>4, <2>3, <3>1
    <3>5. v = Q * (k + e) + s
      BY <3>2, <3>3, <3>4
    <3>6. 0 <= s /\ s < Q
      BY <1>4, <2>2, <2>3
    <3>7. QED
      BY <2>3, <3>2, <3>5, <3>6
  <2>5. v % Q = s
    BY <1>4, <2>4, DivModUnique
  <2>6. QED
    BY <2>1, <2>3, <2>5
<1>6. QED
  BY <1>1, <1>3, <1>5 DEF IsCell, Alpha

LEMMA HintForward ==
  ASSUME NEW v \in Int, NEW z \in -Gamma2 .. Gamma2
  PROVE  UseHint(v, MakeHint(z, v)) = HighBits(v + z)
<1>1. PICK h \in Int, l \in Int, e \in Int :
        IsCell(h, l) /\ v = Q * e + (h * Alpha + l)
  BY CellExists
<1>2. Decompose(v) = [hi |-> h, lo |-> l]
  BY <1>1, CellUnique
<1>3. HighBits(v) = h
  BY <1>2 DEF HighBits
<1>4. HighBits(v + z) \in {h, Neighbour(h, l)}
  BY <1>1, Displaced
<1>5. UseHint(v, TRUE) = Neighbour(h, l) /\ UseHint(v, FALSE) = h
  BY <1>2 DEF UseHint, Neighbour
<1>6. CASE HighBits(v + z) = h
  BY <1>3, <1>5, <1>6 DEF MakeHint
<1>7. CASE HighBits(v + z) # h
  BY <1>3, <1>4, <1>5, <1>7 DEF MakeHint
<1>8. QED
  BY <1>6, <1>7

\* HintsRecover for every number and every displacement up to gamma2: the
\* hint bit takes either end of the displacement to the other end's cell.
THEOREM HintsRecoverBoth ==
  ASSUME NEW v \in Int, NEW z \in -Gamma2 .. Gamma2
  PROVE  /\ UseHint(v, MakeHint(z, v)) = HighBits(v + z)
         /\ UseHint(v + z, MakeHint(z, v)) = HighBits(v)
<1>1. Gamma2 \in Nat
  BY CellsFact
<1>2. v + z \in Int /\ -z \in -Gamma2 .. Gamma2 /\ (v + z) + (-z) = v
  BY <1>1
<1>3. MakeHint(-z, v + z) = MakeHint(z, v)
  BY <1>2 DEF MakeHint
<1>4. UseHint(v + z, MakeHint(-z, v + z)) = HighBits((v + z) + (-z))
  BY <1>2, HintForward
<1>5. QED
  BY <1>2, <1>3, <1>4, HintForward

-----------------------------------------------------------------------------
\* Congruence modulo q.
Eqm(a, b) == Cong(Q, a, b)

LEMMA QFact == Q \in Nat /\ Q > 0
BY CellsFact

LEMMA EqmRefl == ASSUME NEW a \in Int PROVE Eqm(a, a)
BY QFact, CongRefl DEF Eqm

LEMMA EqmSym ==
  ASSUME NEW a \in Int, NEW b \in Int, Eqm(a, b) PROVE Eqm(b, a)
BY QFact, CongSym DEF Eqm

LEMMA EqmTrans ==
  ASSUME NEW a \in Int, NEW b \in Int, NEW d \in Int, Eqm(a, b), Eqm(b, d)
  PROVE  Eqm(a, d)
BY QFact, CongTrans DEF Eqm

LEMMA EqmAdd ==
  ASSUME NEW a \in Int, NEW b \in Int, NEW d \in Int, NEW g \in Int,
         Eqm(a, b), Eqm(d, g)
  PROVE  Eqm(a + d, b + g) /\ Eqm(a - d, b - g)
BY QFact, CongAdd DEF Eqm

LEMMA EqmMul ==
  ASSUME NEW a \in Int, NEW b \in Int, NEW x \in Int, Eqm(a, b)
  PROVE  Eqm(x * a, x * b)
BY QFact, CongScale DEF Eqm

LEMMA EqmMod ==
  ASSUME NEW a \in Int PROVE a % Q \in 0 .. Q - 1 /\ Eqm(a % Q, a)
BY QFact, CongMod DEF Eqm

LEMMA EqmSame ==
  ASSUME NEW a \in Int, NEW b \in Int, Eqm(a, b) PROVE a % Q = b % Q
BY QFact, CongSame DEF Eqm

\* Rounding sees a number only modulo q.
LEMMA RoundsModQ ==
  ASSUME NEW a \in Int, NEW b \in Int, Eqm(a, b)
  PROVE  /\ HighBits(a) = HighBits(b)
         /\ LowBits(a) = LowBits(b)
         /\ \A hint \in BOOLEAN : UseHint(a, hint) = UseHint(b, hint)
<1>1. Decompose(a) = Decompose(b)
  BY EqmSame DEF Decompose
<1>2. QED
  BY <1>1 DEF HighBits, LowBits, UseHint

\* The middle of a cell: a small displacement does not leave it.
LEMMA Inner ==
  ASSUME NEW u \in Int, NEW b \in Nat, b < Gamma2, NEW d \in Int,
         Abs(LowBits(u)) < Gamma2 - b, -b <= d, d <= b
  PROVE  HighBits(u + d) = HighBits(u)
<1>1. PICK h \in Int, l \in Int, e \in Int :
        IsCell(h, l) /\ u = Q * e + (h * Alpha + l)
  BY CellExists
<1>2. Decompose(u) = [hi |-> h, lo |-> l]
  BY <1>1, CellUnique
<1>3. HighBits(u) = h /\ LowBits(u) = l
  BY <1>2 DEF HighBits, LowBits
<1>4. Gamma2 \in Nat
  BY CellsFact
<1>5. -(Gamma2 - b) < l /\ l < Gamma2 - b
  BY <1>1, <1>3, <1>4 DEF Abs
<1>6. l + d \in -Gamma2 .. Gamma2 /\ l + d # -Gamma2 /\ h \in 0 .. Cells - 1
  BY <1>1, <1>4, <1>5 DEF IsCell
<1>7. IsCell(h, l + d)
  BY <1>6 DEF IsCell
<1>8. Q * e \in Int /\ h * Alpha \in Int
  BY <1>1, CellsFact
<1>9. u + d = Q * e + (h * Alpha + (l + d))
  BY <1>1, <1>8
<1>10. u + d \in Int
  BY <1>1
<1>11. Decompose(u + d) = [hi |-> h, lo |-> l + d]
  BY <1>1, <1>7, <1>9, <1>10, CellUnique
<1>12. QED
  BY <1>3, <1>11 DEF HighBits

LEMMA CenteredEqm ==
  ASSUME NEW v \in Int
  PROVE  Centered(v) \in Int /\ Eqm(Centered(v), v)
<1>1. v % Q \in Int /\ Eqm(v % Q, v) /\ Q \in Int
  BY EqmMod, CellsFact
<1>5. Eqm((v % Q) - Q, v)
  <2>1. PICK e \in Int : v % Q = v + Q * e
    BY <1>1 DEF Eqm, Cong
  <2>2. PICK w \in Int : w = v % Q
    BY <1>1
  <2>3. w - Q = v + Q * (e - 1) /\ e - 1 \in Int
    BY <1>1, <2>1, <2>2
  <2>4. QED
    BY <2>2, <2>3 DEF Eqm, Cong
<1>6. CASE v % Q > Q \div 2
  <2>1. Centered(v) = (v % Q) - Q
    BY <1>6 DEF Centered, ModPm
  <2>2. QED
    BY <1>1, <1>5, <2>1
<1>7. CASE ~(v % Q > Q \div 2)
  <2>1. Centered(v) = v % Q
    BY <1>7 DEF Centered, ModPm
  <2>2. QED
    BY <1>1, <2>1
<1>8. QED
  BY <1>6, <1>7

\* |c s| <= tau eta.
LEMMA ProductBound ==
  ASSUME NEW ch \in Challenges, NEW s \in -Eta .. Eta
  PROVE  ch * s \in Int /\ -Beta <= ch * s /\ ch * s <= Beta
<1>1. ch \in -Tau .. Tau /\ Tau \in Nat /\ Eta \in Nat
  BY MlDsaAssumption
<1>2. ch \in Int /\ s \in Int /\ -Tau <= ch /\ ch <= Tau /\ -Eta <= s /\ s <= Eta
  BY <1>1
<1>3. PICK u \in 0 .. Tau : ch = u \/ ch = -u
  <2>1. CASE ch >= 0
    BY <1>1, <1>2, <2>1
  <2>2. CASE ch < 0
    <3>1. -ch \in 0 .. Tau /\ ch = -(-ch)
      BY <1>1, <1>2, <2>2
    <3>2. QED
      BY <3>1
  <2>3. QED
    BY <1>2, <2>1, <2>2
<1>4. u \in Int /\ 0 <= u /\ u <= Tau
  BY <1>1, <1>3
<1>5. u * s <= u * Eta /\ -(u * Eta) <= u * s
  BY <1>1, <1>2, <1>4
<1>6. u * Eta <= Tau * Eta
  BY <1>1, <1>4
<1>7. u * s \in Int /\ u * Eta \in Int /\ Tau * Eta \in Int
  BY <1>1, <1>2, <1>4
<1>8. -(Tau * Eta) <= u * s /\ u * s <= Tau * Eta
  BY <1>5, <1>6, <1>7
<1>9. ch * s = u * s \/ ch * s = -(u * s)
  BY <1>2, <1>3, <1>4
<1>10. QED
  BY <1>7, <1>8, <1>9 DEF Beta

-----------------------------------------------------------------------------
LEMMA KeyFacts ==
  ASSUME NEW k \in Keys
  PROVE  /\ \A i \in Rows : \A j \in Cols : k.a[i][j] \in Int
         /\ \A j \in Cols : k.s1[j] \in -Eta .. Eta /\ k.s1[j] \in Int
         /\ \A i \in Rows : k.s2[i] \in -Eta .. Eta /\ k.s2[i] \in Int
<1>1. k \in KeyType
  BY MlDsaAssumption
<1>2. /\ k.a \in [Rows -> [Cols -> Coeffs]]
      /\ k.s1 \in [Cols -> -Eta .. Eta] /\ k.s2 \in [Rows -> -Eta .. Eta]
  BY <1>1 DEF KeyType
<1>3. Coeffs \subseteq Int /\ -Eta .. Eta \subseteq Int
  BY CellsFact, MlDsaAssumption DEF Coeffs
<1>4. QED
  BY <1>2, <1>3

\* Power2Round loses nothing.
LEMMA TopAndBottom ==
  ASSUME NEW a \in Int
  PROVE  /\ Power2Round(a).hi \in Int /\ Power2Round(a).lo \in Int
         /\ Power2Round(a).hi * Pow2D + Power2Round(a).lo = a
<1>1. Pow2D \in Nat /\ Pow2D > 0
  BY RoundingAssumption
<1>2. PICK k \in Int, r \in Int : k = a \div Pow2D /\ r = a % Pow2D /\ a = Pow2D * k + r
  BY <1>1, DivMod
<1>3. PICK n \in Int, r0 \in Int : r0 = ModPm(a, Pow2D) /\ a = Pow2D * n + r0
  <2>1. CASE r > Pow2D \div 2
    <3>1. ModPm(a, Pow2D) = r - Pow2D
      BY <1>2, <2>1 DEF ModPm
    <3>2. a = Pow2D * (k + 1) + (r - Pow2D)
      BY <1>1, <1>2
    <3>3. k + 1 \in Int /\ r - Pow2D \in Int
      BY <1>1, <1>2
    <3>4. QED
      BY <3>1, <3>2, <3>3
  <2>2. CASE ~(r > Pow2D \div 2)
    <3>1. ModPm(a, Pow2D) = r
      BY <1>2, <2>2 DEF ModPm
    <3>2. QED
      BY <1>2, <3>1
  <2>3. QED
    BY <2>1, <2>2
<1>4. a - r0 = Pow2D * n + 0 /\ a - r0 \in Int
  BY <1>1, <1>3
<1>5. (a - r0) \div Pow2D = n
  <2>1. PICK b \in Int : b = a - r0
    BY <1>4
  <2>2. b = Pow2D * n + 0
    BY <1>4, <2>1
  <2>3. b \div Pow2D = n
    BY <1>1, <1>3, <2>2, DivModUnique
  <2>4. QED
    BY <2>1, <2>3
<1>6. Power2Round(a) = [hi |-> n, lo |-> r0]
  BY <1>3, <1>5 DEF Power2Round
<1>7. n * Pow2D + r0 = a
  BY <1>1, <1>3
<1>8. QED
  BY <1>3, <1>6, <1>7

LEMMA MatVecEqm ==
  ASSUME NEW k \in Keys, NEW i \in Rows, NEW x1 \in Int, NEW x2 \in Int,
         NEW x, x[1] = x1, x[2] = x2
  PROVE  /\ MatVec(k, x)[i] \in Int
         /\ Eqm(MatVec(k, x)[i], k.a[i][1] * x1 + k.a[i][2] * x2)
<1>1. MatVec(k, x)[i] = (k.a[i][1] * x1 + k.a[i][2] * x2) % Q
  BY DEF MatVec
<1>2. k.a[i][1] \in Int /\ k.a[i][2] \in Int
  BY KeyFacts DEF Cols
<1>3. k.a[i][1] * x1 + k.a[i][2] * x2 \in Int
  BY <1>2
<1>4. QED
  BY <1>1, <1>3, EqmMod, CellsFact

\* The two values as polynomials in the key, the mask and the challenge.
LEMMA Algebra ==
  ASSUME NEW a1 \in Int, NEW a2 \in Int, NEW m1 \in Int, NEW m2 \in Int,
         NEW x1 \in Int, NEW x2 \in Int, NEW x \in Int, NEW ch \in Int,
         NEW t1 \in Int, NEW t0 \in Int, NEW p \in Int
  PROVE  /\ (a1 * (m1 + ch * x1) + a2 * (m2 + ch * x2)) - ch * t1 * p
              = ((a1 * m1 + a2 * m2) - ch * x - ch * t1 * p)
                  + ch * (a1 * x1 + a2 * x2 + x)
         /\ (a1 * m1 + a2 * m2) - ch * x + ch * t0
              = ((a1 * m1 + a2 * m2) - ch * x - ch * t1 * p)
                  + ch * (t1 * p + t0)
<1>1. ch * (a1 * x1 + a2 * x2 + x) = ch * (a1 * x1) + ch * (a2 * x2) + ch * x
  OBVIOUS
<1>2. /\ a1 * (m1 + ch * x1) = a1 * m1 + ch * (a1 * x1)
      /\ a2 * (m2 + ch * x2) = a2 * m2 + ch * (a2 * x2)
  OBVIOUS
<1>3. ch * (t1 * p + t0) = ch * t1 * p + ch * t0
  OBVIOUS
<1>4. QED
  BY <1>1, <1>2, <1>3

\* The verifier, who knows neither t0 nor the mask, computes exactly the
\* signer's w - c s2 + c t0.
LEMMA VerifierValue ==
  ASSUME NEW k \in Keys, NEW m \in Masks, NEW ch \in Challenges, NEW i \in Rows,
         NEW z, \A j \in Cols : z[j] \in Int /\ Eqm(z[j], Z(k, m, ch)[j])
  PROVE  (MatVec(k, z)[i] - ch * T1(k)[i] * Pow2D) % Q
            = (WLess(k, m, ch)[i] + CT0(k, ch)[i]) % Q
<1>1. PICK a1 \in Int, a2 \in Int, m1 \in Int, m2 \in Int, x1 \in Int, x2 \in Int, x \in Int :
        /\ a1 = k.a[i][1] /\ a2 = k.a[i][2] /\ m1 = m[1] /\ m2 = m[2]
        /\ x1 = k.s1[1] /\ x2 = k.s1[2] /\ x = k.s2[i]
  <2>1. 1 \in Cols /\ 2 \in Cols
    BY DEF Cols
  <2>2. m[1] \in Int /\ m[2] \in Int
    BY <2>1, MlDsaAssumption DEF Masks
  <2>3. k.a[i][1] \in Int /\ k.a[i][2] \in Int
    BY <2>1, KeyFacts
  <2>4. k.s1[1] \in Int /\ k.s1[2] \in Int /\ k.s2[i] \in Int
    BY <2>1, KeyFacts
  <2>5. QED
    BY <2>2, <2>3, <2>4
<1>2. ch \in Int /\ Pow2D \in Int /\ Q \in Int
  BY MlDsaAssumption, RoundingAssumption
<1>3. PICK t \in Int : t = KeyT(k)[i]
  <2>1. MatVec(k, k.s1)[i] \in Int /\ k.s2[i] \in Int
    BY <1>1, MatVecEqm
  <2>2. PICK u \in Int : u = MatVec(k, k.s1)[i] + k.s2[i]
    BY <2>1
  <2>3. KeyT(k)[i] = u % Q
    BY <2>2 DEF KeyT
  <2>4. u % Q \in Int
    BY <2>2, EqmMod, CellsFact
  <2>5. QED
    BY <2>3, <2>4
<1>4. PICK t1 \in Int, t0 \in Int : t1 = T1(k)[i] /\ t0 = T0(k)[i] /\ t1 * Pow2D + t0 = t
  BY <1>3, TopAndBottom DEF T1, T0
<1>5. Eqm(t, a1 * x1 + a2 * x2 + x)
  <2>1. /\ MatVec(k, k.s1)[i] \in Int
        /\ Eqm(MatVec(k, k.s1)[i], a1 * x1 + a2 * x2)
    BY <1>1, MatVecEqm
  <2>2. PICK u \in Int : u = MatVec(k, k.s1)[i]
    BY <2>1
  <2>3. t = (u + x) % Q
    BY <1>1, <1>3, <2>2 DEF KeyT
  <2>4. Eqm(t, u + x) /\ u + x \in Int
    BY <1>1, <2>2, <2>3, EqmMod
  <2>5. Eqm(u + x, (a1 * x1 + a2 * x2) + x)
    <3>1. a1 * x1 + a2 * x2 \in Int
      BY <1>1
    <3>2. Eqm(x, x) /\ Eqm(u, a1 * x1 + a2 * x2)
      BY <1>1, <2>1, <2>2, EqmRefl
    <3>3. QED
      BY <1>1, <2>2, <3>1, <3>2, EqmAdd
  <2>6. (a1 * x1 + a2 * x2) + x \in Int
    BY <1>1
  <2>7. QED
    BY <1>3, <2>4, <2>5, <2>6, EqmTrans
<1> DEFINE b == (a1 * m1 + a2 * m2) - ch * x - ch * t1 * Pow2D
           v == (a1 * (m1 + ch * x1) + a2 * (m2 + ch * x2)) - ch * t1 * Pow2D
           r == (a1 * m1 + a2 * m2) - ch * x + ch * t0
           d == ch * (a1 * x1 + a2 * x2 + x)
           f == ch * (t1 * Pow2D + t0)
<1>6. v = b + d /\ r = b + f
  <2>1. /\ a1 \in Int /\ a2 \in Int /\ m1 \in Int /\ m2 \in Int
        /\ x1 \in Int /\ x2 \in Int /\ x \in Int /\ ch \in Int
        /\ t1 \in Int /\ t0 \in Int /\ Pow2D \in Int
    BY <1>1, <1>2, <1>4
  <2>2. QED
    BY <2>1, Algebra
<1>7. b \in Int /\ v \in Int /\ r \in Int /\ d \in Int /\ f \in Int
  BY <1>1, <1>2, <1>4
<1>8. Eqm(d, f)
  <2>1. a1 * x1 + a2 * x2 + x \in Int
    BY <1>1
  <2>2. Eqm(f, d)
    BY <1>2, <1>3, <1>4, <1>5, <2>1, EqmMul
  <2>3. QED
    BY <1>7, <2>2, EqmSym
<1>9. Eqm(v, r)
  <2> HIDE DEF b, v, r, d, f
  <2>1. Eqm(b, b)
    BY <1>7, EqmRefl
  <2>2. Eqm(b + d, b + f)
    BY <1>7, <1>8, <2>1, EqmAdd
  <2>3. QED
    BY <1>6, <2>2
<1>10. /\ MatVec(k, z)[i] \in Int
       /\ Eqm(MatVec(k, z)[i] - ch * T1(k)[i] * Pow2D, v)
  <2>1. PICK z1 \in Int, z2 \in Int :
          z1 = z[1] /\ z2 = z[2] /\ Eqm(z1, Z(k, m, ch)[1]) /\ Eqm(z2, Z(k, m, ch)[2])
    BY DEF Cols
  <2>2. /\ Z(k, m, ch)[1] = (m1 + ch * x1) % Q
        /\ Z(k, m, ch)[2] = (m2 + ch * x2) % Q
    BY <1>1 DEF Z, Cols
  <2>3. m1 + ch * x1 \in Int /\ m2 + ch * x2 \in Int
    BY <1>1, <1>2
  <2>4. Eqm(z1, m1 + ch * x1)
    <3>1. PICK u \in Int : u = m1 + ch * x1
      BY <2>3
    <3>2. u % Q \in Int /\ Eqm(u % Q, u) /\ Z(k, m, ch)[1] = u % Q
      BY <2>2, <3>1, EqmMod, CellsFact
    <3>3. Eqm(z1, u)
      BY <2>1, <3>1, <3>2, EqmTrans
    <3>4. QED
      BY <3>1, <3>3
  <2>5. Eqm(z2, m2 + ch * x2)
    <3>1. PICK u \in Int : u = m2 + ch * x2
      BY <2>3
    <3>2. u % Q \in Int /\ Eqm(u % Q, u) /\ Z(k, m, ch)[2] = u % Q
      BY <2>2, <3>1, EqmMod, CellsFact
    <3>3. Eqm(z2, u)
      BY <2>1, <3>1, <3>2, EqmTrans
    <3>4. QED
      BY <3>1, <3>3
  <2>6. /\ MatVec(k, z)[i] \in Int
        /\ Eqm(MatVec(k, z)[i], a1 * z1 + a2 * z2)
    BY <1>1, <2>1, MatVecEqm
  <2> DEFINE y1 == m1 + ch * x1
             y2 == m2 + ch * x2
  <2>7. y1 \in Int /\ y2 \in Int /\ Eqm(z1, y1) /\ Eqm(z2, y2)
    BY <2>3, <2>4, <2>5
  <2>8. Eqm(a1 * z1 + a2 * z2, a1 * y1 + a2 * y2)
    <3> HIDE DEF y1, y2
    <3>1. Eqm(a1 * z1, a1 * y1) /\ Eqm(a2 * z2, a2 * y2)
      BY <1>1, <2>1, <2>7, EqmMul
    <3>2. /\ a1 * z1 \in Int /\ a1 * y1 \in Int
          /\ a2 * z2 \in Int /\ a2 * y2 \in Int
      BY <1>1, <2>1, <2>7
    <3>3. QED
      BY <3>1, <3>2, EqmAdd
  <2>9. PICK s \in Int, g \in Int, n \in Int :
          /\ s = MatVec(k, z)[i] /\ g = a1 * y1 + a2 * y2 /\ n = ch * t1 * Pow2D
          /\ Eqm(s, g)
    <3>1. a1 * z1 + a2 * z2 \in Int /\ a1 * y1 + a2 * y2 \in Int
          /\ ch * t1 * Pow2D \in Int
      BY <1>1, <1>2, <1>4, <2>1, <2>7
    <3> HIDE DEF y1, y2
    <3>2. Eqm(MatVec(k, z)[i], a1 * y1 + a2 * y2)
      BY <2>6, <2>8, <3>1, EqmTrans
    <3>3. QED
      BY <2>6, <3>1, <3>2
  <2>10. Eqm(s - n, g - n)
    BY <2>9, EqmRefl, EqmAdd
  <2>11. v = g - n
    BY <2>9
  <2>12. MatVec(k, z)[i] - ch * T1(k)[i] * Pow2D = s - n
    BY <1>4, <2>9
  <2>13. QED
    BY <2>6, <2>10, <2>11, <2>12
<1>11. /\ WLess(k, m, ch)[i] \in Int /\ CT0(k, ch)[i] \in Int
       /\ Eqm(WLess(k, m, ch)[i] + CT0(k, ch)[i], r)
  <2>1. PICK w \in Int : w = W(k, m)[i] /\ Eqm(w, a1 * m1 + a2 * m2)
    BY <1>1, MatVecEqm DEF W
  <2>2. PICK u \in Int, n \in Int, o \in Int :
          u = a1 * m1 + a2 * m2 /\ n = ch * x /\ o = ch * t0
    BY <1>1, <1>2, <1>4
  <2>3. WLess(k, m, ch)[i] = (w - n) % Q /\ CT0(k, ch)[i] = o % Q
    BY <1>1, <1>4, <2>1, <2>2 DEF WLess, CT0
  <2>4. PICK p \in Int, q \in Int :
          p = WLess(k, m, ch)[i] /\ q = CT0(k, ch)[i] /\ Eqm(p, w - n) /\ Eqm(q, o)
    BY <2>1, <2>2, <2>3, EqmMod, CellsFact
  <2>5. Eqm(p, u - n)
    <3>1. Eqm(n, n) /\ Eqm(w, u)
      BY <2>1, <2>2, EqmRefl
    <3>2. Eqm(w - n, u - n)
      BY <2>1, <2>2, <3>1, EqmAdd
    <3>3. w - n \in Int /\ u - n \in Int
      BY <2>1, <2>2
    <3>4. QED
      BY <2>4, <3>2, <3>3, EqmTrans
  <2>6. Eqm(p + q, (u - n) + o)
    <3>1. u - n \in Int
      BY <2>2
    <3>2. QED
      BY <2>2, <2>4, <2>5, <3>1, EqmAdd
  <2>7. r = (u - n) + o
    BY <2>2
  <2>8. QED
    BY <2>4, <2>6, <2>7
<1>12. PICK g \in Int, n \in Int :
         /\ g = MatVec(k, z)[i] - ch * T1(k)[i] * Pow2D
         /\ n = WLess(k, m, ch)[i] + CT0(k, ch)[i]
  BY <1>2, <1>4, <1>10, <1>11
<1> HIDE DEF b, v, r, d, f
<1>13. Eqm(g, r)
  BY <1>7, <1>9, <1>10, <1>12, EqmTrans
<1>14. Eqm(g, n)
  BY <1>7, <1>11, <1>12, <1>13, EqmSym, EqmTrans
<1>15. QED
  BY <1>12, <1>14, EqmSame

-----------------------------------------------------------------------------
\* One coefficient of the hint: u is w - c s2, ct is c t0 and cs is c s2.
\* The signer's displacement cs - ct may be wider than a hint can undo, but
\* both ends of it share their cell with the ends of -ct, which is not.
LEMMA HintScalar ==
  ASSUME NEW u \in Int, NEW ct \in Int, NEW cs \in Int, NEW w \in Int,
         Eqm(w, u + cs), -Beta <= cs, cs <= Beta,
         Abs(LowBits(u)) < Gamma2 - Beta, Abs(Centered(ct)) < Gamma2,
         NEW r, r = (u + ct) % Q
  PROVE  UseHint(r, MakeHint(Centered(cs - ct), r)) = HighBits(w)
<1>1. Beta \in Nat /\ Beta < Gamma2 /\ Gamma2 \in Nat
  BY MlDsaAssumption, CellsFact DEF Beta
<1>2. HighBits(w) = HighBits(u) /\ HighBits(u + cs) = HighBits(u)
  <2>1. HighBits(u + cs) = HighBits(u)
    BY <1>1, Inner
  <2>2. u + cs \in Int
    OBVIOUS
  <2>3. HighBits(w) = HighBits(u + cs)
    BY <2>2, RoundsModQ
  <2>4. QED
    BY <2>1, <2>3
<1>3. PICK s \in Int : s = u + ct
  OBVIOUS
<1>4. r \in Int /\ Eqm(r, s)
  BY <1>3, EqmMod, CellsFact
<1>5. PICK c0 \in Int : c0 = Centered(ct) /\ Eqm(c0, ct)
  BY CenteredEqm
<1>6. PICK d \in Int : d = cs - ct
  OBVIOUS
<1>7. PICK zz \in Int : zz = Centered(d) /\ Eqm(zz, d)
  BY <1>6, CenteredEqm
<1>8. HighBits(r + (-c0)) = HighBits(u)
  <2>1. Eqm(r - c0, s - ct)
    BY <1>3, <1>4, <1>5, EqmAdd
  <2>2. r - c0 = r + (-c0) /\ s - ct = u /\ r + (-c0) \in Int
    BY <1>3, <1>4, <1>5
  <2>3. QED
    BY <2>1, <2>2, RoundsModQ
<1>9. HighBits(r + zz) = HighBits(u)
  <2>1. Eqm(r + zz, s + d)
    BY <1>4, <1>3, <1>6, <1>7, EqmAdd
  <2>2. s + d = u + cs /\ s + d \in Int /\ r + zz \in Int
    BY <1>3, <1>4, <1>6, <1>7
  <2>3. HighBits(r + zz) = HighBits(u + cs)
    BY <2>1, <2>2, RoundsModQ
  <2>4. QED
    BY <1>2, <2>3
<1>10. -c0 \in -Gamma2 .. Gamma2
  BY <1>1, <1>5 DEF Abs
<1>11. UseHint(r, MakeHint(-c0, r)) = HighBits(r + (-c0))
  BY <1>4, <1>10, HintForward
<1>12. MakeHint(-c0, r) = MakeHint(zz, r)
  BY <1>8, <1>9 DEF MakeHint
<1>13. QED
  BY <1>2, <1>6, <1>7, <1>8, <1>11, <1>12

\* w is w - c s2 moved back by c s2.
LEMMA WFromWLess ==
  ASSUME NEW k \in Keys, NEW m \in Masks, NEW ch \in Challenges, NEW i \in Rows
  PROVE  /\ W(k, m)[i] \in Int /\ WLess(k, m, ch)[i] \in Int /\ CT0(k, ch)[i] \in Int
         /\ ch * k.s2[i] \in Int
         /\ Eqm(W(k, m)[i], WLess(k, m, ch)[i] + ch * k.s2[i])
<1>1. PICK m1 \in Int, m2 \in Int : m1 = m[1] /\ m2 = m[2]
  <2>1. m[1] \in Int /\ m[2] \in Int
    BY MlDsaAssumption DEF Masks, Cols
  <2>2. QED
    BY <2>1
<1>2. PICK w \in Int : w = W(k, m)[i]
  BY <1>1, MatVecEqm DEF W
<1>3. PICK x \in Int : x = ch * k.s2[i]
  BY KeyFacts, ProductBound
<1>4. WLess(k, m, ch)[i] = (w - x) % Q
  BY <1>2, <1>3 DEF WLess
<1>5. PICK u \in Int : u = WLess(k, m, ch)[i] /\ Eqm(u, w - x)
  <2>1. PICK n \in Int : n = w - x
    BY <1>2, <1>3
  <2>2. QED
    BY <1>4, <2>1, EqmMod, CellsFact
<1>6. Eqm(u + x, (w - x) + x)
  <2>1. w - x \in Int /\ Eqm(x, x)
    BY <1>2, <1>3, EqmRefl
  <2>2. QED
    BY <1>3, <1>5, <2>1, EqmAdd
<1>7. (w - x) + x = w /\ u + x \in Int
  BY <1>2, <1>3, <1>5
<1>8. Eqm(w, u + x)
  BY <1>2, <1>6, <1>7, EqmSym
<1>9. CT0(k, ch)[i] \in Int
  <2>1. PICK o \in Int : o = ch * T0(k)[i]
    <3>1. k.s2[i] \in Int
      BY KeyFacts
    <3>2. PICK x1 \in Int, x2 \in Int : x1 = k.s1[1] /\ x2 = k.s1[2]
      BY KeyFacts DEF Cols
    <3>3. PICK v \in Int : v = MatVec(k, k.s1)[i] + k.s2[i]
      BY <3>1, <3>2, MatVecEqm
    <3>4. KeyT(k)[i] = v % Q
      BY <3>3 DEF KeyT
    <3>5. KeyT(k)[i] \in Int
      BY <3>3, <3>4, EqmMod, CellsFact
    <3>6. T0(k)[i] \in Int
      BY <3>5, TopAndBottom DEF T0
    <3>7. ch \in Int
      BY MlDsaAssumption
    <3>8. QED
      BY <3>6, <3>7
  <2>2. CT0(k, ch)[i] = o % Q
    BY <2>1 DEF CT0
  <2>3. QED
    BY <2>1, <2>2, EqmMod, CellsFact
<1>10. QED
  BY <1>2, <1>3, <1>5, <1>8, <1>9

-----------------------------------------------------------------------------
\* The inductive invariant: what an attempt drew, and what the gates let
\* through, are still there when the signature is out.
Drawn == phase \in {"gates", "sent", "verified"}
Read == kappa + (IF Drawn THEN L ELSE 0)

IInv ==
  /\ key \in Keys /\ signed \in Messages
  /\ phase \in {"sign", "panicked", "mask", "gates", "sent", "verified"}
  /\ kappa \in Nat /\ Read <= NonceField
  /\ streams = 0 .. Read - 1
  /\ Drawn => y \in Masks /\ c \in Challenges
  /\ Published =>
       /\ ZOk(key, y, c) /\ R0Ok(key, y, c) /\ HintOk(key, y, c)
       /\ sigma.z = [j \in Cols |-> BitPack(Centered(Z(key, y, c)[j]))]

LEMMA IInvInit == Init => IInv
<1>1. SUFFICES ASSUME Init PROVE IInv
  OBVIOUS
<1>2. ~Drawn /\ ~Published /\ Read = 0
  BY <1>1 DEF Init, Drawn, Published, Read
<1>3. streams = 0 .. Read - 1
  BY <1>1, <1>2 DEF Init
<1>4. QED
  BY <1>1, <1>2, <1>3, MlDsaAssumption DEF Init, IInv

LEMMA IInvStep == IInv /\ [Next]_vars => IInv'
<1> SUFFICES ASSUME IInv, [Next]_vars PROVE IInv'
  OBVIOUS
<1>1. NonceField \in Nat
  BY MlDsaAssumption
<1>2. CASE Sign
  <2>1. ~Drawn /\ ~Drawn' /\ ~Published'
    BY <1>2 DEF Sign, Drawn, Published
  <2>2. Read' = Read
    BY <1>2, <2>1 DEF Sign, Read
  <2>3. QED
    BY <1>2, <2>1, <2>2 DEF Sign, IInv
<1>3. CASE Attempt
  <2>1. ~Drawn /\ Drawn' /\ ~Published'
    BY <1>3 DEF Attempt, Drawn, Published
  <2>2. Read = kappa /\ Read' = kappa + 2 /\ kappa \in Nat /\ kappa + 2 <= NonceField
    BY <1>3, <2>1 DEF Attempt, Read, L, IInv
  <2>3. kappa % NonceField = kappa /\ (kappa + 1) % NonceField = kappa + 1
    BY <1>1, <2>2
  <2>4. streams' = streams \cup {kappa, kappa + 1}
    <3>1. {(kappa + r) % NonceField : r \in 0 .. L - 1} = {kappa, kappa + 1}
      <4>1. 0 .. L - 1 = {0, 1}
        BY DEF L
      <4>2. kappa + 0 = kappa
        BY <2>2
      <4>3. QED
        BY <2>3, <4>1, <4>2
    <3>2. QED
      BY <1>3, <3>1 DEF Attempt
  <2>5. streams = 0 .. kappa - 1
    BY <2>2 DEF IInv
  <2>6. streams' = 0 .. Read' - 1
    BY <2>2, <2>4, <2>5
  <2>7. y' \in Masks /\ c' \in Challenges
    BY <1>3 DEF Attempt
  <2>8. /\ key' = key /\ signed' = signed /\ kappa' = kappa /\ phase' = "gates"
    BY <1>3 DEF Attempt
  <2>9. QED
    BY <2>1, <2>2, <2>6, <2>7, <2>8 DEF IInv
<1>4. CASE Emit
  <2>1. Drawn /\ Drawn' /\ phase' = "sent"
    BY <1>4 DEF Emit, Drawn
  <2>2. /\ key' = key /\ signed' = signed /\ kappa' = kappa /\ streams' = streams
        /\ y' = y /\ c' = c
    BY <1>4 DEF Emit
  <2>3. Read' = Read
    BY <2>1, <2>2 DEF Read
  <2>4. /\ ZOk(key', y', c') /\ R0Ok(key', y', c') /\ HintOk(key', y', c')
        /\ sigma'.z = [j \in Cols |-> BitPack(Centered(Z(key', y', c')[j]))]
    BY <1>4, <2>2 DEF Emit
  <2>5. QED
    BY <2>1, <2>2, <2>3, <2>4 DEF IInv
<1>5. CASE Retry
  <2>1. Drawn /\ ~Drawn' /\ ~Published'
    BY <1>5 DEF Retry, Drawn, Published
  <2>2. Read = kappa + 2 /\ Read' = kappa + 2 /\ kappa' = kappa + 2 /\ kappa \in Nat
    BY <1>5, <2>1 DEF Retry, Read, L, NextKappa, IInv
  <2>3. /\ key' = key /\ signed' = signed /\ streams' = streams /\ phase' = "mask"
    BY <1>5 DEF Retry
  <2>4. QED
    BY <2>1, <2>2, <2>3 DEF IInv
<1>6. CASE Verify
  <2>1. Drawn /\ Drawn' /\ Published /\ phase' = "verified"
    BY <1>6 DEF Verify, Drawn, Published
  <2>2. /\ key' = key /\ signed' = signed /\ kappa' = kappa /\ streams' = streams
        /\ y' = y /\ c' = c /\ sigma' = sigma
    BY <1>6 DEF Verify
  <2>3. Read' = Read
    BY <2>1, <2>2 DEF Read
  <2>4. QED
    BY <2>1, <2>2, <2>3 DEF IInv
<1>7. CASE UNCHANGED vars
  BY <1>7 DEF vars, IInv, Drawn, Read, Published
<1>8. QED
  BY <1>2, <1>3, <1>4, <1>5, <1>6, <1>7 DEF Next

LEMMA Invariance == Spec => []IInv
BY IInvInit, IInvStep, PTL DEF Spec

\* The bytes of z read back as the centered z the norm gate looked at.
LEMMA SentZIs ==
  ASSUME IInv, Published
  PROVE  /\ key \in Keys /\ y \in Masks /\ c \in Challenges
         /\ \A j \in Cols :
              /\ Z(key, y, c)[j] \in Int
              /\ SentZ[j] \in Int /\ Eqm(SentZ[j], Z(key, y, c)[j])
              /\ -(Gamma1 - Beta) < SentZ[j] /\ SentZ[j] < Gamma1 - Beta
              /\ sigma.z[j] \in 0 .. 2 * Gamma1 - 1
<1>1. key \in Keys /\ y \in Masks /\ c \in Challenges
  BY DEF IInv, Published, Drawn
<1>2. SUFFICES ASSUME NEW j \in Cols
               PROVE  /\ Z(key, y, c)[j] \in Int
                      /\ SentZ[j] \in Int /\ Eqm(SentZ[j], Z(key, y, c)[j])
                      /\ -(Gamma1 - Beta) < SentZ[j] /\ SentZ[j] < Gamma1 - Beta
                      /\ sigma.z[j] \in 0 .. 2 * Gamma1 - 1
  BY <1>1
<1>3. Gamma1 \in Nat /\ Beta \in Nat /\ Beta < Gamma1
  BY MlDsaAssumption DEF Beta
<1>4. Z(key, y, c)[j] \in Int
  <2>1. y[j] \in Int /\ c \in Int /\ key.s1[j] \in Int
    BY <1>1, KeyFacts, MlDsaAssumption DEF Masks
  <2>2. PICK n \in Int : n = y[j] + c * key.s1[j]
    BY <2>1
  <2>3. Z(key, y, c)[j] = n % Q
    BY <2>2 DEF Z
  <2>4. QED
    BY <2>2, <2>3, EqmMod, CellsFact
<1>5. PICK x \in Int : x = Centered(Z(key, y, c)[j]) /\ Eqm(x, Z(key, y, c)[j])
  BY <1>4, CenteredEqm
<1>6. -(Gamma1 - Beta) < x /\ x < Gamma1 - Beta
  <2>1. Abs(x) < Gamma1 - Beta
    BY <1>5 DEF IInv, ZOk
  <2>2. QED
    BY <1>3, <1>5, <2>1 DEF Abs
<1>7. sigma.z[j] = (Gamma1 - x) % (2 * Gamma1)
  BY <1>5 DEF IInv, BitPack
<1>8. (Gamma1 - x) % (2 * Gamma1) = Gamma1 - x
  <2>1. PICK g \in Nat, p \in Int : g = 2 * Gamma1 /\ p = Gamma1 - x
    BY <1>3, <1>5
  <2>2. 0 <= p /\ p < g /\ g > 0
    BY <1>3, <1>5, <1>6, <2>1
  <2>3. p % g = p
    BY <2>1, <2>2
  <2>4. QED
    BY <2>1, <2>3
<1>9. SentZ[j] = x
  BY <1>3, <1>5, <1>7, <1>8 DEF SentZ, BitUnpack
<1>10. Gamma1 - x \in 0 .. 2 * Gamma1 - 1
  BY <1>3, <1>5, <1>6
<1>11. QED
  BY <1>4, <1>5, <1>6, <1>7, <1>8, <1>9, <1>10

-----------------------------------------------------------------------------
\* The variables of the signing loop keep their types (sign_mu, verify_mu).
THEOREM Typing == Spec => []TypeOK
<1>1. IInv => TypeOK
  <2>1. SUFFICES ASSUME IInv PROVE TypeOK
    OBVIOUS
  <2>2. Read \in Int /\ 0 <= kappa /\ kappa <= Read /\ NonceField \in Nat
    BY <2>1, MlDsaAssumption DEF IInv, Read, L
  <2>3. kappa \in 0 .. NonceField /\ streams \subseteq 0 .. NonceField - 1
    BY <2>1, <2>2 DEF IInv
  <2>4. ASSUME Published PROVE sigma.z \in [Cols -> 0 .. 2 * Gamma1 - 1]
    <3>1. \A j \in Cols : sigma.z[j] \in 0 .. 2 * Gamma1 - 1
      BY <2>1, <2>4, SentZIs
    <3>2. sigma.z = [j \in Cols |-> sigma.z[j]]
      BY <2>1, <2>4 DEF IInv
    <3>3. QED
      BY <3>1, <3>2
  <2>5. QED
    BY <2>1, <2>3, <2>4 DEF IInv, TypeOK, Drawn
<1>2. QED
  BY <1>1, Invariance, PTL

\* The signature's hint takes the verifier, who lacks t0 and the secrets,
\* to the w1 the signer hashed: for every key, mask and challenge that pass
\* the gates of sign_mu.
THEOREM HintReaches == Spec => []HintRecoversW1
<1>1. IInv => HintRecoversW1
  <2>1. SUFFICES ASSUME IInv, Published
                 PROVE  W1Verifier(key, SentZ, c, Hint(key, y, c)) = W1(key, y)
    BY DEF HintRecoversW1
  <2>2. SUFFICES ASSUME NEW i \in Rows
                 PROVE  W1Verifier(key, SentZ, c, Hint(key, y, c))[i] = W1(key, y)[i]
    BY DEF W1Verifier, W1
  <2>3. /\ key \in Keys /\ y \in Masks /\ c \in Challenges
        /\ \A j \in Cols : SentZ[j] \in Int /\ Eqm(SentZ[j], Z(key, y, c)[j])
    BY <2>1, SentZIs
  <2>4. PICK u \in Int, ct \in Int, cs \in Int, w \in Int :
          /\ u = WLess(key, y, c)[i] /\ ct = CT0(key, c)[i]
          /\ cs = c * key.s2[i] /\ w = W(key, y)[i] /\ Eqm(w, u + cs)
    BY <2>3, WFromWLess
  <2>5. PICK r : r = (u + ct) % Q
    OBVIOUS
  <2>6. (MatVec(key, SentZ)[i] - c * T1(key)[i] * Pow2D) % Q = r
    BY <2>3, <2>4, <2>5, VerifierValue
  <2>7. -Beta <= cs /\ cs <= Beta
    BY <2>3, <2>4, KeyFacts, ProductBound
  <2>8. Abs(LowBits(u)) < Gamma2 - Beta /\ Abs(Centered(ct)) < Gamma2
    BY <2>1, <2>4 DEF IInv, R0Ok, HintOk
  <2>9. UseHint(r, MakeHint(Centered(cs - ct), r)) = HighBits(w)
    BY <2>4, <2>5, <2>7, <2>8, HintScalar
  <2>10. (0 \in Hint(key, y, c)[i]) <=> MakeHint(Centered(cs - ct), r)
    BY <2>4, <2>5 DEF Hint
  <2>11. MakeHint(Centered(cs - ct), r) \in BOOLEAN
    BY DEF MakeHint
  <2>12. (0 \in Hint(key, y, c)[i]) = MakeHint(Centered(cs - ct), r)
    BY <2>10, <2>11
  <2>13. W1Verifier(key, SentZ, c, Hint(key, y, c))[i]
           = UseHint(r, 0 \in Hint(key, y, c)[i])
    BY <2>6 DEF W1Verifier
  <2>14. W1(key, y)[i] = HighBits(w)
    BY <2>4 DEF W1
  <2>15. QED
    BY <2>9, <2>12, <2>13, <2>14
<1>2. QED
  BY <1>1, Invariance, PTL

\* No mask stream is expanded twice while the nonce lasts: the loop reads
\* L new streams per attempt.
THEOREM MasksAreFresh == Spec => []FreshMasks
<1>1. IInv => FreshMasks
  <2>1. SUFFICES ASSUME IInv PROVE FreshMasks
    OBVIOUS
  <2>2. Read \in Int /\ 0 <= Read /\ streams = 0 .. Read - 1
    BY <2>1 DEF IInv, Read, L
  <2>3. Cardinality(0 .. Read - 1) = Read
    <3>1. PICK n \in Int : n = Read - 1 /\ n + 1 = Read /\ n >= -1
      BY <2>2
    <3>2. \A a, b \in Int : Cardinality(a .. b) = IF a > b THEN 0 ELSE b - a + 1
      BY FS_Interval
    <3>3. QED
      BY <3>1, <3>2
  <2>4. QED
    BY <2>2, <2>3 DEF FreshMasks, Read, Drawn
<1>2. QED
  BY <1>1, Invariance, PTL

\* The norm gates make z and w1 fit every pair of secrets: what sign_mu
\* returns could have come from any of them.
THEOREM GatesHideSecrets == Spec => []PublishedFitsEverySecret
<1>1. IInv => PublishedFitsEverySecret
  <2>1. SUFFICES ASSUME IInv, Published
          PROVE  /\ \A j \in Cols : \A s \in -Eta .. Eta :
                      SentZ[j] - c * s \in -Gamma1 + 1 .. Gamma1
                 /\ \A i \in Rows : \A s \in -Eta .. Eta :
                      HighBits(WLess(key, y, c)[i] + c * s) = W1(key, y)[i]
    BY DEF PublishedFitsEverySecret
  <2>2. key \in Keys /\ y \in Masks /\ c \in Challenges
    BY <2>1, SentZIs
  <2>3. Gamma1 \in Nat /\ Beta \in Nat /\ Beta < Gamma2
    BY MlDsaAssumption DEF Beta
  <2>4. ASSUME NEW j \in Cols, NEW s \in -Eta .. Eta
        PROVE  SentZ[j] - c * s \in -Gamma1 + 1 .. Gamma1
    <3>1. PICK x \in Int, d \in Int :
            /\ x = SentZ[j] /\ d = c * s
            /\ -(Gamma1 - Beta) < x /\ x < Gamma1 - Beta
            /\ -Beta <= d /\ d <= Beta
      BY <2>1, <2>2, <2>4, SentZIs, ProductBound
    <3>2. x - d \in -Gamma1 + 1 .. Gamma1
      BY <2>3, <3>1
    <3>3. QED
      BY <3>1, <3>2
  <2>5. ASSUME NEW i \in Rows, NEW s \in -Eta .. Eta
        PROVE  HighBits(WLess(key, y, c)[i] + c * s) = W1(key, y)[i]
    <3>1. PICK u \in Int, cs \in Int, w \in Int :
            /\ u = WLess(key, y, c)[i] /\ cs = c * key.s2[i]
            /\ w = W(key, y)[i] /\ Eqm(w, u + cs)
      BY <2>2, WFromWLess
    <3>2. PICK d \in Int : d = c * s /\ -Beta <= d /\ d <= Beta
      BY <2>2, <2>5, ProductBound
    <3>3. -Beta <= cs /\ cs <= Beta
      BY <2>2, <3>1, KeyFacts, ProductBound
    <3>4. Abs(LowBits(u)) < Gamma2 - Beta
      BY <2>1, <3>1 DEF IInv, R0Ok
    <3>5. HighBits(u + d) = HighBits(u) /\ HighBits(u + cs) = HighBits(u)
      BY <2>3, <3>1, <3>2, <3>3, <3>4, Inner
    <3>6. HighBits(w) = HighBits(u + cs)
      <4>1. u + cs \in Int
        BY <3>1
      <4>2. QED
        BY <3>1, <4>1, RoundsModQ
    <3>7. QED
      BY <3>1, <3>2, <3>5, <3>6 DEF W1
  <2>6. QED
    BY <2>4, <2>5
<1>2. QED
  BY <1>1, Invariance, PTL

-----------------------------------------------------------------------------
(***************************************************************************)
(* The hint's bytes.  The bits of a hint are written in the order of their *)
(* rows and, in a row, of their positions; a bit's place among the bytes   *)
(* is the number of bits up to it, and the count behind a row is the       *)
(* number of bits up to the row's end.                                     *)
(***************************************************************************)
\* Where the bits up to each bit form a chain, there is one bit for each place.
LEMMA Places ==
  ASSUME NEW S, IsFiniteSet(S), NEW U,
         \A b \in S : U[b] \subseteq S /\ b \in U[b],
         \A a, b \in S : a \in U[b] \/ b \in U[a],
         \A a, b \in S : a \in U[b] /\ a # b => U[a] \subseteq U[b] \ {b}
  PROVE  /\ \A b \in S : Cardinality(U[b]) \in 1 .. Cardinality(S)
         /\ \A a, b \in S : Cardinality(U[a]) = Cardinality(U[b]) => a = b
         /\ \A n \in 1 .. Cardinality(S) : \E b \in S : Cardinality(U[b]) = n
<1>1. \A b \in S : /\ IsFiniteSet(U[b]) /\ Cardinality(U[b]) \in Nat
                   /\ Cardinality(U[b]) <= Cardinality(S) /\ Cardinality(U[b]) >= 1
  <2>1. SUFFICES ASSUME NEW b \in S
                 PROVE  /\ IsFiniteSet(U[b]) /\ Cardinality(U[b]) \in Nat
                        /\ Cardinality(U[b]) <= Cardinality(S) /\ Cardinality(U[b]) >= 1
    OBVIOUS
  <2>2. IsFiniteSet(U[b]) /\ Cardinality(U[b]) <= Cardinality(S)
    BY FS_Subset
  <2>3. Cardinality(U[b]) \in Nat
    BY <2>2, FS_CardinalityType
  <2>4. Cardinality(U[b]) # 0
    BY <2>2, FS_EmptySet
  <2>5. QED
    BY <2>2, <2>3, <2>4
<1>2. Cardinality(S) \in Nat
  BY FS_CardinalityType
<1>3. ASSUME NEW a \in S, NEW b \in S, a \in U[b], a # b
      PROVE  Cardinality(U[a]) < Cardinality(U[b])
  <2>1. U[a] \subseteq U[b] \ {b} /\ b \in U[b]
    BY <1>3
  <2>2. IsFiniteSet(U[b] \ {b}) /\ Cardinality(U[b] \ {b}) = Cardinality(U[b]) - 1
    BY <1>1, <2>1, FS_RemoveElement
  <2>3. Cardinality(U[a]) <= Cardinality(U[b] \ {b})
    BY <2>1, <2>2, FS_Subset
  <2>4. QED
    BY <1>1, <2>2, <2>3
<1>4. \A a, b \in S : Cardinality(U[a]) = Cardinality(U[b]) => a = b
  BY <1>1, <1>3
<1> DEFINE T == 1 .. Cardinality(S)
           f == [b \in S |-> Cardinality(U[b])]
<1>5. \A b \in S : Cardinality(U[b]) \in T
  BY <1>1, <1>2
<1>6. f \in Injection(S, T)
  BY <1>4, <1>5 DEF Injection, IsInjective
<1>7. IsFiniteSet(T) /\ Cardinality(T) = Cardinality(S)
  <2>1. PICK n \in Nat : n = Cardinality(S)
    BY <1>2
  <2>2. IsFiniteSet(1 .. n) /\ Cardinality(1 .. n) = n
    BY FS_Interval
  <2>3. QED
    BY <2>1, <2>2
<1>8. f \in Surjection(S, T)
  BY <1>6, <1>7, FS_Injection
<1>9. \A n \in T : \E b \in S : f[b] = n
  BY <1>8 DEF Surjection
<1>10. QED
  BY <1>4, <1>5, <1>9

BitsOfRows(h, n) == {b \in SetBits(h) : b[1] <= n}

LEMMA BitsFinite ==
  ASSUME NEW h \in Hints
  PROVE  /\ IsFiniteSet(SetBits(h)) /\ Cardinality(SetBits(h)) \in Nat
         /\ \A n : /\ IsFiniteSet(BitsOfRows(h, n)) /\ Cardinality(BitsOfRows(h, n)) \in Nat
                   /\ Cardinality(BitsOfRows(h, n)) <= Cardinality(SetBits(h))
<1>1. K \in Nat /\ N \in Nat
  BY HintAssumption
<1>2. IsFiniteSet(Rows) /\ IsFiniteSet(0 .. N - 1)
  BY <1>1, FS_Interval DEF Rows
<1>3. IsFiniteSet(Rows \X (0 .. N - 1))
  BY <1>2, FS_Product
<1>4. SetBits(h) \subseteq Rows \X (0 .. N - 1)
  BY DEF SetBits
<1>5. IsFiniteSet(SetBits(h))
  BY <1>3, <1>4, FS_Subset
<1>6. \A n : BitsOfRows(h, n) \subseteq SetBits(h)
  BY DEF BitsOfRows
<1>7. QED
  BY <1>5, <1>6, FS_Subset, FS_CardinalityType

\* A set bit is a row and a position of it.
LEMMA BitIs ==
  ASSUME NEW h \in Hints, NEW b \in SetBits(h)
  PROVE  /\ b[1] \in Rows /\ b[1] \in Int /\ b[1] >= 1 /\ b[1] <= K
         /\ b[2] \in 0 .. N - 1 /\ b[2] \in Int /\ b[2] \in h[b[1]] /\ b = <<b[1], b[2]>>
<1>1. b \in Rows \X (0 .. N - 1) /\ b[2] \in h[b[1]]
  BY DEF SetBits
<1>2. QED
  BY <1>1, HintAssumption DEF Rows

\* The places of the bits, and which of them are up to the end of a row.
LEMMA BitPlaces ==
  ASSUME NEW h \in Hints
  PROVE  /\ \A b \in SetBits(h) : Cardinality(Upto(h, b)) \in 1 .. Cardinality(SetBits(h))
         /\ \A a, b \in SetBits(h) : Cardinality(Upto(h, a)) = Cardinality(Upto(h, b)) => a = b
         /\ \A n \in 1 .. Cardinality(SetBits(h)) : \E b \in SetBits(h) : Cardinality(Upto(h, b)) = n
         /\ \A b \in SetBits(h), n \in Int :
              (b[1] <= n) <=> (Cardinality(Upto(h, b)) <= Cardinality(BitsOfRows(h, n)))
<1> DEFINE S == SetBits(h)
           U == [b \in S |-> Upto(h, b)]
<1>1. IsFiniteSet(S)
  BY BitsFinite
<1>2. \A b \in S : U[b] \subseteq S /\ b \in U[b]
  BY BitIs DEF Upto
<1>3. ASSUME NEW a \in S, NEW b \in S
      PROVE  /\ a \in U[b] \/ b \in U[a]
             /\ a \in U[b] /\ a # b => U[a] \subseteq U[b] \ {b}
  <2>1. PICK i \in Int, p \in Int : a = <<i, p>>
    BY BitIs
  <2>2. PICK j \in Int, q \in Int : b = <<j, q>>
    BY BitIs
  <2>3. \A d \in S : (d \in U[b] <=> d[1] < j \/ (d[1] = j /\ d[2] <= q))
                     /\ (d \in U[a] <=> d[1] < i \/ (d[1] = i /\ d[2] <= p))
    BY <2>1, <2>2 DEF Upto
  <2>4. a \in U[b] \/ b \in U[a]
    BY <2>1, <2>2, <2>3
  <2>5. ASSUME a \in U[b], a # b PROVE U[a] \subseteq U[b] \ {b}
    <3>1. i < j \/ (i = j /\ p < q)
      BY <2>1, <2>2, <2>3, <2>5
    <3>2. ASSUME NEW d \in U[a] PROVE d \in U[b] /\ d # b
      <4>1. d \in S
        BY <1>2
      <4>2. PICK k \in Int, r \in Int : d = <<k, r>>
        BY <4>1, BitIs
      <4>3. k < i \/ (k = i /\ r <= p)
        BY <2>3, <4>1, <4>2
      <4>4. QED
        BY <2>2, <2>3, <3>1, <4>1, <4>2, <4>3
    <3>3. QED
      BY <3>2
  <2>6. QED
    BY <2>4, <2>5
<1>4. /\ \A b \in S : Cardinality(U[b]) \in 1 .. Cardinality(S)
      /\ \A a, b \in S : Cardinality(U[a]) = Cardinality(U[b]) => a = b
      /\ \A n \in 1 .. Cardinality(S) : \E b \in S : Cardinality(U[b]) = n
  <2> HIDE DEF S, U
  <2>1. QED
    BY <1>1, <1>2, <1>3, Places
<1>5. ASSUME NEW b \in S, NEW n \in Int
      PROVE  (b[1] <= n) <=> (Cardinality(U[b]) <= Cardinality(BitsOfRows(h, n)))
  <2>1. PICK j \in Int : j = b[1]
    BY BitIs
  <2>2. IsFiniteSet(BitsOfRows(h, n)) /\ Cardinality(BitsOfRows(h, n)) \in Nat
    BY BitsFinite
  <2>3. U[b] \subseteq S /\ b \in U[b] /\ IsFiniteSet(U[b]) /\ Cardinality(U[b]) \in Nat
    <3>1. U[b] \subseteq S /\ b \in U[b]
      BY <1>2
    <3>2. IsFiniteSet(U[b])
      BY <1>1, <3>1, FS_Subset
    <3>3. QED
      BY <3>1, <3>2, FS_CardinalityType
  <2>4. CASE j <= n
    <3>1. ASSUME NEW d \in U[b] PROVE d \in BitsOfRows(h, n)
      <4>1. d \in S /\ (d[1] < j \/ d[1] = j)
        BY <2>1, <2>3 DEF Upto
      <4>2. d[1] \in Int
        BY <4>1, BitIs
      <4>3. QED
        BY <2>4, <4>1, <4>2 DEF BitsOfRows
    <3>2. U[b] \subseteq BitsOfRows(h, n)
      BY <3>1
    <3>3. Cardinality(U[b]) <= Cardinality(BitsOfRows(h, n))
      BY <2>2, <3>2, FS_Subset
    <3>4. QED
      BY <2>1, <2>4, <3>3
  <2>5. CASE j > n
    <3>1. ASSUME NEW d \in BitsOfRows(h, n) PROVE d \in U[b] \ {b}
      <4>1. d \in S /\ d[1] <= n
        BY DEF BitsOfRows
      <4>2. d[1] \in Int
        BY <4>1, BitIs
      <4>3. d[1] < j
        BY <2>5, <4>1, <4>2
      <4>4. QED
        BY <2>1, <4>1, <4>3, <4>2 DEF Upto
    <3>2. IsFiniteSet(U[b] \ {b}) /\ Cardinality(U[b] \ {b}) = Cardinality(U[b]) - 1
      BY <2>3, FS_RemoveElement
    <3>3. Cardinality(BitsOfRows(h, n)) <= Cardinality(U[b] \ {b})
      <4>1. BitsOfRows(h, n) \subseteq U[b] \ {b}
        BY <3>1
      <4>2. QED
        BY <3>2, <4>1, FS_Subset
    <3>4. QED
      BY <2>1, <2>2, <2>3, <2>5, <3>2, <3>3
  <2>6. QED
    BY <2>1, <2>4, <2>5
<1>6. QED
  BY <1>4, <1>5

\* hint_bit_unpack reads back what hint_bit_pack wrote (encoding.rs:92-135),
\* for every hint with at most omega bits, in rows of any length.
THEOREM HintsReadBack ==
  ASSUME NEW h \in Hints, HintCount(h) <= Omega
  PROVE  HintBitUnpack(HintBitPack(h)) = h
<1> DEFINE S == SetBits(h)
           place(b) == Cardinality(Upto(h, b))
           ends(n) == Cardinality(BitsOfRows(h, n))
<1>1. PICK w \in Nat : w = Omega /\ w + K = Omega + K
  BY HintAssumption
<1>2. PICK k \in Nat : k = K /\ k > 0
  BY HintAssumption
<1>3. PICK m \in Nat : m = Cardinality(S) /\ m <= w
  BY <1>1, BitsFinite DEF HintCount
<1>4. PICK packed : packed = HintBitPack(h)
  OBVIOUS
<1>5. Len(packed) = w + k
  <2>1. PICK l \in Nat : l = w + k
    OBVIOUS
  <2>2. packed = [n \in 1 .. l |->
              IF n > Omega THEN Cardinality({b \in S : b[1] <= n - Omega})
              ELSE IF n <= HintCount(h) THEN (CHOOSE b \in S : Cardinality(Upto(h, b)) = n)[2]
              ELSE 0]
    BY <1>1, <1>2, <1>4, <2>1 DEF HintBitPack
  <2>3. QED
    BY <2>1, <2>2
<1>6. ASSUME NEW n \in 1 .. k PROVE packed[w + n] = ends(n)
  <2>1. w + n \in 1 .. w + k /\ w + n > w /\ (w + n) - w = n
    OBVIOUS
  <2>2. packed[w + n] = Cardinality({b \in S : b[1] <= (w + n) - w})
    BY <1>1, <1>2, <1>4, <2>1 DEF HintBitPack
  <2>3. QED
    BY <2>1, <2>2 DEF BitsOfRows
<1>7. ASSUME NEW b \in S PROVE place(b) \in 1 .. m /\ packed[place(b)] = b[2]
  <2>1. PICK n \in Int : n = place(b) /\ n \in 1 .. m
    BY <1>3, BitPlaces
  <2>2. n \in 1 .. w + k /\ ~(n > w)
    BY <1>3, <2>1
  <2>3. packed[n] = (CHOOSE a \in S : Cardinality(Upto(h, a)) = n)[2]
    BY <1>1, <1>2, <1>3, <1>4, <2>1, <2>2 DEF HintBitPack, HintCount
  <2>4. (CHOOSE a \in S : Cardinality(Upto(h, a)) = n) = b
    BY <2>1, BitPlaces
  <2>5. QED
    BY <2>1, <2>3, <2>4
<1>8. \A b \in S : \A n \in Int : (b[1] <= n) <=> (place(b) <= ends(n))
  BY BitPlaces
<1>9. \A n \in 1 .. m : \E b \in S : place(b) = n
  BY <1>3, BitPlaces
<1> DEFINE count == [i \in 0 .. k |-> IF i = 0 THEN 0 ELSE packed[w + i]]
<1>10. ASSUME NEW i \in 0 .. k PROVE count[i] = ends(i)
  <2>1. CASE i = 0
    <3>1. BitsOfRows(h, 0) = {}
      <4>1. SUFFICES ASSUME NEW b \in BitsOfRows(h, 0) PROVE FALSE
        OBVIOUS
      <4>2. b \in S /\ b[1] <= 0
        BY DEF BitsOfRows
      <4>3. QED
        BY <4>2, BitIs
    <3>2. QED
      BY <2>1, <3>1, FS_EmptySet
  <2>2. CASE i # 0
    BY <1>6, <2>2
  <2>3. QED
    BY <2>1, <2>2
<1>11. \A i \in 0 .. k : count[i] \in Nat /\ count[i] <= m
  BY <1>3, <1>10, BitsFinite
<1>12. \A i \in 1 .. k : count[i] >= count[i - 1]
  <2>1. SUFFICES ASSUME NEW i \in 1 .. k PROVE ends(i) >= ends(i - 1)
    <3>1. ASSUME NEW i \in 1 .. k PROVE count[i] = ends(i) /\ count[i - 1] = ends(i - 1)
      <4>1. i \in 0 .. k /\ i - 1 \in 0 .. k
        OBVIOUS
      <4> HIDE DEF count, ends
      <4>2. QED
        BY <1>10, <4>1
    <3> HIDE DEF count, ends
    <3>2. QED
      BY <3>1
  <2>2. BitsOfRows(h, i - 1) \subseteq BitsOfRows(h, i)
    <3>1. SUFFICES ASSUME NEW b \in S, b[1] <= i - 1 PROVE b[1] <= i
      BY DEF BitsOfRows
    <3>2. QED
      BY <3>1, BitIs
  <2>3. IsFiniteSet(BitsOfRows(h, i)) /\ ends(i) \in Nat /\ ends(i - 1) \in Nat
    BY BitsFinite
  <2>4. QED
    BY <2>2, <2>3, FS_Subset
<1>13. \A n \in 1 .. m : packed[n] \in 0 .. N - 1
  BY <1>7, <1>9, BitIs
<1>14. ASSUME NEW i \in 1 .. k PROVE {packed[n] : n \in count[i - 1] + 1 .. count[i]} = h[i]
  <2>1. i - 1 \in 0 .. k /\ i \in 0 .. k
    OBVIOUS
  <2>2. PICK lo \in Nat, hi \in Nat : /\ lo = count[i - 1] /\ hi = count[i]
                                     /\ lo = ends(i - 1) /\ hi = ends(i) /\ hi <= m
    BY <1>10, <1>11, <2>1
  <2>3. ASSUME NEW n \in lo + 1 .. hi PROVE packed[n] \in h[i]
    <3>1. n \in 1 .. m
      BY <2>2
    <3>2. PICK b \in S : place(b) = n
      BY <1>9, <3>1
    <3>3. b[1] <= i /\ ~(b[1] <= i - 1)
      BY <1>8, <2>2, <3>2
    <3>4. b[1] = i /\ b[2] \in h[b[1]]
      BY <3>3, BitIs
    <3>5. QED
      BY <1>7, <3>2, <3>4
  <2>4. ASSUME NEW p \in h[i] PROVE \E n \in lo + 1 .. hi : packed[n] = p
    <3>1. p \in 0 .. N - 1
      BY <1>2 DEF Hints, Rows
    <3>0. PICK b : b = <<i, p>>
      OBVIOUS
    <3>2. b = <<i, p>> /\ b[1] = i /\ b[2] = p
      BY <3>0
    <3>3. b \in S
      BY <1>2, <3>1, <3>2 DEF SetBits, Rows
    <3>4. PICK n \in Int : n = place(b) /\ n \in 1 .. m /\ packed[n] = p
      BY <1>7, <3>2, <3>3
    <3>5. n <= hi /\ ~(n <= lo)
      BY <1>8, <2>2, <3>2, <3>3, <3>4
    <3>6. QED
      BY <3>4, <3>5
  <2>5. {packed[n] : n \in lo + 1 .. hi} = h[i]
    BY <2>3, <2>4
  <2>6. QED
    BY <2>2, <2>5
<1>15. HintBitUnpack(packed) = [i \in 1 .. k |-> {packed[n] : n \in count[i - 1] + 1 .. count[i]}]
  <2>1. /\ \A i \in 1 .. k : (IF i = 0 THEN 0 ELSE packed[w + i]) = count[i]
        /\ \A i \in 1 .. k : (IF i - 1 = 0 THEN 0 ELSE packed[w + (i - 1)]) = count[i - 1]
        /\ (IF k = 0 THEN 0 ELSE packed[w + k]) = count[k]
    OBVIOUS
  <2> HIDE DEF count
  <2>2. ASSUME NEW i \in 1 .. k PROVE ~(count[i] < count[i - 1] \/ count[i] > w)
    <3>1. i \in 0 .. k /\ i - 1 \in 0 .. k
      OBVIOUS
    <3>2. count[i] \in Nat /\ count[i - 1] \in Nat /\ count[i] <= m /\ count[i] >= count[i - 1]
      BY <1>11, <1>12, <3>1
    <3>3. QED
      BY <1>3, <3>2
  <2>3. ASSUME NEW n \in 1 .. count[k] PROVE ~(packed[n] >= N)
    <3>1. k \in 0 .. k
      OBVIOUS
    <3>2. n \in 1 .. m
      BY <1>11, <3>1
    <3>3. packed[n] \in 0 .. N - 1
      BY <1>13, <3>2
    <3>4. QED
      BY <3>3, HintAssumption
  <2>4. QED
    BY <1>1, <1>2, <1>5, <2>1, <2>2, <2>3 DEF HintBitUnpack, Rows
<1>16. h = [i \in 1 .. k |-> h[i]]
  BY <1>2 DEF Hints, Rows
<1>17. QED
  BY <1>4, <1>14, <1>15, <1>16

-----------------------------------------------------------------------------
\* What is sent is what the attempt computed, and the verdict is the
\* verifier's.
SentInv ==
  /\ phase \notin {"sign", "panicked"} => Len(signed.ctx) < CtxCap
  /\ Published =>
       /\ sigma.cTilde = <<Frame(signed), W1(key, y)>>
       /\ sigma.c = c
       /\ sigma.h = HintBitPack(Hint(key, y, c))
  /\ phase = "verified" => asked \in Messages /\ verdict = VerifyCore(key, asked, sigma)

LEMMA SentInvariance == Spec => []SentInv
<1>1. Init => SentInv
  BY DEF Init, SentInv, Published
<1>2. SentInv /\ [Next]_vars => SentInv'
  <2> SUFFICES ASSUME SentInv, [Next]_vars PROVE SentInv'
    OBVIOUS
  <2>1. CASE Sign
    BY <2>1 DEF Sign, SentInv, Published
  <2>2. CASE Attempt
    BY <2>2 DEF Attempt, SentInv, Published
  <2>3. CASE Emit
    <3>1. phase = "gates" /\ phase' = "sent" /\ signed' = signed /\ key' = key /\ y' = y /\ c' = c
      BY <2>3 DEF Emit
    <3>2. PICK z, h : sigma' = [cTilde |-> <<Frame(signed), W1(key, y)>>, c |-> c, z |-> z, h |-> h]
                      /\ h = HintBitPack(Hint(key, y, c))
      BY <2>3 DEF Emit
    <3>3. /\ sigma'.cTilde = <<Frame(signed), W1(key, y)>> /\ sigma'.c = c
          /\ sigma'.h = HintBitPack(Hint(key, y, c))
      BY <3>2
    <3>4. QED
      BY <3>1, <3>3 DEF SentInv
  <2>4. CASE Retry
    BY <2>4 DEF Retry, SentInv, Published
  <2>5. CASE Verify
    <3>1. /\ phase = "sent" /\ phase' = "verified" /\ asked' \in Messages
          /\ verdict' = VerifyCore(key, asked', sigma)
          /\ signed' = signed /\ key' = key /\ y' = y /\ c' = c /\ sigma' = sigma
      BY <2>5 DEF Verify
    <3>2. QED
      BY <3>1 DEF SentInv, Published
  <2>6. CASE UNCHANGED vars
    BY <2>6 DEF vars, SentInv, Published
  <2>7. QED
    BY <2>1, <2>2, <2>3, <2>4, <2>5, <2>6 DEF Next
<1>3. QED
  BY <1>1, <1>2, PTL DEF Spec

LEMMA FrontsAgree ==
  ASSUME NEW S, NEW s \in Seq(S), NEW t \in Seq(S), NEW u \in Seq(S), NEW v \in Seq(S),
         Len(s) = Len(t), s \o u = t \o v
  PROVE  s = t /\ u = v
<1>1. \A i \in 1 .. Len(s) : s[i] = (s \o u)[i] /\ t[i] = (t \o v)[i]
  <2>1. Len(s) \in Nat /\ Len(u) \in Nat /\ Len(v) \in Nat
    BY LenProperties
  <2>2. QED
    BY <2>1, ConcatProperties
<1>2. s = t
  BY <1>1, SeqEqual
<1>3. QED
  BY <1>2, ConcatSimplifications

\* What was framed is recovered from the frame: mode, context and message
\* (message_representative, mod.rs:403-417).
LEMMA FramesDiffer ==
  ASSUME NEW m \in Messages, NEW n \in Messages,
         Len(m.ctx) < CtxCap, Len(n.ctx) < CtxCap, Frame(m) = Frame(n)
  PROVE  m = n
<1> DEFINE B == Seq(0 .. 255)
<1>1. m \in [mode : 0 .. 1, ctx : B, msg : B] /\ n \in [mode : 0 .. 1, ctx : B, msg : B]
  BY MlDsaAssumption
<1>2. PICK i, p, u : m = [mode |-> i, ctx |-> p, msg |-> u] /\ i \in 0 .. 1 /\ p \in B /\ u \in B
  BY <1>1
<1>3. PICK j, q, v : n = [mode |-> j, ctx |-> q, msg |-> v] /\ j \in 0 .. 1 /\ q \in B /\ v \in B
  BY <1>1
<1>4. Len(p) \in Nat /\ Len(q) \in Nat /\ CtxCap \in Nat /\ Len(p) < CtxCap /\ Len(q) < CtxCap
  BY <1>2, <1>3, MlDsaAssumption
<1>5. Len(p) % CtxCap = Len(p) /\ Len(q) % CtxCap = Len(q)
  BY <1>4
<1>6. (<<i, Len(p)>> \o p) \o u = (<<j, Len(q)>> \o q) \o v
  BY <1>2, <1>3, <1>5 DEF Frame
<1>7. PICK f : f = <<i, Len(p)>>
  OBVIOUS
<1>8. PICK g : g = <<j, Len(q)>>
  OBVIOUS
<1>9. f \in Seq(Nat) /\ g \in Seq(Nat) /\ Len(f) = 2 /\ Len(g) = 2
  BY <1>2, <1>3, <1>4, <1>7, <1>8
<1>10. p \in Seq(Nat) /\ u \in Seq(Nat) /\ q \in Seq(Nat) /\ v \in Seq(Nat)
  <2>1. 0 .. 255 \subseteq Nat
    OBVIOUS
  <2>2. QED
    BY <1>2, <1>3, <2>1, SeqMonotonic
<1>11. p \o u \in Seq(Nat) /\ q \o v \in Seq(Nat)
  BY <1>10, ConcatProperties
<1>12. f \o (p \o u) = g \o (q \o v)
  <2>0. \A h1, h2, h3 \in Seq(Nat) : (h1 \o h2) \o h3 = h1 \o (h2 \o h3)
    BY ConcatAssociative
  <2>1. (f \o p) \o u = (g \o q) \o v
    BY <1>6, <1>7, <1>8
  <2>2. (f \o p) \o u = f \o (p \o u)
    BY <1>9, <1>10, <2>0
  <2>3. (g \o q) \o v = g \o (q \o v)
    BY <1>9, <1>10, <2>0
  <2>4. QED
    BY <2>1, <2>2, <2>3
<1>14. f = g /\ p \o u = q \o v
  BY <1>9, <1>11, <1>12, FrontsAgree
<1>15. i = j /\ Len(p) = Len(q)
  BY <1>7, <1>8, <1>14
<1>16. p = q /\ u = v
  BY <1>10, <1>14, <1>15, FrontsAgree
<1>13. QED
  BY <1>2, <1>3, <1>15, <1>16

\* A signature of one message answers for no other mode, context or message:
\* the hash covers a frame that only one message has (verify_core,
\* message_representative).
THEOREM SignaturesBind == Spec => []SignatureBindsMessage
<1>1. IInv /\ SentInv => SignatureBindsMessage
  <2>1. SUFFICES ASSUME IInv, SentInv, phase = "verified", verdict PROVE asked = signed
    BY DEF SignatureBindsMessage
  <2>2. Published /\ signed \in Messages /\ asked \in Messages
    BY <2>1 DEF IInv, SentInv, Published
  <2>3. Len(signed.ctx) < CtxCap
    BY <2>1 DEF SentInv
  <2>4. verdict = VerifyCore(key, asked, sigma)
    BY <2>1 DEF SentInv
  <2>5. Len(asked.ctx) < CtxCap /\ VerifyMu(key, Frame(asked), sigma)
    BY <2>1, <2>4 DEF VerifyCore
  <2>6. PICK x : <<Frame(asked), x>> = sigma.cTilde
    BY <2>5 DEF VerifyMu
  <2>7. <<Frame(asked), x>> = <<Frame(signed), W1(key, y)>>
    BY <2>1, <2>2, <2>6 DEF SentInv
  <2>8. Frame(asked) = Frame(signed)
    BY <2>7
  <2>9. QED
    BY <2>2, <2>3, <2>5, <2>8, FramesDiffer
<1>2. QED
  BY <1>1, Invariance, SentInvariance, PTL

\* What sign_mu emits, verify_mu accepts: the norm of z, the bytes of z and of
\* the hint, and the value the hint leads to.
THEOREM SignaturesVerify == Spec => []SignatureVerifies
<1>1. IInv /\ SentInv /\ HintRecoversW1 => SignatureVerifies
  <2>1. SUFFICES ASSUME IInv, SentInv, HintRecoversW1, phase = "verified", asked = signed
                 PROVE  VerifyCore(key, signed, sigma)
    BY DEF SignatureVerifies, SentInv
  <2>2. Published
    BY <2>1 DEF Published
  <2>3. PICK h : h = Hint(key, y, c)
    OBVIOUS
  <2>4. h \in Hints
    <3>1. 0 \in 0 .. N - 1
      BY HintAssumption
    <3>2. \A i \in Rows : h[i] \in SUBSET (0 .. N - 1)
      BY <2>3, <3>1 DEF Hint
    <3>3. h = [i \in Rows |-> h[i]]
      BY <2>3 DEF Hint
    <3>4. QED
      BY <3>2, <3>3 DEF Hints
  <2>5. HintCount(h) <= Omega
    BY <2>1, <2>2, <2>3 DEF IInv, HintOk
  <2>6. HintBitUnpack(sigma.h) = h
    BY <2>1, <2>2, <2>3, <2>4, <2>5, HintsReadBack DEF SentInv
  <2>7. h # Malformed
    <3>1. 1 \in DOMAIN h
      BY <2>4, HintAssumption DEF Hints, Rows
    <3>2. 1 \notin DOMAIN Malformed
      BY DEF Malformed
    <3>3. QED
      BY <3>1, <3>2
  <2>8. PICK z : z = SentZ
    OBVIOUS
  <2>9. ASSUME NEW j \in Cols PROVE Abs(z[j]) < Gamma1 - Beta
    <3>1. z[j] \in Int /\ -(Gamma1 - Beta) < z[j] /\ z[j] < Gamma1 - Beta
      BY <2>1, <2>2, <2>8, SentZIs
    <3>2. Gamma1 \in Int /\ Beta \in Int
      BY MlDsaAssumption DEF Beta
    <3>3. QED
      BY <3>1, <3>2 DEF Abs
  <2>10. W1Verifier(key, z, c, h) = W1(key, y)
    BY <2>1, <2>2, <2>3, <2>8 DEF HintRecoversW1
  <2>11. z = [j \in Cols |-> BitUnpack(sigma.z[j])]
    BY <2>8 DEF SentZ
  <2>12. /\ sigma.cTilde = <<Frame(signed), W1(key, y)>> /\ sigma.c = c
         /\ Len(signed.ctx) < CtxCap
    BY <2>1, <2>2 DEF SentInv
  <2>13. VerifyMu(key, Frame(signed), sigma)
    BY <2>6, <2>7, <2>9, <2>10, <2>11, <2>12 DEF VerifyMu
  <2>14. QED
    BY <2>12, <2>13 DEF VerifyCore
<1>2. QED
  BY <1>1, Invariance, SentInvariance, HintReaches, PTL
===============================================================================
