--------------------------- MODULE ResidueProofs ---------------------------
(***************************************************************************)
(* For every word size and every modulus of it: the operations of Zq are   *)
(* exact, and the Euclid walk returns an inverse whenever there is one,    *)
(* inside the words it computes in.                                        *)
(***************************************************************************)
EXTENDS Residues, NumberLemmas

LEMMA RemainderIs ==
  ASSUME NEW a \in Int, NEW k \in Int, NEW x \in Int, NEW n \in Nat,
         n > 0, 0 <= x, x < n, a = n * k + x
  PROVE  a % n = x
BY DivModUnique

LEMMA ModulusFacts ==
  ASSUME NEW m \in Moduli
  PROVE  m \in Nat /\ m > 1 /\ m < Word /\ Word \in Nat /\ 0 \in Residue(m) /\ 1 \in Residue(m)
BY WordAssumption DEF Moduli, Residue

\* mod_add is the residue of the sum at every modulus, the carry included.
THEOREM ModAddExact ==
  ASSUME NEW m \in Moduli, NEW a \in Residue(m), NEW b \in Residue(m)
  PROVE  ModAdd(m, a, b) = (a + b) % m
<1> USE ModulusFacts
<1>1. /\ m \in Nat /\ m > 1 /\ m < Word /\ Word \in Nat
      /\ a \in Int /\ b \in Int /\ 0 <= a /\ a < m /\ 0 <= b /\ b < m
  BY DEF Residue
<1>2. CASE a + b >= Word
  <2>1. (a + b) % Word = a + b - Word
    <3>1. /\ a + b - Word \in Int /\ 0 <= a + b - Word /\ a + b - Word < Word
          /\ a + b = Word * 1 + (a + b - Word)
      BY <1>1, <1>2
    <3>2. QED
      BY <1>1, <3>1, RemainderIs
  <2>2. (((a + b) % Word) + (Word - m)) % Word = a + b - m
    <3>1. /\ a + b - m \in Int /\ 0 <= a + b - m /\ a + b - m < Word
          /\ ((a + b) % Word) + (Word - m) = Word * 0 + (a + b - m)
          /\ ((a + b) % Word) + (Word - m) \in Int
      BY <1>1, <1>2, <2>1
    <3>2. QED
      BY <1>1, <3>1, RemainderIs
  <2>3. ModAdd(m, a, b) = a + b - m
    BY <1>1, <1>2, <2>2 DEF ModAdd, SubtractOnce
  <2>4. (a + b) % m = a + b - m
    <3>1. /\ a + b - m \in Int /\ 0 <= a + b - m /\ a + b - m < m
          /\ a + b = m * 1 + (a + b - m) /\ a + b \in Int
      BY <1>1, <1>2
    <3>2. QED
      BY <1>1, <3>1, RemainderIs
  <2>5. QED
    BY <2>3, <2>4
<1>3. CASE a + b < Word
  <2>1. (a + b) % Word = a + b
    <3>1. a + b \in Int /\ 0 <= a + b /\ a + b = Word * 0 + (a + b)
      BY <1>1
    <3>2. QED
      BY <1>1, <1>3, <3>1, RemainderIs
  <2>2. ModAdd(m, a, b) = IF a + b >= m THEN a + b - m ELSE a + b
    BY <1>1, <1>3, <2>1 DEF ModAdd, SubtractOnce
  <2>3. CASE a + b >= m
    <3>1. /\ a + b - m \in Int /\ 0 <= a + b - m /\ a + b - m < m
          /\ a + b = m * 1 + (a + b - m) /\ a + b \in Int
      BY <1>1, <2>3
    <3>2. (a + b) % m = a + b - m
      BY <1>1, <3>1, RemainderIs
    <3>3. QED
      BY <2>2, <2>3, <3>2
  <2>4. CASE a + b < m
    <3>1. a + b \in Int /\ 0 <= a + b /\ a + b = m * 0 + (a + b)
      BY <1>1
    <3>2. (a + b) % m = a + b
      BY <1>1, <2>4, <3>1, RemainderIs
    <3>3. QED
      BY <1>1, <2>2, <2>4, <3>2
  <2>5. QED
    BY <1>1, <2>3, <2>4
<1>4. QED
  BY <1>1, <1>2, <1>3

\* mod_sub is the residue of the difference.
THEOREM ModSubExact ==
  ASSUME NEW m \in Moduli, NEW a \in Residue(m), NEW b \in Residue(m)
  PROVE  ModSub(m, a, b) = (a - b) % m
<1>1. /\ m \in Nat /\ m > 1
      /\ a \in Int /\ b \in Int /\ 0 <= a /\ a < m /\ 0 <= b /\ b < m
  BY ModulusFacts DEF Residue
<1>2. CASE a >= b
  <2>1. a - b \in Int /\ 0 <= a - b /\ a - b < m /\ a - b = m * 0 + (a - b)
    BY <1>1, <1>2
  <2>2. (a - b) % m = a - b
    BY <1>1, <2>1, RemainderIs
  <2>3. QED
    BY <1>2, <2>2 DEF ModSub
<1>3. CASE a < b
  <2>1. /\ m - (b - a) \in Int /\ 0 <= m - (b - a) /\ m - (b - a) < m
        /\ a - b \in Int /\ a - b = m * (-1) + (m - (b - a))
    BY <1>1, <1>3
  <2>2. (a - b) % m = m - (b - a)
    BY <1>1, <2>1, RemainderIs
  <2>3. ~(a >= b)
    BY <1>1, <1>3
  <2>4. QED
    BY <2>2, <2>3 DEF ModSub
<1>4. QED
  BY <1>1, <1>2, <1>3

\* At a power of two, what a product loses above the word is a multiple of
\* the modulus: masking the wrapped product loses nothing.
LEMMA WrapThenMask ==
  ASSUME NEW m \in Moduli, PowerOfTwo(m), NEW x \in Int
  PROVE  (x % Word) % m = x % m
<1>1. m \in Nat /\ m > 1 /\ Word \in Nat /\ Word > 0
  BY ModulusFacts
<1>2. Word = m * (Word \div m) + (Word % m) /\ Word \div m \in Int
  BY <1>1, DivMod
<1>3. PICK k \in Int : Word = m * k
  <2>1. PICK j \in Int : j = Word \div m
    BY <1>2
  <2>2. Word % m = 0
    BY DEF PowerOfTwo
  <2>3. Word = m * j
    BY <1>1, <1>2, <2>1, <2>2
  <2>4. QED
    BY <2>3
<1>4. x % Word \in Int /\ Cong(Word, x % Word, x)
  BY <1>1, CongMod
<1>5. PICK e \in Int : x % Word = x + Word * e
  BY <1>4 DEF Cong
<1>6. k * e \in Int /\ x % Word = x + m * (k * e)
  <2>1. Word * e = m * (k * e)
    BY <1>1, <1>3
  <2>2. QED
    BY <1>5, <2>1
<1>7. PICK y \in Int : y = x % Word
  BY <1>4
<1>8. Cong(m, y, x)
  BY <1>6, <1>7 DEF Cong
<1>9. y % m = x % m
  BY <1>1, <1>8, CongSame
<1>10. QED
  BY <1>7, <1>9

\* mod_mul and barrett_reduce are exact on either branch.
THEOREM ModMulExact ==
  ASSUME NEW m \in Moduli, NEW a \in Residue(m), NEW b \in Residue(m), NEW x \in Nat
  PROVE  ModMul(m, a, b) = (a * b) % m /\ BarrettReduce(m, x) = x % m
<1>1. a * b \in Int /\ x \in Int
  BY ModulusFacts DEF Residue
<1>2. CASE PowerOfTwo(m)
  BY <1>1, <1>2, WrapThenMask DEF ModMul, BarrettReduce
<1>3. CASE ~PowerOfTwo(m)
  BY <1>3 DEF ModMul, BarrettReduce
<1>4. QED
  BY <1>2, <1>3

-----------------------------------------------------------------------------
(***************************************************************************)
(* The walk.  Each remainder is its coefficient times v, modulo q, so a    *)
(* remainder of one names an inverse; and whatever divides the last two    *)
(* remainders divides q and v, so a last remainder above one is a common   *)
(* divisor, which leaves v without an inverse.                             *)
(***************************************************************************)
Divides(d, n) == \E k \in Int : n = d * k

TypeInv ==
  /\ q \in Moduli /\ v \in Residue(q)
  /\ rPrev \in 1 .. q /\ r \in Nat /\ r < rPrev
  /\ tPrev \in Residue(q) /\ t \in Residue(q)
Bezout == Cong(q, t * v, r) /\ Cong(q, tPrev * v, rPrev)
Common == \A d \in Int : Divides(d, rPrev) /\ Divides(d, r) => Divides(d, q) /\ Divides(d, v)
Returned == out # <<>> => r = 0 /\ out.some = (rPrev = 1) /\ out.value = tPrev

WalkInv == TypeInv /\ Bezout /\ Common /\ Returned

LEMMA InitWalk == Init => WalkInv
<1> SUFFICES ASSUME Init PROVE WalkInv
  OBVIOUS
<1>1. q \in Nat /\ q > 1 /\ 0 \in Residue(q) /\ 1 \in Residue(q) /\ v \in Nat /\ v < q
  BY ModulusFacts DEF Init, Residue
<1>2. TypeInv
  BY <1>1 DEF Init, TypeInv
<1>3. Bezout
  <2>1. 1 * v = v /\ 0 * v = 0 /\ v \in Int /\ q \in Int
    BY <1>1
  <2>2. Cong(q, v, v)
    BY <1>1, <2>1, CongRefl
  <2>3. Cong(q, 0, q)
    <3>1. -1 \in Int /\ 0 = q + q * (-1)
      BY <1>1
    <3>2. QED
      BY <3>1 DEF Cong
  <2>4. QED
    BY <2>1, <2>2, <2>3 DEF Init, Bezout
<1>4. Common
  BY DEF Init, Common
<1>5. QED
  BY <1>2, <1>3, <1>4 DEF Init, WalkInv, Returned

\* One division: the next remainder is smaller and in range.
LEMMA DivisionFacts ==
  ASSUME TypeInv, Running
  PROVE  /\ Quotient \in Nat /\ Quotient <= rPrev
         /\ rPrev - Quotient * r \in Nat /\ rPrev - Quotient * r < r
         /\ r \in 1 .. q
<1>1. rPrev \in Nat /\ r \in Nat /\ r > 0 /\ r < rPrev /\ rPrev <= q /\ q \in Nat
  BY ModulusFacts DEF TypeInv, Running
<1>2. PICK k \in Int, x \in Int : k = rPrev \div r /\ x = rPrev % r /\ x \in 0 .. r - 1 /\ rPrev = r * k + x
  BY <1>1, DivMod
<1>3. k >= 0
  <2>1. ~(k <= -1)
    <3>1. SUFFICES ASSUME k <= -1 PROVE FALSE
      OBVIOUS
    <3>2. r * k <= r * (-1)
      BY <1>1, <1>2, <3>1
    <3>3. QED
      BY <1>1, <1>2, <3>2
  <2>2. QED
    BY <1>2, <2>1
<1>4. k <= r * k
  BY <1>1, <1>2, <1>3
<1>5. rPrev - k * r = x /\ r * k = k * r
  BY <1>1, <1>2
<1>6. QED
  BY <1>1, <1>2, <1>3, <1>4, <1>5 DEF Quotient

LEMMA StepWalk == WalkInv /\ [Next]_vars => WalkInv'
<1> SUFFICES ASSUME WalkInv, [Next]_vars PROVE WalkInv'
  OBVIOUS
<1>1. TypeInv /\ Bezout /\ Common /\ Returned
  BY DEF WalkInv
<1>2. q \in Nat /\ q > 1 /\ v \in Int /\ t \in Int /\ tPrev \in Int /\ r \in Int /\ rPrev \in Int
      /\ t >= 0 /\ t < q /\ tPrev >= 0 /\ tPrev < q
  BY <1>1, ModulusFacts DEF TypeInv, Residue
<1>3. CASE Divide
  <2>1. /\ Running /\ out = <<>> /\ out' = out /\ q' = q /\ v' = v
        /\ rPrev' = r /\ r' = rPrev - Quotient * r /\ tPrev' = t /\ t' = NextT
    BY <1>3 DEF Divide, Running
  <2>2. PICK k \in Nat : k = Quotient /\ rPrev - k * r \in Nat /\ rPrev - k * r < r /\ r \in 1 .. q
    BY <1>1, <2>1, DivisionFacts
  <2>3. k * t \in Int /\ (k * t) % q \in 0 .. q - 1 /\ Cong(q, (k * t) % q, k * t)
    <3>1. k * t \in Int
      BY <1>2
    <3>2. QED
      BY <1>2, <3>1, CongMod
  <2>4. PICK y \in Int : y = (k * t) % q /\ y >= 0 /\ y < q /\ Cong(q, y, k * t)
    BY <1>2, <2>3
  <2>5. NextT = (tPrev + q - y) % q
    BY <2>2, <2>4 DEF NextT, Subtrahend
  <2>6. PICK x \in Int : x = tPrev + q - y
    BY <1>2, <2>4
  <2>7. t' \in 0 .. q - 1 /\ Cong(q, t', tPrev + q - y)
    <3>1. x % q \in 0 .. q - 1 /\ Cong(q, x % q, x)
      BY <1>2, CongMod
    <3>2. t' = x % q
      BY <2>1, <2>5, <2>6
    <3>3. QED
      BY <2>6, <3>1, <3>2
  <2>8. TypeInv'
    BY <1>1, <2>1, <2>2, <2>7 DEF TypeInv, Residue
  <2>9. Cong(q, t' * v, r')
    <3>1. t' \in Int /\ r' \in Int /\ r' = rPrev - k * r /\ v \in Int
      BY <1>2, <2>1, <2>2, <2>7
    <3>2. Cong(q, tPrev + q - y, tPrev - k * t)
      <4>1. PICK e \in Int : y = k * t + q * e
        BY <2>4 DEF Cong
      <4>2. 1 - e \in Int /\ tPrev + q - y = (tPrev - k * t) + q * (1 - e)
        BY <1>2, <2>3, <4>1
      <4>3. QED
        BY <4>2 DEF Cong
    <3>3. tPrev - k * t \in Int
      BY <1>2, <2>3
    <3>4. Cong(q, t', tPrev - k * t)
      BY <1>2, <2>6, <2>7, <3>1, <3>2, <3>3, CongTrans
    <3>5. Cong(q, v * t', v * (tPrev - k * t))
      BY <1>2, <3>1, <3>3, <3>4, CongScale
    <3>6. Cong(q, k * (t * v), k * r)
      <4>1. PICK w \in Int : w = t * v /\ Cong(q, w, r)
        BY <1>1, <1>2 DEF Bezout
      <4>2. Cong(q, k * w, k * r)
        <5>1. k \in Int /\ r \in Int /\ q \in Nat
          BY <1>2, <2>2
        <5>2. QED
          BY <4>1, <5>1, CongScale
      <4>3. QED
        BY <4>1, <4>2
    <3>7. Cong(q, tPrev * v - k * (t * v), rPrev - k * r)
      <4>1. tPrev * v \in Int /\ k * (t * v) \in Int /\ k * r \in Int
        BY <1>2
      <4>2. QED
        BY <1>1, <1>2, <3>6, <4>1, CongAdd DEF Bezout
    <3>8. v * t' = t' * v /\ v * (tPrev - k * t) = tPrev * v - k * (t * v)
      BY <1>2, <3>1
    <3>9. t' * v \in Int /\ tPrev * v - k * (t * v) \in Int
      BY <1>2, <3>1
    <3>10. Cong(q, t' * v, tPrev * v - k * (t * v))
      BY <3>5, <3>8
    <3>11. QED
      BY <1>2, <3>1, <3>7, <3>9, <3>10, CongTrans
  <2>10. Bezout'
    BY <1>1, <2>1, <2>9 DEF Bezout
  <2>11. Common'
    <3>1. SUFFICES ASSUME NEW d \in Int, Divides(d, r), Divides(d, r')
                   PROVE  Divides(d, q) /\ Divides(d, v)
      BY <2>1 DEF Common
    <3>2. PICK e \in Int : r = d * e
      BY <3>1 DEF Divides
    <3>3. PICK f \in Int : rPrev - k * r = d * f
      BY <2>1, <2>2, <3>1 DEF Divides
    <3>4. k * e + f \in Int /\ rPrev = d * (k * e + f)
      <4>1. k * r = d * (k * e)
        BY <3>2
      <4>2. d * (k * e + f) = d * (k * e) + d * f
        BY <3>2
      <4>3. QED
        BY <1>2, <3>2, <3>3, <4>1, <4>2
    <3>5. Divides(d, rPrev)
      BY <3>4 DEF Divides
    <3>6. QED
      BY <1>1, <3>1, <3>5 DEF Common
  <2>12. Returned'
    BY <2>1 DEF Returned
  <2>13. QED
    BY <2>8, <2>10, <2>11, <2>12 DEF WalkInv
<1>4. CASE Return
  <2>1. /\ r = 0 /\ UNCHANGED <<q, v, rPrev, r, tPrev, t>>
        /\ out' = [some |-> rPrev = 1, value |-> tPrev]
    BY <1>4 DEF Return, Running
  <2>2. TypeInv' /\ Bezout' /\ Common'
    BY <1>1, <2>1 DEF TypeInv, Bezout, Common
  <2>3. Returned'
    BY <2>1 DEF Returned
  <2>4. QED
    BY <2>2, <2>3 DEF WalkInv
<1>5. CASE UNCHANGED vars
  BY <1>1, <1>5 DEF vars, WalkInv, TypeInv, Bezout, Common, Returned
<1>6. QED
  BY <1>3, <1>4, <1>5 DEF Next

LEMMA Walks == Spec => []WalkInv
<1>1. QED
  BY InitWalk, StepWalk, PTL DEF Spec

\* An inverse that is returned is one, for every modulus of every word.
THEOREM ReturnsInverses == Spec => []InverseIsTrue
<1>1. WalkInv => InverseIsTrue
  <2>1. SUFFICES ASSUME WalkInv, out # <<>>, out.some
                 PROVE  out.value \in Residue(q) /\ (v * out.value) % q = 1
    BY DEF InverseIsTrue
  <2>2. /\ rPrev = 1 /\ out.value = tPrev /\ tPrev \in Residue(q)
        /\ Cong(q, tPrev * v, 1)
    BY <2>1 DEF WalkInv, Returned, TypeInv, Bezout
  <2>3. q \in Nat /\ q > 1 /\ v \in Int /\ tPrev \in Int
    BY <2>1, ModulusFacts DEF WalkInv, TypeInv, Residue
  <2>4. v * tPrev \in Int /\ v * tPrev = tPrev * v
    BY <2>3
  <2>5. (v * tPrev) % q = 1 % q
    BY <2>2, <2>3, <2>4, CongSame
  <2>6. 1 % q = 1
    <3>1. 1 \in Int /\ 0 <= 1 /\ 1 = q * 0 + 1
      BY <2>3
    <3>2. QED
      BY <2>3, <3>1, RemainderIs
  <2>7. QED
    BY <2>2, <2>5, <2>6
<1>2. QED
  BY <1>1, Walks, PTL

\* None is returned only for an element with no inverse: the last remainder
\* divides q and v, so it divides what v and any x leave modulo q.
THEOREM MissesNoInverse == Spec => []NoInverseMissed
<1>1. WalkInv => NoInverseMissed
  <2>1. SUFFICES ASSUME WalkInv, out # <<>>, ~out.some, NEW x \in Residue(q), (v * x) % q = 1
                 PROVE  FALSE
    BY DEF NoInverseMissed
  <2>2. q \in Nat /\ q > 1 /\ v \in Int /\ x \in Int /\ r = 0 /\ rPrev \in Nat /\ rPrev > 1
    <3>1. TypeInv /\ r = 0 /\ rPrev # 1
      BY <2>1 DEF WalkInv, Returned
    <3>2. q \in Nat /\ q > 1 /\ v \in Int /\ x \in Int /\ rPrev \in 1 .. q
      BY <2>1, <3>1, ModulusFacts DEF TypeInv, Residue
    <3>3. QED
      BY <3>1, <3>2
  <2>3. Divides(rPrev, rPrev) /\ Divides(rPrev, r)
    <3>1. rPrev = rPrev * 1 /\ r = rPrev * 0 /\ 0 \in Int /\ 1 \in Int
      BY <2>2
    <3>2. QED
      BY <3>1 DEF Divides
  <2>4. Divides(rPrev, q) /\ Divides(rPrev, v)
    BY <2>1, <2>2, <2>3 DEF WalkInv, Common
  <2>5. PICK e \in Int : q = rPrev * e
    BY <2>4 DEF Divides
  <2>6. PICK f \in Int : v = rPrev * f
    BY <2>4 DEF Divides
  <2>7. PICK p \in Int : p = v * x
    BY <2>2
  <2>8. PICK k \in Int : p = q * k + 1
    <3>1. p \div q \in Int /\ p = q * (p \div q) + (p % q)
      BY <2>2, <2>7, DivMod
    <3>2. p % q = 1
      BY <2>1, <2>7
    <3>3. PICK k \in Int : k = p \div q
      BY <3>1
    <3>4. p = q * k + 1
      BY <3>1, <3>2, <3>3
    <3>5. QED
      BY <3>4
  <2>9. /\ q * k = rPrev * (e * k) /\ v * x = rPrev * (f * x)
        /\ f * x \in Int /\ e * k \in Int
    BY <2>2, <2>5, <2>6
  <2>10. PICK g \in Int : g = f * x - e * k
    BY <2>9
  <2>11. rPrev * g = 1
    BY <2>2, <2>7, <2>8, <2>9, <2>10
  <2>12. g >= 1 \/ g <= 0
    BY <2>10
  <2>13. ~(g >= 1)
    <3>1. SUFFICES ASSUME g >= 1 PROVE FALSE
      OBVIOUS
    <3>2. rPrev * g >= rPrev
      BY <2>2, <3>1
    <3>3. QED
      BY <2>2, <2>11, <3>2
  <2>14. ~(g <= 0)
    <3>1. SUFFICES ASSUME g <= 0 PROVE FALSE
      OBVIOUS
    <3>2. rPrev * g <= 0
      BY <2>2, <3>1
    <3>3. QED
      BY <2>11, <3>2
  <2>15. QED
    BY <2>12, <2>13, <2>14
<1>2. QED
  BY <1>1, Walks, PTL

\* No u128 of the walk wraps.
THEOREM WalkNeverWraps == Spec => []WalkFits
<1>1. WalkInv => WalkFits
  <2>1. SUFFICES ASSUME WalkInv, Running
                 PROVE  /\ Quotient * r <= rPrev /\ Quotient * t < Word * Word
                        /\ tPrev + q >= Subtrahend
    BY DEF WalkFits
  <2>2. TypeInv
    BY <2>1 DEF WalkInv
  <2>3. /\ Quotient \in Nat /\ Quotient <= rPrev
        /\ rPrev - Quotient * r \in Nat /\ r \in 1 .. q
    BY <2>1, <2>2, DivisionFacts
  <2>4. /\ q \in Nat /\ q > 1 /\ q < Word /\ Word \in Nat /\ rPrev \in Nat /\ rPrev <= q
        /\ t \in Nat /\ t < q /\ tPrev \in Nat
    BY <2>2, ModulusFacts DEF TypeInv, Residue
  <2>5. PICK k \in Nat : k = Quotient
    BY <2>3
  <2>6. k * t < Word * Word
    <3>1. k < Word /\ t < Word
      BY <2>3, <2>4, <2>5
    <3>2. k * t <= k * Word
      BY <2>4, <3>1
    <3>3. k * Word < Word * Word
      BY <2>4, <3>1
    <3>4. QED
      BY <2>4, <3>2, <3>3
  <2>7. Subtrahend \in 0 .. q - 1
    <3>1. k * t \in Int
      BY <2>4
    <3>2. (k * t) % q \in 0 .. q - 1
      BY <2>4, <3>1, DivMod
    <3>3. QED
      BY <2>5, <3>2 DEF Subtrahend
  <2>8. PICK j \in Int : j = k * r /\ rPrev - j \in Nat
    BY <2>2, <2>3, <2>5 DEF TypeInv
  <2>9. j <= rPrev
    BY <2>4, <2>8
  <2>10. tPrev + q >= Subtrahend
    BY <2>4, <2>7
  <2>11. QED
    BY <2>5, <2>6, <2>8, <2>9, <2>10
<1>2. QED
  BY <1>1, Walks, PTL

\* The walk answers the question whether an element is a unit, and inverts
\* it if it is (zq.rs:37-57), with no intermediate that wraps.
THEOREM DecidesInverses == Spec => []InverseDecides
<1>1. InverseIsTrue /\ NoInverseMissed /\ WalkFits => InverseDecides
  BY DEF InverseDecides
<1>2. QED
  BY <1>1, ReturnsInverses, MissesNoInverse, WalkNeverWraps, PTL
=============================================================================
