----------------------------- MODULE NumberLemmas -----------------------------
(***************************************************************************)
(* What the proofs of the components share: division with remainder and    *)
(* congruence modulo n, since a coefficient is known only modulo the       *)
(* modulus; induction over numbers and over finite sets; and sums and      *)
(* products over finite sets, in whatever order they are taken.            *)
(***************************************************************************)
EXTENDS Integers, FiniteSets, Functions, FiniteSetTheorems, WellFoundedInduction, TLAPS

LEMMA DivMod ==
  ASSUME NEW a \in Int, NEW n \in Nat, n > 0
  PROVE  /\ a \div n \in Int
         /\ a % n \in 0 .. n - 1
         /\ a = n * (a \div n) + (a % n)
OBVIOUS

LEMMA DivModUnique ==
  \A a, k, r \in Int, n \in Nat :
    (n > 0 /\ 0 <= r /\ r < n /\ a = n * k + r) => (a \div n = k /\ a % n = r)
OBVIOUS

LEMMA ModNegative ==
  \A a, k, r \in Int, n \in Nat :
    (n > 0 /\ -n <= r /\ r < 0 /\ a = n * k + r) => a % n = r + n
<1>1. SUFFICES ASSUME NEW a \in Int, NEW k \in Int, NEW r \in Int, NEW n \in Nat,
                      n > 0, -n <= r, r < 0, a = n * k + r
               PROVE  a % n = r + n
  OBVIOUS
<1>2. a = n * (k - 1) + (r + n)
  BY <1>1
<1>3. PICK j \in Int, s \in Int : j = k - 1 /\ s = r + n
  BY <1>1
<1>4. /\ a \in Int /\ j \in Int /\ s \in Int /\ n \in Nat
      /\ n > 0 /\ 0 <= s /\ s < n /\ a = n * j + s
  BY <1>1, <1>2, <1>3
<1>5. a % n = s
  BY <1>4, DivModUnique
<1>6. QED
  BY <1>3, <1>5

-----------------------------------------------------------------------------
\* a and b differ by a multiple of n.
Cong(n, a, b) == \E e \in Int : a = b + n * e

LEMMA CongRefl == ASSUME NEW n \in Nat, NEW a \in Int PROVE Cong(n, a, a)
<1>1. 0 \in Int /\ a = a + n * 0
  OBVIOUS
<1>2. QED
  BY <1>1 DEF Cong

LEMMA CongSym ==
  ASSUME NEW n \in Nat, NEW a \in Int, NEW b \in Int, Cong(n, a, b)
  PROVE  Cong(n, b, a)
<1>1. PICK e \in Int : a = b + n * e
  BY DEF Cong
<1>2. -e \in Int /\ b = a + n * (-e)
  BY <1>1
<1>3. QED
  BY <1>2 DEF Cong

LEMMA CongTrans ==
  ASSUME NEW n \in Nat, NEW a \in Int, NEW b \in Int, NEW d \in Int,
         Cong(n, a, b), Cong(n, b, d)
  PROVE  Cong(n, a, d)
<1>1. PICK e \in Int : a = b + n * e
  BY DEF Cong
<1>2. PICK f \in Int : b = d + n * f
  BY DEF Cong
<1>3. e + f \in Int /\ a = d + n * (e + f)
  BY <1>1, <1>2
<1>4. QED
  BY <1>3 DEF Cong

LEMMA CongAdd ==
  ASSUME NEW n \in Nat, NEW a \in Int, NEW b \in Int, NEW d \in Int, NEW g \in Int,
         Cong(n, a, b), Cong(n, d, g)
  PROVE  Cong(n, a + d, b + g) /\ Cong(n, a - d, b - g)
<1>1. PICK e \in Int : a = b + n * e
  BY DEF Cong
<1>2. PICK f \in Int : d = g + n * f
  BY DEF Cong
<1>3. e + f \in Int /\ a + d = (b + g) + n * (e + f)
  BY <1>1, <1>2
<1>4. e - f \in Int /\ a - d = (b - g) + n * (e - f)
  BY <1>1, <1>2
<1>5. QED
  BY <1>3, <1>4 DEF Cong

LEMMA CongScale ==
  ASSUME NEW n \in Nat, NEW a \in Int, NEW b \in Int, NEW x \in Int, Cong(n, a, b)
  PROVE  Cong(n, x * a, x * b)
<1>1. PICK e \in Int : a = b + n * e
  BY DEF Cong
<1>2. x * e \in Int
  BY <1>1
<1>3. x * a = x * b + n * (x * e)
  BY <1>1
<1>4. QED
  BY <1>2, <1>3 DEF Cong

LEMMA CongMul ==
  ASSUME NEW n \in Nat, NEW a \in Int, NEW b \in Int, NEW d \in Int, NEW g \in Int,
         Cong(n, a, b), Cong(n, d, g)
  PROVE  Cong(n, a * d, b * g)
<1>1. Cong(n, a * d, a * g)
  BY CongScale
<1>2. Cong(n, g * a, g * b)
  BY CongScale
<1>3. g * a = a * g /\ g * b = b * g
  OBVIOUS
<1>4. a * d \in Int /\ a * g \in Int /\ b * g \in Int
  OBVIOUS
<1>5. Cong(n, a * g, b * g)
  BY <1>2, <1>3
<1>6. QED
  BY <1>1, <1>4, <1>5, CongTrans

LEMMA CongMod ==
  ASSUME NEW n \in Nat, n > 0, NEW a \in Int
  PROVE  a % n \in 0 .. n - 1 /\ Cong(n, a % n, a)
<1>1. a \div n \in Int /\ a % n \in 0 .. n - 1 /\ a = n * (a \div n) + (a % n)
  BY DivMod
<1>2. -(a \div n) \in Int /\ a % n = a + n * (-(a \div n))
  BY <1>1
<1>3. QED
  BY <1>1, <1>2 DEF Cong

LEMMA CongSame ==
  ASSUME NEW n \in Nat, n > 0, NEW a \in Int, NEW b \in Int, Cong(n, a, b)
  PROVE  a % n = b % n
<1>1. PICK e \in Int : a = b + n * e
  BY DEF Cong
<1>2. PICK k \in Int, s \in Int :
        k = b \div n /\ s = b % n /\ 0 <= s /\ s < n /\ b = n * k + s
  BY DivMod
<1>3. n * (k + e) = n * k + n * e
  BY <1>1, <1>2
<1>4. n * k \in Int /\ n * e \in Int /\ k + e \in Int
  BY <1>1, <1>2
<1>5. a = n * (k + e) + s
  BY <1>1, <1>2, <1>3, <1>4
<1>6. a % n = s
  BY <1>2, <1>4, <1>5, DivModUnique
<1>7. QED
  BY <1>2, <1>6

LEMMA ModSum ==
  ASSUME NEW n \in Nat, n > 0, NEW a \in Int, NEW b \in Int
  PROVE  ((a % n) + (b % n)) % n = (a + b) % n
<1>1. PICK x \in Int, y \in Int : x = a % n /\ y = b % n /\ Cong(n, x, a) /\ Cong(n, y, b)
  BY CongMod
<1>2. x + y \in Int /\ a + b \in Int /\ Cong(n, x + y, a + b)
  BY <1>1, CongAdd
<1>3. (x + y) % n = (a + b) % n
  BY <1>2, CongSame
<1>4. QED
  BY <1>1, <1>3

-----------------------------------------------------------------------------
LEMMA LeastOf ==
  ASSUME NEW T \in SUBSET Nat, T # {}
  PROVE  \E n \in T : \A m \in T : n <= m
<1> DEFINE R == OpToRel(<, Nat)
<1>1. T \subseteq Nat
  OBVIOUS
<1>2. \A n, m \in T : ~(<<m, n>> \in R) => n <= m
  BY DEF OpToRel
<1>3. IsWellFoundedOn(R, Nat)
  BY NatLessThanWellFounded
<1> HIDE DEF R
<1>4. \E n \in T : \A m \in T : ~(<<m, n>> \in R)
  BY <1>1, <1>3, WFMin
<1>5. QED
  BY <1>2, <1>4

(***************************************************************************)
(* Induction, with the property as the set of what has it: the provers     *)
(* instantiate a set where they cannot instantiate an operator.            *)
(***************************************************************************)
LEMMA NatSetInduction ==
  ASSUME NEW S, 0 \in S, \A n \in Nat : n \in S => n + 1 \in S
  PROVE  \A n \in Nat : n \in S
<1> DEFINE T == {n \in Nat : n \notin S}
<1>1. SUFFICES ASSUME T # {} PROVE FALSE
  OBVIOUS
<1>2. PICK n \in T : \A m \in T : n <= m
  <2>1. T \in SUBSET Nat
    OBVIOUS
  <2> HIDE DEF T
  <2>2. QED
    BY <1>1, <2>1, LeastOf
<1>3. n \in Nat /\ n # 0 /\ n \notin S
  OBVIOUS
<1>4. n - 1 \in Nat /\ n - 1 \notin T
  BY <1>2, <1>3
<1>5. n - 1 \in S
  BY <1>4
<1>6. (n - 1) + 1 \in S
  BY <1>4, <1>5
<1>7. QED
  BY <1>3, <1>6

LEMMA SetInduction ==
  ASSUME NEW S, IsFiniteSet(S), NEW W, {} \in W,
         \A s \in SUBSET S : s # {} /\ (\A x \in s : s \ {x} \in W) => s \in W
  PROVE  \A s \in SUBSET S : s \in W
<1> DEFINE N == {n \in Nat : \A s \in SUBSET S : Cardinality(s) = n => s \in W}
<1>1. \A s \in SUBSET S : IsFiniteSet(s) /\ Cardinality(s) \in Nat
  BY FS_Subset, FS_CardinalityType
<1>2. 0 \in N
  BY <1>1, FS_EmptySet
<1>3. ASSUME NEW n \in Nat, n \in N PROVE n + 1 \in N
  <2>1. SUFFICES ASSUME NEW s \in SUBSET S, Cardinality(s) = n + 1 PROVE s \in W
    BY <1>3
  <2>2. s # {}
    <3>1. Cardinality(s) # 0
      BY <2>1
    <3>2. QED
      BY <3>1, FS_EmptySet
  <2>3. ASSUME NEW x \in s PROVE s \ {x} \in W
    <3>1. Cardinality(s \ {x}) = (n + 1) - 1
      BY <1>1, <2>1, FS_RemoveElement
    <3>2. Cardinality(s \ {x}) = n /\ s \ {x} \in SUBSET S
      BY <3>1
    <3>3. QED
      BY <1>3, <3>2
  <2>4. QED
    BY <2>2, <2>3
<1>4. \A n \in Nat : n \in N
  <2> HIDE DEF N
  <2> QED BY <1>2, <1>3, NatSetInduction
<1>5. QED
  BY <1>1, <1>4

-----------------------------------------------------------------------------
(***************************************************************************)
(* A function defined on numbers by recursion exists and satisfies its     *)
(* equation.                                                               *)
(***************************************************************************)
Recursion(b, h, D, g) == g = [n \in D |-> IF n = 0 THEN b ELSE h[<<n, g[n - 1]>>]]

LEMMA RecursionUpto ==
  ASSUME NEW b, NEW h
  PROVE  \A n \in Nat : \E g : Recursion(b, h, 0 .. n, g)
<1> DEFINE N == {n \in Nat : \E g : Recursion(b, h, 0 .. n, g)}
<1>1. 0 \in N
  <2>1. Recursion(b, h, 0 .. 0, [n \in 0 .. 0 |-> b])
    BY DEF Recursion
  <2>2. QED
    BY <2>1
<1>2. ASSUME NEW n \in Nat, n \in N PROVE n + 1 \in N
  <2>1. PICK g : Recursion(b, h, 0 .. n, g)
    BY <1>2
  <2> DEFINE k == [m \in 0 .. n + 1 |-> IF m = n + 1 THEN h[<<m, g[n]>>] ELSE g[m]]
  <2>2. \A m \in 0 .. n + 1 : k[m] = IF m = 0 THEN b ELSE h[<<m, k[m - 1]>>]
    <3>1. SUFFICES ASSUME NEW m \in 0 .. n + 1
                   PROVE  k[m] = IF m = 0 THEN b ELSE h[<<m, k[m - 1]>>]
      OBVIOUS
    <3>2. CASE m = n + 1
      <4>1. m # 0 /\ m - 1 = n /\ n # n + 1
        BY <3>2
      <4>2. QED
        BY <3>2, <4>1
    <3>3. CASE m \in 0 .. n
      <4>1. m # n + 1 /\ (m # 0 => m - 1 \in 0 .. n /\ m - 1 # n + 1)
        BY <3>3
      <4>2. g[m] = IF m = 0 THEN b ELSE h[<<m, g[m - 1]>>]
        BY <2>1, <3>3 DEF Recursion
      <4>3. m # 0 => k[m - 1] = g[m - 1]
        BY <4>1
      <4>4. QED
        BY <4>1, <4>2, <4>3
    <3>4. QED
      BY <3>2, <3>3
  <2>3. k = [m \in 0 .. n + 1 |-> k[m]]
    OBVIOUS
  <2> HIDE DEF k
  <2>4. k = [m \in 0 .. n + 1 |-> IF m = 0 THEN b ELSE h[<<m, k[m - 1]>>]]
    BY <2>2, <2>3, Zenon
  <2>5. QED
    BY <2>4 DEF Recursion
<1>3. \A n \in Nat : n \in N
  <2> HIDE DEF N
  <2> QED BY <1>1, <1>2, NatSetInduction
<1>4. QED
  BY <1>3

LEMMA RecursionExists ==
  ASSUME NEW b, NEW h
  PROVE  \E g : Recursion(b, h, Nat, g)
<1> DEFINE upto == [n \in Nat |-> CHOOSE g : Recursion(b, h, 0 .. n, g)]
           k == [n \in Nat |-> upto[n][n]]
<1>1. \A n \in Nat : Recursion(b, h, 0 .. n, upto[n])
  <2>1. SUFFICES ASSUME NEW n \in Nat PROVE Recursion(b, h, 0 .. n, CHOOSE g : Recursion(b, h, 0 .. n, g))
    OBVIOUS
  <2>2. \E g : Recursion(b, h, 0 .. n, g)
    BY RecursionUpto
  <2>3. QED
    BY <2>2, Zenon
<1> HIDE DEF upto
<1>9. \A n \in Nat : \A m \in 0 .. n :
        upto[n][m] = IF m = 0 THEN b ELSE h[<<m, upto[n][m - 1]>>]
  <2>1. SUFFICES ASSUME NEW n \in Nat, NEW g, g = upto[n], NEW m \in 0 .. n
                 PROVE  g[m] = IF m = 0 THEN b ELSE h[<<m, g[m - 1]>>]
    OBVIOUS
  <2>2. Recursion(b, h, 0 .. n, g)
    BY <1>1, <2>1
  <2>3. QED
    BY <2>2 DEF Recursion
<1> DEFINE S == {m \in Nat : \A n \in Nat : m <= n => upto[n][m] = k[m]}
<1>2. 0 \in S
  <2>0. \A n \in Nat : 0 \in 0 .. n
    OBVIOUS
  <2>1. \A n \in Nat : upto[n][0] = b
    BY <1>9, <2>0
  <2>2. QED
    BY <2>1
<1>3. ASSUME NEW m \in Nat, m \in S PROVE m + 1 \in S
  <2>1. \A n \in Nat : m + 1 <= n => upto[n][m + 1] = h[<<m + 1, k[m]>>]
    <3>1. SUFFICES ASSUME NEW n \in Nat, m + 1 <= n PROVE upto[n][m + 1] = h[<<m + 1, k[m]>>]
      OBVIOUS
    <3>2. upto[n][m] = k[m]
      BY <1>3, <3>1
    <3>3. m + 1 \in 0 .. n /\ m + 1 # 0 /\ (m + 1) - 1 = m
      BY <3>1
    <3>4. upto[n][m + 1] = h[<<m + 1, upto[n][(m + 1) - 1]>>]
      BY <1>9, <3>3
    <3>5. QED
      BY <3>2, <3>3, <3>4
  <2>2. k[m + 1] = h[<<m + 1, k[m]>>]
    BY <2>1
  <2>3. QED
    BY <2>1, <2>2
<1>4. \A m \in Nat : m \in S
  <2> HIDE DEF S
  <2> QED BY <1>2, <1>3, NatSetInduction
<1>5. \A n \in Nat : k[n] = IF n = 0 THEN b ELSE h[<<n, k[n - 1]>>]
  <2>1. SUFFICES ASSUME NEW n \in Nat PROVE k[n] = IF n = 0 THEN b ELSE h[<<n, k[n - 1]>>]
    OBVIOUS
  <2>2. upto[n][n] = IF n = 0 THEN b ELSE h[<<n, upto[n][n - 1]>>]
    BY <1>9
  <2>3. n # 0 => n - 1 \in Nat /\ n - 1 <= n
    OBVIOUS
  <2>4. n # 0 => upto[n][n - 1] = k[n - 1]
    BY <1>4, <2>3
  <2>5. QED
    BY <2>2, <2>4
<1>6. k = [n \in Nat |-> k[n]]
  OBVIOUS
<1> HIDE DEF k
<1>7. k = [n \in Nat |-> IF n = 0 THEN b ELSE h[<<n, k[n - 1]>>]]
  BY <1>5, <1>6, Zenon
<1>8. QED
  BY <1>7 DEF Recursion

\* The powers of two, doubled from one.
LEMMA PowersOfTwo ==
  ASSUME NEW P, P = CHOOSE g : g = [n \in Nat |-> IF n = 0 THEN 1 ELSE 2 * g[n - 1]]
  PROVE  /\ P[0] = 1
         /\ \A n \in Nat : P[n] \in Nat /\ P[n] > 0 /\ P[n + 1] = 2 * P[n]
<1> DEFINE h == [p \in Nat \X Nat |-> 2 * p[2]]
           Doubles(g) == g = [n \in Nat |-> IF n = 0 THEN 1 ELSE 2 * g[n - 1]]
<1>1. PICK k : Recursion(1, h, Nat, k)
  BY RecursionExists
<1>2. k[0] = 1 /\ \A n \in Nat : n # 0 => k[n] = h[<<n, k[n - 1]>>]
  BY <1>1 DEF Recursion
<1>3. \A n \in Nat : n \in {m \in Nat : k[m] \in Nat}
  <2> DEFINE N == {m \in Nat : k[m] \in Nat}
  <2>1. 0 \in N
    BY <1>2
  <2>2. ASSUME NEW n \in Nat, n \in N PROVE n + 1 \in N
    <3>1. n + 1 \in Nat /\ n + 1 # 0 /\ (n + 1) - 1 = n
      OBVIOUS
    <3>2. k[n + 1] = h[<<n + 1, k[n]>>]
      BY <1>2, <3>1
    <3>3. QED
      BY <2>2, <3>1, <3>2
  <2> HIDE DEF N
  <2>3. QED
    BY <2>1, <2>2, NatSetInduction DEF N
<1>4. \A n \in Nat : k[n] = IF n = 0 THEN 1 ELSE 2 * k[n - 1]
  <2>1. SUFFICES ASSUME NEW n \in Nat, n # 0 PROVE k[n] = 2 * k[n - 1]
    BY <1>2
  <2>2. n - 1 \in Nat
    BY <2>1
  <2>3. QED
    BY <1>2, <1>3, <2>1, <2>2
<1>5. Doubles(k)
  <2>1. k = [n \in Nat |-> k[n]]
    BY <1>1 DEF Recursion
  <2> HIDE DEF h
  <2>2. QED
    BY <1>4, <2>1, Zenon
<1>6. Doubles(P)
  BY <1>5, Zenon
<1>7. P[0] = 1 /\ \A n \in Nat : P[n + 1] = 2 * P[n]
  <2>1. \A n \in Nat : P[n] = IF n = 0 THEN 1 ELSE 2 * P[n - 1]
    BY <1>6
  <2>2. \A n \in Nat : n + 1 \in Nat /\ n + 1 # 0 /\ (n + 1) - 1 = n
    OBVIOUS
  <2>3. QED
    BY <2>1, <2>2
<1>8. \A n \in Nat : P[n] \in Nat /\ P[n] > 0
  <2> DEFINE N == {m \in Nat : P[m] \in Nat /\ P[m] > 0}
  <2>1. 0 \in N
    BY <1>7
  <2>2. ASSUME NEW n \in Nat, n \in N PROVE n + 1 \in N
    BY <1>7, <2>2
  <2>3. \A n \in Nat : n \in N
    <3> HIDE DEF N
    <3> QED BY <2>1, <2>2, NatSetInduction
  <2>4. QED
    BY <2>3
<1>9. QED
  BY <1>7, <1>8

-----------------------------------------------------------------------------
(***************************************************************************)
(* Reduction of the terms f[x], x in S, by an operation op given as a      *)
(* function on pairs, one term after the other.                            *)
(***************************************************************************)
Chosen(s) == CHOOSE x \in s : TRUE
ReduceEq(op, b, f, D, g) ==
  g = [s \in D |-> IF s = {} THEN b ELSE op[<<f[Chosen(s)], g[s \ {Chosen(s)}]>>]]
Reduces(op, b, f, S, g) == ReduceEq(op, b, f, SUBSET S, g)
Reduce(op, b, f, S) == (CHOOSE g : Reduces(op, b, f, S, g))[S]

LEMMA ChosenIn == \A s : s # {} => Chosen(s) \in s
BY DEF Chosen

LEMMA ReduceExists ==
  ASSUME NEW op, NEW b, NEW f, NEW S, IsFiniteSet(S)
  PROVE  \E g : Reduces(op, b, f, S, g)
<1> DEFINE Upto(n) == {s \in SUBSET S : Cardinality(s) <= n}
           N == {n \in Nat : \E g : ReduceEq(op, b, f, Upto(n), g)}
<1>1. \A s \in SUBSET S : IsFiniteSet(s) /\ Cardinality(s) \in Nat
  BY FS_Subset, FS_CardinalityType
<1>2. \A s \in SUBSET S : s # {} =>
        s \ {Chosen(s)} \in SUBSET S /\ Cardinality(s \ {Chosen(s)}) = Cardinality(s) - 1
  BY <1>1, FS_RemoveElement, ChosenIn
<1>3. 0 \in N
  <2>1. \A s \in Upto(0) : s = {}
    BY <1>1, FS_EmptySet
  <2>2. ReduceEq(op, b, f, Upto(0), [s \in Upto(0) |-> b])
    BY <2>1 DEF ReduceEq
  <2>3. QED BY <2>2
<1>4. ASSUME NEW n \in Nat, n \in N PROVE n + 1 \in N
  <2>1. PICK g : ReduceEq(op, b, f, Upto(n), g)
    BY <1>4
  <2> DEFINE h == [s \in Upto(n + 1) |->
                     IF s \in Upto(n) THEN g[s] ELSE op[<<f[Chosen(s)], g[s \ {Chosen(s)}]>>]]
  <2>2. Upto(n) \subseteq Upto(n + 1)
    BY <1>1
  <2>3. ASSUME NEW s \in Upto(n + 1)
        PROVE  h[s] = IF s = {} THEN b ELSE op[<<f[Chosen(s)], h[s \ {Chosen(s)}]>>]
    <3>1. CASE s = {}
      <4>1. s \in Upto(n)
        BY <3>1, FS_EmptySet
      <4>2. QED
        BY <2>1, <3>1, <4>1 DEF ReduceEq
    <3>2. CASE s # {}
      <4>1. s \ {Chosen(s)} \in Upto(n)
        BY <1>1, <1>2, <3>2
      <4>2. h[s \ {Chosen(s)}] = g[s \ {Chosen(s)}]
        BY <2>2, <4>1
      <4>3. s \in Upto(n) => g[s] = op[<<f[Chosen(s)], g[s \ {Chosen(s)}]>>]
        BY <2>1, <3>2 DEF ReduceEq
      <4>4. QED
        BY <3>2, <4>2, <4>3
    <3>3. QED BY <3>1, <3>2
  <2>4. h = [s \in Upto(n + 1) |-> h[s]]
    OBVIOUS
  <2> HIDE DEF h, Upto
  <2>5. h = [s \in Upto(n + 1) |-> IF s = {} THEN b ELSE op[<<f[Chosen(s)], h[s \ {Chosen(s)}]>>]]
    BY <2>3, <2>4, Zenon
  <2>6. ReduceEq(op, b, f, Upto(n + 1), h)
    BY <2>5 DEF ReduceEq
  <2>7. QED
    BY <2>6
<1>5. \A n \in Nat : n \in N
  <2> HIDE DEF N
  <2> QED BY <1>3, <1>4, NatSetInduction
<1>6. Upto(Cardinality(S)) = SUBSET S
  BY <1>1, FS_Subset
<1>7. Cardinality(S) \in N
  BY <1>1, <1>5
<1>8. QED
  BY <1>6, <1>7 DEF Reduces

LEMMA ReduceUnique ==
  ASSUME NEW op, NEW b, NEW f, NEW S, NEW g, Reduces(op, b, f, S, g),
         NEW T \in SUBSET S, IsFiniteSet(T), NEW k, Reduces(op, b, f, T, k)
  PROVE  k[T] = g[T]
<1> DEFINE W == {s \in SUBSET T : k[s] = g[s]}
<1>1. {} \in W
  BY DEF Reduces, ReduceEq
<1>2. ASSUME NEW s \in SUBSET T, s # {}, \A x \in s : s \ {x} \in W PROVE s \in W
  <2>1. k[s \ {Chosen(s)}] = g[s \ {Chosen(s)}]
    BY <1>2, ChosenIn
  <2>2. g[s] = op[<<f[Chosen(s)], g[s \ {Chosen(s)}]>>]
    BY <1>2 DEF Reduces, ReduceEq
  <2>3. k[s] = op[<<f[Chosen(s)], k[s \ {Chosen(s)}]>>]
    BY <1>2 DEF Reduces, ReduceEq
  <2>4. QED
    BY <2>1, <2>2, <2>3
<1>3. \A s \in SUBSET T : s \in W
  <2> HIDE DEF W
  <2> QED BY <1>1, <1>2, SetInduction
<1>4. QED
  BY <1>3

\* A fold is one of what is picked first and of the rest.
LEMMA ReduceStep ==
  ASSUME NEW op, NEW b, NEW f, NEW S, IsFiniteSet(S)
  PROVE  /\ Reduce(op, b, f, {}) = b
         /\ S # {} => Reduce(op, b, f, S) = op[<<f[Chosen(S)], Reduce(op, b, f, S \ {Chosen(S)})>>]
<1>1. ASSUME NEW T \in SUBSET S, NEW g, Reduces(op, b, f, S, g) PROVE Reduce(op, b, f, T) = g[T]
  <2>1. IsFiniteSet(T)
    BY FS_Subset
  <2>2. PICK k : k = CHOOSE h : Reduces(op, b, f, T, h)
    OBVIOUS
  <2>3. Reduces(op, b, f, T, k)
    BY <2>1, <2>2, ReduceExists
  <2>4. k[T] = g[T]
    BY <1>1, <2>1, <2>3, ReduceUnique
  <2>5. QED
    BY <2>2, <2>4 DEF Reduce
<1>2. PICK g : Reduces(op, b, f, S, g)
  BY ReduceExists
<1>3. Reduce(op, b, f, {}) = b
  BY <1>1, <1>2 DEF Reduces, ReduceEq
<1>4. ASSUME S # {} PROVE Reduce(op, b, f, S) = op[<<f[Chosen(S)], Reduce(op, b, f, S \ {Chosen(S)})>>]
  <2>1. g[S] = op[<<f[Chosen(S)], g[S \ {Chosen(S)}]>>]
    BY <1>2, <1>4 DEF Reduces, ReduceEq
  <2>2. Reduce(op, b, f, S) = g[S] /\ Reduce(op, b, f, S \ {Chosen(S)}) = g[S \ {Chosen(S)}]
    BY <1>1, <1>2
  <2>3. QED
    BY <2>1, <2>2
<1>5. QED
  BY <1>3, <1>4

LEMMA ReduceType ==
  ASSUME NEW V, NEW op \in [V \X V -> V], NEW b \in V, NEW f,
         NEW S, IsFiniteSet(S), \A x \in S : f[x] \in V
  PROVE  Reduce(op, b, f, S) \in V
<1> DEFINE W == {s \in SUBSET S : Reduce(op, b, f, s) \in V}
<1>0. \A s \in SUBSET S : IsFiniteSet(s)
  BY FS_Subset
<1>1. {} \in W
  BY <1>0, ReduceStep
<1>2. ASSUME NEW s \in SUBSET S, s # {}, \A x \in s : s \ {x} \in W PROVE s \in W
  <2>1. Chosen(s) \in s
    BY <1>2, ChosenIn
  <2>2. Reduce(op, b, f, s) = op[<<f[Chosen(s)], Reduce(op, b, f, s \ {Chosen(s)})>>]
    BY <1>0, <1>2, ReduceStep
  <2>3. QED
    BY <1>2, <2>1, <2>2
<1>3. \A s \in SUBSET S : s \in W
  <2> HIDE DEF W
  <2> QED BY <1>1, <1>2, SetInduction
<1>4. QED
  BY <1>3

\* Operations that may be rearranged.
Commutes(op, V) ==
  /\ op \in [V \X V -> V]
  /\ \A x, y, z \in V : op[<<x, op[<<y, z>>]>>] = op[<<y, op[<<x, z>>]>>]
  /\ \A x, y, z \in V : op[<<op[<<x, y>>], z>>] = op[<<x, op[<<y, z>>]>>]

\* Any element may be taken out first.
LEMMA ReduceRemove ==
  ASSUME NEW V, NEW op, Commutes(op, V), NEW b \in V, NEW f,
         NEW S, IsFiniteSet(S), \A x \in S : f[x] \in V
  PROVE  \A x \in S : Reduce(op, b, f, S) = op[<<f[x], Reduce(op, b, f, S \ {x})>>]
<1> DEFINE F(s) == Reduce(op, b, f, s)
           W == {s \in SUBSET S : \A x \in s : F(s) = op[<<f[x], F(s \ {x})>>]}
<1>0. \A s \in SUBSET S : IsFiniteSet(s) /\ F(s) \in V
  BY FS_Subset, ReduceType DEF Commutes
<1>1. {} \in W
  OBVIOUS
<1>2. ASSUME NEW s \in SUBSET S, s # {}, \A x \in s : s \ {x} \in W PROVE s \in W
  <2>1. SUFFICES ASSUME NEW x \in s PROVE F(s) = op[<<f[x], F(s \ {x})>>]
    OBVIOUS
  <2>2. PICK p : p = Chosen(s)
    OBVIOUS
  <2>3. p \in s /\ F(s) = op[<<f[p], F(s \ {p})>>]
    BY <1>0, <1>2, <2>2, ChosenIn, ReduceStep
  <2>4. CASE x = p
    BY <2>3, <2>4
  <2>5. CASE x # p
    <3>1. F(s \ {p}) = op[<<f[x], F((s \ {p}) \ {x})>>]
      BY <1>2, <2>3, <2>5
    <3>2. F(s \ {x}) = op[<<f[p], F((s \ {x}) \ {p})>>]
      BY <1>2, <2>3, <2>5
    <3>3. PICK r \in SUBSET S : r = (s \ {p}) \ {x} /\ r = (s \ {x}) \ {p}
      OBVIOUS
    <3>4. F(r) \in V /\ f[x] \in V /\ f[p] \in V
      BY <1>0, <2>3
    <3>5. op[<<f[p], op[<<f[x], F(r)>>]>>] = op[<<f[x], op[<<f[p], F(r)>>]>>]
      BY <3>4 DEF Commutes
    <3> HIDE DEF F
    <3>6. QED
      BY <2>3, <3>1, <3>2, <3>3, <3>5
  <2>6. QED
    BY <2>4, <2>5
<1>3. \A s \in SUBSET S : s \in W
  <2> HIDE DEF W
  <2> QED BY <1>1, <1>2, SetInduction
<1>4. QED
  BY <1>3

\* Two disjoint parts are folded apart.
LEMMA ReduceUnion ==
  ASSUME NEW V, NEW op, Commutes(op, V), NEW b \in V, \A x \in V : op[<<b, x>>] = x, NEW f,
         NEW S, IsFiniteSet(S), NEW T, IsFiniteSet(T), S \cap T = {},
         \A x \in S \cup T : f[x] \in V
  PROVE  Reduce(op, b, f, S \cup T) = op[<<Reduce(op, b, f, S), Reduce(op, b, f, T)>>]
<1> DEFINE F(s) == Reduce(op, b, f, s)
           W == {s \in SUBSET S : F(s \cup T) = op[<<F(s), F(T)>>]}
<1>0. \A s \in SUBSET S : IsFiniteSet(s) /\ IsFiniteSet(s \cup T)
  BY FS_Subset, FS_Union
<1>9. F(T) \in V /\ \A s \in SUBSET S : F(s) \in V /\ F(s \cup T) \in V
  BY <1>0, ReduceType DEF Commutes
<1>1. {} \in W
  <2>1. F({}) = b /\ {} \cup T = T
    BY ReduceStep
  <2>2. QED
    BY <1>9, <2>1
<1>2. ASSUME NEW s \in SUBSET S, s # {}, \A x \in s : s \ {x} \in W PROVE s \in W
  <2>1. PICK x : x \in s
    BY <1>2
  <2>0. IsFiniteSet(s) /\ IsFiniteSet(s \cup T) /\ (\A y \in s \cup T : f[y] \in V) /\ (\A y \in s : f[y] \in V)
    BY <1>0
  <2>2. F(s) = op[<<f[x], F(s \ {x})>>]
    BY <2>0, <2>1, ReduceRemove
  <2>3. F(s \cup T) = op[<<f[x], F((s \cup T) \ {x})>>]
    BY <2>0, <2>1, ReduceRemove
  <2>4. (s \cup T) \ {x} = (s \ {x}) \cup T
    BY <2>1
  <2>5. F((s \ {x}) \cup T) = op[<<F(s \ {x}), F(T)>>]
    BY <1>2, <2>1
  <2>6. f[x] \in V /\ F(s \ {x}) \in V
    BY <1>9, <2>1
  <2>9. op[<<op[<<f[x], F(s \ {x})>>], F(T)>>] = op[<<f[x], op[<<F(s \ {x}), F(T)>>]>>]
    BY <1>9, <2>6 DEF Commutes
  <2> HIDE DEF F
  <2>7. F(s \cup T) = op[<<F(s), F(T)>>]
    BY <2>2, <2>3, <2>4, <2>5, <2>9
  <2>8. QED
    BY <2>7
<1>3. \A s \in SUBSET S : s \in W
  <2> HIDE DEF W
  <2> QED BY <1>1, <1>2, SetInduction
<1>4. QED
  BY <1>3

\* The terms alone matter, under any names.
LEMMA ReduceReindex ==
  ASSUME NEW V, NEW op, Commutes(op, V), NEW b \in V, NEW f, NEW h,
         NEW S, IsFiniteSet(S), NEW T, IsFiniteSet(T), NEW m \in [S -> T],
         \A x, y \in S : m[x] = m[y] => x = y, \A y \in T : \E x \in S : m[x] = y,
         \A x \in S : f[x] \in V /\ h[m[x]] = f[x]
  PROVE  Reduce(op, b, h, T) = Reduce(op, b, f, S)
<1> DEFINE Im(s) == {m[x] : x \in s}
           W == {s \in SUBSET S : Reduce(op, b, h, Im(s)) = Reduce(op, b, f, s)}
<1>0. \A s \in SUBSET S : IsFiniteSet(s) /\ IsFiniteSet(Im(s))
  <2>1. SUFFICES ASSUME NEW s \in SUBSET S PROVE IsFiniteSet(s) /\ IsFiniteSet(Im(s))
    OBVIOUS
  <2>2. Im(s) \in SUBSET T
    OBVIOUS
  <2>3. PICK t \in SUBSET T : t = Im(s)
    BY <2>2
  <2> HIDE DEF Im
  <2>4. IsFiniteSet(t)
    BY FS_Subset
  <2>5. QED
    BY <2>3, <2>4, FS_Subset
<1>1. {} \in W
  <2>1. Im({}) = {}
    OBVIOUS
  <2>2. Reduce(op, b, h, {}) = b /\ Reduce(op, b, f, {}) = b
    BY ReduceStep
  <2>3. QED
    BY <2>1, <2>2
<1>2. ASSUME NEW s \in SUBSET S, s # {}, \A x \in s : s \ {x} \in W PROVE s \in W
  <2>1. PICK x : x \in s
    BY <1>2
  <2>0. (\A y \in s : f[y] \in V) /\ (\A y \in Im(s) : h[y] \in V) /\ m[x] \in Im(s)
    BY <2>1
  <2>7. IsFiniteSet(s) /\ IsFiniteSet(Im(s))
    BY <1>0
  <2>2. Reduce(op, b, f, s) = op[<<f[x], Reduce(op, b, f, s \ {x})>>]
    BY <2>0, <2>1, <2>7, ReduceRemove
  <2> HIDE DEF Im
  <2>3. Reduce(op, b, h, Im(s)) = op[<<h[m[x]], Reduce(op, b, h, Im(s) \ {m[x]})>>]
    BY <2>0, <2>1, <2>7, ReduceRemove
  <2> USE DEF Im
  <2>4. Im(s) \ {m[x]} = Im(s \ {x})
    BY <2>1
  <2>5. Reduce(op, b, h, Im(s \ {x})) = Reduce(op, b, f, s \ {x})
    BY <1>2, <2>1
  <2>6. QED
    BY <2>1, <2>2, <2>3, <2>4, <2>5
<1>3. \A s \in SUBSET S : s \in W
  <2> HIDE DEF W
  <2> QED BY <1>1, <1>2, SetInduction
<1>4. Im(S) = T
  OBVIOUS
<1>5. QED
  BY <1>3, <1>4

-----------------------------------------------------------------------------
(***************************************************************************)
(* Sums, as the modules of the project write them.                         *)
(***************************************************************************)
PlusOp == [p \in Int \X Int |-> p[1] + p[2]]
LEMMA PlusCommutes ==
  /\ Commutes(PlusOp, Int) /\ 0 \in Int
  /\ \A x \in Int : PlusOp[<<0, x>>] = x
  /\ \A x, y \in Int : PlusOp[<<x, y>>] = x + y
BY DEF Commutes, PlusOp

LEMMA SumIsReduce ==
  ASSUME NEW f, NEW S, IsFiniteSet(S), \A x \in S : f[x] \in Int
  PROVE  SumFunctionOnSet(f, S) = Reduce(PlusOp, 0, f, S)
<1> DEFINE Sums(g) == g = [s \in SUBSET S |-> IF s = {} THEN 0
                                              ELSE f[Chosen(s)] + g[s \ {Chosen(s)}]]
           F == [s \in SUBSET S |-> Reduce(PlusOp, 0, f, s)]
<1>1. SumFunctionOnSet(f, S) = (CHOOSE g : Sums(g))[S]
  BY Zenon DEF SumFunctionOnSet, FoldFunctionOnSet, MapThenFoldSet, Chosen
<1>2. \A s \in SUBSET S : IsFiniteSet(s) /\ Reduce(PlusOp, 0, f, s) \in Int
  BY PlusCommutes, ReduceType, FS_Subset DEF Commutes
<1>3. Sums(F)
  <2>1. SUFFICES ASSUME NEW s \in SUBSET S
                 PROVE  Reduce(PlusOp, 0, f, s) = IF s = {} THEN 0 ELSE f[Chosen(s)] + F[s \ {Chosen(s)}]
    OBVIOUS
  <2>2. CASE s = {}
    BY <2>2, ReduceStep, <1>2
  <2>3. CASE s # {}
    <3>1. Reduce(PlusOp, 0, f, s) = PlusOp[<<f[Chosen(s)], Reduce(PlusOp, 0, f, s \ {Chosen(s)})>>]
      BY <2>3, ReduceStep, <1>2
    <3>2. f[Chosen(s)] \in Int /\ Reduce(PlusOp, 0, f, s \ {Chosen(s)}) \in Int
      BY <1>2, <2>3, ChosenIn
    <3>3. QED
      BY <2>3, <3>1, <3>2, PlusCommutes
  <2>4. QED
    BY <2>2, <2>3
<1>4. PICK g : g = CHOOSE h : Sums(h)
  OBVIOUS
<1>5. Sums(g)
  BY <1>3, <1>4
<1> DEFINE W == {s \in SUBSET S : g[s] = F[s]}
<1>6. {} \in W
  BY <1>3, <1>5
<1>7. ASSUME NEW s \in SUBSET S, s # {}, \A x \in s : s \ {x} \in W PROVE s \in W
  <2>1. g[s \ {Chosen(s)}] = F[s \ {Chosen(s)}]
    BY <1>7, ChosenIn
  <2> HIDE DEF F
  <2>2. g[s] = f[Chosen(s)] + g[s \ {Chosen(s)}]
    BY <1>5, <1>7
  <2>3. F[s] = f[Chosen(s)] + F[s \ {Chosen(s)}]
    BY <1>3, <1>7
  <2>4. QED
    BY <2>1, <2>2, <2>3
<1>8. \A s \in SUBSET S : s \in W
  <2> HIDE DEF W
  <2> QED BY <1>6, <1>7, SetInduction
<1>9. QED
  BY <1>1, <1>4, <1>8

LEMMA SumEmpty == ASSUME NEW f PROVE SumFunctionOnSet(f, {}) = 0
<1>1. PICK e : e = {} /\ IsFiniteSet(e) /\ \A x \in e : f[x] \in Int
  BY FS_EmptySet
<1>2. SumFunctionOnSet(f, e) = Reduce(PlusOp, 0, f, e)
  BY <1>1, SumIsReduce
<1>3. Reduce(PlusOp, 0, f, {}) = 0
  BY <1>1, ReduceStep
<1>4. QED
  BY <1>1, <1>2, <1>3

LEMMA SumType ==
  ASSUME NEW f, NEW S, IsFiniteSet(S), \A x \in S : f[x] \in Int
  PROVE  SumFunctionOnSet(f, S) \in Int
<1>1. PlusOp \in [Int \X Int -> Int] /\ 0 \in Int
  BY PlusCommutes DEF Commutes
<1>2. Reduce(PlusOp, 0, f, S) \in Int
  BY <1>1, ReduceType
<1>3. QED
  BY <1>2, SumIsReduce

LEMMA SumRemove ==
  ASSUME NEW f, NEW S, IsFiniteSet(S), \A x \in S : f[x] \in Int
  PROVE  \A x \in S : SumFunctionOnSet(f, S) = f[x] + SumFunctionOnSet(f, S \ {x})
<1>1. SUFFICES ASSUME NEW x \in S
               PROVE  SumFunctionOnSet(f, S) = f[x] + SumFunctionOnSet(f, S \ {x})
  OBVIOUS
<1>2. IsFiniteSet(S \ {x}) /\ \A y \in S \ {x} : f[y] \in Int
  BY FS_RemoveElement
<1>3. Reduce(PlusOp, 0, f, S) = PlusOp[<<f[x], Reduce(PlusOp, 0, f, S \ {x})>>]
  BY PlusCommutes, ReduceRemove
<1>4. f[x] \in Int /\ Reduce(PlusOp, 0, f, S \ {x}) \in Int
  BY <1>2, ReduceType, PlusCommutes DEF Commutes
<1>5. QED
  BY <1>2, <1>3, <1>4, SumIsReduce, PlusCommutes

LEMMA SumOne ==
  ASSUME NEW f, NEW x, f[x] \in Int
  PROVE  SumFunctionOnSet(f, {x}) = f[x]
<1>1. IsFiniteSet({x}) /\ \A y \in {x} : f[y] \in Int
  BY FS_Singleton
<1>2. SumFunctionOnSet(f, {x}) = f[x] + SumFunctionOnSet(f, {x} \ {x})
  BY <1>1, SumRemove
<1>3. {x} \ {x} = {}
  OBVIOUS
<1>4. QED
  BY <1>2, <1>3, SumEmpty

LEMMA SumUnion ==
  ASSUME NEW f, NEW S, IsFiniteSet(S), NEW T, IsFiniteSet(T), S \cap T = {},
         \A x \in S \cup T : f[x] \in Int
  PROVE  SumFunctionOnSet(f, S \cup T) = SumFunctionOnSet(f, S) + SumFunctionOnSet(f, T)
<1>1. IsFiniteSet(S \cup T) /\ (\A x \in S : f[x] \in Int) /\ \A x \in T : f[x] \in Int
  BY FS_Union
<1>2. Reduce(PlusOp, 0, f, S) \in Int /\ Reduce(PlusOp, 0, f, T) \in Int
  BY <1>1, ReduceType, PlusCommutes DEF Commutes
<1>3. Reduce(PlusOp, 0, f, S \cup T)
        = PlusOp[<<Reduce(PlusOp, 0, f, S), Reduce(PlusOp, 0, f, T)>>]
  <2>1. Commutes(PlusOp, Int) /\ 0 \in Int /\ \A x \in Int : PlusOp[<<0, x>>] = x
    BY PlusCommutes
  <2>2. QED
    BY <2>1, ReduceUnion
<1>4. QED
  BY <1>1, <1>2, <1>3, SumIsReduce, PlusCommutes

LEMMA SumSplit ==
  ASSUME NEW f, NEW a \in Int, NEW m \in Int, NEW b \in Int, a <= m + 1, m <= b,
         \A x \in a .. b : f[x] \in Int
  PROVE  SumFunctionOnSet(f, a .. b) = SumFunctionOnSet(f, a .. m) + SumFunctionOnSet(f, m + 1 .. b)
<1>1. a .. b = (a .. m) \cup (m + 1 .. b) /\ (a .. m) \cap (m + 1 .. b) = {}
  OBVIOUS
<1>2. IsFiniteSet(a .. m) /\ IsFiniteSet(m + 1 .. b)
  BY FS_Interval
<1>3. QED
  BY <1>1, <1>2, SumUnion

\* The terms alone matter, under any names.
LEMMA SumReindex ==
  ASSUME NEW f, NEW h, NEW S, IsFiniteSet(S), NEW T, IsFiniteSet(T), NEW m \in [S -> T],
         \A x, y \in S : m[x] = m[y] => x = y, \A y \in T : \E x \in S : m[x] = y,
         \A x \in S : f[x] \in Int /\ h[m[x]] = f[x]
  PROVE  SumFunctionOnSet(h, T) = SumFunctionOnSet(f, S)
<1>1. \A y \in T : h[y] \in Int
  OBVIOUS
<1>2. Reduce(PlusOp, 0, h, T) = Reduce(PlusOp, 0, f, S)
  BY PlusCommutes, ReduceReindex
<1>3. QED
  BY <1>1, <1>2, SumIsReduce

\* A sum over an interval, moved by h.
LEMMA SumShift ==
  ASSUME NEW f, NEW g, NEW a \in Int, NEW b \in Int, NEW h \in Int,
         \A x \in a .. b : f[x] \in Int /\ g[x + h] = f[x]
  PROVE  SumFunctionOnSet(g, a + h .. b + h) = SumFunctionOnSet(f, a .. b)
<1> DEFINE m == [x \in a .. b |-> x + h]
<1>1. IsFiniteSet(a .. b) /\ IsFiniteSet(a + h .. b + h)
  BY FS_Interval
<1>2. /\ m \in [a .. b -> a + h .. b + h]
      /\ \A x, y \in a .. b : m[x] = m[y] => x = y
  OBVIOUS
<1>3. \A y \in a + h .. b + h : \E x \in a .. b : m[x] = y
  <2>1. SUFFICES ASSUME NEW y \in a + h .. b + h PROVE \E x \in a .. b : m[x] = y
    OBVIOUS
  <2>2. y - h \in a .. b /\ (y - h) + h = y
    OBVIOUS
  <2>3. QED
    BY <2>2
<1>4. \A x \in a .. b : f[x] \in Int /\ g[m[x]] = f[x]
  OBVIOUS
<1> HIDE DEF m
<1>5. PICK I, K : I = a .. b /\ K = a + h .. b + h
  OBVIOUS
<1>6. /\ IsFiniteSet(I) /\ IsFiniteSet(K) /\ m \in [I -> K]
      /\ \A x, y \in I : m[x] = m[y] => x = y
      /\ \A y \in K : \E x \in I : m[x] = y
      /\ \A x \in I : f[x] \in Int /\ g[m[x]] = f[x]
  BY <1>1, <1>2, <1>3, <1>4, <1>5
<1>7. SumFunctionOnSet(g, K) = SumFunctionOnSet(f, I)
  BY <1>6, SumReindex
<1>8. QED
  BY <1>5, <1>7

\* A sum is linear in its terms, modulo n; modulo zero, exactly.
LEMMA SumLinear ==
  ASSUME NEW n \in Nat, NEW a \in Int, NEW b \in Int, NEW f, NEW g, NEW h,
         NEW S, IsFiniteSet(S),
         \A x \in S : /\ f[x] \in Int /\ g[x] \in Int /\ h[x] \in Int
                      /\ Cong(n, h[x], a * f[x] + b * g[x])
  PROVE  Cong(n, SumFunctionOnSet(h, S), a * SumFunctionOnSet(f, S) + b * SumFunctionOnSet(g, S))
<1> DEFINE F(s) == SumFunctionOnSet(f, s)
           K(s) == SumFunctionOnSet(g, s)
           H(s) == SumFunctionOnSet(h, s)
           W == {s \in SUBSET S : Cong(n, H(s), a * F(s) + b * K(s))}
<1>1. \A s \in SUBSET S : IsFiniteSet(s) /\ F(s) \in Int /\ K(s) \in Int /\ H(s) \in Int
  BY FS_Subset, SumType
<1>2. {} \in W
  BY SumEmpty, CongRefl
<1>3. ASSUME NEW s \in SUBSET S, s # {}, \A x \in s : s \ {x} \in W PROVE s \in W
  <2>1. PICK x : x \in s
    BY <1>3
  <2>2. PICK r \in SUBSET S : r = s \ {x}
    OBVIOUS
  <2>3. F(s) = f[x] + F(r) /\ K(s) = g[x] + K(r) /\ H(s) = h[x] + H(r)
    <3>1. IsFiniteSet(s) /\ \A y \in s : f[y] \in Int /\ g[y] \in Int /\ h[y] \in Int
      BY <1>1
    <3>2. QED
      BY <2>1, <2>2, <3>1, SumRemove
  <2>4. Cong(n, H(r), a * F(r) + b * K(r)) /\ Cong(n, h[x], a * f[x] + b * g[x])
    BY <1>3, <2>1, <2>2
  <2>5. /\ f[x] \in Int /\ g[x] \in Int /\ h[x] \in Int
        /\ F(r) \in Int /\ K(r) \in Int /\ H(r) \in Int
    BY <1>1, <2>1
  <2> HIDE DEF F, K, H
  <2>6. a * f[x] + b * g[x] \in Int /\ a * F(r) + b * K(r) \in Int
    BY <2>5
  <2>7. Cong(n, h[x] + H(r), (a * f[x] + b * g[x]) + (a * F(r) + b * K(r)))
    BY <2>4, <2>5, <2>6, CongAdd
  <2>8. (a * f[x] + b * g[x]) + (a * F(r) + b * K(r)) = a * (f[x] + F(r)) + b * (g[x] + K(r))
    BY <2>5
  <2>9. QED
    BY <2>3, <2>7, <2>8
<1>4. \A s \in SUBSET S : s \in W
  <2> HIDE DEF W
  <2> QED BY <1>2, <1>3, SetInduction
<1>5. QED
  BY <1>4

\* A sum modulo n, scaled, or of other terms of the same residues.
LEMMA SumScaled ==
  ASSUME NEW n \in Nat, NEW a \in Int, NEW f, NEW h, NEW S, IsFiniteSet(S),
         \A x \in S : f[x] \in Int /\ h[x] \in Int /\ Cong(n, h[x], a * f[x])
  PROVE  Cong(n, SumFunctionOnSet(h, S), a * SumFunctionOnSet(f, S))
<1>1. PICK z \in Int : z = 0
  OBVIOUS
<1>2. \A u, v \in Int : u * v + z * v = u * v
  BY <1>1
<1>3. ASSUME NEW x \in S
      PROVE  f[x] \in Int /\ f[x] \in Int /\ h[x] \in Int /\ Cong(n, h[x], a * f[x] + z * f[x])
  BY <1>2
<1>4. SumFunctionOnSet(f, S) \in Int
  BY SumType
<1>5. Cong(n, SumFunctionOnSet(h, S), a * SumFunctionOnSet(f, S) + z * SumFunctionOnSet(f, S))
  BY <1>3, SumLinear
<1>6. QED
  BY <1>2, <1>4, <1>5

LEMMA SumCong ==
  ASSUME NEW n \in Nat, NEW f, NEW h, NEW S, IsFiniteSet(S),
         \A x \in S : f[x] \in Int /\ h[x] \in Int /\ Cong(n, h[x], f[x])
  PROVE  Cong(n, SumFunctionOnSet(h, S), SumFunctionOnSet(f, S))
<1>1. PICK o \in Int : o = 1
  OBVIOUS
<1>2. \A u \in Int : o * u = u
  BY <1>1
<1>3. \A x \in S : f[x] \in Int /\ h[x] \in Int /\ Cong(n, h[x], o * f[x])
  BY <1>2
<1>4. Cong(n, SumFunctionOnSet(h, S), o * SumFunctionOnSet(f, S))
  BY <1>3, SumScaled
<1>5. SumFunctionOnSet(f, S) \in Int
  BY SumType
<1>6. QED
  BY <1>2, <1>4, <1>5

LEMMA SumSame ==
  ASSUME NEW f, NEW h, NEW S, IsFiniteSet(S), \A x \in S : f[x] \in Int /\ h[x] = f[x]
  PROVE  SumFunctionOnSet(h, S) = SumFunctionOnSet(f, S)
<1> DEFINE m == [x \in S |-> x]
<1>1. /\ m \in [S -> S]
      /\ \A x, y \in S : m[x] = m[y] => x = y
      /\ \A y \in S : \E x \in S : m[x] = y
      /\ \A x \in S : f[x] \in Int /\ h[m[x]] = f[x]
  OBVIOUS
<1> HIDE DEF m
<1>2. QED
  BY <1>1, SumReindex

\* Two sums may change places.
LEMMA SumExchange ==
  ASSUME NEW f, NEW S, IsFiniteSet(S), NEW T, IsFiniteSet(T),
         \A x \in S, y \in T : f[x][y] \in Int
  PROVE  SumFunctionOnSet([x \in S |-> SumFunctionOnSet(f[x], T)], S)
           = SumFunctionOnSet([y \in T |-> SumFunctionOnSet([x \in S |-> f[x][y]], S)], T)
<1> DEFINE row == [x \in S |-> SumFunctionOnSet(f[x], T)]
           col(y) == [x \in S |-> f[x][y]]
           cols(s) == [y \in T |-> SumFunctionOnSet(col(y), s)]
           W == {s \in SUBSET S : SumFunctionOnSet(row, s) = SumFunctionOnSet(cols(s), T)}
<1>1. \A s \in SUBSET S : IsFiniteSet(s)
  BY FS_Subset
<1>2. \A x \in S : row[x] \in Int
  BY SumType
<1>3. \A s \in SUBSET S, y \in T : cols(s)[y] \in Int
  <2>1. SUFFICES ASSUME NEW s \in SUBSET S, NEW y \in T PROVE SumFunctionOnSet(col(y), s) \in Int
    OBVIOUS
  <2>2. \A x \in s : col(y)[x] \in Int
    OBVIOUS
  <2> HIDE DEF col
  <2>3. QED
    BY <1>1, <2>2, SumType
<1>4. {} \in W
  <2>1. \A y \in T : cols({})[y] = 0
    BY SumEmpty
  <2>2. \A y \in T : cols({})[y] \in Int /\ Cong(0, cols({})[y], 0 * cols({})[y] + 0 * cols({})[y])
    BY <2>1, CongRefl
  <2> HIDE DEF cols
  <2>3. Cong(0, SumFunctionOnSet(cols({}), T),
             0 * SumFunctionOnSet(cols({}), T) + 0 * SumFunctionOnSet(cols({}), T))
    BY <2>2, SumLinear
  <2>4. SumFunctionOnSet(cols({}), T) \in Int
    BY <2>2, SumType
  <2>5. SumFunctionOnSet(cols({}), T) = 0
    BY <2>3, <2>4 DEF Cong
  <2>6. QED
    BY <2>5, SumEmpty
<1>5. ASSUME NEW s \in SUBSET S, s # {}, \A x \in s : s \ {x} \in W PROVE s \in W
  <2>1. PICK x : x \in s
    BY <1>5
  <2>2. PICK r \in SUBSET S : r = s \ {x}
    OBVIOUS
  <2>3. SumFunctionOnSet(row, s) = row[x] + SumFunctionOnSet(row, r)
    <3> HIDE DEF row
    <3>1. IsFiniteSet(s) /\ \A y \in s : row[y] \in Int
      BY <1>1, <1>2
    <3> QED BY <2>1, <2>2, <3>1, SumRemove
  <2>4. row[x] = SumFunctionOnSet(f[x], T) /\ SumFunctionOnSet(row, r) = SumFunctionOnSet(cols(r), T)
    BY <1>5, <2>1, <2>2
  <2>5. \A y \in T : cols(s)[y] = f[x][y] + cols(r)[y]
    <3>1. SUFFICES ASSUME NEW y \in T
                   PROVE  SumFunctionOnSet(col(y), s) = f[x][y] + SumFunctionOnSet(col(y), r)
      OBVIOUS
    <3>2. IsFiniteSet(s) /\ (\A z \in s : col(y)[z] \in Int) /\ col(y)[x] = f[x][y]
      BY <1>1, <2>1
    <3> HIDE DEF col
    <3>3. QED
      BY <2>1, <2>2, <3>2, SumRemove
  <2>6. \A y \in T : /\ f[x][y] \in Int /\ cols(r)[y] \in Int /\ cols(s)[y] \in Int
                     /\ Cong(0, cols(s)[y], 1 * f[x][y] + 1 * cols(r)[y])
    <3>1. SUFFICES ASSUME NEW y \in T
          PROVE  /\ f[x][y] \in Int /\ cols(r)[y] \in Int /\ cols(s)[y] \in Int
                 /\ Cong(0, cols(s)[y], 1 * f[x][y] + 1 * cols(r)[y])
      OBVIOUS
    <3>2. f[x][y] \in Int /\ cols(r)[y] \in Int /\ cols(s)[y] \in Int
      BY <1>3, <2>1
    <3> HIDE DEF cols
    <3>3. cols(s)[y] = 1 * f[x][y] + 1 * cols(r)[y]
      BY <2>5, <3>2
    <3>4. QED
      BY <3>2, <3>3, CongRefl
  <2> HIDE DEF cols
  <2>7. Cong(0, SumFunctionOnSet(cols(s), T),
             1 * SumFunctionOnSet(f[x], T) + 1 * SumFunctionOnSet(cols(r), T))
    <3>1. PICK u, v, w : u = f[x] /\ v = cols(r) /\ w = cols(s)
      OBVIOUS
    <3>2. \A y \in T : u[y] \in Int /\ v[y] \in Int /\ w[y] \in Int /\ Cong(0, w[y], 1 * u[y] + 1 * v[y])
      BY <2>6, <3>1
    <3>3. PICK i \in Int : i = 1
      OBVIOUS
    <3>4. \A y \in T : u[y] \in Int /\ v[y] \in Int /\ w[y] \in Int /\ Cong(0, w[y], i * u[y] + i * v[y])
      BY <3>2, <3>3
    <3>5. Cong(0, SumFunctionOnSet(w, T), i * SumFunctionOnSet(u, T) + i * SumFunctionOnSet(v, T))
      BY <3>4, SumLinear
    <3>6. QED
      BY <3>1, <3>3, <3>5
  <2>8. /\ SumFunctionOnSet(cols(s), T) \in Int /\ SumFunctionOnSet(f[x], T) \in Int
        /\ SumFunctionOnSet(cols(r), T) \in Int
    BY <2>6, SumType
  <2>9. SumFunctionOnSet(cols(s), T) = SumFunctionOnSet(f[x], T) + SumFunctionOnSet(cols(r), T)
    BY <2>7, <2>8 DEF Cong
  <2>10. QED
    BY <2>3, <2>4, <2>9
<1>6. \A s \in SUBSET S : s \in W
  <2> HIDE DEF W
  <2> QED BY <1>4, <1>5, SetInduction
<1>7. cols(S) = [y \in T |-> SumFunctionOnSet([x \in S |-> f[x][y]], S)]
  OBVIOUS
<1>8. QED
  BY <1>6, <1>7

-----------------------------------------------------------------------------
(***************************************************************************)
(* Products modulo n.                                                      *)
(***************************************************************************)
TimesOp(n) == [p \in Int \X Int |-> (p[1] * p[2]) % n]

LEMMA ModTimes ==
  ASSUME NEW n \in Nat, n > 0, NEW a \in Int, NEW b \in Int
  PROVE  ((a % n) * b) % n = (a * b) % n /\ (a * (b % n)) % n = (a * b) % n
<1>1. PICK x \in Int, y \in Int : x = a % n /\ y = b % n /\ Cong(n, x, a) /\ Cong(n, y, b)
  BY CongMod
<1>2. Cong(n, b, b) /\ Cong(n, a, a)
  BY CongRefl
<1>3. Cong(n, x * b, a * b) /\ Cong(n, a * y, a * b)
  BY <1>1, <1>2, CongMul
<1>4. x * b \in Int /\ a * b \in Int /\ a * y \in Int
  BY <1>1
<1>5. (x * b) % n = (a * b) % n /\ (a * y) % n = (a * b) % n
  BY <1>3, <1>4, CongSame
<1>6. QED
  BY <1>1, <1>5

LEMMA TimesCommutes ==
  ASSUME NEW n \in Nat, n > 0
  PROVE  /\ Commutes(TimesOp(n), Int) /\ 1 \in Int
         /\ \A x, y \in Int : TimesOp(n)[<<x, y>>] = (x * y) % n /\ (x * y) % n \in Int
<1>1. \A x, y \in Int : TimesOp(n)[<<x, y>>] = (x * y) % n /\ (x * y) % n \in Int
  <2>1. SUFFICES ASSUME NEW x \in Int, NEW y \in Int
                 PROVE  TimesOp(n)[<<x, y>>] = (x * y) % n /\ (x * y) % n \in Int
    OBVIOUS
  <2>2. PICK z \in Int : z = x * y
    OBVIOUS
  <2>3. z % n \in Int
    BY DivMod
  <2>4. QED
    BY <2>2, <2>3 DEF TimesOp
<1>2. TimesOp(n) \in [Int \X Int -> Int]
  BY <1>1 DEF TimesOp
<1>3. ASSUME NEW x \in Int, NEW y \in Int, NEW z \in Int
      PROVE  /\ (x * ((y * z) % n)) % n = (y * ((x * z) % n)) % n
             /\ (((x * y) % n) * z) % n = (x * ((y * z) % n)) % n
  <2>1. PICK u \in Int, v \in Int, w \in Int : u = x * y /\ v = y * z /\ w = x * z
    OBVIOUS
  <2>2. (x * (v % n)) % n = (x * v) % n /\ (y * (w % n)) % n = (y * w) % n
        /\ ((u % n) * z) % n = (u * z) % n
    BY ModTimes
  <2>3. x * v = y * w /\ u * z = x * v
    BY <2>1
  <2>4. QED
    BY <2>1, <2>2, <2>3
<1>4. Commutes(TimesOp(n), Int)
  <2>1. \A x, y, z \in Int :
          /\ TimesOp(n)[<<x, TimesOp(n)[<<y, z>>]>>] = TimesOp(n)[<<y, TimesOp(n)[<<x, z>>]>>]
          /\ TimesOp(n)[<<TimesOp(n)[<<x, y>>], z>>] = TimesOp(n)[<<x, TimesOp(n)[<<y, z>>]>>]
    BY <1>1, <1>3
  <2>2. QED
    BY <1>2, <2>1 DEF Commutes
<1>5. QED
  BY <1>1, <1>4

LEMMA ProductIsReduce ==
  ASSUME NEW n \in Nat, n > 0, NEW f, NEW S, IsFiniteSet(S), \A x \in S : f[x] \in Int
  PROVE  FoldFunctionOnSet(LAMBDA a, b : (a * b) % n, 1, f, S) = Reduce(TimesOp(n), 1, f, S)
<1> DEFINE Products(g) == g = [s \in SUBSET S |-> IF s = {} THEN 1
                                              ELSE (f[Chosen(s)] * g[s \ {Chosen(s)}]) % n]
           F == [s \in SUBSET S |-> Reduce(TimesOp(n), 1, f, s)]
<1>1. FoldFunctionOnSet(LAMBDA a, b : (a * b) % n, 1, f, S) = (CHOOSE g : Products(g))[S]
  BY Zenon DEF FoldFunctionOnSet, MapThenFoldSet, Chosen
<1>2. \A s \in SUBSET S : IsFiniteSet(s) /\ Reduce(TimesOp(n), 1, f, s) \in Int
  <2>1. TimesOp(n) \in [Int \X Int -> Int] /\ 1 \in Int
    BY TimesCommutes DEF Commutes
  <2>2. QED
    BY <2>1, ReduceType, FS_Subset
<1>3. Products(F)
  <2>1. SUFFICES ASSUME NEW s \in SUBSET S
                 PROVE  Reduce(TimesOp(n), 1, f, s)
                          = IF s = {} THEN 1 ELSE (f[Chosen(s)] * F[s \ {Chosen(s)}]) % n
    OBVIOUS
  <2>2. CASE s = {}
    BY <2>2, ReduceStep, <1>2
  <2>3. CASE s # {}
    <3>1. Reduce(TimesOp(n), 1, f, s)
            = TimesOp(n)[<<f[Chosen(s)], Reduce(TimesOp(n), 1, f, s \ {Chosen(s)})>>]
      BY <2>3, ReduceStep, <1>2
    <3>2. f[Chosen(s)] \in Int /\ Reduce(TimesOp(n), 1, f, s \ {Chosen(s)}) \in Int
      BY <1>2, <2>3, ChosenIn
    <3>3. QED
      BY <2>3, <3>1, <3>2, TimesCommutes
  <2>4. QED
    BY <2>2, <2>3
<1>4. PICK g : g = CHOOSE h : Products(h)
  OBVIOUS
<1>5. Products(g)
  BY <1>3, <1>4
<1> DEFINE W == {s \in SUBSET S : g[s] = F[s]}
<1>6. {} \in W
  BY <1>3, <1>5
<1>7. ASSUME NEW s \in SUBSET S, s # {}, \A x \in s : s \ {x} \in W PROVE s \in W
  <2>1. g[s \ {Chosen(s)}] = F[s \ {Chosen(s)}]
    BY <1>7, ChosenIn
  <2> HIDE DEF F
  <2>2. g[s] = (f[Chosen(s)] * g[s \ {Chosen(s)}]) % n
    BY <1>5, <1>7
  <2>3. F[s] = (f[Chosen(s)] * F[s \ {Chosen(s)}]) % n
    BY <1>3, <1>7
  <2>4. QED
    BY <2>1, <2>2, <2>3
<1>8. \A s \in SUBSET S : s \in W
  <2> HIDE DEF W
  <2> QED BY <1>6, <1>7, SetInduction
<1>9. QED
  BY <1>1, <1>4, <1>8

-----------------------------------------------------------------------------
(***************************************************************************)
(* Polynomials modulo n, as coefficients c[1], c[2], ... taken with the    *)
(* powers w of a point: one with as many roots as coefficients is zero     *)
(* when the differences of the roots can be cancelled.                     *)
(***************************************************************************)
Value(w, c, k) == SumFunctionOnSet([i \in Nat |-> w[i] * c[i]], 1 .. k)

Powers(n, x, w) ==
  /\ w \in [Nat -> Int] /\ w[1] = 1
  /\ \A i \in Nat : i > 0 => Cong(n, w[i + 1], x * w[i])

Cancels(n, d) == \A z \in Int : Cong(n, d * z, 0) => Cong(n, z, 0)

LEMMA ValueStep ==
  ASSUME NEW w \in [Nat -> Int], NEW c \in [Nat -> Int]
  PROVE  /\ Value(w, c, 0) = 0
         /\ \A k \in Nat : /\ Value(w, c, k) \in Int
                           /\ Value(w, c, k + 1) = Value(w, c, k) + w[k + 1] * c[k + 1]
<1>1. PICK f : f = [i \in Nat |-> w[i] * c[i]]
  OBVIOUS
<1>2. \A i \in Nat : f[i] \in Int /\ f[i] = w[i] * c[i]
  <2>1. SUFFICES ASSUME NEW i \in Nat PROVE f[i] \in Int /\ f[i] = w[i] * c[i]
    OBVIOUS
  <2>2. PICK u \in Int, v \in Int : u = w[i] /\ v = c[i]
    OBVIOUS
  <2>3. QED
    BY <1>1, <2>2
<1>3. Value(w, c, 0) = 0
  <2>1. 1 .. 0 = {}
    OBVIOUS
  <2>2. QED
    BY <2>1, SumEmpty DEF Value
<1>4. ASSUME NEW k \in Nat
      PROVE  /\ Value(w, c, k) \in Int
             /\ Value(w, c, k + 1) = Value(w, c, k) + w[k + 1] * c[k + 1]
  <2>1. PICK o \in Int, e \in Int : o = 1 /\ e = k + 1
    OBVIOUS
  <2>2. \A i \in o .. e : f[i] \in Int
    BY <1>2, <2>1
  <2>3. o <= k + 1 /\ k <= e /\ k \in Int
    BY <2>1
  <2>4. SumFunctionOnSet(f, o .. e) = SumFunctionOnSet(f, o .. k) + SumFunctionOnSet(f, k + 1 .. e)
    BY <2>2, <2>3, SumSplit
  <2>5. k + 1 .. e = {e} /\ f[e] \in Int
    BY <1>2, <2>1
  <2>6. SumFunctionOnSet(f, {e}) = f[e]
    BY <2>5, SumOne
  <2>7. SumFunctionOnSet(f, o .. k) \in Int
    <3>1. IsFiniteSet(o .. k)
      BY FS_Interval
    <3>2. \A i \in o .. k : f[i] \in Int
      BY <1>2, <2>1
    <3>3. QED
      BY <3>1, <3>2, SumType
  <2>8. Value(w, c, k) = SumFunctionOnSet(f, o .. k) /\ Value(w, c, k + 1) = SumFunctionOnSet(f, o .. e)
    BY <1>1, <2>1 DEF Value
  <2>9. f[e] = w[k + 1] * c[k + 1]
    BY <1>2, <2>1
  <2>10. QED
    BY <2>4, <2>5, <2>6, <2>7, <2>8, <2>9
<1>5. QED
  BY <1>3, <1>4

\* Division by X - a: the quotient from the last coefficient down, and the
\* remainder in d[0].
LEMMA Division ==
  ASSUME NEW a \in Int, NEW c \in [Nat -> Int], NEW k \in Nat
  PROVE  \E d \in [Nat -> Int] : d[k] = 0 /\ \A i \in 1 .. k : c[i] = d[i - 1] - a * d[i]
<1> DEFINE h == [p \in Nat \X Int |-> IF p[1] <= k THEN c[k + 1 - p[1]] + a * p[2] ELSE 0]
<1>1. PICK u : Recursion(0, h, Nat, u)
  BY RecursionExists
<1>2. u[0] = 0 /\ \A m \in Nat : u[m + 1] = h[<<m + 1, u[m]>>]
  <2>1. u[0] = 0 /\ \A m \in Nat : m # 0 => u[m] = h[<<m, u[m - 1]>>]
    BY <1>1 DEF Recursion
  <2>2. \A m \in Nat : m + 1 \in Nat /\ m + 1 # 0 /\ (m + 1) - 1 = m
    OBVIOUS
  <2> HIDE DEF h
  <2>3. QED
    BY <2>1, <2>2
<1>3. ASSUME NEW m \in Nat, u[m] \in Int
      PROVE  u[m + 1] \in Int /\ (m < k => u[m + 1] = c[k - m] + a * u[m])
  <2>1. PICK v \in Int : v = u[m]
    BY <1>3
  <2>2. u[m + 1] = IF m + 1 <= k THEN c[k + 1 - (m + 1)] + a * v ELSE 0
    <3>1. PICK q : q = <<m + 1, v>>
      OBVIOUS
    <3>2. q \in Nat \X Int /\ q[1] = m + 1 /\ q[2] = v
      BY <3>1
    <3>3. h[q] = IF q[1] <= k THEN c[k + 1 - q[1]] + a * q[2] ELSE 0
      BY <3>2
    <3> HIDE DEF h
    <3>4. QED
      BY <1>2, <2>1, <3>1, <3>2, <3>3
  <2>3. CASE m + 1 <= k
    <3>1. k + 1 - (m + 1) = k - m /\ k - m \in Nat
      BY <2>3
    <3>2. PICK x \in Int : x = c[k - m]
      BY <3>1
    <3>3. u[m + 1] = x + a * v
      BY <2>2, <2>3, <3>1, <3>2
    <3>4. QED
      BY <2>1, <3>2, <3>3
  <2>4. CASE m + 1 > k
    BY <2>2, <2>4
  <2>5. QED
    BY <2>3, <2>4
<1>4. \A m \in Nat : u[m] \in Int
  <2> DEFINE N == {m \in Nat : u[m] \in Int}
  <2>1. 0 \in N
    BY <1>2
  <2>2. ASSUME NEW n \in Nat, n \in N PROVE n + 1 \in N
    BY <1>3, <2>2
  <2>3. \A n \in Nat : n \in N
    <3> HIDE DEF N
    <3> QED BY <2>1, <2>2, NatSetInduction
  <2>4. QED
    BY <2>3
<1>5. PICK d : d = [i \in Nat |-> IF i <= k THEN u[k - i] ELSE 0]
  OBVIOUS
<1>6. d \in [Nat -> Int]
  <2>1. \A i \in Nat : i <= k => k - i \in Nat
    OBVIOUS
  <2>2. QED
    BY <1>4, <1>5, <2>1
<1>7. d[k] = 0
  BY <1>2, <1>5, k - k = 0
<1>8. ASSUME NEW i \in 1 .. k PROVE c[i] = d[i - 1] - a * d[i]
  <2>1. PICK m \in Nat : m = k - i /\ m + 1 = k - (i - 1) /\ k - m = i /\ m < k
    <3>1. k - i \in Nat /\ (k - i) + 1 = k - (i - 1) /\ k - (k - i) = i /\ k - i < k
      OBVIOUS
    <3>2. QED
      BY <3>1
  <2>2. d[i] = u[m] /\ d[i - 1] = u[m + 1]
    <3>1. i \in Nat /\ i <= k /\ i - 1 \in Nat /\ i - 1 <= k
      OBVIOUS
    <3>2. QED
      BY <1>5, <2>1, <3>1
  <2>3. PICK v \in Int, x \in Int : v = u[m] /\ x = c[i]
    BY <1>4, i \in Nat
  <2>4. u[m + 1] = x + a * v
    BY <1>3, <1>4, <2>1, <2>3
  <2>5. QED
    BY <2>2, <2>3, <2>4
<1>9. QED
  BY <1>6, <1>7, <1>8

LEMMA DividedValue ==
  ASSUME NEW n \in Nat, NEW x \in Int, NEW w, Powers(n, x, w), NEW a \in Int,
         NEW c \in [Nat -> Int], NEW d \in [Nat -> Int], NEW k \in Nat,
         \A i \in 1 .. k : c[i] = d[i - 1] - a * d[i]
  PROVE  Cong(n, Value(w, c, k), d[0] + (x - a) * Value(w, d, k) - w[k + 1] * d[k])
<1>1. w \in [Nat -> Int] /\ w[1] = 1 /\ \A i \in Nat : i > 0 => Cong(n, w[i + 1], x * w[i])
  BY DEF Powers
<1> DEFINE S(j) == Value(w, c, j)
           V(j) == Value(w, d, j)
           N == {j \in Nat : j <= k => Cong(n, S(j), d[0] + (x - a) * V(j) - w[j + 1] * d[j])}
<1>2. /\ S(0) = 0 /\ V(0) = 0
      /\ \A j \in Nat : /\ S(j) \in Int /\ S(j + 1) = S(j) + w[j + 1] * c[j + 1]
                        /\ V(j) \in Int /\ V(j + 1) = V(j) + w[j + 1] * d[j + 1]
  BY <1>1, ValueStep
<1>3. 0 \in N
  <2>1. PICK e \in Int : e = d[0]
    OBVIOUS
  <2>2. e + (x - a) * 0 - 1 * e = 0 /\ 0 + 1 = 1
    OBVIOUS
  <2>3. Cong(n, S(0), e + (x - a) * V(0) - w[0 + 1] * e)
    BY <1>1, <1>2, <2>2, CongRefl
  <2>4. QED
    BY <2>1, <2>3
<1>4. ASSUME NEW j \in Nat, j \in N PROVE j + 1 \in N
  <2>1. SUFFICES ASSUME j + 1 <= k
                 PROVE  Cong(n, S(j + 1), d[0] + (x - a) * V(j + 1) - w[(j + 1) + 1] * d[j + 1])
    OBVIOUS
  <2>2. Cong(n, S(j), d[0] + (x - a) * V(j) - w[j + 1] * d[j])
    BY <1>4, <2>1
  <2>3. c[j + 1] = d[j] - a * d[j + 1]
    <3>1. j + 1 \in 1 .. k /\ (j + 1) - 1 = j
      BY <2>1
    <3>2. QED
      BY <3>1
  <2>4. Cong(n, w[(j + 1) + 1], x * w[j + 1])
    BY <1>1
  <2>5. PICK s \in Int, v \in Int, p \in Int, q \in Int, z \in Int, f \in Int, g \in Int :
          /\ s = S(j) /\ v = V(j) /\ p = w[j + 1] /\ q = w[(j + 1) + 1]
          /\ z = d[0] /\ f = d[j] /\ g = d[j + 1]
    <3>1. S(j) \in Int /\ V(j) \in Int
      BY <1>2
    <3>2. w[j + 1] \in Int /\ w[(j + 1) + 1] \in Int
      BY <1>1
    <3>3. d[0] \in Int /\ d[j] \in Int /\ d[j + 1] \in Int
      OBVIOUS
    <3> HIDE DEF S, V
    <3>4. QED
      BY <3>1, <3>2, <3>3
  <2>6. S(j + 1) = s + p * (f - a * g) /\ V(j + 1) = v + p * g
    BY <1>2, <2>3, <2>5
  <2> HIDE DEF S, V
  <2>7. PICK k1 \in Int : s = (z + (x - a) * v - p * f) + n * k1
    BY <2>2, <2>5 DEF Cong
  <2>8. PICK k2 \in Int : q = x * p + n * k2
    BY <2>4, <2>5 DEF Cong
  <2>9. s + p * (f - a * g) = (z + (x - a) * (v + p * g) - q * g) + n * (k1 + k2 * g)
    <3>1. p * (f - a * g) = p * f - a * (p * g)
      OBVIOUS
    <3>2. (x - a) * (v + p * g) = (x - a) * v + x * (p * g) - a * (p * g)
      OBVIOUS
    <3>3. q * g = x * (p * g) + n * (k2 * g)
      BY <2>8
    <3>4. n * (k1 + k2 * g) = n * k1 + n * (k2 * g)
      OBVIOUS
    <3>5. PICK A \in Int, B \in Int, C \in Int, D \in Int, E \in Int, F \in Int :
            /\ A = p * f /\ B = p * g /\ C = (x - a) * v /\ D = n * k1 /\ E = n * (k2 * g)
            /\ F = x * (p * g)
      OBVIOUS
    <3>6. PICK H \in Int : H = a * (p * g)
      OBVIOUS
    <3>7. QED
      BY <2>7, <3>1, <3>2, <3>3, <3>4, <3>5, <3>6
  <2>10. k1 + k2 * g \in Int
    OBVIOUS
  <2>11. QED
    BY <2>5, <2>6, <2>9, <2>10 DEF Cong
<1>5. \A j \in Nat : j \in N
  <2> HIDE DEF N
  <2> QED BY <1>3, <1>4, NatSetInduction
<1>6. QED
  BY <1>5

\* A polynomial of k coefficients with k roots of such differences is zero.
LEMMA FewRoots ==
  ASSUME NEW n \in Nat, NEW W
  PROVE  \A k \in Nat : \A c \in [Nat -> Int], X \in SUBSET Int :
           (/\ IsFiniteSet(X) /\ Cardinality(X) >= k
            /\ \A x \in X : Powers(n, x, W[x]) /\ Cong(n, Value(W[x], c, k), 0)
            /\ \A x, y \in X : x # y => Cancels(n, x - y))
           => \A i \in 1 .. k : Cong(n, c[i], 0)
<1> DEFINE Rooted(k, c, X) ==
             /\ IsFiniteSet(X) /\ Cardinality(X) >= k
             /\ \A x \in X : Powers(n, x, W[x]) /\ Cong(n, Value(W[x], c, k), 0)
             /\ \A x, y \in X : x # y => Cancels(n, x - y)
           N == {k \in Nat : \A c \in [Nat -> Int], X \in SUBSET Int :
                               Rooted(k, c, X) => \A i \in 1 .. k : Cong(n, c[i], 0)}
<1>1. 0 \in N
  OBVIOUS
<1>2. ASSUME NEW k \in Nat, k \in N PROVE k + 1 \in N
  <2>1. SUFFICES ASSUME NEW c \in [Nat -> Int], NEW X \in SUBSET Int, Rooted(k + 1, c, X)
                 PROVE  \A i \in 1 .. k + 1 : Cong(n, c[i], 0)
    OBVIOUS
  <2>2. /\ IsFiniteSet(X) /\ Cardinality(X) >= k + 1
        /\ \A x \in X : Powers(n, x, W[x]) /\ Cong(n, Value(W[x], c, k + 1), 0)
        /\ \A x, y \in X : x # y => Cancels(n, x - y)
    BY <2>1
  <2>3. PICK a \in X : TRUE
    <3>1. Cardinality(X) # 0
      BY <2>2, FS_CardinalityType
    <3>2. X # {}
      BY <3>1, FS_EmptySet
    <3>3. QED
      BY <3>2
  <2>4. a \in Int
    BY <2>3
  <2>5. PICK m \in Nat : m = k + 1
    OBVIOUS
  <2>6. PICK d \in [Nat -> Int] : d[m] = 0 /\ \A i \in 1 .. m : c[i] = d[i - 1] - a * d[i]
    BY <2>4, Division
  <2>7. ASSUME NEW x \in X
        PROVE  /\ Powers(n, x, W[x]) /\ Value(W[x], d, k) \in Int
               /\ Cong(n, Value(W[x], c, m), d[0] + (x - a) * Value(W[x], d, k))
    <3>1. PICK w : w = W[x]
      OBVIOUS
    <3>2. x \in Int /\ Powers(n, x, w) /\ w \in [Nat -> Int]
      BY <2>2, <3>1 DEF Powers
    <3>3. Cong(n, Value(w, c, m), d[0] + (x - a) * Value(w, d, m) - w[m + 1] * d[m])
      BY <2>4, <2>6, <3>2, DividedValue
    <3>4. Value(w, d, m) = Value(w, d, k) + w[m] * d[m] /\ Value(w, d, k) \in Int
      BY <2>5, <3>2, ValueStep
    <3>5. w[m] \in Int /\ w[m + 1] \in Int /\ d[0] \in Int
      BY <2>5, <3>2
    <3>6. PICK v \in Int, p \in Int, q \in Int, z \in Int :
            v = Value(w, d, k) /\ p = w[m] /\ q = w[m + 1] /\ z = d[0]
      BY <3>4, <3>5
    <3>7. v + p * 0 = v /\ z + (x - a) * v - q * 0 = z + (x - a) * v
      BY <2>4, <3>2
    <3>8. QED
      BY <2>6, <3>1, <3>2, <3>3, <3>4, <3>6, <3>7
  <2>8. d[0] \in Int /\ Cong(n, d[0], 0)
    <3>1. PICK v \in Int, z \in Int : v = Value(W[a], d, k) /\ z = d[0]
      BY <2>7
    <3>2. z + (a - a) * v = z
      BY <2>4
    <3>3. PICK y \in Int : y = Value(W[a], c, m)
      <4>1. W[a] \in [Nat -> Int]
        BY <2>7 DEF Powers
      <4>2. QED
        BY <4>1, ValueStep
    <3>4. Cong(n, y, z) /\ Cong(n, y, 0)
      BY <2>2, <2>5, <2>7, <3>1, <3>2, <3>3
    <3>5. PICK o \in Int : o = 0
      OBVIOUS
    <3>6. Cong(n, z, o)
      BY <3>4, <3>5, CongSym, CongTrans
    <3>7. QED
      BY <3>1, <3>5, <3>6
  <2>9. \A i \in 1 .. k : Cong(n, d[i], 0)
    <3>1. PICK Y : Y = X \ {a}
      OBVIOUS
    <3>2. IsFiniteSet(Y) /\ Cardinality(Y) >= k /\ Y \in SUBSET Int
      <4>1. IsFiniteSet(X \ {a}) /\ Cardinality(X \ {a}) = Cardinality(X) - 1
        BY <2>2, <2>3, FS_RemoveElement
      <4>2. Cardinality(X) \in Nat
        BY <2>2, FS_CardinalityType
      <4>3. QED
        BY <2>2, <3>1, <4>1, <4>2
    <3>3. ASSUME NEW x \in Y PROVE Powers(n, x, W[x]) /\ Cong(n, Value(W[x], d, k), 0)
      <4>1. x \in X /\ x # a /\ x \in Int
        BY <3>1
      <4>2. PICK v \in Int, z \in Int : v = Value(W[x], d, k) /\ z = d[0]
        BY <2>7, <4>1
      <4>3. PICK y \in Int : y = Value(W[x], c, m)
        <5>1. W[x] \in [Nat -> Int]
          BY <2>7, <4>1 DEF Powers
        <5>2. QED
          BY <5>1, ValueStep
      <4>4. Cong(n, y, z + (x - a) * v) /\ Cong(n, y, 0) /\ Cong(n, z, 0)
        BY <2>2, <2>5, <2>7, <2>8, <4>1, <4>2, <4>3
      <4>5. PICK k1 \in Int, k2 \in Int, k3 \in Int :
              y = z + (x - a) * v + n * k1 /\ y = 0 + n * k2 /\ z = 0 + n * k3
        BY <4>4 DEF Cong
      <4>6. (x - a) * v = 0 + n * (k2 - k1 - k3) /\ k2 - k1 - k3 \in Int
        BY <2>4, <4>1, <4>5
      <4>7. Cong(n, (x - a) * v, 0)
        BY <4>6 DEF Cong
      <4>8. Cancels(n, x - a)
        BY <2>2, <4>1
      <4>9. Cong(n, v, 0)
        BY <4>7, <4>8 DEF Cancels
      <4>10. QED
        BY <2>7, <4>1, <4>2, <4>9
    <3>4. Rooted(k, d, Y)
      BY <2>2, <3>1, <3>2, <3>3
    <3>5. QED
      BY <1>2, <3>2, <3>4
  <2>10. ASSUME NEW i \in 1 .. k + 1 PROVE Cong(n, c[i], 0)
    <3>1. c[i] = d[i - 1] - a * d[i] /\ i - 1 \in Nat /\ i \in Nat
      BY <2>5, <2>6
    <3>2. Cong(n, d[i - 1], 0)
      BY <2>8, <2>9, i - 1 = 0 \/ i - 1 \in 1 .. k
    <3>3. Cong(n, d[i], 0)
      <4>1. CASE i \in 1 .. k
        BY <2>9, <4>1
      <4>2. CASE i = m
        <5>1. Cong(n, 0, 0)
          BY CongRefl
        <5>2. QED
          BY <2>6, <4>2, <5>1
      <4>3. QED
        BY <2>5, <4>1, <4>2
    <3>4. PICK u \in Int, v \in Int : u = d[i - 1] /\ v = d[i]
      BY <3>1
    <3>5. PICK k1 \in Int, k2 \in Int : u = 0 + n * k1 /\ v = 0 + n * k2
      BY <3>2, <3>3, <3>4 DEF Cong
    <3>6. u - a * v = 0 + n * (k1 - a * k2) /\ k1 - a * k2 \in Int
      BY <2>4, <3>5
    <3>7. QED
      BY <3>1, <3>4, <3>6 DEF Cong
  <2>11. QED
    BY <2>10
<1>3. \A k \in Nat : k \in N
  <2> HIDE DEF N
  <2> QED BY <1>1, <1>2, NatSetInduction
<1>4. QED
  BY <1>3

\* Numbers below the least divisor of n can be cancelled.
LEMMA SmallCancels ==
  ASSUME NEW n \in Nat, n > 0, NEW p \in Nat, \A e \in 2 .. p - 1 : n % e # 0
  PROVE  \A d \in 1 .. p - 1 : Cancels(n, d)
<1> DEFINE N == {m \in Nat : \A d \in 1 .. m : d < p => Cancels(n, d)}
<1>1. 0 \in N
  OBVIOUS
<1>2. ASSUME NEW m \in Nat, m \in N PROVE m + 1 \in N
  <2>1. SUFFICES ASSUME m + 1 < p PROVE Cancels(n, m + 1)
    <3>1. \A d \in 1 .. m + 1 : d \in 1 .. m \/ d = m + 1
      OBVIOUS
    <3>2. QED
      BY <1>2, <3>1
  <2>2. PICK d \in Nat : d = m + 1 /\ d > 0
    OBVIOUS
  <2>3. SUFFICES ASSUME NEW z \in Int, Cong(n, d * z, 0) PROVE Cong(n, z, 0)
    BY <2>2 DEF Cancels
  <2>4. CASE m = 0
    <3>1. d * z = z
      BY <2>2, <2>4
    <3>2. QED
      BY <2>3, <3>1
  <2>5. CASE m > 0
    <3>1. PICK k \in Int, r \in Int : k = n \div d /\ r = n % d /\ 0 <= r /\ r < d /\ n = d * k + r
      BY <2>2, DivMod
    <3>2. d \in 2 .. p - 1
      BY <2>1, <2>2, <2>5
    <3>3. r # 0
      BY <3>1, <3>2
    <3>4. r \in 1 .. m /\ r < p
      BY <2>1, <2>2, <3>1, <3>3
    <3>5. Cancels(n, r)
      BY <1>2, <3>4
    <3>6. PICK j \in Int : d * z = 0 + n * j
      BY <2>3 DEF Cong
    <3>7. r * z = 0 + n * (z - k * j) /\ z - k * j \in Int
      <4>1. r * z = n * z - k * (d * z)
        BY <2>2, <3>1
      <4>2. k * (d * z) = n * (k * j)
        BY <3>6
      <4>3. QED
        BY <4>1, <4>2
    <3>8. QED
      BY <3>5, <3>7 DEF Cancels, Cong
  <2>6. QED
    BY <2>4, <2>5
<1>3. \A m \in Nat : m \in N
  <2> HIDE DEF N
  <2> QED BY <1>1, <1>2, NatSetInduction
<1>4. SUFFICES ASSUME NEW d \in 1 .. p - 1 PROVE Cancels(n, d)
  OBVIOUS
<1>5. d \in Nat /\ d \in 1 .. d /\ d < p
  OBVIOUS
<1>6. QED
  BY <1>3, <1>5

LEMMA LeastDivisor ==
  ASSUME NEW n \in Nat, n > 1
  PROVE  \E p \in 2 .. n : n % p = 0 /\ \A e \in 2 .. p - 1 : n % e # 0
<1>1. PICK T : T = {p \in 2 .. n : n % p = 0}
  OBVIOUS
<1>2. n % n = 0
  <2>1. PICK o \in Int, z \in Int : o = 1 /\ z = 0
    OBVIOUS
  <2>2. n = n * o + z
    BY <2>1
  <2>3. n % n = z
    BY <2>1, <2>2, DivModUnique
  <2>4. QED
    BY <2>1, <2>3
<1>3. T \in SUBSET Nat /\ n \in T
  BY <1>1, <1>2
<1>4. PICK p \in T : \A m \in T : p <= m
  BY <1>3, LeastOf
<1>5. p \in 2 .. n /\ n % p = 0
  BY <1>1
<1>6. ASSUME NEW e \in 2 .. p - 1 PROVE n % e # 0
  <2>1. e \in 2 .. n /\ ~(p <= e)
    BY <1>5
  <2>2. e \notin T
    BY <1>4, <2>1
  <2>3. QED
    BY <1>1, <2>1, <2>2
<1>7. QED
  BY <1>5, <1>6

LEMMA Opposite ==
  ASSUME NEW n \in Nat, NEW d \in Int, Cancels(n, d)
  PROVE  Cancels(n, -d)
<1>1. SUFFICES ASSUME NEW z \in Int, Cong(n, (-d) * z, 0) PROVE Cong(n, z, 0)
  BY DEF Cancels
<1>2. PICK k \in Int : (-d) * z = 0 + n * k
  BY <1>1 DEF Cong
<1>3. d * z = 0 + n * (-k) /\ -k \in Int
  BY <1>2
<1>4. Cong(n, d * z, 0)
  BY <1>3 DEF Cong
<1>5. QED
  BY <1>4 DEF Cancels

\* A set with at most e elements in each of m blocks of length p.
LEMMA BlockCounts ==
  ASSUME NEW H \in SUBSET Nat, NEW p \in Nat, NEW e \in Nat, NEW m \in Nat,
         \A j \in 0 .. m - 1 : Cardinality(H \cap (j * p .. j * p + p - 1)) <= e
  PROVE  Cardinality(H \cap (0 .. m * p - 1)) <= e * m
<1> DEFINE A(j) == H \cap (0 .. j * p - 1)
           B(j) == H \cap (j * p .. j * p + p - 1)
           N == {j \in Nat : j <= m => Cardinality(A(j)) <= e * j}
<1>1. ASSUME NEW j \in Nat PROVE IsFiniteSet(A(j)) /\ IsFiniteSet(B(j))
  <2>1. PICK z \in Int, a \in Int, b \in Int : z = 0 /\ a = j * p /\ b = j * p + p
    OBVIOUS
  <2>2. a - 1 \in Int /\ b - 1 \in Int
    OBVIOUS
  <2>3. IsFiniteSet(z .. a - 1) /\ IsFiniteSet(a .. b - 1)
    BY <2>2, FS_Interval
  <2>4. PICK I, J : I = z .. a - 1 /\ J = a .. b - 1
    OBVIOUS
  <2>5. IsFiniteSet(I) /\ IsFiniteSet(J)
    BY <2>3, <2>4
  <2>6. IsFiniteSet(H \cap I) /\ IsFiniteSet(H \cap J)
    BY <2>5, FS_Subset
  <2>7. QED
    BY <2>1, <2>4, <2>6
<1>2. 0 \in N
  <2>1. A(0) = {}
    <3>1. \A x \in Nat : ~(x \in 0 .. 0 * p - 1)
      OBVIOUS
    <3>2. QED
      BY <3>1
  <2>2. Cardinality({}) = 0 /\ e * 0 = 0
    BY FS_EmptySet
  <2>3. QED
    BY <2>1, <2>2
<1>3. ASSUME NEW j \in Nat, j \in N PROVE j + 1 \in N
  <2>1. SUFFICES ASSUME j + 1 <= m PROVE Cardinality(A(j + 1)) <= e * (j + 1)
    OBVIOUS
  <2>2. A(j + 1) = A(j) \cup B(j) /\ A(j) \cap B(j) = {}
    <3>1. PICK a \in Nat : a = j * p /\ (j + 1) * p = a + p
      OBVIOUS
    <3>2. 0 .. (j + 1) * p - 1 = (0 .. a - 1) \cup (a .. a + p - 1)
      BY <3>1
    <3>3. (0 .. a - 1) \cap (a .. a + p - 1) = {}
      OBVIOUS
    <3>4. QED
      BY <3>1, <3>2, <3>3
  <2>3. PICK S, T : S = A(j) /\ T = B(j)
    OBVIOUS
  <2>4. IsFiniteSet(S) /\ IsFiniteSet(T) /\ S \cap T = {} /\ A(j + 1) = S \cup T
    BY <1>1, <2>2, <2>3
  <2>5. /\ Cardinality(S \cup T) = Cardinality(S) + Cardinality(T) - Cardinality({})
        /\ Cardinality(S) \in Nat /\ Cardinality(T) \in Nat /\ Cardinality({}) = 0
    BY <2>4, FS_Union, FS_CardinalityType, FS_EmptySet
  <2>6. Cardinality(S) <= e * j /\ Cardinality(T) <= e
    BY <1>3, <2>1, <2>3
  <2>7. e * (j + 1) = e * j + e
    OBVIOUS
  <2>8. QED
    BY <2>4, <2>5, <2>6, <2>7
<1>4. \A j \in Nat : j \in N
  <2> HIDE DEF N
  <2> QED BY <1>2, <1>3, NatSetInduction
<1>5. QED
  BY <1>4
===============================================================================
