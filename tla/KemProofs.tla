------------------------------ MODULE KemProofs ------------------------------
(***************************************************************************)
(* What module Kem says of ciphertexts and secrets, for every modulus,     *)
(* length, width, material, noise and number of key pairs.                 *)
(*                                                                         *)
(* ML-KEM, Frodo and NTRU Prime encrypt again or hash the ciphertext, and  *)
(* their part follows from what their tuples hold.  NTRU encrypts nothing  *)
(* again: it looks at the pair it decrypted.  That no second ciphertext    *)
(* leads to the pair is algebra.  Products of polynomials modulo x^n - 1   *)
(* are cyclic convolutions, which commute and associate as sums do under   *)
(* a turn of the places (ConvAssociates).  The halves of a key are         *)
(* inverse modulo q and 1 + x + .. + x^(n-1) alone; multiplying by both    *)
(* gives a polynomial back but for a constant (HalvesUndo), and the        *)
(* constant is zero where the sum of the coefficients says so, since n has *)
(* an inverse modulo q (AlikeSame).  The lift of a message has sum zero in *)
(* both families, by balance or by a factor x - 1 (BalancedTotal,          *)
(* DifferenceTotal), so the part of the ciphertext that travels is that of *)
(* the encryption (NtruSent).                                              *)
(*                                                                         *)
(* Decryption gives back what was encrypted where noise fits: for ML-KEM   *)
(* by how far compression moves a residue, for Frodo by the order in which *)
(* a triple sum is taken, for NTRU by the same convolutions, whose         *)
(* coefficients do not wrap.  In NTRU Prime's ring, modulo x^p - x - 1 the *)
(* weight of a product is a form whose matrix depends on the sum of its    *)
(* indices alone, so that products commute and associate (TriAssociates);  *)
(* with 16 w < q nothing wraps (PrimeFits).  The refinement of IdealKem    *)
(* follows from decryption and binding.                                    *)
(***************************************************************************)
EXTENDS MCKem, NumberLemmas

-----------------------------------------------------------------------------
(***************************************************************************)
(* Cyclic convolution over the integers, and what is left of it modulo q   *)
(* and 1 + x + .. + x^(n-1).                                               *)
(***************************************************************************)
Places(n) == 0 .. n - 1
Integral(n, a) == \A i \in Places(n) : a[i] \in Int
Total(n, a) == SumFunctionOnSet(a, Places(n))
Term(n, a, b, k) == [i \in Places(n) |-> a[(k - i) % n] * b[i]]
Conv(n, a, b) == [k \in Places(n) |-> SumFunctionOnSet(Term(n, a, b, k), Places(n))]
Unit(n) == [k \in Places(n) |-> IF k = 0 THEN 1 ELSE 0]

LEMMA PlacesFinite == ASSUME NEW n \in Nat PROVE IsFiniteSet(Places(n))
<1>1. 0 \in Int /\ n - 1 \in Int
  OBVIOUS
<1>2. QED
  BY <1>1, FS_Interval DEF Places

LEMMA SumOfZeros ==
  ASSUME NEW f, NEW S, IsFiniteSet(S), \A x \in S : f[x] = 0
  PROVE  SumFunctionOnSet(f, S) = 0
<1>1. PICK n \in Nat, z \in Int : n = 0 /\ z = 0
  OBVIOUS
<1>2. \A x \in S : f[x] \in Int /\ Cong(n, f[x], z * f[x])
  <2>1. SUFFICES ASSUME NEW x \in S PROVE f[x] \in Int /\ f[x] = z * f[x]
    BY CongRefl, <1>1
  <2>2. QED
    BY <1>1
<1>3. SumFunctionOnSet(f, S) \in Int /\ Cong(n, SumFunctionOnSet(f, S), z * SumFunctionOnSet(f, S))
  BY <1>2, SumType, SumScaled
<1>4. QED
  BY <1>1, <1>3 DEF Cong

\* Places are counted modulo n.
LEMMA Around ==
  ASSUME NEW n \in Nat, n > 0, NEW k \in Places(n), NEW i \in Places(n)
  PROVE  /\ (k - i) % n \in Places(n)
         /\ (k - ((k - i) % n)) % n = i
         /\ (k - i) % n = IF i <= k THEN k - i ELSE k - i + n
<1>0. n \in Nat /\ n > 0 /\ k \in Int /\ i \in Int /\ 0 <= k /\ k < n /\ 0 <= i /\ i < n
  BY DEF Places
<1>1. CASE i <= k
  <2>1. k - i = n * 0 + (k - i) /\ i = n * 0 + i
    BY <1>0
  <2>2. (k - i) % n = k - i
    BY <1>0, <1>1, <2>1, DivModUnique
  <2>3. i % n = i
    BY <1>0, <2>1, DivModUnique
  <2>4. k - (k - i) = i
    BY <1>0
  <2>5. QED
    BY <1>0, <1>1, <2>2, <2>3, <2>4 DEF Places
<1>2. CASE i > k
  <2>1. k - i = n * (-1) + (k - i + n) /\ i - n = n * (-1) + i /\ k - (k - i + n) = i - n
    BY <1>0
  <2>2. (k - i) % n = k - i + n
    BY <1>0, <1>2, <2>1, DivModUnique
  <2>3. (i - n) % n = i
    BY <1>0, <2>1, DivModUnique
  <2>4. QED
    BY <1>0, <1>2, <2>1, <2>2, <2>3 DEF Places
<1>3. QED
  BY <1>0, <1>1, <1>2

\* Going back i and then j places is going back (i + j).
LEMMA AroundTwice ==
  ASSUME NEW n \in Nat, n > 0, NEW k \in Int, NEW i \in Int, NEW j \in Int
  PROVE  /\ (((k - i) % n) - j) % n = (k - i - j) % n
         /\ (k - (i % n)) % n = (k - i) % n
<1>1. PICK u \in Int : u = k - i
  OBVIOUS
<1>2. u % n \in Int /\ Cong(n, u % n, u) /\ i % n \in Int /\ Cong(n, i % n, i)
  BY CongMod
<1>3. PICK x \in Int, y \in Int : x = u % n /\ y = i % n
  BY <1>2
<1>4. Cong(n, j, j) /\ Cong(n, k, k) /\ Cong(n, x, u) /\ Cong(n, y, i)
  BY <1>2, <1>3, CongRefl
<1>5. Cong(n, x - j, u - j) /\ Cong(n, k - y, k - i)
  BY <1>4, CongAdd
<1>6. PICK p \in Int, q \in Int, r \in Int, s \in Int : p = x - j /\ q = u - j /\ r = k - y /\ s = k - i
  OBVIOUS
<1>7. p % n = q % n /\ r % n = s % n
  BY <1>5, <1>6, CongSame
<1>8. QED
  BY <1>1, <1>3, <1>6, <1>7

LEMMA TermType ==
  ASSUME NEW n \in Nat, n > 0, NEW a, NEW b, Integral(n, a), Integral(n, b), NEW k \in Places(n)
  PROVE  \A i \in Places(n) : Term(n, a, b, k)[i] \in Int
<1>1. SUFFICES ASSUME NEW i \in Places(n) PROVE Term(n, a, b, k)[i] \in Int
  OBVIOUS
<1>2. (k - i) % n \in Places(n)
  BY Around
<1>3. QED
  BY <1>2 DEF Integral, Term

LEMMA ConvType ==
  ASSUME NEW n \in Nat, n > 0, NEW a, NEW b, Integral(n, a), Integral(n, b)
  PROVE  Integral(n, Conv(n, a, b))
<1>1. SUFFICES ASSUME NEW k \in Places(n) PROVE Conv(n, a, b)[k] \in Int
  BY DEF Integral
<1>2. IsFiniteSet(Places(n)) /\ \A i \in Places(n) : Term(n, a, b, k)[i] \in Int
  BY PlacesFinite, TermType
<1>3. SumFunctionOnSet(Term(n, a, b, k), Places(n)) \in Int
  BY <1>2, SumType
<1>4. QED
  BY <1>3 DEF Conv

\* i and k - i change places.
LEMMA ConvCommutes ==
  ASSUME NEW n \in Nat, n > 0, NEW a, NEW b, Integral(n, a), Integral(n, b)
  PROVE  Conv(n, a, b) = Conv(n, b, a)
<1>1. SUFFICES ASSUME NEW k \in Places(n)
               PROVE  SumFunctionOnSet(Term(n, a, b, k), Places(n)) = SumFunctionOnSet(Term(n, b, a, k), Places(n))
  BY DEF Conv
<1> DEFINE m == [i \in Places(n) |-> (k - i) % n]
           f == Term(n, b, a, k)
           h == Term(n, a, b, k)
<1>2. IsFiniteSet(Places(n)) /\ \A i \in Places(n) : f[i] \in Int
  BY PlacesFinite, TermType
<1>3. \A i \in Places(n) : m[i] \in Places(n) /\ (k - m[i]) % n = i
  BY Around
<1>4. \A i \in Places(n) : h[m[i]] = f[i]
  <2>1. SUFFICES ASSUME NEW i \in Places(n) PROVE h[m[i]] = f[i]
    OBVIOUS
  <2>2. h[m[i]] = a[(k - m[i]) % n] * b[m[i]]
    BY <1>3 DEF Term
  <2>3. h[m[i]] = a[i] * b[(k - i) % n] /\ a[i] \in Int /\ b[(k - i) % n] \in Int
    BY <1>3, <2>2 DEF Integral
  <2>4. QED
    BY <2>3 DEF Term
<1>5. m \in [Places(n) -> Places(n)]
  BY <1>3
<1>6. \A x, y \in Places(n) : m[x] = m[y] => x = y
  BY <1>3, Zenon
<1>7. \A y \in Places(n) : \E x \in Places(n) : m[x] = y
  BY <1>3
<1> HIDE DEF m, f, h
<1>8. SumFunctionOnSet(h, Places(n)) = SumFunctionOnSet(f, Places(n))
  BY <1>2, <1>4, <1>5, <1>6, <1>7, SumReindex
<1>9. QED
  BY <1>8 DEF f, h

LEMMA ConvUnit ==
  ASSUME NEW n \in Nat, n > 0, NEW a, Integral(n, a)
  PROVE  \A k \in Places(n) : Conv(n, a, Unit(n))[k] = a[k]
<1>1. SUFFICES ASSUME NEW k \in Places(n) PROVE SumFunctionOnSet(Term(n, a, Unit(n), k), Places(n)) = a[k]
  BY DEF Conv
<1> DEFINE f == Term(n, a, Unit(n), k)
<1>2. Integral(n, Unit(n)) /\ 0 \in Places(n)
  BY DEF Integral, Unit, Places
<1>3. IsFiniteSet(Places(n)) /\ \A i \in Places(n) : f[i] \in Int
  BY <1>2, PlacesFinite, TermType
<1>4. SumFunctionOnSet(f, Places(n)) = f[0] + SumFunctionOnSet(f, Places(n) \ {0})
  <2> HIDE DEF f
  <2>1. QED
    BY <1>2, <1>3, SumRemove
<1>5. f[0] = a[k] /\ a[k] \in Int
  <2>1. (k - 0) % n = k
    BY <1>2, Around DEF Places
  <2>2. QED
    BY <1>2, <2>1 DEF Term, Unit, Integral
<1>6. \A i \in Places(n) \ {0} : f[i] = 0
  <2>1. SUFFICES ASSUME NEW i \in Places(n), i # 0 PROVE f[i] = 0
    OBVIOUS
  <2>2. a[(k - i) % n] \in Int /\ Unit(n)[i] = 0
    BY <2>1, Around DEF Integral, Unit
  <2>3. QED
    BY <2>2 DEF Term
<1>7. SumFunctionOnSet(f, Places(n) \ {0}) = 0
  <2> HIDE DEF f
  <2>1. IsFiniteSet(Places(n) \ {0})
    BY <1>3, FS_Subset
  <2>2. QED
    BY <1>6, <2>1, SumOfZeros
<1>8. QED
  BY <1>4, <1>5, <1>7

LEMMA SumTimes ==
  ASSUME NEW f, NEW h, NEW S, IsFiniteSet(S), NEW z \in Int,
         \A x \in S : f[x] \in Int /\ h[x] = z * f[x]
  PROVE  SumFunctionOnSet(h, S) = z * SumFunctionOnSet(f, S)
<1>1. PICK n \in Nat : n = 0
  OBVIOUS
<1>2. \A x \in S : f[x] \in Int /\ h[x] \in Int /\ Cong(n, h[x], z * f[x])
  <2>1. SUFFICES ASSUME NEW x \in S PROVE h[x] \in Int /\ Cong(n, h[x], z * f[x])
    OBVIOUS
  <2>2. f[x] \in Int /\ z * f[x] \in Int
    OBVIOUS
  <2>3. Cong(n, z * f[x], z * f[x])
    BY <2>2, CongRefl
  <2>4. QED
    BY <2>2, <2>3
<1>3. /\ SumFunctionOnSet(f, S) \in Int /\ SumFunctionOnSet(h, S) \in Int
      /\ Cong(n, SumFunctionOnSet(h, S), z * SumFunctionOnSet(f, S))
  BY <1>2, SumType, SumScaled
<1>4. QED
  BY <1>1, <1>3 DEF Cong

\* Turning by i places reaches every place once.
LEMMA Turn ==
  ASSUME NEW n \in Nat, n > 0, NEW i \in Places(n)
  PROVE  LET m == [l \in Places(n) |-> (l - i) % n]
         IN  /\ m \in [Places(n) -> Places(n)]
             /\ \A x, y \in Places(n) : m[x] = m[y] => x = y
             /\ \A y \in Places(n) : \E x \in Places(n) : m[x] = y
<1> DEFINE m == [l \in Places(n) |-> (l - i) % n]
<1>0. \A l \in Places(n) : l \in Int /\ 0 <= l /\ l < n
  BY DEF Places
<1>1. \A l \in Places(n) : m[l] \in Places(n) /\ m[l] = IF i <= l THEN l - i ELSE l - i + n
  BY Around
<1>2. \A x, y \in Places(n) : m[x] = m[y] => x = y
  <2> HIDE DEF m
  <2>1. SUFFICES ASSUME NEW x \in Places(n), NEW y \in Places(n), m[x] = m[y] PROVE x = y
    OBVIOUS
  <2>2. QED
    BY <1>0, <1>1, <2>1
<1>3. ASSUME NEW y \in Places(n) PROVE \E x \in Places(n) : m[x] = y
  <2> HIDE DEF m
  <2>1. CASE y + i < n
    <3>1. y + i \in Places(n) /\ i <= y + i
      BY <1>0, <2>1 DEF Places
    <3>2. m[y + i] = y + i - i /\ y + i - i = y
      BY <1>0, <1>1, <3>1
    <3>3. QED
      BY <3>1, <3>2
  <2>2. CASE y + i >= n
    <3>1. y + i - n \in Places(n) /\ ~ i <= y + i - n
      BY <1>0, <2>2 DEF Places
    <3>2. m[y + i - n] = y + i - n - i + n /\ y + i - n - i + n = y
      BY <1>0, <1>1, <3>1
    <3>3. QED
      BY <3>1, <3>2
  <2>3. QED
    BY <1>0, <2>1, <2>2
<1>4. m \in [Places(n) -> Places(n)]
  BY <1>1
<1>5. QED
  BY <1>2, <1>3, <1>4

LEMMA ConvAssociates ==
  ASSUME NEW n \in Nat, n > 0, NEW a, NEW b, NEW c, Integral(n, a), Integral(n, b), Integral(n, c)
  PROVE  Conv(n, Conv(n, a, b), c) = Conv(n, a, Conv(n, b, c))
<1>0. IsFiniteSet(Places(n)) /\ Integral(n, Conv(n, a, b)) /\ Integral(n, Conv(n, b, c))
  BY PlacesFinite, ConvType
<1>1. SUFFICES ASSUME NEW k \in Places(n)
               PROVE  Conv(n, Conv(n, a, b), c)[k] = Conv(n, a, Conv(n, b, c))[k]
  BY DEF Conv
<1> DEFINE all(i) == [j \in Places(n) |-> a[(k - i - j) % n] * b[j] * c[i]]
           left == [i \in Places(n) |-> SumFunctionOnSet(all(i), Places(n))]
           f == [l \in Places(n) |-> [i \in Places(n) |-> a[(k - l) % n] * (b[(l - i) % n] * c[i])]]
           col(i) == [l \in Places(n) |-> f[l][i]]
<1>2. ASSUME NEW i \in Places(n), NEW j \in Places(n)
      PROVE  /\ k \in Int /\ i \in Int /\ j \in Int
             /\ (k - i) % n \in Places(n) /\ (k - i - j) % n \in Places(n)
             /\ (((k - i) % n) - j) % n = (k - i - j) % n
  <2>1. k \in Int /\ i \in Int /\ j \in Int
    BY DEF Places
  <2>2. (k - i) % n \in Places(n)
    BY Around
  <2>3. (((k - i) % n) - j) % n \in Places(n)
    BY <2>2, Around
  <2>4. (((k - i) % n) - j) % n = (k - i - j) % n
    BY <2>1, AroundTwice
  <2>5. QED
    BY <2>1, <2>2, <2>3, <2>4
<1>3. ASSUME NEW i \in Places(n)
      PROVE  /\ Term(n, Conv(n, a, b), c, k)[i] = left[i]
             /\ \A j \in Places(n) : all(i)[j] \in Int
  <2>1. PICK p \in Places(n) : p = (k - i) % n
    BY <1>2
  <2>2. \A j \in Places(n) : Term(n, a, b, p)[j] \in Int
    BY TermType
  <2>3. c[i] \in Int
    BY DEF Integral
  <2>4. \A j \in Places(n) : /\ all(i)[j] = c[i] * Term(n, a, b, p)[j]
                             /\ all(i)[j] \in Int
    <3>1. SUFFICES ASSUME NEW j \in Places(n)
                   PROVE  all(i)[j] = c[i] * Term(n, a, b, p)[j] /\ all(i)[j] \in Int
      OBVIOUS
    <3>2. a[(k - i - j) % n] \in Int /\ b[j] \in Int
      BY <1>2 DEF Integral
    <3>3. Term(n, a, b, p)[j] = a[(k - i - j) % n] * b[j]
      BY <1>2, <2>1 DEF Term
    <3>4. QED
      BY <2>3, <3>2, <3>3
  <2>5. SumFunctionOnSet(all(i), Places(n)) = c[i] * SumFunctionOnSet(Term(n, a, b, p), Places(n))
    <3> HIDE DEF all
    <3>1. QED
      BY <1>0, <2>2, <2>3, <2>4, SumTimes
  <2>6. Term(n, Conv(n, a, b), c, k)[i] = SumFunctionOnSet(Term(n, a, b, p), Places(n)) * c[i]
    BY <2>1 DEF Term, Conv
  <2>7. SumFunctionOnSet(Term(n, a, b, p), Places(n)) \in Int
    BY <1>0, <2>2, SumType
  <2>8. QED
    BY <2>3, <2>4, <2>5, <2>6, <2>7
<1>4. Conv(n, Conv(n, a, b), c)[k] = SumFunctionOnSet(left, Places(n))
  <2>1. \A i \in Places(n) : Term(n, Conv(n, a, b), c, k)[i] \in Int
    BY <1>0, TermType
  <2>2. \A i \in Places(n) : left[i] = Term(n, Conv(n, a, b), c, k)[i]
    BY <1>3
  <2>3. PICK t, u : t = Term(n, Conv(n, a, b), c, k) /\ u = left
    OBVIOUS
  <2>a. \A i \in Places(n) : t[i] \in Int /\ u[i] = t[i]
    BY <2>1, <2>2, <2>3
  <2>4. SumFunctionOnSet(u, Places(n)) = SumFunctionOnSet(t, Places(n))
    BY <1>0, <2>a, SumSame
  <2>5. Conv(n, Conv(n, a, b), c)[k] = SumFunctionOnSet(t, Places(n))
    BY <2>3 DEF Conv
  <2>6. QED
    BY <2>3, <2>4, <2>5
<1>5. ASSUME NEW i \in Places(n), NEW l \in Places(n)
      PROVE  /\ f[l][i] \in Int
             /\ f[l][i] = a[(k - l) % n] * Term(n, b, c, l)[i]
             /\ all(i)[(l - i) % n] = f[l][i]
  <2>1. /\ (k - l) % n \in Places(n) /\ (l - i) % n \in Places(n)
        /\ a[(k - l) % n] \in Int /\ b[(l - i) % n] \in Int /\ c[i] \in Int
    BY Around DEF Integral
  <2>2. f[l][i] = a[(k - l) % n] * (b[(l - i) % n] * c[i])
    OBVIOUS
  <2>3. (k - i - ((l - i) % n)) % n = (k - l) % n
    <3>1. k \in Int /\ i \in Int /\ l \in Int
      BY DEF Places
    <3>2. PICK u \in Int, v \in Int : u = k - i /\ v = l - i
      BY <3>1
    <3>3. (u - (v % n)) % n = (u - v) % n
      BY <3>2, AroundTwice
    <3>4. u - v = k - l
      BY <3>1, <3>2
    <3>5. QED
      BY <3>2, <3>3, <3>4
  <2>4. all(i)[(l - i) % n] = a[(k - l) % n] * b[(l - i) % n] * c[i]
    BY <2>1, <2>3
  <2>5. QED
    BY <2>1, <2>2, <2>4 DEF Term
<1>6. ASSUME NEW i \in Places(n)
      PROVE  SumFunctionOnSet(all(i), Places(n)) = SumFunctionOnSet(col(i), Places(n))
  <2> DEFINE m == [l \in Places(n) |-> (l - i) % n]
             g == col(i)
             h == all(i)
  <2>1. /\ m \in [Places(n) -> Places(n)]
        /\ \A x, y \in Places(n) : m[x] = m[y] => x = y
        /\ \A y \in Places(n) : \E x \in Places(n) : m[x] = y
    BY Turn
  <2>2. \A l \in Places(n) : g[l] \in Int /\ h[m[l]] = g[l]
    <3>1. SUFFICES ASSUME NEW l \in Places(n) PROVE g[l] \in Int /\ h[m[l]] = g[l]
      OBVIOUS
    <3>2. g[l] = f[l][i] /\ m[l] = (l - i) % n
      OBVIOUS
    <3>3. f[l][i] \in Int /\ all(i)[(l - i) % n] = f[l][i]
      BY <1>5
    <3> HIDE DEF f, all
    <3>4. QED
      BY <3>2, <3>3
  <2> HIDE DEF m, g, h
  <2>3. SumFunctionOnSet(h, Places(n)) = SumFunctionOnSet(g, Places(n))
    BY <1>0, <2>1, <2>2, SumReindex
  <2>4. QED
    BY <2>3 DEF g, h
<1>7. SumFunctionOnSet([l \in Places(n) |-> SumFunctionOnSet(f[l], Places(n))], Places(n))
        = SumFunctionOnSet([i \in Places(n) |-> SumFunctionOnSet(col(i), Places(n))], Places(n))
  <2>1. \A l, i \in Places(n) : f[l][i] \in Int
    BY <1>5
  <2> HIDE DEF f
  <2>2. QED
    BY <1>0, <2>1, SumExchange
<1>8. [i \in Places(n) |-> SumFunctionOnSet(col(i), Places(n))] = left
  BY <1>6
<1>9. Conv(n, a, Conv(n, b, c))[k] = SumFunctionOnSet([l \in Places(n) |-> SumFunctionOnSet(f[l], Places(n))], Places(n))
  <2> DEFINE t == Term(n, a, Conv(n, b, c), k)
             u == [l \in Places(n) |-> SumFunctionOnSet(f[l], Places(n))]
  <2>1. \A l \in Places(n) : t[l] \in Int
    BY <1>0, TermType
  <2>2. \A l \in Places(n) : u[l] = t[l]
    <3>1. SUFFICES ASSUME NEW l \in Places(n) PROVE u[l] = t[l]
      OBVIOUS
    <3>2. a[(k - l) % n] \in Int /\ \A i \in Places(n) : Term(n, b, c, l)[i] \in Int
      BY Around, TermType DEF Integral
    <3>3. \A i \in Places(n) : f[l][i] = a[(k - l) % n] * Term(n, b, c, l)[i]
      BY <1>5
    <3>4. PICK z, p, e : z \in Int /\ z = a[(k - l) % n] /\ p = f[l] /\ e = Term(n, b, c, l)
      BY <3>2
    <3>5. z \in Int /\ \A i \in Places(n) : e[i] \in Int /\ p[i] = z * e[i]
      BY <3>2, <3>3, <3>4
    <3>6. SumFunctionOnSet(p, Places(n)) = z * SumFunctionOnSet(e, Places(n))
      BY <1>0, <3>5, SumTimes
    <3>7. t[l] = z * SumFunctionOnSet(e, Places(n))
      BY <3>4 DEF Term, Conv
    <3>8. QED
      BY <3>4, <3>6, <3>7
  <2> HIDE DEF t, u
  <2>3. SumFunctionOnSet(u, Places(n)) = SumFunctionOnSet(t, Places(n))
    BY <1>0, <2>1, <2>2, SumSame
  <2>4. Conv(n, a, Conv(n, b, c))[k] = SumFunctionOnSet(t, Places(n))
    BY DEF Conv, t
  <2>5. QED
    BY <2>3, <2>4 DEF u
<1>10. QED
  BY <1>4, <1>7, <1>8, <1>9

-----------------------------------------------------------------------------
\* Equal modulo q and 1 + x + .. + x^(n-1).
Alike(n, q, a, b) == \E c \in Int : \A k \in Places(n) : Cong(q, a[k], b[k] + c)

LEMMA AlikeRefl ==
  ASSUME NEW n \in Nat, NEW q \in Nat, NEW a, NEW b, Integral(n, a), Integral(n, b),
         \A k \in Places(n) : Cong(q, a[k], b[k])
  PROVE  Alike(n, q, a, b)
<1>1. PICK c \in Int : c = 0
  OBVIOUS
<1>2. ASSUME NEW k \in Places(n) PROVE b[k] + c = b[k]
  BY <1>1 DEF Integral
<1>3. \A k \in Places(n) : Cong(q, a[k], b[k] + c)
  BY <1>2
<1>4. QED
  BY <1>3 DEF Alike

LEMMA AlikeSym ==
  ASSUME NEW n \in Nat, NEW q \in Nat, NEW a, NEW b, Integral(n, a), Integral(n, b), Alike(n, q, a, b)
  PROVE  Alike(n, q, b, a)
<1>1. PICK c \in Int : \A k \in Places(n) : Cong(q, a[k], b[k] + c)
  BY DEF Alike
<1>2. PICK d \in Int : d = 0 - c
  OBVIOUS
<1>3. ASSUME NEW k \in Places(n) PROVE Cong(q, b[k], a[k] + d)
  <2>1. PICK x \in Int, y \in Int, z \in Int : x = a[k] /\ y = b[k] /\ z = y + c
    BY DEF Integral
  <2>2. Cong(q, z, x) /\ Cong(q, d, d)
    BY <1>1, <2>1, CongSym, CongRefl
  <2>3. Cong(q, z + d, x + d)
    BY <2>2, CongAdd
  <2>4. z + d = y
    BY <1>2, <2>1
  <2>5. QED
    BY <2>1, <2>3, <2>4
<1>4. QED
  BY <1>3 DEF Alike

LEMMA AlikeTrans ==
  ASSUME NEW n \in Nat, NEW q \in Nat, NEW a, NEW b, NEW d, Integral(n, a), Integral(n, b), Integral(n, d),
         Alike(n, q, a, b), Alike(n, q, b, d)
  PROVE  Alike(n, q, a, d)
<1>1. PICK c \in Int : \A k \in Places(n) : Cong(q, a[k], b[k] + c)
  BY DEF Alike
<1>2. PICK e \in Int : \A k \in Places(n) : Cong(q, b[k], d[k] + e)
  BY DEF Alike
<1>3. PICK g \in Int : g = c + e
  OBVIOUS
<1>4. ASSUME NEW k \in Places(n) PROVE Cong(q, a[k], d[k] + g)
  <2>1. PICK x \in Int, y \in Int, z \in Int, w \in Int : x = a[k] /\ y = b[k] /\ z = d[k] /\ w = z + e
    BY DEF Integral
  <2>2. Cong(q, x, y + c) /\ Cong(q, y, w) /\ Cong(q, c, c)
    BY <1>1, <1>2, <2>1, CongRefl
  <2>3. Cong(q, y + c, w + c)
    BY <2>2, CongAdd
  <2>4. PICK u \in Int, v \in Int : u = y + c /\ v = w + c
    OBVIOUS
  <2>5. Cong(q, x, v)
    BY <2>2, <2>3, <2>4, CongTrans
  <2>6. v = z + g
    BY <1>3, <2>1, <2>4
  <2>7. QED
    BY <2>1, <2>5, <2>6
<1>5. QED
  BY <1>4 DEF Alike

\* Alike factors have alike products: c goes to c times the sum of the other.
LEMMA ConvAlike ==
  ASSUME NEW n \in Nat, n > 0, NEW q \in Nat, NEW a, NEW b, NEW d,
         Integral(n, a), Integral(n, b), Integral(n, d), Alike(n, q, a, b)
  PROVE  Alike(n, q, Conv(n, a, d), Conv(n, b, d))
<1>0. IsFiniteSet(Places(n)) /\ Integral(n, Conv(n, a, d)) /\ Integral(n, Conv(n, b, d))
  BY PlacesFinite, ConvType
<1>1. PICK c \in Int : \A k \in Places(n) : Cong(q, a[k], b[k] + c)
  BY DEF Alike
<1>2. PICK o \in Int : o = 1
  OBVIOUS
<1>3. SumFunctionOnSet(d, Places(n)) \in Int
  BY <1>0, SumType DEF Integral
<1>4. PICK e \in Int : e = c * SumFunctionOnSet(d, Places(n))
  BY <1>3
<1>5. ASSUME NEW k \in Places(n) PROVE Cong(q, Conv(n, a, d)[k], Conv(n, b, d)[k] + e)
  <2>1. PICK f, h : f = Term(n, b, d, k) /\ h = Term(n, a, d, k)
    OBVIOUS
  <2>2. \A i \in Places(n) : f[i] \in Int /\ h[i] \in Int
    BY <2>1, TermType
  <2>3. ASSUME NEW i \in Places(n) PROVE d[i] \in Int /\ Cong(q, h[i], o * f[i] + c * d[i])
    <3>1. PICK j \in Places(n) : j = (k - i) % n
      BY Around
    <3>2. PICK x \in Int, y \in Int, z \in Int, w \in Int : x = a[j] /\ y = b[j] /\ z = d[i] /\ w = y + c
      BY DEF Integral
    <3>3. Cong(q, x, w)
      BY <1>1, <3>2
    <3>4. Cong(q, z * x, z * w)
      BY <3>3, CongScale
    <3>5. h[i] = z * x
      BY <2>1, <3>1, <3>2 DEF Term
    <3>6. f[i] = y * z
      BY <2>1, <3>1, <3>2 DEF Term
    <3>7. z * w = o * f[i] + c * z
      BY <1>2, <3>2, <3>6
    <3>8. QED
      BY <3>2, <3>4, <3>5, <3>7
  <2>4. \A i \in Places(n) : f[i] \in Int /\ d[i] \in Int /\ h[i] \in Int /\ Cong(q, h[i], o * f[i] + c * d[i])
    BY <2>2, <2>3
  <2>5. Cong(q, SumFunctionOnSet(h, Places(n)), o * SumFunctionOnSet(f, Places(n)) + c * SumFunctionOnSet(d, Places(n)))
    BY <1>0, <2>4, SumLinear
  <2>6. SumFunctionOnSet(f, Places(n)) \in Int
    BY <1>0, <2>2, SumType
  <2>7. o * SumFunctionOnSet(f, Places(n)) = SumFunctionOnSet(f, Places(n))
    BY <1>2, <2>6
  <2>8. QED
    BY <1>4, <2>1, <2>5, <2>7 DEF Conv
<1>6. QED
  BY <1>5 DEF Alike

LEMMA SumOfOnes ==
  ASSUME NEW f, NEW S, IsFiniteSet(S), \A x \in S : f[x] = 1
  PROVE  SumFunctionOnSet(f, S) = Cardinality(S)
<1> DEFINE W == {s \in SUBSET S : SumFunctionOnSet(f, s) = Cardinality(s)}
<1>1. {} \in W
  BY SumEmpty, FS_EmptySet
<1>2. ASSUME NEW s \in SUBSET S, s # {}, \A x \in s : s \ {x} \in W PROVE s \in W
  <2>1. PICK x \in s : TRUE
    BY <1>2
  <2>2. IsFiniteSet(s) /\ \A y \in s : f[y] \in Int
    BY FS_Subset
  <2>3. SumFunctionOnSet(f, s) = f[x] + SumFunctionOnSet(f, s \ {x})
    BY <2>1, <2>2, SumRemove
  <2>4. Cardinality(s \ {x}) = Cardinality(s) - 1 /\ Cardinality(s) \in Nat
    BY <2>1, <2>2, FS_RemoveElement, FS_CardinalityType
  <2>5. SumFunctionOnSet(f, s \ {x}) = Cardinality(s \ {x}) /\ f[x] = 1
    BY <1>2, <2>1
  <2>6. SumFunctionOnSet(f, s) = Cardinality(s)
    BY <2>3, <2>4, <2>5
  <2>7. QED
    BY <2>6
<1> HIDE DEF W
<1>3. \A s \in SUBSET S : s # {} /\ (\A x \in s : s \ {x} \in W) => s \in W
  BY <1>2
<1>4. S \in W
  BY <1>1, <1>3, SetInduction
<1>5. QED
  BY <1>4 DEF W

LEMMA PlacesCount == ASSUME NEW n \in Nat PROVE Cardinality(Places(n)) = n
<1>1. PICK a \in Int, b \in Int : a = 0 /\ b = n - 1
  OBVIOUS
<1>2. Cardinality(a .. b) = IF a > b THEN 0 ELSE b - a + 1
  BY FS_Interval
<1>3. QED
  BY <1>1, <1>2 DEF Places

LEMMA ConvTotal ==
  ASSUME NEW n \in Nat, n > 0, NEW a, NEW b, Integral(n, a), Integral(n, b)
  PROVE  Total(n, Conv(n, a, b)) = Total(n, b) * Total(n, a)
<1> DEFINE ones == [k \in Places(n) |-> 1]
<1>0. IsFiniteSet(Places(n)) /\ Integral(n, ones) /\ 0 \in Places(n) /\ Integral(n, Conv(n, a, b))
  BY PlacesFinite, ConvType DEF Integral, Places
<1>1. ASSUME NEW d, Integral(n, d), NEW k \in Places(n) PROVE Conv(n, ones, d)[k] = Total(n, d)
  <2>1. PICK t : t = Term(n, ones, d, k)
    OBVIOUS
  <2>2. ASSUME NEW i \in Places(n) PROVE d[i] \in Int /\ t[i] = d[i]
    <3>1. (k - i) % n \in Places(n) /\ d[i] \in Int
      BY <1>1, Around DEF Integral
    <3>2. QED
      BY <2>1, <3>1 DEF Term
  <2>3. SumFunctionOnSet(t, Places(n)) = SumFunctionOnSet(d, Places(n))
    BY <1>0, <2>2, SumSame
  <2>4. QED
    BY <2>1, <2>3 DEF Conv, Total
<1>2. Conv(n, ones, Conv(n, a, b))[0] = Conv(n, Conv(n, ones, a), b)[0]
  <2> HIDE DEF ones
  <2>1. QED
    BY <1>0, ConvAssociates
<1>3. Conv(n, ones, Conv(n, a, b))[0] = Total(n, Conv(n, a, b))
  <2> HIDE DEF ones
  <2>1. PICK d, z : d = Conv(n, a, b) /\ z = 0
    OBVIOUS
  <2>2. Integral(n, d) /\ z \in Places(n)
    BY <1>0, <2>1
  <2>3. Conv(n, ones, d)[z] = Total(n, d)
    BY <1>1, <2>2
  <2>4. QED
    BY <2>1, <2>3
<1>4. PICK s \in Int : s = Total(n, a)
  BY <1>0, SumType DEF Total, Integral
<1>5. PICK t : t = Term(n, Conv(n, ones, a), b, 0)
  OBVIOUS
<1>6. ASSUME NEW i \in Places(n) PROVE b[i] \in Int /\ t[i] = s * b[i]
  <2>1. PICK j \in Places(n) : j = (0 - i) % n
    BY <1>0, Around
  <2>2. Conv(n, ones, a)[j] = s
    BY <1>1, <1>4
  <2>3. t[i] = Conv(n, ones, a)[j] * b[i]
    BY <1>5, <2>1 DEF Term
  <2>4. QED
    BY <2>2, <2>3 DEF Integral
<1>7. SumFunctionOnSet(t, Places(n)) = s * SumFunctionOnSet(b, Places(n))
  BY <1>0, <1>6, SumTimes
<1>8. Conv(n, Conv(n, ones, a), b)[0] = SumFunctionOnSet(t, Places(n))
  BY <1>0, <1>5 DEF Conv
<1>9. Total(n, b) \in Int
  BY <1>0, SumType DEF Total, Integral
<1>10. QED
  BY <1>2, <1>3, <1>4, <1>7, <1>8, <1>9 DEF Total

\* Alike with no total, and so equal: n times what they differ by is nothing,
\* and n has an inverse.
LEMMA AlikeSame ==
  ASSUME NEW n \in Nat, n > 0, NEW q \in Nat, NEW a, NEW b, Integral(n, a), Integral(n, b),
         NEW u \in Int, Cong(q, n * u, 1), Alike(n, q, a, b),
         Cong(q, Total(n, a), 0), Cong(q, Total(n, b), 0)
  PROVE  \A k \in Places(n) : Cong(q, a[k], b[k])
<1> DEFINE ones == [k \in Places(n) |-> 1]
<1>0. /\ IsFiniteSet(Places(n)) /\ \A k \in Places(n) : a[k] \in Int /\ b[k] \in Int
      /\ ones \in [Places(n) -> {1}]
  BY PlacesFinite DEF Integral
<1>1. PICK c \in Int : \A k \in Places(n) : Cong(q, a[k], b[k] + c)
  BY DEF Alike
<1>2. PICK o \in Int : o = 1
  OBVIOUS
<1>3. \A k \in Places(n) : /\ b[k] \in Int /\ ones[k] \in Int /\ a[k] \in Int
                           /\ Cong(q, a[k], o * b[k] + c * ones[k])
  <2>1. SUFFICES ASSUME NEW k \in Places(n) PROVE Cong(q, a[k], o * b[k] + c * ones[k])
    BY <1>0
  <2>2. o * b[k] + c * ones[k] = b[k] + c
    BY <1>0, <1>2
  <2>3. QED
    BY <1>1, <2>2
<1>4. Total(n, ones) = n
  <2>1. \A k \in Places(n) : ones[k] = 1
    OBVIOUS
  <2> HIDE DEF ones
  <2>2. QED
    BY <1>0, <2>1, SumOfOnes, PlacesCount DEF Total
<1>5. /\ Cong(q, Total(n, a), o * Total(n, b) + c * Total(n, ones))
      /\ Total(n, a) \in Int /\ Total(n, b) \in Int
  <2> HIDE DEF ones
  <2>1. QED
    BY <1>0, <1>3, SumLinear, SumType DEF Total
<1>6. PICK x \in Int, y \in Int, z \in Int, w \in Int :
        x = Total(n, a) /\ y = Total(n, b) /\ z = c * n /\ w = y + z
  BY <1>5
<1>7. Cong(q, x, w) /\ Cong(q, x, 0) /\ Cong(q, y, 0)
  <2>1. o * y + z = w
    BY <1>2, <1>6
  <2>2. QED
    BY <1>4, <1>5, <1>6, <2>1
<1>8. PICK e1 \in Int, e2 \in Int, e3 \in Int : x = w + q * e1 /\ x = 0 + q * e2 /\ y = 0 + q * e3
  BY <1>7 DEF Cong
<1>9. PICK e4 \in Int : e4 = e2 - e1 - e3
  BY <1>8
<1>10. c * n = q * e4
  <2>1. z = x - q * e1 - y
    BY <1>6, <1>8
  <2>2. q * e2 - q * e1 - q * e3 = q * e4
    BY <1>8, <1>9
  <2>3. QED
    BY <1>6, <1>8, <2>1, <2>2
<1>11. PICK e5 \in Int : n * u = 1 + q * e5
  BY DEF Cong
<1>12. c = 0 + q * (e4 * u - c * e5)
  <2>1. c * (n * u) = c + q * (c * e5)
    BY <1>11
  <2>2. (c * n) * u = q * (e4 * u)
    BY <1>10
  <2>3. c * (n * u) = (c * n) * u
    OBVIOUS
  <2>4. PICK g \in Int, h \in Int : g = e4 * u /\ h = c * e5
    BY <1>9, <1>11
  <2>5. c = q * g - q * h
    BY <2>1, <2>2, <2>3, <2>4
  <2>6. q * g - q * h = q * (g - h)
    BY <2>4
  <2>7. QED
    BY <2>4, <2>5, <2>6
<1>13. PICK e \in Int : e = e4 * u - c * e5 /\ c = q * e
  BY <1>9, <1>11, <1>12
<1>14. ASSUME NEW k \in Places(n) PROVE Cong(q, a[k], b[k])
  <2>1. PICK v \in Int, s \in Int : v = a[k] /\ s = b[k]
    BY <1>0
  <2>2. PICK d \in Int : v = s + c + q * d
    BY <1>1, <2>1 DEF Cong
  <2>3. v = s + q * (e + d)
    BY <1>13, <2>2
  <2>4. e + d \in Int
    OBVIOUS
  <2>5. QED
    BY <2>1, <2>3, <2>4 DEF Cong
<1>15. QED
  BY <1>14

\* What a product with the one half of a key leaves, the product with the
\* other half gives back.
LEMMA HalvesUndo ==
  ASSUME NEW n \in Nat, n > 0, NEW q \in Nat, NEW h, NEW g, NEW w, NEW p,
         Integral(n, h), Integral(n, g), Integral(n, w), Integral(n, p),
         Alike(n, q, Conv(n, h, g), Unit(n)), Alike(n, q, Conv(n, w, g), p)
  PROVE  Alike(n, q, w, Conv(n, p, h))
<1>1. PICK wg, hg, o : wg = Conv(n, w, g) /\ hg = Conv(n, h, g) /\ o = Unit(n)
  OBVIOUS
<1>2. Integral(n, wg) /\ Integral(n, hg) /\ Integral(n, o)
  BY <1>1, ConvType DEF Integral, Unit, Places
<1>3. PICK wgh, ph, hgw, ow : wgh = Conv(n, wg, h) /\ ph = Conv(n, p, h) /\ hgw = Conv(n, hg, w) /\ ow = Conv(n, o, w)
  OBVIOUS
<1>4. Integral(n, wgh) /\ Integral(n, ph) /\ Integral(n, hgw) /\ Integral(n, ow)
  BY <1>2, <1>3, ConvType
<1>5. Alike(n, q, wgh, ph)
  BY <1>1, <1>2, <1>3, ConvAlike
<1>6. Alike(n, q, hgw, ow)
  BY <1>1, <1>2, <1>3, ConvAlike
<1>7. wgh = hgw
  <2>1. Conv(n, Conv(n, w, g), h) = Conv(n, w, Conv(n, g, h))
    BY ConvAssociates
  <2>2. Conv(n, g, h) = Conv(n, h, g)
    BY ConvCommutes
  <2>3. Conv(n, w, hg) = Conv(n, hg, w)
    BY <1>2, ConvCommutes
  <2>4. QED
    BY <1>1, <1>3, <2>1, <2>2, <2>3
<1>8. \A k \in Places(n) : ow[k] = w[k]
  <2>1. Conv(n, o, w) = Conv(n, w, o)
    BY <1>2, ConvCommutes
  <2>2. QED
    BY <1>1, <1>3, <2>1, ConvUnit
<1>9. Alike(n, q, ow, w)
  <2>1. ASSUME NEW k \in Places(n) PROVE Cong(q, ow[k], w[k])
    <3>1. w[k] \in Int
      BY DEF Integral
    <3>2. QED
      BY <1>8, <3>1, CongRefl
  <2>2. QED
    BY <1>4, <2>1, AlikeRefl
<1>10. Alike(n, q, hgw, w)
  BY <1>4, <1>6, <1>9, AlikeTrans
<1>11. Alike(n, q, w, hgw)
  BY <1>4, <1>10, AlikeSym
<1>12. Alike(n, q, w, ph)
  BY <1>4, <1>5, <1>7, <1>11, AlikeTrans
<1>13. QED
  BY <1>3, <1>12

\* The last coefficient that makes the total nothing.
Closed(n, q, a) == [k \in Places(n) |-> IF k = n - 1 THEN (-SumFunctionOnSet(a, 0 .. n - 2)) % q ELSE a[k]]

LEMMA ClosedTotal ==
  ASSUME NEW n \in Nat, n > 1, NEW q \in Nat, q > 0, NEW a, \A k \in 0 .. n - 2 : a[k] \in Int
  PROVE  Integral(n, Closed(n, q, a)) /\ Cong(q, Total(n, Closed(n, q, a)), 0)
<1>1. PICK z \in Int, e \in Int, l \in Int : z = 0 /\ e = n - 2 /\ l = n - 1
  OBVIOUS
<1>2. IsFiniteSet(0 .. n - 2)
  BY <1>1, FS_Interval
<1>3. PICK s \in Int, t \in Int : s = SumFunctionOnSet(a, 0 .. n - 2) /\ t = -s
  BY <1>2, SumType
<1>4. t % q \in Int /\ Cong(q, t % q, t)
  BY CongMod
<1>5. PICK v : v = Closed(n, q, a)
  OBVIOUS
<1>6. /\ l \in Places(n) /\ v[l] = t % q
      /\ \A k \in 0 .. n - 2 : v[k] = a[k]
      /\ Places(n) \ {l} = 0 .. n - 2
  <2>1. l \in Places(n) /\ 0 .. n - 2 = Places(n) \ {l}
    BY <1>1 DEF Places
  <2>2. v[l] = t % q
    BY <1>1, <1>3, <1>5, <2>1 DEF Closed
  <2>3. ASSUME NEW k \in 0 .. n - 2 PROVE v[k] = a[k]
    BY <1>1, <1>5, <2>1 DEF Closed
  <2>4. QED
    BY <2>1, <2>2, <2>3
<1>7. Integral(n, v)
  <2>1. SUFFICES ASSUME NEW k \in Places(n) PROVE v[k] \in Int
    BY DEF Integral
  <2>2. k = l \/ k \in 0 .. n - 2
    BY <1>6
  <2>3. QED
    BY <1>4, <1>6, <2>2
<1>8. SumFunctionOnSet(v, 0 .. n - 2) = s
  BY <1>2, <1>3, <1>6, SumSame
<1>9. IsFiniteSet(Places(n)) /\ \A k \in Places(n) : v[k] \in Int
  BY <1>7, PlacesFinite DEF Integral
<1>10. SumFunctionOnSet(v, Places(n)) = v[l] + SumFunctionOnSet(v, Places(n) \ {l})
  BY <1>6, <1>9, SumRemove
<1>11. Total(n, v) = (t % q) + s
  BY <1>6, <1>8, <1>10 DEF Total
<1>12. PICK y \in Int : y = t % q
  BY <1>4
<1>13. Cong(q, y, t) /\ Cong(q, s, s)
  BY <1>4, <1>12, CongRefl
<1>14. Cong(q, y + s, t + s)
  BY <1>13, CongAdd
<1>15. t + s = 0
  BY <1>3
<1>16. QED
  BY <1>5, <1>7, <1>11, <1>12, <1>14, <1>15

\* A pair and a key have one ciphertext.
LEMMA PairFixes ==
  ASSUME NEW n \in Nat, n > 0, NEW q \in Nat, NEW u \in Int, Cong(q, n * u, 1),
         NEW h, NEW g, NEW p, NEW lift, NEW v, NEW w,
         Integral(n, h), Integral(n, g), Integral(n, p), Integral(n, lift), Integral(n, v),
         w = [k \in Places(n) |-> v[k] - lift[k]],
         Alike(n, q, Conv(n, h, g), Unit(n)), Alike(n, q, Conv(n, w, g), p),
         Cong(q, Total(n, h), 0), Cong(q, Total(n, lift), 0), Cong(q, Total(n, v), 0)
  PROVE  \A k \in Places(n) : Cong(q, v[k], Conv(n, p, h)[k] + lift[k])
<1>0. IsFiniteSet(Places(n))
  BY PlacesFinite
<1>1. Integral(n, w) /\ \A k \in Places(n) : w[k] = v[k] - lift[k]
  BY DEF Integral
<1>2. Alike(n, q, w, Conv(n, p, h))
  <2>1. Integral(n, w)
    BY <1>1
  <2>2. QED
    BY <2>1, HalvesUndo
<1>3. PICK ph : ph = Conv(n, p, h)
  OBVIOUS
<1>4. Integral(n, ph)
  BY <1>3, ConvType
<1>5. Total(n, h) \in Int /\ Total(n, p) \in Int /\ Total(n, v) \in Int /\ Total(n, lift) \in Int
  BY <1>0, SumType DEF Total, Integral
<1>6. Cong(q, Total(n, ph), 0)
  <2>1. PICK x \in Int, y \in Int : x = Total(n, p) /\ y = Total(n, h)
    BY <1>5
  <2>2. Total(n, ph) = y * x
    BY <1>3, <2>1, ConvTotal
  <2>3. Cong(q, y, 0)
    BY <2>1
  <2>4. PICK e \in Int : y = 0 + q * e
    BY <2>3 DEF Cong
  <2>5. y * x = 0 + q * (e * x)
    BY <2>4
  <2>6. e * x \in Int
    OBVIOUS
  <2>7. QED
    BY <2>2, <2>5, <2>6 DEF Cong
<1>7. Cong(q, Total(n, w), 0)
  <2>1. PICK o \in Int, m \in Int, x \in Int, y \in Int :
          o = 1 /\ m = 0 - 1 /\ x = Total(n, v) /\ y = Total(n, lift)
    BY <1>5
  <2>2. ASSUME NEW k \in Places(n)
        PROVE  v[k] \in Int /\ lift[k] \in Int /\ w[k] \in Int /\ Cong(q, w[k], o * v[k] + m * lift[k])
    <3>1. v[k] \in Int /\ lift[k] \in Int /\ w[k] \in Int /\ w[k] = v[k] - lift[k]
      BY <1>1 DEF Integral
    <3>2. o * v[k] + m * lift[k] = w[k]
      BY <2>1, <3>1
    <3>3. QED
      BY <3>1, <3>2, CongRefl
  <2>3. Cong(q, Total(n, w), o * x + m * y)
    <3>1. Cong(q, SumFunctionOnSet(w, Places(n)), o * SumFunctionOnSet(v, Places(n)) + m * SumFunctionOnSet(lift, Places(n)))
      BY <1>0, <2>2, SumLinear
    <3>2. QED
      BY <2>1, <3>1 DEF Total
  <2>4. PICK z \in Int : z = o * x + m * y
    BY <2>1
  <2>5. Cong(q, x, 0) /\ Cong(q, y, 0)
    BY <2>1
  <2>6. Cong(q, x - y, 0 - 0)
    BY <2>5, CongAdd
  <2>7. z = x - y /\ 0 - 0 = 0
    BY <2>1, <2>4
  <2>8. Total(n, w) \in Int
    BY <1>0, <1>1, SumType DEF Total, Integral
  <2>9. QED
    BY <2>3, <2>4, <2>6, <2>7, <2>8, CongTrans
<1>8. \A k \in Places(n) : Cong(q, w[k], ph[k])
  BY <1>1, <1>2, <1>3, <1>4, <1>6, <1>7, AlikeSame
<1>9. ASSUME NEW k \in Places(n) PROVE Cong(q, v[k], ph[k] + lift[k])
  <2>1. PICK x \in Int, y \in Int, z \in Int, t \in Int : x = v[k] /\ y = lift[k] /\ z = ph[k] /\ t = w[k]
    BY <1>1, <1>4 DEF Integral
  <2>2. Cong(q, t, z) /\ Cong(q, y, y)
    BY <1>8, <2>1, CongRefl
  <2>3. Cong(q, t + y, z + y)
    BY <2>2, CongAdd
  <2>4. t + y = x
    BY <1>1, <2>1
  <2>5. QED
    BY <2>1, <2>3, <2>4
<1>10. QED
  BY <1>3, <1>9

LEMMA Below ==
  ASSUME NEW q \in Nat, NEW x \in Int, 0 <= x, x < q PROVE x % q = x
<1>1. PICK z \in Int : z = 0
  OBVIOUS
<1>2. x = q * z + x /\ q > 0
  BY <1>1
<1>3. QED
  BY <1>2, DivModUnique

PhiMod(n, q, a) == [k \in Places(n) |-> (a[k] - a[n - 1]) % q]
TritsIn(n, q, r) == [k \in Places(n) |-> IF r[k] = 2 THEN q - 1 ELSE r[k]]
TritsOut(n, q, s) == [k \in Places(n) |-> IF s[k] % q = q - 1 THEN 2 ELSE s[k] % q]
Padding(n, a) == [k \in Places(n) |-> IF k = n - 1 THEN 0 ELSE a[k]]
Minus(n, a, b) == [k \in Places(n) |-> a[k] - b[k]]

LEMMA PhiModAlike ==
  ASSUME NEW n \in Nat, n > 0, NEW q \in Nat, q > 0, NEW a, Integral(n, a)
  PROVE  Integral(n, PhiMod(n, q, a)) /\ Alike(n, q, PhiMod(n, q, a), a)
<1>1. PICK l \in Places(n) : l = n - 1
  BY DEF Places
<1>2. PICK c \in Int : c = 0 - a[l]
  BY DEF Integral
<1>3. ASSUME NEW k \in Places(n)
      PROVE  PhiMod(n, q, a)[k] \in Int /\ Cong(q, PhiMod(n, q, a)[k], a[k] + c)
  <2>0. a[k] \in Int /\ a[l] \in Int
    BY DEF Integral
  <2>9. PICK x \in Int, y \in Int : x = a[k] /\ y = a[l]
    BY <2>0
  <2>1. PICK z \in Int : z = x - y
    OBVIOUS
  <2>2. z % q \in Int /\ Cong(q, z % q, z)
    BY CongMod
  <2>3. z = x + c
    BY <1>2, <2>1, <2>9
  <2>4. QED
    BY <1>1, <2>1, <2>2, <2>3, <2>9 DEF PhiMod
<1>4. QED
  BY <1>3 DEF Integral, Alike

\* What decryption has found out of a ciphertext that it accepts.
NtruFits(n, q, u, h, g, lift, r, core, s) ==
  /\ n \in Nat /\ n > 2 /\ q \in Nat /\ q > 3 /\ u \in Int /\ Cong(q, n * u, 1)
  /\ h \in [0 .. n - 2 -> 0 .. q - 1] /\ g \in [0 .. n - 2 -> 0 .. q - 1]
  /\ PhiMod(n, q, Conv(n, Closed(n, q, h), Padding(n, g))) = Unit(n)
  /\ Integral(n, lift) /\ Cong(q, Total(n, lift), 0)
  /\ r \in [Places(n) -> 0 .. 2] /\ core \in [0 .. n - 2 -> 0 .. q - 1]
  /\ s = PhiMod(n, q, Conv(n, Minus(n, Closed(n, q, core), lift), Padding(n, g)))
  /\ s[n - 1] = 0 /\ \A k \in 0 .. n - 2 : s[k] \in {0, 1, q - 1}
  /\ r = TritsOut(n, q, s)

LEMMA NtruSent ==
  ASSUME NEW n, NEW q, NEW u, NEW h, NEW g, NEW lift, NEW r, NEW core, NEW s,
         NtruFits(n, q, u, h, g, lift, r, core, s)
  PROVE  core = [k \in 0 .. n - 2 |-> ((Conv(n, TritsIn(n, q, r), Closed(n, q, h))[k] % q) + lift[k]) % q]
<1>0. /\ n \in Nat /\ n > 2 /\ q \in Nat /\ q > 3 /\ u \in Int /\ Cong(q, n * u, 1)
      /\ h \in [0 .. n - 2 -> 0 .. q - 1] /\ g \in [0 .. n - 2 -> 0 .. q - 1]
      /\ PhiMod(n, q, Conv(n, Closed(n, q, h), Padding(n, g))) = Unit(n)
      /\ Integral(n, lift) /\ Cong(q, Total(n, lift), 0)
      /\ r \in [Places(n) -> 0 .. 2] /\ core \in [0 .. n - 2 -> 0 .. q - 1]
      /\ s = PhiMod(n, q, Conv(n, Minus(n, Closed(n, q, core), lift), Padding(n, g)))
      /\ s[n - 1] = 0 /\ \A k \in 0 .. n - 2 : s[k] \in {0, 1, q - 1}
      /\ r = TritsOut(n, q, s)
  BY DEF NtruFits
<1>u. USE <1>0
<1>1. PICK hh, gg, v, w, p : /\ hh = Closed(n, q, h) /\ gg = Padding(n, g) /\ v = Closed(n, q, core)
                             /\ w = Minus(n, v, lift) /\ p = TritsIn(n, q, r)
  OBVIOUS
<1>2. (\A k \in 0 .. n - 2 : h[k] \in Int /\ g[k] \in Int /\ core[k] \in Int) /\ n > 1 /\ q > 0 /\ n > 0
  OBVIOUS
<1>3. /\ Integral(n, hh) /\ Cong(q, Total(n, hh), 0)
      /\ Integral(n, v) /\ Cong(q, Total(n, v), 0)
  BY <1>1, <1>2, ClosedTotal
<1>4. \A k \in Places(n) : k = n - 1 \/ k \in 0 .. n - 2
  BY DEF Places
<1>5. Integral(n, gg)
  BY <1>1, <1>2, <1>4 DEF Integral, Padding
<1>6. Integral(n, w) /\ w = [k \in Places(n) |-> v[k] - lift[k]]
  BY <1>1, <1>3 DEF Integral, Minus
<1>7. PICK hg, wg : hg = Conv(n, hh, gg) /\ wg = Conv(n, w, gg)
  OBVIOUS
<1>8. Integral(n, hg) /\ Integral(n, wg) /\ Integral(n, Unit(n))
  <2>1. Integral(n, Unit(n))
    BY DEF Integral, Unit
  <2>2. Integral(n, w)
    BY <1>6
  <2>3. QED
    BY <1>2, <1>3, <1>5, <1>7, <2>1, <2>2, ConvType
<1>9. Alike(n, q, hg, Unit(n))
  <2>1. Alike(n, q, PhiMod(n, q, hg), hg) /\ Integral(n, PhiMod(n, q, hg))
    BY <1>2, <1>8, PhiModAlike
  <2>2. Alike(n, q, hg, PhiMod(n, q, hg))
    BY <1>8, <2>1, AlikeSym
  <2>3. QED
    BY <1>1, <1>7, <2>2
<1>10. \A k \in Places(n) : s[k] \in {0, 1, q - 1} /\ p[k] = s[k]
  <2>1. SUFFICES ASSUME NEW k \in Places(n) PROVE s[k] \in {0, 1, q - 1} /\ p[k] = s[k]
    OBVIOUS
  <2>2. s[k] \in {0, 1, q - 1}
    BY <1>4
  <2>3. s[k] % q = s[k]
    <3>1. s[k] \in Int /\ 0 <= s[k] /\ s[k] < q
      BY <2>2
    <3>2. QED
      BY <3>1, Below
  <2>4. r[k] = IF s[k] = q - 1 THEN 2 ELSE s[k]
    BY <2>3 DEF TritsOut
  <2>5. p[k] = IF r[k] = 2 THEN q - 1 ELSE r[k]
    BY <1>1 DEF TritsIn
  <2>6. QED
    BY <2>2, <2>4, <2>5
<1>11. Integral(n, p) /\ \A k \in Places(n) : p[k] \in Int
  <2>1. \A x \in {0, 1, q - 1} : x \in Int
    OBVIOUS
  <2>2. \A k \in Places(n) : p[k] \in Int
    BY <1>10, <2>1
  <2>3. QED
    BY <2>2 DEF Integral
<1>12. Alike(n, q, wg, p)
  <2>1. s = PhiMod(n, q, wg)
    BY <1>1, <1>7
  <2>2. Alike(n, q, s, wg) /\ Integral(n, s)
    BY <1>2, <1>8, <2>1, PhiModAlike
  <2>3. Alike(n, q, wg, s)
    BY <1>8, <2>2, AlikeSym
  <2>4. \A k \in Places(n) : Cong(q, s[k], p[k])
    BY <1>10, <1>11, CongRefl
  <2>5. Alike(n, q, s, p)
    BY <1>11, <2>2, <2>4, AlikeRefl
  <2>6. QED
    BY <1>8, <1>11, <2>2, <2>3, <2>5, AlikeTrans
<1>13. \A k \in Places(n) : Cong(q, v[k], Conv(n, p, hh)[k] + lift[k])
  BY <1>2, <1>3, <1>5, <1>6, <1>7, <1>9, <1>11, <1>12, PairFixes
<1>14. Integral(n, Conv(n, p, hh))
  BY <1>2, <1>3, <1>11, ConvType
<1>15. ASSUME NEW k \in 0 .. n - 2
       PROVE  core[k] = ((Conv(n, p, hh)[k] % q) + lift[k]) % q
  <2>1. k \in Places(n) /\ k # n - 1
    BY <1>2 DEF Places
  <2>2. v[k] = core[k]
    BY <1>1, <2>1 DEF Closed
  <2>0. core[k] \in 0 .. q - 1 /\ Conv(n, p, hh)[k] \in Int /\ lift[k] \in Int
    BY <1>14, <2>1 DEF Integral
  <2>9. PICK y \in Int : y = Conv(n, p, hh)[k]
    BY <2>0
  <2>3. PICK x \in Int, z \in Int, t \in Int : x = core[k] /\ z = lift[k] /\ t = y % q
    <3>1. core[k] \in Int /\ y % q \in Int
      BY <1>2, <2>0, CongMod
    <3>2. QED
      BY <2>0, <3>1
  <2>4. Cong(q, x, y + z)
    BY <1>13, <2>1, <2>2, <2>3, <2>9
  <2>5. Cong(q, t, y) /\ Cong(q, z, z)
    BY <1>2, <2>3, CongMod, CongRefl
  <2>6. Cong(q, t + z, y + z)
    BY <2>5, CongAdd
  <2>7. PICK e \in Int, d \in Int : e = t + z /\ d = y + z
    OBVIOUS
  <2>8. Cong(q, x, d) /\ Cong(q, e, d)
    BY <2>4, <2>6, <2>7
  <2>c. x % q = d % q /\ e % q = d % q
    BY <1>2, <2>8, CongSame
  <2>10. x % q = x
    <3>1. 0 <= x /\ x < q
      BY <2>0, <2>3
    <3>2. QED
      BY <3>1, Below
  <2>11. QED
    BY <2>3, <2>7, <2>c, <2>9, <2>10
<1>16. QED
  BY <1>1, <1>15


LEMMA SumIndicator ==
  ASSUME NEW f, NEW S, IsFiniteSet(S), NEW T \in SUBSET S,
         \A x \in S : f[x] = IF x \in T THEN 1 ELSE 0
  PROVE  SumFunctionOnSet(f, S) = Cardinality(T)
<1>1. IsFiniteSet(T) /\ IsFiniteSet(S \ T) /\ T \cap (S \ T) = {} /\ T \cup (S \ T) = S
  BY FS_Subset
<1>2. \A x \in T \cup (S \ T) : f[x] \in Int
  OBVIOUS
<1>3. SumFunctionOnSet(f, T \cup (S \ T)) = SumFunctionOnSet(f, T) + SumFunctionOnSet(f, S \ T)
  BY <1>1, <1>2, SumUnion
<1>4. SumFunctionOnSet(f, T) = Cardinality(T)
  BY <1>1, SumOfOnes
<1>5. SumFunctionOnSet(f, S \ T) = 0
  <2>1. \A x \in S \ T : f[x] = 0
    OBVIOUS
  <2>2. PICK R : R = S \ T
    OBVIOUS
  <2>3. SumFunctionOnSet(f, R) = 0
    BY <1>1, <2>1, <2>2, SumOfZeros
  <2>4. QED
    BY <2>2, <2>3
<1>6. Cardinality(T) \in Nat
  BY <1>1, FS_CardinalityType
<1>7. QED
  BY <1>1, <1>3, <1>4, <1>5, <1>6

\* As many ones as minus ones make no total.
LEMMA BalancedTotal ==
  ASSUME NEW n \in Nat, n > 0, NEW q \in Nat, q > 0, NEW m \in [Places(n) -> 0 .. 2],
         Cardinality({k \in Places(n) : m[k] = 1}) = Cardinality({k \in Places(n) : m[k] = 2})
  PROVE  Integral(n, TritsIn(n, q, m)) /\ Cong(q, Total(n, TritsIn(n, q, m)), 0)
<1>1. PICK t, T1, T2 : /\ t = TritsIn(n, q, m)
                       /\ T1 = {k \in Places(n) : m[k] = 1} /\ T2 = {k \in Places(n) : m[k] = 2}
  OBVIOUS
<1>2. PICK f, g : /\ f = [k \in Places(n) |-> IF k \in T1 THEN 1 ELSE 0]
                  /\ g = [k \in Places(n) |-> IF k \in T2 THEN 1 ELSE 0]
  OBVIOUS
<1>3. IsFiniteSet(Places(n)) /\ T1 \in SUBSET Places(n) /\ T2 \in SUBSET Places(n)
  BY <1>1, PlacesFinite
<1>4. \A k \in Places(n) : f[k] \in Int /\ g[k] \in Int /\ t[k] \in Int
  BY <1>1, <1>2 DEF TritsIn
<1>5. SumFunctionOnSet(f, Places(n)) = Cardinality(T1) /\ SumFunctionOnSet(g, Places(n)) = Cardinality(T2)
  BY <1>2, <1>3, SumIndicator
<1>6. PICK o \in Int, e \in Int, z \in Int : o = 1 /\ e = 0 - 1 /\ z = 0
  OBVIOUS
<1>7. ASSUME NEW k \in Places(n) PROVE Cong(q, t[k], o * f[k] + e * g[k])
  <2>1. m[k] \in 0 .. 2 /\ t[k] = (IF m[k] = 2 THEN q - 1 ELSE m[k])
    BY <1>1 DEF TritsIn
  <2>2. CASE m[k] = 0
    <3>1. t[k] = o * f[k] + e * g[k]
      BY <1>1, <1>2, <1>6, <2>1, <2>2
    <3>2. QED
      BY <1>4, <3>1, CongRefl
  <2>3. CASE m[k] = 1
    <3>1. t[k] = o * f[k] + e * g[k]
      BY <1>1, <1>2, <1>6, <2>1, <2>3
    <3>2. QED
      BY <1>4, <3>1, CongRefl
  <2>4. CASE m[k] = 2
    <3>1. t[k] = (o * f[k] + e * g[k]) + q * o
      BY <1>1, <1>2, <1>6, <2>1, <2>4
    <3>2. QED
      BY <1>6, <3>1 DEF Cong
  <2>5. QED
    BY <2>1, <2>2, <2>3, <2>4
<1>8. Cong(q, SumFunctionOnSet(t, Places(n)), o * SumFunctionOnSet(f, Places(n)) + e * SumFunctionOnSet(g, Places(n)))
  BY <1>3, <1>4, <1>7, SumLinear
<1>9. SumFunctionOnSet(f, Places(n)) = SumFunctionOnSet(g, Places(n)) /\ SumFunctionOnSet(f, Places(n)) \in Int
  BY <1>1, <1>3, <1>4, <1>5, SumType
<1>10. o * SumFunctionOnSet(f, Places(n)) + e * SumFunctionOnSet(g, Places(n)) = 0
  BY <1>6, <1>9
<1>11. QED
  BY <1>1, <1>4, <1>8, <1>10 DEF Integral, Total

\* A polynomial times x - 1.
Difference(n, q, b) == [k \in Places(n) |-> ((IF k = 0 THEN 0 ELSE b[k - 1]) - b[k]) % q]

LEMMA DifferenceTotal ==
  ASSUME NEW n \in Nat, n > 2, NEW q \in Nat, q > 0, NEW b, Integral(n, b), b[n - 1] = 0
  PROVE  Integral(n, Difference(n, q, b)) /\ Cong(q, Total(n, Difference(n, q, b)), 0)
<1>1. PICK d, o : d = Difference(n, q, b) /\ o = 1
  OBVIOUS
<1>2. PICK m : m = [l \in Places(n) |-> (l - o) % n]
  OBVIOUS
<1>3. PICK f : f = [l \in Places(n) |-> b[m[l]]]
  OBVIOUS
<1>4. o \in Places(n) /\ IsFiniteSet(Places(n)) /\ n > 0
  BY <1>1, PlacesFinite DEF Places
<1>5. /\ m \in [Places(n) -> Places(n)]
      /\ \A x, y \in Places(n) : m[x] = m[y] => x = y
      /\ \A y \in Places(n) : \E x \in Places(n) : m[x] = y
  BY <1>2, <1>4, Turn
<1>6. \A l \in Places(n) : f[l] \in Int /\ b[m[l]] = f[l] /\ b[l] \in Int
  BY <1>3, <1>5 DEF Integral
<1>7. SumFunctionOnSet(b, Places(n)) = SumFunctionOnSet(f, Places(n))
  BY <1>4, <1>5, <1>6, SumReindex
<1>8. ASSUME NEW k \in Places(n) PROVE d[k] \in Int /\ Cong(q, d[k], f[k] - b[k])
  <2>1. (k - o) % n = IF o <= k THEN k - o ELSE k - o + n
    BY <1>4, Around
  <2>2. f[k] = IF k = 0 THEN 0 ELSE b[k - 1]
    <3>1. CASE k = 0
      <4>1. m[k] = n - 1
        BY <1>1, <1>2, <2>1, <3>1
      <4>2. QED
        BY <1>3, <3>1, <4>1
    <3>2. CASE k # 0
      <4>1. m[k] = k - 1
        BY <1>1, <1>2, <2>1, <3>2 DEF Places
      <4>2. QED
        BY <1>3, <3>2, <4>1
    <3>3. QED
      BY <3>1, <3>2
  <2>3. PICK y \in Int, x \in Int : y = f[k] /\ x = b[k]
    BY <1>6
  <2>4. PICK z \in Int : z = y - x
    OBVIOUS
  <2>5. d[k] = z % q
    BY <1>1, <2>2, <2>3, <2>4 DEF Difference
  <2>6. z % q \in Int /\ Cong(q, z % q, z)
    BY CongMod
  <2>7. QED
    BY <2>3, <2>4, <2>5, <2>6
<1>9. PICK e \in Int, c \in Int : e = 1 /\ c = 0 - 1
  OBVIOUS
<1>10. \A k \in Places(n) : f[k] \in Int /\ b[k] \in Int /\ d[k] \in Int /\ Cong(q, d[k], e * f[k] + c * b[k])
  <2>1. SUFFICES ASSUME NEW k \in Places(n) PROVE Cong(q, d[k], e * f[k] + c * b[k])
    BY <1>6, <1>8
  <2>2. f[k] - b[k] = e * f[k] + c * b[k]
    BY <1>6, <1>9
  <2>3. QED
    BY <1>8, <2>2
<1>11. Cong(q, SumFunctionOnSet(d, Places(n)), e * SumFunctionOnSet(f, Places(n)) + c * SumFunctionOnSet(b, Places(n)))
  BY <1>4, <1>10, SumLinear
<1>12. SumFunctionOnSet(b, Places(n)) \in Int
  BY <1>4, <1>6, SumType
<1>13. e * SumFunctionOnSet(f, Places(n)) + c * SumFunctionOnSet(b, Places(n)) = 0
  BY <1>7, <1>9, <1>12
<1>14. QED
  BY <1>1, <1>8, <1>11, <1>13 DEF Integral, Total

LEMMA HpsFacts ==
  ASSUME "HPS" \in Schemes
  PROVE  /\ NtruN \in Nat /\ NtruN > 2 /\ NtruN > 0 /\ Hps!Q \in Nat /\ Hps!Q > 3 /\ Hps!Q > 0
         /\ \E u \in Int : Cong(Hps!Q, NtruN * u, 1)
         /\ Hps!Exps = Places(NtruN) /\ Hps!Packed = 0 .. NtruN - 2
<1>1. /\ NtruN \in Nat /\ NtruN > 2 /\ Hps!Q \in Nat /\ Hps!Q > 3
      /\ \E u \in 0 .. Hps!Q - 1 : (NtruN * u) % Hps!Q = 1
  BY HpsAssumption DEF NtruAssumption
<1>2. PICK q \in Nat : q = Hps!Q
  BY <1>1
<1>3. PICK u \in Int : (NtruN * u) % q = 1
  <2>1. PICK u \in 0 .. Hps!Q - 1 : (NtruN * u) % Hps!Q = 1
    BY <1>1
  <2>2. u \in Int
    BY <1>1
  <2>3. QED
    BY <1>2, <2>1, <2>2
<1>4. PICK x \in Int : x = NtruN * u
  BY <1>1
<1>5. x % q = 1 /\ q > 0
  BY <1>1, <1>2, <1>3, <1>4
<1>6. Cong(q, 1, x)
  BY <1>5, CongMod
<1>7. Cong(q, x, 1)
  BY <1>6, CongSym
<1>8. Hps!Exps = Places(NtruN) /\ Hps!Packed = 0 .. NtruN - 2
  BY DEF Hps!Exps, Hps!Packed, Places
<1>9. Cong(Hps!Q, NtruN * u, 1)
  BY <1>2, <1>4, <1>7
<1>10. NtruN > 0 /\ Hps!Q > 0
  BY <1>1
<1>11. QED
  BY <1>1, <1>8, <1>9, <1>10

LEMMA HpsSums == \A f, S : Hps!SumFunctionOnSet(f, S) = SumFunctionOnSet(f, S)
BY Zenon DEF Hps!SumFunctionOnSet, SumFunctionOnSet, Hps!FoldFunctionOnSet, FoldFunctionOnSet,
             Hps!MapThenFoldSet, MapThenFoldSet

LEMMA HpsOperators ==
  ASSUME "HPS" \in Schemes
  PROVE  /\ \A a, b : Hps!Circulant(a, b) = Conv(NtruN, a, b)
         /\ \A a, b : Hps!SqMul(a, b) = PhiMod(NtruN, Hps!Q, Conv(NtruN, a, b))
         /\ \A a, b : Hps!RqMul(a, b) = [k \in Places(NtruN) |-> Conv(NtruN, a, b)[k] % Hps!Q]
         /\ \A a : Hps!Z3ToZq(a) = TritsIn(NtruN, Hps!Q, a)
         /\ \A a : Hps!ZqToZ3(a) = TritsOut(NtruN, Hps!Q, a)
         /\ \A a : Hps!Padded(a) = Padding(NtruN, a)
         /\ \A a : DOMAIN a = 0 .. NtruN - 2 => Hps!SumZero(a) = Closed(NtruN, Hps!Q, a)
         /\ Hps!One = Unit(NtruN)
<1>1. Hps!Exps = Places(NtruN)
  BY HpsFacts
<1>2. ASSUME NEW a, NEW b PROVE Hps!Circulant(a, b) = Conv(NtruN, a, b)
  <2>1. ASSUME NEW k \in Places(NtruN)
        PROVE  [i \in Hps!Exps |-> a[(k - i) % NtruN] * b[i]] = Term(NtruN, a, b, k)
    BY <1>1 DEF Term
  <2>2. \A k \in Places(NtruN) : DOMAIN Term(NtruN, a, b, k) = Places(NtruN)
    BY DEF Term
  <2>3. Hps!Circulant(a, b) = [k \in Places(NtruN) |-> SumFunctionOnSet(Term(NtruN, a, b, k), Places(NtruN))]
    BY <1>1, <2>1, <2>2, HpsSums DEF Hps!Circulant, Hps!Sum
  <2>4. QED
    BY <2>3 DEF Conv
<1>3. ASSUME NEW a, NEW b PROVE Hps!SqMul(a, b) = PhiMod(NtruN, Hps!Q, Conv(NtruN, a, b))
  BY <1>1, <1>2 DEF Hps!SqMul, Hps!ModPhi, Hps!Value, PhiMod
<1>4. ASSUME NEW a, NEW b
      PROVE  Hps!RqMul(a, b) = [k \in Places(NtruN) |-> Conv(NtruN, a, b)[k] % Hps!Q]
  BY <1>1, <1>2 DEF Hps!RqMul, Hps!Reduced, Hps!Value
<1>5. ASSUME NEW a PROVE Hps!Z3ToZq(a) = TritsIn(NtruN, Hps!Q, a) /\ Hps!ZqToZ3(a) = TritsOut(NtruN, Hps!Q, a)
  BY <1>1 DEF Hps!Z3ToZq, Hps!ZqToZ3, TritsIn, TritsOut
<1>6. ASSUME NEW a PROVE Hps!Padded(a) = Padding(NtruN, a)
  BY <1>1 DEF Hps!Padded, Padding
<1>7. ASSUME NEW a, DOMAIN a = 0 .. NtruN - 2 PROVE Hps!SumZero(a) = Closed(NtruN, Hps!Q, a)
  <2>1. Hps!Sum(a) = SumFunctionOnSet(a, 0 .. NtruN - 2)
    BY <1>7, HpsSums DEF Hps!Sum
  <2>2. QED
    BY <1>1, <2>1 DEF Hps!SumZero, Closed
<1>8. Hps!One = Unit(NtruN)
  BY <1>1 DEF Hps!One, Unit
<1>9. QED
  BY <1>2, <1>3, <1>4, <1>5, <1>6, <1>7, <1>8

LEMMA HrssFacts ==
  ASSUME "HRSS" \in Schemes
  PROVE  /\ NtruN \in Nat /\ NtruN > 2 /\ NtruN > 0 /\ Hrss!Q \in Nat /\ Hrss!Q > 3 /\ Hrss!Q > 0
         /\ \E u \in Int : Cong(Hrss!Q, NtruN * u, 1)
         /\ Hrss!Exps = Places(NtruN) /\ Hrss!Packed = 0 .. NtruN - 2
<1>1. /\ NtruN \in Nat /\ NtruN > 2 /\ Hrss!Q \in Nat /\ Hrss!Q > 3
      /\ \E u \in 0 .. Hrss!Q - 1 : (NtruN * u) % Hrss!Q = 1
  BY HrssAssumption DEF NtruAssumption
<1>2. PICK q \in Nat : q = Hrss!Q
  BY <1>1
<1>3. PICK u \in Int : (NtruN * u) % q = 1
  <2>1. PICK u \in 0 .. Hrss!Q - 1 : (NtruN * u) % Hrss!Q = 1
    BY <1>1
  <2>2. u \in Int
    BY <1>1
  <2>3. QED
    BY <1>2, <2>1, <2>2
<1>4. PICK x \in Int : x = NtruN * u
  BY <1>1
<1>5. x % q = 1 /\ q > 0
  BY <1>1, <1>2, <1>3, <1>4
<1>6. Cong(q, 1, x)
  BY <1>5, CongMod
<1>7. Cong(q, x, 1)
  BY <1>6, CongSym
<1>8. Hrss!Exps = Places(NtruN) /\ Hrss!Packed = 0 .. NtruN - 2
  BY DEF Hrss!Exps, Hrss!Packed, Places
<1>9. Cong(Hrss!Q, NtruN * u, 1)
  BY <1>2, <1>4, <1>7
<1>10. NtruN > 0 /\ Hrss!Q > 0
  BY <1>1
<1>11. QED
  BY <1>1, <1>8, <1>9, <1>10

LEMMA HrssSums == \A f, S : Hrss!SumFunctionOnSet(f, S) = SumFunctionOnSet(f, S)
BY Zenon DEF Hrss!SumFunctionOnSet, SumFunctionOnSet, Hrss!FoldFunctionOnSet, FoldFunctionOnSet,
             Hrss!MapThenFoldSet, MapThenFoldSet

LEMMA HrssOperators ==
  ASSUME "HRSS" \in Schemes
  PROVE  /\ \A a, b : Hrss!Circulant(a, b) = Conv(NtruN, a, b)
         /\ \A a, b : Hrss!SqMul(a, b) = PhiMod(NtruN, Hrss!Q, Conv(NtruN, a, b))
         /\ \A a, b : Hrss!RqMul(a, b) = [k \in Places(NtruN) |-> Conv(NtruN, a, b)[k] % Hrss!Q]
         /\ \A a : Hrss!Z3ToZq(a) = TritsIn(NtruN, Hrss!Q, a)
         /\ \A a : Hrss!ZqToZ3(a) = TritsOut(NtruN, Hrss!Q, a)
         /\ \A a : Hrss!Padded(a) = Padding(NtruN, a)
         /\ \A a : DOMAIN a = 0 .. NtruN - 2 => Hrss!SumZero(a) = Closed(NtruN, Hrss!Q, a)
         /\ Hrss!One = Unit(NtruN)
<1>1. Hrss!Exps = Places(NtruN)
  BY HrssFacts
<1>2. ASSUME NEW a, NEW b PROVE Hrss!Circulant(a, b) = Conv(NtruN, a, b)
  <2>1. ASSUME NEW k \in Places(NtruN)
        PROVE  [i \in Hrss!Exps |-> a[(k - i) % NtruN] * b[i]] = Term(NtruN, a, b, k)
    BY <1>1 DEF Term
  <2>2. \A k \in Places(NtruN) : DOMAIN Term(NtruN, a, b, k) = Places(NtruN)
    BY DEF Term
  <2>3. Hrss!Circulant(a, b) = [k \in Places(NtruN) |-> SumFunctionOnSet(Term(NtruN, a, b, k), Places(NtruN))]
    BY <1>1, <2>1, <2>2, HrssSums DEF Hrss!Circulant, Hrss!Sum
  <2>4. QED
    BY <2>3 DEF Conv
<1>3. ASSUME NEW a, NEW b PROVE Hrss!SqMul(a, b) = PhiMod(NtruN, Hrss!Q, Conv(NtruN, a, b))
  BY <1>1, <1>2 DEF Hrss!SqMul, Hrss!ModPhi, Hrss!Value, PhiMod
<1>4. ASSUME NEW a, NEW b
      PROVE  Hrss!RqMul(a, b) = [k \in Places(NtruN) |-> Conv(NtruN, a, b)[k] % Hrss!Q]
  BY <1>1, <1>2 DEF Hrss!RqMul, Hrss!Reduced, Hrss!Value
<1>5. ASSUME NEW a PROVE Hrss!Z3ToZq(a) = TritsIn(NtruN, Hrss!Q, a) /\ Hrss!ZqToZ3(a) = TritsOut(NtruN, Hrss!Q, a)
  BY <1>1 DEF Hrss!Z3ToZq, Hrss!ZqToZ3, TritsIn, TritsOut
<1>6. ASSUME NEW a PROVE Hrss!Padded(a) = Padding(NtruN, a)
  BY <1>1 DEF Hrss!Padded, Padding
<1>7. ASSUME NEW a, DOMAIN a = 0 .. NtruN - 2 PROVE Hrss!SumZero(a) = Closed(NtruN, Hrss!Q, a)
  <2>1. Hrss!Sum(a) = SumFunctionOnSet(a, 0 .. NtruN - 2)
    BY <1>7, HrssSums DEF Hrss!Sum
  <2>2. QED
    BY <1>1, <2>1 DEF Hrss!SumZero, Closed
<1>8. Hrss!One = Unit(NtruN)
  BY <1>1 DEF Hrss!One, Unit
<1>9. QED
  BY <1>2, <1>3, <1>4, <1>5, <1>6, <1>7, <1>8

LEMMA HpsSizes == \A S : Hps!Cardinality(S) = Cardinality(S)
BY Zenon DEF Hps!Cardinality, Cardinality

LEMMA HpsLift ==
  ASSUME "HPS" \in Schemes, NEW m \in Hps!FixedType
  PROVE  /\ m \in [Places(NtruN) -> 0 .. 2]
         /\ Integral(NtruN, Hps!Lift(m)) /\ Cong(Hps!Q, Total(NtruN, Hps!Lift(m)), 0)
<1>1. /\ NtruN \in Nat /\ NtruN > 0 /\ Hps!Q \in Nat /\ Hps!Q > 0 /\ Hps!Exps = Places(NtruN)
  BY HpsFacts
<1>2. /\ m \in [Hps!Exps -> 0 .. 2]
      /\ Hps!Count(m, 1) = Hps!Count(m, 2)
  BY DEF Hps!FixedType, Hps!Ternary
<1>3. m \in [Places(NtruN) -> 0 .. 2]
  BY <1>1, <1>2
<1>4. Cardinality({k \in Places(NtruN) : m[k] = 1}) = Cardinality({k \in Places(NtruN) : m[k] = 2})
  <2>1. PICK S : S = Hps!Exps
    OBVIOUS
  <2>2. Hps!Cardinality({k \in S : m[k] = 1}) = Hps!Cardinality({k \in S : m[k] = 2})
    BY <1>2, <2>1 DEF Hps!Count
  <2>3. S = Places(NtruN)
    BY <1>1, <2>1
  <2>4. QED
    BY <2>2, <2>3, HpsSizes, Zenon
<1>5. /\ Integral(NtruN, TritsIn(NtruN, Hps!Q, m))
      /\ Cong(Hps!Q, Total(NtruN, TritsIn(NtruN, Hps!Q, m)), 0)
  BY <1>1, <1>3, <1>4, BalancedTotal
<1>6. Hps!Lift(m) = TritsIn(NtruN, Hps!Q, m)
  BY HpsOperators DEF Hps!Lift
<1>7. QED
  BY <1>3, <1>5, <1>6

LEMMA HrssQuotient ==
  ASSUME "HRSS" \in Schemes, NEW a \in [Places(NtruN) -> 0 .. 2]
  PROVE  /\ \A k \in Places(NtruN) : Hrss!Quotient(a)[k] \in 0 .. 2
         /\ Hrss!Quotient(a)[NtruN - 1] = 0
<1>1. NtruN \in Nat /\ NtruN > 2 /\ Hrss!Exps = Places(NtruN)
  BY HrssFacts
<1>2. \A k \in Places(NtruN) : a[k] \in Int
  OBVIOUS
<1>3. PICK t \in Int : t = 3 - (NtruN % 3)
  BY <1>1
<1>4. DEFINE z(i) == ((i - 3) * t) % 3
             Rest(c) == Hrss!Sum([i \in 3 .. NtruN - 1 |-> a[i] * (z(i) + c)])
             Far(i) == Hrss!Sum([j \in (i % 3) + 1 .. i |-> a[j]])
<1>5. ASSUME NEW i \in Int PROVE z(i) \in Int
  <2>1. PICK y \in Int : y = (i - 3) * t
    OBVIOUS
  <2>2. y % 3 \in Int
    OBVIOUS
  <2>3. QED
    BY <2>1, <2>2
<1>6. ASSUME NEW c \in Int PROVE Rest(c) \in Int
  <2>1. PICK f : f = [i \in 3 .. NtruN - 1 |-> a[i] * (z(i) + c)]
    OBVIOUS
  <2>2. IsFiniteSet(3 .. NtruN - 1)
    <3>1. 3 \in Int /\ NtruN - 1 \in Int
      BY <1>1
    <3>2. QED
      BY <3>1, FS_Interval
  <2>3. ASSUME NEW i \in 3 .. NtruN - 1 PROVE f[i] \in Int
    <3>1. i \in Places(NtruN) /\ i \in Int
      BY <1>1 DEF Places
    <3>2. a[i] \in Int /\ z(i) \in Int
      BY <1>2, <1>5, <3>1
    <3>3. PICK x \in Int, y \in Int : x = a[i] /\ y = z(i)
      BY <3>2
    <3>4. x * (y + c) \in Int
      OBVIOUS
    <3>5. QED
      BY <2>1, <3>3, <3>4
  <2>4. SumFunctionOnSet(f, 3 .. NtruN - 1) \in Int
    BY <2>2, <2>3, SumType
  <2>5. Rest(c) = SumFunctionOnSet(f, DOMAIN f)
    BY <2>1, HrssSums DEF Hrss!Sum
  <2>6. QED
    BY <2>1, <2>4, <2>5
<1>7. ASSUME NEW i \in Places(NtruN) PROVE Far(i) \in Int
  <2>1. PICK f : f = [j \in (i % 3) + 1 .. i |-> a[j]]
    OBVIOUS
  <2>2. i \in Nat /\ (i % 3) + 1 \in Int
    BY <1>1 DEF Places
  <2>3. IsFiniteSet((i % 3) + 1 .. i)
    <3>1. PICK x \in Int, y \in Int : x = (i % 3) + 1 /\ y = i
      BY <2>2
    <3>2. IsFiniteSet(x .. y)
      BY FS_Interval
    <3>3. QED
      BY <3>1, <3>2
  <2>4. ASSUME NEW j \in (i % 3) + 1 .. i PROVE f[j] \in Int
    <3>1. (i % 3) + 1 >= 1
      BY <2>2
    <3>2. j \in Places(NtruN)
      BY <1>1, <2>2, <3>1 DEF Places
    <3>3. QED
      BY <1>2, <2>1, <3>2
  <2>5. SumFunctionOnSet(f, (i % 3) + 1 .. i) \in Int
    BY <2>3, <2>4, SumType
  <2>6. Far(i) = SumFunctionOnSet(f, DOMAIN f)
    BY <2>1, HrssSums DEF Hrss!Sum
  <2>7. QED
    BY <2>1, <2>5, <2>6
<1>8. PICK first : first = <<a[0] * (2 - t) + a[2] * t + Rest(2 * t),
                             a[1] * (2 - t) + Rest(t) + a[0] * (z(NtruN) + t),
                             a[2] * (2 - t) + Rest(0) + a[0] * z(NtruN) + a[1] * (z(NtruN) + t)>>
  OBVIOUS
<1>9. first[1] \in Int /\ first[2] \in Int /\ first[3] \in Int
  <2>1. 0 \in Places(NtruN) /\ 1 \in Places(NtruN) /\ 2 \in Places(NtruN)
    BY <1>1 DEF Places
  <2>2. PICK x \in Int, y \in Int, w \in Int : x = a[0] /\ y = a[1] /\ w = a[2]
    BY <1>2, <2>1
  <2>3. 2 * t \in Int /\ 0 \in Int /\ NtruN \in Int
    BY <1>1
  <2>4. Rest(2 * t) \in Int /\ Rest(t) \in Int /\ Rest(0) \in Int /\ z(NtruN) \in Int
    BY <1>5, <1>6, <2>3
  <2>5. PICK r2 \in Int, r1 \in Int, r0 \in Int, s \in Int :
          r2 = Rest(2 * t) /\ r1 = Rest(t) /\ r0 = Rest(0) /\ s = z(NtruN)
    BY <2>4
  <2>6. first = <<x * (2 - t) + w * t + r2, y * (2 - t) + r1 + x * (s + t), w * (2 - t) + r0 + x * s + y * (s + t)>>
    BY <1>8, <2>2, <2>5
  <2>7. /\ x * (2 - t) + w * t + r2 \in Int /\ y * (2 - t) + r1 + x * (s + t) \in Int
        /\ w * (2 - t) + r0 + x * s + y * (s + t) \in Int
    OBVIOUS
  <2>8. QED
    BY <2>6, <2>7
<1>10. PICK p : p = [i \in Places(NtruN) |-> first[(i % 3) + 1] + 2 * Far(i)]
  OBVIOUS
<1>11. ASSUME NEW i \in Places(NtruN) PROVE p[i] \in Int
  <2>1. i \in Nat
    BY <1>1 DEF Places
  <2>2. (i % 3) + 1 \in {1, 2, 3}
    BY <2>1
  <2>3. first[(i % 3) + 1] \in Int
    BY <1>9, <2>2
  <2>4. PICK x \in Int, y \in Int : x = first[(i % 3) + 1] /\ y = Far(i)
    BY <1>7, <2>3
  <2>5. x + 2 * y \in Int
    OBVIOUS
  <2>6. QED
    BY <1>10, <2>4, <2>5
<1>12. Hrss!Quotient(a) = Hrss!ModPhi(p, 3)
  BY <1>1, <1>3, <1>8, <1>10 DEF Hrss!Quotient
<1>13. Hrss!ModPhi(p, 3) = [k \in Places(NtruN) |-> (p[k] - p[NtruN - 1]) % 3]
  BY <1>1 DEF Hrss!ModPhi, Hrss!Value
<1>14. NtruN - 1 \in Places(NtruN)
  BY <1>1 DEF Places
<1>15. PICK l \in Int : l = p[NtruN - 1]
  BY <1>11, <1>14
<1>16. ASSUME NEW k \in Places(NtruN) PROVE Hrss!Quotient(a)[k] \in 0 .. 2
  <2>1. PICK x \in Int : x = p[k]
    BY <1>11
  <2>2. (x - l) % 3 \in 0 .. 2
    OBVIOUS
  <2>3. QED
    BY <1>12, <1>13, <1>15, <2>1, <2>2
<1>17. Hrss!Quotient(a)[NtruN - 1] = 0
  <2>1. (l - l) % 3 = 0
    OBVIOUS
  <2>2. QED
    BY <1>12, <1>13, <1>14, <1>15, <2>1
<1>18. QED
  BY <1>16, <1>17

LEMMA HrssLift ==
  ASSUME "HRSS" \in Schemes, NEW m \in Hrss!Ternary
  PROVE  /\ m \in [Places(NtruN) -> 0 .. 2]
         /\ Integral(NtruN, Hrss!Lift(m)) /\ Cong(Hrss!Q, Total(NtruN, Hrss!Lift(m)), 0)
<1>1. /\ NtruN \in Nat /\ NtruN > 2 /\ Hrss!Q \in Nat /\ Hrss!Q > 0 /\ Hrss!Exps = Places(NtruN)
  BY HrssFacts
<1>2. m \in [Places(NtruN) -> 0 .. 2]
  BY <1>1 DEF Hrss!Ternary
<1>3. PICK c : c = Hrss!Quotient(m)
  OBVIOUS
<1>4. (\A k \in Places(NtruN) : c[k] \in 0 .. 2) /\ c[NtruN - 1] = 0
  BY <1>2, <1>3, HrssQuotient
<1>5. PICK b : b = TritsIn(NtruN, Hrss!Q, c)
  OBVIOUS
<1>6. Integral(NtruN, b) /\ b[NtruN - 1] = 0
  <2>1. NtruN - 1 \in Places(NtruN)
    BY <1>1 DEF Places
  <2>2. \A k \in Places(NtruN) : b[k] = (IF c[k] = 2 THEN Hrss!Q - 1 ELSE c[k]) /\ c[k] \in Int
    BY <1>4, <1>5 DEF TritsIn
  <2>3. Hrss!Q - 1 \in Int
    BY <1>1
  <2>4. QED
    BY <1>4, <2>1, <2>2, <2>3 DEF Integral
<1>7. Hrss!Lift(m) = Difference(NtruN, Hrss!Q, b)
  BY <1>1, <1>3, <1>5, HrssOperators DEF Hrss!Lift, Hrss!LiftHrss, Difference
<1>8. QED
  BY <1>1, <1>2, <1>6, <1>7, DifferenceTotal

\* A packed ciphertext of NTRU, sent or altered.
NtruShaped(n, q, c) ==
  c = [core |-> c.core, pad |-> c.pad] /\ c.core \in [0 .. n - 2 -> 0 .. q - 1]

LEMMA HpsBinds ==
  ASSUME "HPS" \in Schemes, NEW key, Hps!HalvesInvert(key), NEW y \in Hps!Pairs, NEW prf,
         NEW c, NtruShaped(NtruN, Hps!Q, c),
         Hps!Decapsulate(key, prf, c) = Hps!Encapsulate(key, y).ss
  PROVE  c = Hps!Encapsulate(key, y).c
<1>1. /\ NtruN \in Nat /\ NtruN > 2 /\ Hps!Q \in Nat /\ Hps!Q > 3
      /\ Hps!Exps = Places(NtruN) /\ Hps!Packed = 0 .. NtruN - 2
  BY HpsFacts
<1>2. PICK u \in Int : Cong(Hps!Q, NtruN * u, 1)
  BY HpsFacts
<1>3. PICK h, g, core : h = key.h /\ g = key.hinv /\ core = c.core
  OBVIOUS
<1>4. /\ h \in [0 .. NtruN - 2 -> 0 .. Hps!Q - 1] /\ g \in [0 .. NtruN - 2 -> 0 .. Hps!Q - 1]
      /\ core \in [0 .. NtruN - 2 -> 0 .. Hps!Q - 1]
      /\ Hps!SqMul(Hps!SumZero(h), Hps!Padded(g)) = Hps!One
  BY <1>1, <1>3 DEF Hps!HalvesInvert, NtruShaped
<1>5. PICK v, w : v = Hps!SumZero(core) /\ w = Hps!SumZero(h)
  OBVIOUS
<1>6. v = Closed(NtruN, Hps!Q, core) /\ w = Closed(NtruN, Hps!Q, h)
  BY <1>4, <1>5, HpsOperators
<1>7. PhiMod(NtruN, Hps!Q, Conv(NtruN, Closed(NtruN, Hps!Q, h), Padding(NtruN, g))) = Unit(NtruN)
  BY <1>4, <1>5, <1>6, HpsOperators
<1>8. PICK m : m = Hps!S3Mul(Hps!RqToS3(Hps!RqMul(v, Hps!Z3ToZq(key.f))), key.finv)
  OBVIOUS
<1>9. PICK lift : lift = Hps!Lift(m)
  OBVIOUS
<1>10. PICK s : s = Hps!SqMul([k \in Hps!Exps |-> v[k] - lift[k]], Hps!Padded(g))
  OBVIOUS
<1>11. Hps!Decrypt(key, c) = [ok |-> Hps!CheckCiphertext(c) /\ Hps!CheckM(m) /\ Hps!CheckR(s),
                              x |-> [r |-> Hps!ZqToZ3(s), m |-> m]]
  BY <1>3, <1>5, <1>8, <1>9, <1>10 DEF Hps!Decrypt
<1>12. Hps!Decapsulate(key, prf, c) = IF Hps!Decrypt(key, c).ok THEN <<"k", Hps!Decrypt(key, c).x>>
                                      ELSE <<"prf", prf, c>>
  BY DEF Hps!Decapsulate
<1>13. Hps!Encapsulate(key, y).ss = <<"k", y>> /\ Hps!Encapsulate(key, y).c = Hps!Encrypt(key, y)
  BY DEF Hps!Encapsulate
<1>14. PICK d : d = Hps!Decrypt(key, c)
  OBVIOUS
<1>29. d.ok /\ d.x = y
  <2>1. (IF d.ok THEN <<"k", d.x>> ELSE <<"prf", prf, c>>) = <<"k", y>>
    BY <1>12, <1>13, <1>14
  <2>2. CASE d.ok
    <3>1. <<"k", d.x>> = <<"k", y>>
      BY <2>1, <2>2
    <3>2. QED
      BY <2>2, <3>1
  <2>3. CASE ~d.ok
    <3>1. <<"prf", prf, c>> = <<"k", y>>
      BY <2>1, <2>3
    <3>2. QED
      BY <3>1
  <2>4. QED
    BY <2>2, <2>3
<1>15. Hps!CheckCiphertext(c) /\ Hps!CheckR(s) /\ y.r = Hps!ZqToZ3(s) /\ y.m = m
  <2>1. d.ok = (Hps!CheckCiphertext(c) /\ Hps!CheckM(m) /\ Hps!CheckR(s))
    BY <1>11, <1>14
  <2>2. d.x = [r |-> Hps!ZqToZ3(s), m |-> m]
    BY <1>11, <1>14
  <2>3. Hps!CheckCiphertext(c) /\ Hps!CheckR(s)
    BY <1>29, <2>1
  <2>4. QED
    BY <1>29, <2>2, <2>3
<1>16. y.r \in [Places(NtruN) -> 0 .. 2] /\ y.m \in Hps!FixedType
  BY <1>1 DEF Hps!Pairs, Hps!Ternary
<1>17. Integral(NtruN, lift) /\ Cong(Hps!Q, Total(NtruN, lift), 0)
  BY <1>9, <1>15, <1>16, HpsLift
<1>18. s[NtruN - 1] = 0 /\ \A k \in 0 .. NtruN - 2 : s[k] \in {0, 1, Hps!Q - 1}
  BY <1>1, <1>15 DEF Hps!CheckR
<1>19. s = PhiMod(NtruN, Hps!Q, Conv(NtruN, Minus(NtruN, Closed(NtruN, Hps!Q, core), lift), Padding(NtruN, g)))
  <2>1. [k \in Hps!Exps |-> v[k] - lift[k]] = Minus(NtruN, Closed(NtruN, Hps!Q, core), lift)
    BY <1>1, <1>6 DEF Minus
  <2>2. QED
    BY <1>10, <2>1, HpsOperators
<1>20. PICK r : r = y.r
  OBVIOUS
<1>21. r \in [Places(NtruN) -> 0 .. 2] /\ r = TritsOut(NtruN, Hps!Q, s)
  BY <1>15, <1>16, <1>20, HpsOperators
<1>22. core = [k \in 0 .. NtruN - 2 |->
                 ((Conv(NtruN, TritsIn(NtruN, Hps!Q, r), Closed(NtruN, Hps!Q, h))[k] % Hps!Q) + lift[k]) % Hps!Q]
  <2>1. NtruFits(NtruN, Hps!Q, u, h, g, lift, r, core, s)
    BY <1>1, <1>2, <1>4, <1>7, <1>17, <1>18, <1>19, <1>21 DEF NtruFits
  <2>2. QED
    BY <2>1, NtruSent
<1>23. PICK prod : prod = Hps!RqMul(Hps!Z3ToZq(r), w)
  OBVIOUS
<1>24. prod = [k \in Places(NtruN) |->
                 Conv(NtruN, TritsIn(NtruN, Hps!Q, r), Closed(NtruN, Hps!Q, h))[k] % Hps!Q]
  BY <1>6, <1>23, HpsOperators
<1>25. Hps!Encrypt(key, y) = [core |-> Hps!ToBytes([k \in Hps!Exps |-> prod[k] + lift[k]]), pad |-> 0]
  BY <1>3, <1>5, <1>9, <1>15, <1>20, <1>23 DEF Hps!Encrypt
<1>26. Hps!ToBytes([k \in Hps!Exps |-> prod[k] + lift[k]]) = core
  <2>1. \A k \in 0 .. NtruN - 2 : k \in Places(NtruN)
    BY <1>1 DEF Places
  <2>2. Hps!ToBytes([k \in Hps!Exps |-> prod[k] + lift[k]])
          = [k \in 0 .. NtruN - 2 |-> (prod[k] + lift[k]) % Hps!Q]
    BY <1>1, <2>1 DEF Hps!ToBytes
  <2>3. QED
    BY <1>22, <1>24, <2>1, <2>2
<1>27. c = [core |-> core, pad |-> 0]
  <2>1. c.pad = 0 /\ c = [core |-> c.core, pad |-> c.pad]
    BY <1>15 DEF Hps!CheckCiphertext, NtruShaped
  <2>2. QED
    BY <1>3, <2>1
<1>28. QED
  BY <1>13, <1>25, <1>26, <1>27

LEMMA HrssBinds ==
  ASSUME "HRSS" \in Schemes, NEW key, Hrss!HalvesInvert(key), NEW y \in Hrss!Pairs, NEW prf,
         NEW c, NtruShaped(NtruN, Hrss!Q, c),
         Hrss!Decapsulate(key, prf, c) = Hrss!Encapsulate(key, y).ss
  PROVE  c = Hrss!Encapsulate(key, y).c
<1>1. /\ NtruN \in Nat /\ NtruN > 2 /\ Hrss!Q \in Nat /\ Hrss!Q > 3
      /\ Hrss!Exps = Places(NtruN) /\ Hrss!Packed = 0 .. NtruN - 2
  BY HrssFacts
<1>2. PICK u \in Int : Cong(Hrss!Q, NtruN * u, 1)
  BY HrssFacts
<1>3. PICK h, g, core : h = key.h /\ g = key.hinv /\ core = c.core
  OBVIOUS
<1>4. /\ h \in [0 .. NtruN - 2 -> 0 .. Hrss!Q - 1] /\ g \in [0 .. NtruN - 2 -> 0 .. Hrss!Q - 1]
      /\ core \in [0 .. NtruN - 2 -> 0 .. Hrss!Q - 1]
      /\ Hrss!SqMul(Hrss!SumZero(h), Hrss!Padded(g)) = Hrss!One
  BY <1>1, <1>3 DEF Hrss!HalvesInvert, NtruShaped
<1>5. PICK v, w : v = Hrss!SumZero(core) /\ w = Hrss!SumZero(h)
  OBVIOUS
<1>6. v = Closed(NtruN, Hrss!Q, core) /\ w = Closed(NtruN, Hrss!Q, h)
  BY <1>4, <1>5, HrssOperators
<1>7. PhiMod(NtruN, Hrss!Q, Conv(NtruN, Closed(NtruN, Hrss!Q, h), Padding(NtruN, g))) = Unit(NtruN)
  BY <1>4, <1>5, <1>6, HrssOperators
<1>8. PICK m : m = Hrss!S3Mul(Hrss!RqToS3(Hrss!RqMul(v, Hrss!Z3ToZq(key.f))), key.finv)
  OBVIOUS
<1>9. PICK lift : lift = Hrss!Lift(m)
  OBVIOUS
<1>10. PICK s : s = Hrss!SqMul([k \in Hrss!Exps |-> v[k] - lift[k]], Hrss!Padded(g))
  OBVIOUS
<1>11. Hrss!Decrypt(key, c) = [ok |-> Hrss!CheckCiphertext(c) /\ Hrss!CheckM(m) /\ Hrss!CheckR(s),
                              x |-> [r |-> Hrss!ZqToZ3(s), m |-> m]]
  BY <1>3, <1>5, <1>8, <1>9, <1>10 DEF Hrss!Decrypt
<1>12. Hrss!Decapsulate(key, prf, c) = IF Hrss!Decrypt(key, c).ok THEN <<"k", Hrss!Decrypt(key, c).x>>
                                      ELSE <<"prf", prf, c>>
  BY DEF Hrss!Decapsulate
<1>13. Hrss!Encapsulate(key, y).ss = <<"k", y>> /\ Hrss!Encapsulate(key, y).c = Hrss!Encrypt(key, y)
  BY DEF Hrss!Encapsulate
<1>14. PICK d : d = Hrss!Decrypt(key, c)
  OBVIOUS
<1>29. d.ok /\ d.x = y
  <2>1. (IF d.ok THEN <<"k", d.x>> ELSE <<"prf", prf, c>>) = <<"k", y>>
    BY <1>12, <1>13, <1>14
  <2>2. CASE d.ok
    <3>1. <<"k", d.x>> = <<"k", y>>
      BY <2>1, <2>2
    <3>2. QED
      BY <2>2, <3>1
  <2>3. CASE ~d.ok
    <3>1. <<"prf", prf, c>> = <<"k", y>>
      BY <2>1, <2>3
    <3>2. QED
      BY <3>1
  <2>4. QED
    BY <2>2, <2>3
<1>15. Hrss!CheckCiphertext(c) /\ Hrss!CheckR(s) /\ y.r = Hrss!ZqToZ3(s) /\ y.m = m
  <2>1. d.ok = (Hrss!CheckCiphertext(c) /\ Hrss!CheckM(m) /\ Hrss!CheckR(s))
    BY <1>11, <1>14
  <2>2. d.x = [r |-> Hrss!ZqToZ3(s), m |-> m]
    BY <1>11, <1>14
  <2>3. Hrss!CheckCiphertext(c) /\ Hrss!CheckR(s)
    BY <1>29, <2>1
  <2>4. QED
    BY <1>29, <2>2, <2>3
<1>16. y.r \in [Places(NtruN) -> 0 .. 2] /\ y.m \in Hrss!Ternary
  BY <1>1 DEF Hrss!Pairs, Hrss!Ternary
<1>17. Integral(NtruN, lift) /\ Cong(Hrss!Q, Total(NtruN, lift), 0)
  BY <1>9, <1>15, <1>16, HrssLift
<1>18. s[NtruN - 1] = 0 /\ \A k \in 0 .. NtruN - 2 : s[k] \in {0, 1, Hrss!Q - 1}
  BY <1>1, <1>15 DEF Hrss!CheckR
<1>19. s = PhiMod(NtruN, Hrss!Q, Conv(NtruN, Minus(NtruN, Closed(NtruN, Hrss!Q, core), lift), Padding(NtruN, g)))
  <2>1. [k \in Hrss!Exps |-> v[k] - lift[k]] = Minus(NtruN, Closed(NtruN, Hrss!Q, core), lift)
    BY <1>1, <1>6 DEF Minus
  <2>2. QED
    BY <1>10, <2>1, HrssOperators
<1>20. PICK r : r = y.r
  OBVIOUS
<1>21. r \in [Places(NtruN) -> 0 .. 2] /\ r = TritsOut(NtruN, Hrss!Q, s)
  BY <1>15, <1>16, <1>20, HrssOperators
<1>22. core = [k \in 0 .. NtruN - 2 |->
                 ((Conv(NtruN, TritsIn(NtruN, Hrss!Q, r), Closed(NtruN, Hrss!Q, h))[k] % Hrss!Q) + lift[k]) % Hrss!Q]
  <2>1. NtruFits(NtruN, Hrss!Q, u, h, g, lift, r, core, s)
    BY <1>1, <1>2, <1>4, <1>7, <1>17, <1>18, <1>19, <1>21 DEF NtruFits
  <2>2. QED
    BY <2>1, NtruSent
<1>23. PICK prod : prod = Hrss!RqMul(Hrss!Z3ToZq(r), w)
  OBVIOUS
<1>24. prod = [k \in Places(NtruN) |->
                 Conv(NtruN, TritsIn(NtruN, Hrss!Q, r), Closed(NtruN, Hrss!Q, h))[k] % Hrss!Q]
  BY <1>6, <1>23, HrssOperators
<1>25. Hrss!Encrypt(key, y) = [core |-> Hrss!ToBytes([k \in Hrss!Exps |-> prod[k] + lift[k]]), pad |-> 0]
  BY <1>3, <1>5, <1>9, <1>15, <1>20, <1>23 DEF Hrss!Encrypt
<1>26. Hrss!ToBytes([k \in Hrss!Exps |-> prod[k] + lift[k]]) = core
  <2>1. \A k \in 0 .. NtruN - 2 : k \in Places(NtruN)
    BY <1>1 DEF Places
  <2>2. Hrss!ToBytes([k \in Hrss!Exps |-> prod[k] + lift[k]])
          = [k \in 0 .. NtruN - 2 |-> (prod[k] + lift[k]) % Hrss!Q]
    BY <1>1, <2>1 DEF Hrss!ToBytes
  <2>3. QED
    BY <1>22, <1>24, <2>1, <2>2
<1>27. c = [core |-> core, pad |-> 0]
  <2>1. c.pad = 0 /\ c = [core |-> c.core, pad |-> c.pad]
    BY <1>15 DEF Hrss!CheckCiphertext, NtruShaped
  <2>2. QED
    BY <1>3, <2>1
<1>28. QED
  BY <1>13, <1>25, <1>26, <1>27

LEMMA HpsSent ==
  ASSUME "HPS" \in Schemes, NEW key, Hps!HalvesInvert(key), NEW y \in Hps!Pairs
  PROVE  NtruShaped(NtruN, Hps!Q, Hps!Encapsulate(key, y).c)
<1>1. /\ NtruN \in Nat /\ NtruN > 0 /\ NtruN > 2 /\ Hps!Q \in Nat /\ Hps!Q > 0
      /\ Hps!Exps = Places(NtruN) /\ Hps!Packed = 0 .. NtruN - 2
  BY HpsFacts
<1>2. PICK h, w, m, r : h = key.h /\ w = Hps!SumZero(h) /\ m = y.m /\ r = y.r
  OBVIOUS
<1>3. h \in [0 .. NtruN - 2 -> 0 .. Hps!Q - 1]
  BY <1>1, <1>2 DEF Hps!HalvesInvert
<1>4. w = Closed(NtruN, Hps!Q, h)
  BY <1>2, <1>3, HpsOperators
<1>5. r \in [Places(NtruN) -> 0 .. 2] /\ m \in Hps!FixedType
  BY <1>1, <1>2 DEF Hps!Pairs, Hps!Ternary
<1>6. PICK lift, p : lift = Hps!Lift(m) /\ p = TritsIn(NtruN, Hps!Q, r)
  OBVIOUS
<1>7. Integral(NtruN, lift)
  BY <1>5, <1>6, HpsLift
<1>8. Integral(NtruN, p)
  <2>1. \A k \in Places(NtruN) : p[k] = (IF r[k] = 2 THEN Hps!Q - 1 ELSE r[k]) /\ r[k] \in Int
    BY <1>5, <1>6 DEF TritsIn
  <2>2. QED
    BY <1>1, <2>1 DEF Integral
<1>9. Integral(NtruN, w)
  <2>1. \A k \in 0 .. NtruN - 2 : h[k] \in Int
    BY <1>1, <1>3
  <2>2. NtruN > 1
    BY <1>1
  <2>3. QED
    BY <1>1, <1>4, <2>1, <2>2, ClosedTotal
<1>10. PICK e : e = Conv(NtruN, p, w)
  OBVIOUS
<1>11. Integral(NtruN, e)
  BY <1>1, <1>8, <1>9, <1>10, ConvType
<1>12. PICK prod : prod = Hps!RqMul(Hps!Z3ToZq(r), w)
  OBVIOUS
<1>13. prod = [k \in Places(NtruN) |-> e[k] % Hps!Q]
  BY <1>6, <1>10, <1>12, HpsOperators
<1>14. Hps!Encapsulate(key, y).c
         = [core |-> Hps!ToBytes([k \in Hps!Exps |-> prod[k] + lift[k]]), pad |-> 0]
  BY <1>2, <1>6, <1>12 DEF Hps!Encapsulate, Hps!Encrypt
<1>15. PICK core : core = Hps!ToBytes([k \in Hps!Exps |-> prod[k] + lift[k]])
  OBVIOUS
<1>16. core \in [0 .. NtruN - 2 -> 0 .. Hps!Q - 1]
  <2>1. \A k \in 0 .. NtruN - 2 : k \in Places(NtruN)
    BY <1>1 DEF Places
  <2>2. core = [k \in 0 .. NtruN - 2 |-> (prod[k] + lift[k]) % Hps!Q]
    BY <1>1, <1>15, <2>1 DEF Hps!ToBytes
  <2>3. ASSUME NEW k \in 0 .. NtruN - 2 PROVE (prod[k] + lift[k]) % Hps!Q \in 0 .. Hps!Q - 1
    <3>1. PICK x \in Int, z \in Int, q \in Nat : x = e[k] /\ z = lift[k] /\ q = Hps!Q
      BY <1>1, <1>7, <1>11, <2>1 DEF Integral
    <3>2. PICK b \in Int : b = x % q
      BY <1>1, <3>1
    <3>3. (b + z) % q \in 0 .. q - 1
      BY <1>1, <3>1
    <3>4. prod[k] = b
      BY <1>13, <2>1, <3>1, <3>2
    <3>5. QED
      BY <3>1, <3>3, <3>4
  <2>4. QED
    BY <2>2, <2>3
<1>17. QED
  BY <1>14, <1>15, <1>16 DEF NtruShaped

LEMMA HrssSent ==
  ASSUME "HRSS" \in Schemes, NEW key, Hrss!HalvesInvert(key), NEW y \in Hrss!Pairs
  PROVE  NtruShaped(NtruN, Hrss!Q, Hrss!Encapsulate(key, y).c)
<1>1. /\ NtruN \in Nat /\ NtruN > 0 /\ NtruN > 2 /\ Hrss!Q \in Nat /\ Hrss!Q > 0
      /\ Hrss!Exps = Places(NtruN) /\ Hrss!Packed = 0 .. NtruN - 2
  BY HrssFacts
<1>2. PICK h, w, m, r : h = key.h /\ w = Hrss!SumZero(h) /\ m = y.m /\ r = y.r
  OBVIOUS
<1>3. h \in [0 .. NtruN - 2 -> 0 .. Hrss!Q - 1]
  BY <1>1, <1>2 DEF Hrss!HalvesInvert
<1>4. w = Closed(NtruN, Hrss!Q, h)
  BY <1>2, <1>3, HrssOperators
<1>5. r \in [Places(NtruN) -> 0 .. 2] /\ m \in Hrss!Ternary
  BY <1>1, <1>2 DEF Hrss!Pairs, Hrss!Ternary
<1>6. PICK lift, p : lift = Hrss!Lift(m) /\ p = TritsIn(NtruN, Hrss!Q, r)
  OBVIOUS
<1>7. Integral(NtruN, lift)
  BY <1>5, <1>6, HrssLift
<1>8. Integral(NtruN, p)
  <2>1. \A k \in Places(NtruN) : p[k] = (IF r[k] = 2 THEN Hrss!Q - 1 ELSE r[k]) /\ r[k] \in Int
    BY <1>5, <1>6 DEF TritsIn
  <2>2. QED
    BY <1>1, <2>1 DEF Integral
<1>9. Integral(NtruN, w)
  <2>1. \A k \in 0 .. NtruN - 2 : h[k] \in Int
    BY <1>1, <1>3
  <2>2. NtruN > 1
    BY <1>1
  <2>3. QED
    BY <1>1, <1>4, <2>1, <2>2, ClosedTotal
<1>10. PICK e : e = Conv(NtruN, p, w)
  OBVIOUS
<1>11. Integral(NtruN, e)
  BY <1>1, <1>8, <1>9, <1>10, ConvType
<1>12. PICK prod : prod = Hrss!RqMul(Hrss!Z3ToZq(r), w)
  OBVIOUS
<1>13. prod = [k \in Places(NtruN) |-> e[k] % Hrss!Q]
  BY <1>6, <1>10, <1>12, HrssOperators
<1>14. Hrss!Encapsulate(key, y).c
         = [core |-> Hrss!ToBytes([k \in Hrss!Exps |-> prod[k] + lift[k]]), pad |-> 0]
  BY <1>2, <1>6, <1>12 DEF Hrss!Encapsulate, Hrss!Encrypt
<1>15. PICK core : core = Hrss!ToBytes([k \in Hrss!Exps |-> prod[k] + lift[k]])
  OBVIOUS
<1>16. core \in [0 .. NtruN - 2 -> 0 .. Hrss!Q - 1]
  <2>1. \A k \in 0 .. NtruN - 2 : k \in Places(NtruN)
    BY <1>1 DEF Places
  <2>2. core = [k \in 0 .. NtruN - 2 |-> (prod[k] + lift[k]) % Hrss!Q]
    BY <1>1, <1>15, <2>1 DEF Hrss!ToBytes
  <2>3. ASSUME NEW k \in 0 .. NtruN - 2 PROVE (prod[k] + lift[k]) % Hrss!Q \in 0 .. Hrss!Q - 1
    <3>1. PICK x \in Int, z \in Int, q \in Nat : x = e[k] /\ z = lift[k] /\ q = Hrss!Q
      BY <1>1, <1>7, <1>11, <2>1 DEF Integral
    <3>2. PICK b \in Int : b = x % q
      BY <1>1, <3>1
    <3>3. (b + z) % q \in 0 .. q - 1
      BY <1>1, <3>1
    <3>4. prod[k] = b
      BY <1>13, <2>1, <3>1, <3>2
    <3>5. QED
      BY <3>1, <3>3, <3>4
  <2>4. QED
    BY <2>2, <2>3
<1>17. QED
  BY <1>14, <1>15, <1>16 DEF NtruShaped

\* A place changed and reduced leaves a ciphertext a ciphertext.
LEMMA NtruAltered ==
  ASSUME NEW n, NEW q \in Nat, q > 0, NEW c, NtruShaped(n, q, c), NEW a \in Off(c.core, q, {1, -1}), NEW p
  PROVE  NtruShaped(n, q, [c EXCEPT !.core = a]) /\ NtruShaped(n, q, [c EXCEPT !.pad = p])
<1>1. PICK f, b : f = c.core /\ b = c.pad
  OBVIOUS
<1>2. c = [core |-> f, pad |-> b] /\ f \in [0 .. n - 2 -> 0 .. q - 1]
  BY <1>1 DEF NtruShaped
<1>3. PICK i \in DOMAIN f : \E d \in {1, -1} : a = [f EXCEPT ![i] = (@ + d) % q]
  BY <1>1 DEF Off
<1>4. PICK d \in {1, -1} : a = [f EXCEPT ![i] = (@ + d) % q]
  BY <1>3
<1>5. (f[i] + d) % q \in 0 .. q - 1
  <2>1. f[i] \in Int /\ d \in Int
    BY <1>2
  <2>2. PICK x \in Int : x = f[i] + d
    BY <2>1
  <2>3. x % q \in 0 .. q - 1
    OBVIOUS
  <2>4. QED
    BY <2>2, <2>3
<1>6. a \in [0 .. n - 2 -> 0 .. q - 1]
  BY <1>2, <1>4, <1>5
<1>7. [c EXCEPT !.core = a] = [core |-> a, pad |-> b] /\ [c EXCEPT !.pad = p] = [core |-> f, pad |-> p]
  BY <1>2
<1>8. QED
  BY <1>2, <1>6, <1>7 DEF NtruShaped

-----------------------------------------------------------------------------
(***************************************************************************)
(* The schemes that encrypt again: what is hashed names the ciphertext, or *)
(* what is compared is made from what is hashed.                           *)
(***************************************************************************)
MlAgrees(sk, ks, h, z, c, cs, k, x, r) ==
  r = cs[x, k] /\ Ml!Decapsulate(sk, ks[h], h, z, c, cs) = Ml!Encapsulate(ks[k], k, x, r).ss

LEMMA MlBinds ==
  ASSUME NEW sk, NEW ks, NEW h, NEW z, NEW c, NEW cs, NEW k, NEW x, NEW r,
         MlAgrees(sk, ks, h, z, c, cs, k, x, r)
  PROVE  h = k /\ c = Ml!Encapsulate(ks[k], k, x, r).c
<1>1. PICK m : m = Ml!KpkeDecrypt(sk, c)
  OBVIOUS
<1>2. (IF Ml!Reencrypts(ks[h], m, cs[m, h], c) THEN <<"K", m, h>> ELSE <<"J", z, c>>) = <<"K", x, k>>
  BY <1>1 DEF MlAgrees, Ml!Decapsulate, Ml!Encapsulate, Ml!SharedSecret, Ml!Rejection
<1>3. Ml!Reencrypts(ks[h], m, cs[m, h], c) /\ m = x /\ h = k
  <2>1. CASE Ml!Reencrypts(ks[h], m, cs[m, h], c)
    <3>1. <<"K", m, h>> = <<"K", x, k>>
      BY <1>2, <2>1
    <3>2. QED
      BY <2>1, <3>1
  <2>2. CASE ~Ml!Reencrypts(ks[h], m, cs[m, h], c)
    <3>1. <<"J", z, c>> = <<"K", x, k>>
      BY <1>2, <2>2
    <3>2. QED
      BY <3>1
  <2>3. QED
    BY <2>1, <2>2
<1>4. QED
  BY <1>3, Zenon DEF MlAgrees, Ml!Reencrypts, Ml!Encapsulate

LEMMA FrodoBinds ==
  ASSUME NEW sk, NEW ek, NEW h, NEW s, NEW c, NEW cs, NEW kp, NEW k, NEW x, NEW r,
         Fro!Decapsulate(sk, ek, h, s, c, cs) = Fro!Encapsulate(kp, k, x, r).ss
  PROVE  h = k /\ c = Fro!Encapsulate(kp, k, x, r).c
<1>1. PICK mu, d, ok : /\ mu = Fro!Decrypt(sk, c) /\ d = Fro!Encrypt(kp, x, r)
                       /\ ok = Fro!CtVerify(c, Fro!Encrypt(ek, mu, cs[mu, h]))
  OBVIOUS
<1>2. <<c, IF ok THEN <<"k", h, mu>> ELSE <<"s", s>>>> = <<d, <<"k", k, x>>>> /\ Fro!Encapsulate(kp, k, x, r).c = d
  BY <1>1 DEF Fro!Decapsulate, Fro!Encapsulate
<1>3. c = d /\ (IF ok THEN <<"k", h, mu>> ELSE <<"s", s>>) = <<"k", k, x>>
  BY <1>2
<1>4. CASE ok
  <2>1. <<"k", h, mu>> = <<"k", k, x>>
    BY <1>3, <1>4
  <2>2. QED
    BY <1>2, <1>3, <2>1
<1>5. CASE ~ok
  <2>1. <<"s", s>> = <<"k", k, x>>
    BY <1>3, <1>5
  <2>2. QED
    BY <2>1
<1>6. QED
  BY <1>4, <1>5

LEMMA PrimeBinds ==
  ASSUME NEW sk, NEW ek, NEW h, NEW rho, NEW c, NEW kp, NEW k, NEW x,
         Prime!Decapsulate(sk, ek, h, rho, c) = Prime!Encapsulate(kp, k, x).ss
  PROVE  h = k /\ c = Prime!Encapsulate(kp, k, x).c
<1>1. PICK r, d : r = Prime!Decrypt(sk, c.core) /\ d = Prime!Hide(kp, k, x)
  OBVIOUS
<1>2. /\ (IF c = Prime!Hide(ek, h, r) THEN <<1, <<3, r>>, c>> ELSE <<0, <<3, rho>>, c>>) = <<1, <<3, x>>, d>>
      /\ Prime!Encapsulate(kp, k, x).c = d
  BY <1>1 DEF Prime!Decapsulate, Prime!Encapsulate, Prime!HashSession, Prime!Same
<1>3. CASE c = Prime!Hide(ek, h, r)
  <2>1. <<1, <<3, r>>, c>> = <<1, <<3, x>>, d>>
    BY <1>2, <1>3
  <2>2. c = d
    BY <2>1
  <2>3. c.confirm = <<2, <<3, r>>, h>>
    BY <1>3 DEF Prime!Hide
  <2>4. d.confirm = <<2, <<3, x>>, k>>
    BY <1>1 DEF Prime!Hide
  <2>5. h = k
    BY <2>2, <2>3, <2>4
  <2>6. QED
    BY <1>2, <2>2, <2>5
<1>4. CASE ~(c = Prime!Hide(ek, h, r))
  <2>1. <<0, <<3, rho>>, c>> = <<1, <<3, x>>, d>>
    BY <1>2, <1>4
  <2>2. QED
    BY <2>1
<1>5. QED
  BY <1>3, <1>4

-----------------------------------------------------------------------------
(***************************************************************************)
(* Rounding.  Compression to p buckets and back moves a residue by at most *)
(* half a bucket and half a unit.                                          *)
(***************************************************************************)
Squeeze(q, p, x) == ((x * p + q \div 2) \div q) % p
Stretch(q, p, y) == (2 * y * q + p) \div (2 * p)
Around2(q, x, y) == LET r == (x - y) % q IN IF 2 * r > q THEN q - r ELSE r

Moved(q, x, y, e) == y \in Int /\ Cong(q, y, x + e)
HalfBucket(q, p, e) == 2 * p * e <= q + p /\ -(q + p) <= 2 * p * e
BetweenBuckets(q, p, x) == (2 * x * p) % (2 * q) = q

LEMMA HalfOf == ASSUME NEW q \in Nat PROVE q \div 2 \in Nat /\ 2 * (q \div 2) <= q /\ q <= 2 * (q \div 2) + 1
OBVIOUS

LEMMA RoundTrip ==
  ASSUME NEW q \in Nat, q > 0, NEW p \in Nat, p > 0, NEW x \in 0 .. q - 1
  PROVE  \E e \in Int : Moved(q, x, Stretch(q, p, Squeeze(q, p, x)), e) /\ HalfBucket(q, p, e)
<1>1. PICK h \in Nat : h = q \div 2 /\ 2 * h <= q /\ q <= 2 * h + 1
  BY HalfOf
<1>2. PICK xp \in Int : xp = x * p
  OBVIOUS
<1>3. PICK t \in Int, r \in 0 .. q - 1 : (xp + h) \div q = t /\ xp + h = q * t + r
  <2>1. xp + h \in Int
    BY <1>1, <1>2
  <2>2. QED
    BY <2>1, DivMod
<1>4. PICK c \in 0 .. p - 1, j \in Int : t % p = c /\ t = p * j + c
  BY DivMod
<1>5. Squeeze(q, p, x) = c
  BY <1>1, <1>2, <1>3, <1>4 DEF Squeeze
<1>6. PICK cq \in Int : cq = c * q
  OBVIOUS
<1>7. PICK y \in Int, s \in 0 .. 2 * p - 1 : (2 * cq + p) \div (2 * p) = y /\ 2 * cq + p = (2 * p) * y + s
  <2>1. 2 * cq + p \in Int /\ 2 * p \in Nat /\ 2 * p > 0
    BY <1>6
  <2>2. QED
    BY <2>1, DivMod
<1>8. Stretch(q, p, c) = y
  <2>1. 2 * c * q = 2 * cq
    BY <1>6
  <2>2. QED
    BY <1>7, <2>1 DEF Stretch
<1>9. PICK e \in Int, jq \in Int : jq = j * q /\ e = y - x + jq
  OBVIOUS
<1>10. 2 * p * e = q * t + q * t - 2 * xp + p - s
  <2>1. 2 * p * e = 2 * p * y - 2 * p * x + 2 * p * jq
    BY <1>9
  <2>2. 2 * p * x = 2 * xp
    BY <1>2
  <2>3. q * t = q * (p * j) + cq
    <3>1. q * t = q * (p * j) + q * c
      BY <1>4
    <3>2. QED
      BY <1>6, <3>1
  <2>4. 2 * p * jq = 2 * (q * (p * j))
    BY <1>9
  <2>5. 2 * p * y = 2 * cq + p - s
    BY <1>7
  <2>6. PICK u \in Int : u = q * (p * j)
    OBVIOUS
  <2>7. QED
    BY <2>1, <2>2, <2>3, <2>4, <2>5, <2>6
<1>11. 2 * p * e <= q + p /\ -(q + p) <= 2 * p * e
  <2>1. PICK qt \in Int, pe \in Int : qt = q * t /\ pe = 2 * p * e
    OBVIOUS
  <2>2. QED
    BY <1>1, <1>3, <1>10, <1>7, <2>1
<1>12. Moved(q, x, y, e)
  <2>1. y - (x + e) = q * (-j)
    BY <1>9
  <2>2. -j \in Int /\ y \in Int
    BY <1>7
  <2>3. QED
    BY <2>1, <2>2 DEF Moved, Cong
<1>13. HalfBucket(q, p, e)
  BY <1>11 DEF HalfBucket
<1>14. QED
  BY <1>5, <1>8, <1>12, <1>13

LEMMA AroundBound ==
  ASSUME NEW q \in Nat, q > 0, NEW x \in Int, NEW y, NEW e \in Int, Moved(q, x, y, e)
  PROVE  /\ Around2(q, y % q, x) \in Nat
         /\ Around2(q, y % q, x) <= e \/ Around2(q, y % q, x) <= -e
<1>1. PICK r \in 0 .. q - 1, k \in Int : ((y % q) - x) % q = r /\ e = q * k + r
  <2>1. y \in Int /\ Cong(q, y, x + e)
    BY DEF Moved
  <2>2. y % q \in 0 .. q - 1 /\ Cong(q, y % q, y)
    BY <2>1, CongMod
  <2>9. PICK i \in Int : (y % q) - y = q * i
    <3>1. PICK w \in Int : w = y % q
      BY <2>2
    <3>2. Cong(q, w, y)
      BY <2>2, <3>1
    <3>3. PICK i \in Int : w = y + q * i
      BY <3>2 DEF Cong
    <3>4. PICK qi \in Int : qi = q * i
      OBVIOUS
    <3>5. w - y = qi
      BY <2>1, <3>3, <3>4
    <3>6. QED
      BY <3>1, <3>4, <3>5
  <2>10. PICK j \in Int : y - (x + e) = q * j
    BY <2>1 DEF Cong
  <2>3. (y % q) - y = q * i /\ y - (x + e) = q * j
    BY <2>9, <2>10
  <2>4. PICK z \in Int : z = (y % q) - x
    BY <2>2
  <2>5. PICK k \in Int, r \in 0 .. q - 1 : z % q = r /\ z = q * k + r
    BY DivMod
  <2>6. e = q * (k - i - j) + r
    <3>1. PICK iq \in Int, jq \in Int, kq \in Int : iq = q * i /\ jq = q * j /\ kq = q * k
      OBVIOUS
    <3>2. PICK yq \in Int : yq = y % q
      BY <2>2
    <3>3. e = kq - iq - jq + r
      BY <2>1, <2>3, <2>4, <2>5, <3>1, <3>2
    <3>4. q * (k - i - j) = kq - iq - jq
      BY <3>1
    <3>5. QED
      BY <3>3, <3>4
  <2>7. k - i - j \in Int
    OBVIOUS
  <2>8. QED
    BY <2>4, <2>5, <2>6, <2>7
<1>2. Around2(q, y % q, x) = IF 2 * r > q THEN q - r ELSE r
  BY <1>1 DEF Around2
<1>6. PICK qk \in Int : qk = q * k
  OBVIOUS
<1>3. CASE k >= 0
  <2>1. qk >= 0
    BY <1>3, <1>6
  <2>2. r <= e
    BY <1>1, <1>6, <2>1
  <2>3. QED
    BY <1>2, <2>2
<1>4. CASE k < 0
  <2>1. qk <= -q
    BY <1>4, <1>6
  <2>2. q - r <= -e
    BY <1>1, <1>6, <2>1
  <2>3. QED
    BY <1>2, <2>2
<1>5. QED
  BY <1>3, <1>4

\* An odd modulus has no residue half-way between two buckets.
LEMMA OddHalf == ASSUME NEW q \in Nat, q % 2 = 1 PROVE q > 0 /\ \E h \in Nat : q = 2 * h + 1 /\ q \div 2 = h
OBVIOUS

LEMMA NeverHalfWay ==
  ASSUME NEW q \in Nat, q % 2 = 1, NEW x \in Nat, NEW p \in Nat
  PROVE  ~BetweenBuckets(q, p, x)
<1> PICK h \in Nat : q = 2 * h + 1
  BY OddHalf
<1>1. PICK xp \in Nat : xp = x * p /\ 2 * x * p = 2 * xp
  OBVIOUS
<1>2. PICK k \in Int, r \in Int : (2 * xp) % (2 * q) = r /\ 2 * xp = (2 * q) * k + r
  <2>1. 2 * xp \in Int /\ 2 * q \in Nat /\ 2 * q > 0
    BY <1>1
  <2>2. QED
    BY <2>1, DivMod
<1>3. PICK kq \in Int : kq = q * k
  OBVIOUS
<1>4. 2 * xp = 2 * kq + r
  BY <1>2, <1>3
<1>5. r # q
  BY <1>4
<1>6. QED
  BY <1>1, <1>2, <1>5 DEF BetweenBuckets

\* The centre of a bucket falls into the bucket.
LEMMA CentreStays ==
  ASSUME NEW q \in Nat, q % 2 = 1, NEW p \in Nat, p > 0, p <= q, NEW x \in 0 .. p - 1
  PROVE  Squeeze(q, p, Stretch(q, p, x)) = x
<1> PICK h \in Nat : q = 2 * h + 1
  BY OddHalf
<1>1. q \div 2 = h
  OBVIOUS
<1>2. PICK xq \in Int : xq = x * q
  OBVIOUS
<1>3. PICK y \in Int, s \in 0 .. 2 * p - 1 : (2 * xq + p) \div (2 * p) = y /\ 2 * xq + p = (2 * p) * y + s
  <2>1. 2 * xq + p \in Int /\ 2 * p \in Nat /\ 2 * p > 0
    BY <1>2
  <2>2. QED
    BY <2>1, DivMod
<1>4. Stretch(q, p, x) = y
  <2>1. 2 * x * q = 2 * xq
    BY <1>2
  <2>2. QED
    BY <1>3, <2>1 DEF Stretch
<1>5. PICK yp \in Int : yp = y * p /\ 2 * yp = 2 * xq + p - s
  <2>1. (2 * p) * y = 2 * (y * p)
    OBVIOUS
  <2>2. QED
    BY <1>3, <2>1
<1>6. (yp + h) \div q = x
  <2>1. PICK w \in Int : w = yp + h - xq
    OBVIOUS
  <2>2. 0 <= w /\ w < q
    BY <1>5, <2>1
  <2>3. yp + h = q * x + w
    BY <1>2, <2>1
  <2>4. QED
    BY <2>2, <2>3, DivModUnique
<1>7. x % p = x
  BY Below
<1>8. QED
  BY <1>1, <1>4, <1>5, <1>6, <1>7 DEF Squeeze

\* One bit says which of zero and q/2 is nearer.
LEMMA BitNearest ==
  ASSUME NEW q \in Nat, q % 2 = 1, NEW x \in 0 .. q - 1
  PROVE  /\ Squeeze(q, 2, x) = 1 <=> q < 4 * x /\ 4 * x < 3 * q
         /\ Squeeze(q, 2, x) \in {0, 1}
<1> PICK h \in Nat : q = 2 * h + 1
  BY OddHalf
<1>1. q \div 2 = h
  OBVIOUS
<1>2. PICK t \in Int : t = (2 * x + h) \div q /\ x * 2 + q \div 2 = 2 * x + h
  BY <1>1
<1>3. Squeeze(q, 2, x) = t % 2
  BY <1>2 DEF Squeeze
<1>4. CASE 4 * x < q + 1
  <2>1. 2 * x + h = q * 0 + (2 * x + h) /\ 2 * x + h < q /\ 0 <= 2 * x + h
    BY <1>4
  <2>2. t = 0
    BY <1>2, <2>1, DivModUnique
  <2>3. QED
    BY <1>3, <1>4, <2>2
<1>5. CASE 4 * x >= q + 1 /\ 4 * x < 3 * q + 1
  <2>1. 2 * x + h = q * 1 + (2 * x + h - q) /\ 2 * x + h - q < q /\ 0 <= 2 * x + h - q
    BY <1>5
  <2>2. t = 1
    BY <1>2, <2>1, DivModUnique
  <2>3. 4 * x < 3 * q
    BY <1>5
  <2>4. QED
    BY <1>3, <1>5, <2>2, <2>3
<1>6. CASE 4 * x >= 3 * q + 1
  <2>1. 2 * x + h = q * 2 + (2 * x + h - 2 * q) /\ 2 * x + h - 2 * q < q /\ 0 <= 2 * x + h - 2 * q
    BY <1>6
  <2>2. t = 2
    BY <1>2, <2>1, DivModUnique
  <2>3. QED
    BY <1>3, <1>6, <2>2
<1>7. QED
  BY <1>4, <1>5, <1>6

\* A chunk in the top bits of a word comes back under noise below half a unit.
LEMMA ChunkComesBack ==
  ASSUME NEW b \in Nat, b > 0, NEW M \in Nat, NEW m \in 0 .. M - 1, NEW d \in Int, -b <= d, d < b
  PROVE  ((((m * (2 * b) + d) % ((2 * b) * M)) + b) \div (2 * b)) % M = m
<1>1. PICK B \in Nat : B = 2 * b /\ B > 0
  OBVIOUS
<1>2. PICK mB \in Nat, BM \in Nat : mB = m * B /\ BM = B * M
  BY <1>1
<1>3. mB + B <= BM
  <2>1. PICK l \in Nat : M = m + 1 + l
    <3>1. M - m - 1 \in Nat /\ M = m + 1 + (M - m - 1)
      OBVIOUS
    <3>2. QED
      BY <3>1
  <2>2. BM = mB + B + B * l
    BY <1>2, <2>1
  <2>3. B * l >= 0
    OBVIOUS
  <2>4. PICK Bl \in Int : Bl = B * l
    OBVIOUS
  <2>5. QED
    BY <1>2, <2>2, <2>3, <2>4
<1>4. BM \in Nat /\ BM > 0
  BY <1>1, <1>2, <1>3
<1>5. CASE mB + d >= 0
  <2>1. (mB + d) % BM = mB + d
    BY <1>1, <1>2, <1>3, <1>5, Below
  <2>2. mB + d + b = B * m + (d + b) /\ 0 <= d + b /\ d + b < B
    BY <1>1, <1>2
  <2>3. (mB + d + b) \div B = m
    BY <1>1, <2>2, DivModUnique
  <2>4. m % M = m
    BY Below
  <2>5. QED
    BY <1>1, <1>2, <2>1, <2>3, <2>4
<1>6. CASE mB + d < 0
  <2>1. m = 0
    <3>1. SUFFICES ASSUME m > 0 PROVE FALSE
      OBVIOUS
    <3>2. PICK l \in Nat : m = 1 + l
      <4>1. m - 1 \in Nat /\ m = 1 + (m - 1)
        BY <3>1
      <4>2. QED
        BY <4>1
    <3>3. mB = B + B * l /\ B * l >= 0
      BY <1>2, <3>2
    <3>4. PICK Bl \in Int : Bl = B * l
      OBVIOUS
    <3>5. QED
      BY <1>1, <1>6, <3>3, <3>4
  <2>2. mB = 0
    BY <1>2, <2>1
  <2>3. (mB + d) % BM = d + BM
    <3>1. mB + d = BM * (-1) + (d + BM) /\ 0 <= d + BM /\ d + BM < BM
      BY <1>1, <1>3, <1>6, <2>2
    <3>2. d + BM \in Int /\ -1 \in Int /\ mB + d \in Int
      OBVIOUS
    <3>3. QED
      BY <1>4, <3>1, <3>2, DivModUnique
  <2>4. d + BM + b = B * M + (d + b) /\ 0 <= d + b /\ d + b < B
    BY <1>1, <1>2
  <2>5. (d + BM + b) \div B = M
    BY <1>1, <2>4, DivModUnique
  <2>6. M = M * 1 + 0 /\ M > 0
    OBVIOUS
  <2>7. M % M = 0
    BY <2>6, DivModUnique
  <2>8. QED
    BY <1>1, <1>2, <2>1, <2>3, <2>5, <2>7
<1>7. QED
  BY <1>5, <1>6

LEMMA SmallPowers ==
  ASSUME NEW P, P = CHOOSE g : g = [n \in Nat |-> IF n = 0 THEN 1 ELSE 2 * g[n - 1]]
  PROVE  /\ P[1] = 2 /\ P[2] = 4 /\ P[4] = 16 /\ P[5] = 32 /\ P[10] = 1024 /\ P[11] = 2048
         /\ P[12] = 4096 /\ P[13] = 8192 /\ P[15] = 32768 /\ P[16] = 65536
<1>20. \A n \in Nat : P[n + 1] = 2 * P[n]
  BY PowersOfTwo
<1>0. P[0] = 1
  BY PowersOfTwo
<1>1. P[1] = 2
  BY <1>20, <1>0
<1>2. P[2] = 4
  BY <1>20, <1>1
<1>3. P[3] = 8
  BY <1>20, <1>2
<1>4. P[4] = 16
  BY <1>20, <1>3
<1>5. P[5] = 32
  BY <1>20, <1>4
<1>6. P[6] = 64
  BY <1>20, <1>5
<1>7. P[7] = 128
  BY <1>20, <1>6
<1>8. P[8] = 256
  BY <1>20, <1>7
<1>9. P[9] = 512
  BY <1>20, <1>8
<1>10. P[10] = 1024
  BY <1>20, <1>9
<1>11. P[11] = 2048
  BY <1>20, <1>10
<1>12. P[12] = 4096
  BY <1>20, <1>11
<1>13. P[13] = 8192
  BY <1>20, <1>12
<1>14. P[14] = 16384
  BY <1>20, <1>13
<1>15. P[15] = 32768
  BY <1>20, <1>14
<1>16. P[16] = 65536
  BY <1>20, <1>15
<1>17. QED
  BY <1>1, <1>2, <1>4, <1>5, <1>10, <1>11, <1>12, <1>13, <1>15, <1>16

LEMMA KyberRounds ==
  /\ KyberQ \in Nat /\ KyberQ > 0 /\ KyberQ % 2 = 1
  /\ \A d \in Widths : Kyber!Pow2[d] \in Nat /\ Kyber!Pow2[d] > 0 /\ Kyber!Pow2[d] <= KyberQ
  /\ \A x, d : Kyber!Compress(x, d) = Squeeze(KyberQ, Kyber!Pow2[d], x)
  /\ \A y, d : Kyber!Decompress(y, d) = Stretch(KyberQ, Kyber!Pow2[d], y)
  /\ \A x, y : Dist(x, y) = Around2(KyberQ, x, y)
  /\ Kyber!Pow2[1] = 2
<1>1. /\ Kyber!Pow2[1] = 2 /\ Kyber!Pow2[4] = 16 /\ Kyber!Pow2[5] = 32 /\ Kyber!Pow2[10] = 1024
      /\ Kyber!Pow2[11] = 2048
  BY SmallPowers DEF Kyber!Pow2
<1>2. \A d \in Widths : d = 1 \/ d = 4 \/ d = 5 \/ d = 10 \/ d = 11
  BY DEF Widths
<1>3. \A d \in Widths : Kyber!Pow2[d] \in Nat /\ Kyber!Pow2[d] > 0 /\ Kyber!Pow2[d] <= KyberQ
  BY <1>1, <1>2 DEF KyberQ
<1>4. \A x, d : Kyber!Compress(x, d) = Squeeze(KyberQ, Kyber!Pow2[d], x)
  BY Zenon DEF Kyber!Compress, Squeeze
<1>5. \A y, d : Kyber!Decompress(y, d) = Stretch(KyberQ, Kyber!Pow2[d], y)
  BY Zenon DEF Kyber!Decompress, Stretch
<1>6. \A x, y : Dist(x, y) = Around2(KyberQ, x, y)
  BY Zenon DEF Dist, Around2
<1>7. KyberQ \in Nat /\ KyberQ > 0 /\ KyberQ % 2 = 1
  BY DEF KyberQ
<1>8. QED
  BY <1>1, <1>3, <1>4, <1>5, <1>6, <1>7

LEMMA KyberRoundTrip == RoundTripIsClose
<1>1. SUFFICES ASSUME NEW x \in 0 .. KyberQ - 1, NEW d \in Widths
               PROVE  2 * Kyber!Pow2[d] * Dist(Kyber!Decompress(Kyber!Compress(x, d), d) % KyberQ, x)
                        <= KyberQ + Kyber!Pow2[d]
  BY Zenon DEF RoundTripIsClose
<1>2. PICK p, q : p = Kyber!Pow2[d] /\ q = KyberQ
  OBVIOUS
<1>3. p \in Nat /\ p > 0 /\ q \in Nat /\ q > 0 /\ x \in 0 .. q - 1
  BY <1>1, <1>2, KyberRounds
<1>4. PICK y : y = Stretch(q, p, Squeeze(q, p, x))
  OBVIOUS
<1>5. PICK e \in Int : Moved(q, x, y, e) /\ HalfBucket(q, p, e)
  <2>1. \E e \in Int : Moved(q, x, Stretch(q, p, Squeeze(q, p, x)), e) /\ HalfBucket(q, p, e)
    BY <1>3, RoundTrip
  <2>2. QED
    BY <1>4, <2>1
<1>6. x \in Int
  BY <1>3
<1>7. PICK a : a = Around2(q, y % q, x)
  OBVIOUS
<1>8. a \in Nat /\ (a <= e \/ a <= -e)
  <2>1. Around2(q, y % q, x) \in Nat /\ (Around2(q, y % q, x) <= e \/ Around2(q, y % q, x) <= -e)
    BY <1>3, <1>5, <1>6, AroundBound
  <2>2. QED
    BY <1>7, <2>1
<1>9. 2 * p * a <= q + p
  <2>1. 2 * p * e <= q + p /\ -(q + p) <= 2 * p * e
    BY <1>5 DEF HalfBucket
  <2>2. PICK pe \in Int, pa \in Int : pe = 2 * p * e /\ pa = 2 * p * a
    BY <1>3, <1>8
  <2>3. CASE a <= e
    <3>1. pa <= pe
      <4>1. 2 * p * a <= 2 * p * e
        BY <1>3, <1>8, <2>3
      <4>2. QED
        BY <2>2, <4>1
    <3>2. QED
      BY <1>3, <2>1, <2>2, <3>1
  <2>4. CASE a <= -e
    <3>1. pa <= -pe
      <4>1. 2 * p * a <= 2 * p * (-e)
        BY <1>3, <1>8, <2>4
      <4>2. 2 * p * (-e) = -(2 * p * e)
        BY <1>3
      <4>3. QED
        BY <2>2, <4>1, <4>2
    <3>2. QED
      BY <1>3, <2>1, <2>2, <3>1
  <2>5. QED
    BY <1>8, <2>3, <2>4
<1>10. a = Dist(Kyber!Decompress(Kyber!Compress(x, d), d) % KyberQ, x)
  BY <1>2, <1>4, <1>7, KyberRounds, Zenon
<1>11. QED
  BY <1>2, <1>9, <1>10

LEMMA KyberBuckets == BucketsAreExact
<1>1. PICK q : q = KyberQ
  OBVIOUS
<1>2. q \in Nat /\ q % 2 = 1
  BY <1>1, KyberRounds
<1>3. ASSUME NEW x \in 0 .. KyberQ - 1, NEW d \in Widths
      PROVE  (2 * x * Kyber!Pow2[d]) % (2 * KyberQ) # KyberQ
  <2>1. PICK p : p = Kyber!Pow2[d]
    OBVIOUS
  <2>2. p \in Nat /\ x \in Nat
    BY <1>3, <2>1, KyberRounds
  <2>3. ~BetweenBuckets(q, p, x)
    BY <1>2, <2>2, NeverHalfWay
  <2>4. QED
    BY <1>1, <2>1, <2>3, Zenon DEF BetweenBuckets
<1>4. ASSUME NEW d \in Widths, NEW x \in 0 .. Kyber!Pow2[d] - 1
      PROVE  Kyber!Compress(Kyber!Decompress(x, d), d) = x
  <2>1. PICK p : p = Kyber!Pow2[d]
    OBVIOUS
  <2>2. p \in Nat /\ p > 0 /\ p <= q /\ x \in 0 .. p - 1
    BY <1>1, <1>4, <2>1, KyberRounds
  <2>3. Squeeze(q, p, Stretch(q, p, x)) = x
    BY <1>2, <2>2, CentreStays
  <2>4. QED
    BY <1>1, <2>1, <2>3, KyberRounds, Zenon
<1>5. QED
  BY <1>3, <1>4, Zenon DEF BucketsAreExact

LEMMA KyberBits == BitIsNearest
<1>1. SUFFICES ASSUME NEW x \in 0 .. KyberQ - 1 PROVE Kyber!Compress(x, 1) = 1 <=> 4 * Dist(x, 0) > KyberQ
  BY Zenon DEF BitIsNearest
<1>2. PICK q : q = KyberQ
  OBVIOUS
<1>3. q \in Nat /\ q % 2 = 1 /\ x \in 0 .. q - 1
  BY <1>1, <1>2, KyberRounds
<1>4. Squeeze(q, 2, x) = 1 <=> q < 4 * x /\ 4 * x < 3 * q
  BY <1>3, BitNearest
<1>5. Kyber!Compress(x, 1) = Squeeze(q, 2, x) /\ Dist(x, 0) = Around2(q, x, 0)
  BY <1>2, KyberRounds, Zenon
<1>6. Around2(q, x, 0) = IF 2 * x > q THEN q - x ELSE x
  <2>1. (x - 0) % q = x
    BY <1>3
  <2>2. QED
    BY <2>1 DEF Around2
<1>7. QED
  BY <1>2, <1>3, <1>4, <1>5, <1>6

LEMMA FrodoChunks == ChunksSurviveNoise
<1>1. ASSUME NEW m \in 0 .. 3, NEW d \in -4096 .. 4095
      PROVE  Frodo640!KeyDecode((Frodo640!KeyEncode(m) + d) % Frodo640!Q) = m
  <2>1. Frodo640!Pow2[13] = 8192 /\ Frodo640!Pow2[12] = 4096 /\ Frodo640!Pow2[2] = 4 /\ Frodo640!Pow2[15] = 32768
    BY SmallPowers DEF Frodo640!Pow2
  <2>2. Frodo640!Q = 32768
    BY <2>1 DEF Frodo640!Q
  <2>3. Frodo640!KeyEncode(m) = m * 8192
    BY <2>1 DEF Frodo640!KeyEncode
  <2>4. PICK w \in Int : w = (m * 8192 + d) % 32768
    OBVIOUS
  <2>5. w % 32768 = w
    BY <2>4
  <2>6. Frodo640!KeyDecode(w) = ((w + 4096) \div 8192) % 4
    BY <2>1, <2>2, <2>5 DEF Frodo640!KeyDecode
  <2>7. ((w + 4096) \div 8192) % 4 = m
    BY <2>4
  <2>8. QED
    BY <2>2, <2>3, <2>4, <2>6, <2>7
<1>2. ASSUME NEW m \in 0 .. 15, NEW d \in -2048 .. 2047
      PROVE  Frodo1344!KeyDecode((Frodo1344!KeyEncode(m) + d) % Frodo1344!Q) = m
  <2>1. Frodo1344!Pow2[12] = 4096 /\ Frodo1344!Pow2[11] = 2048 /\ Frodo1344!Pow2[4] = 16 /\ Frodo1344!Pow2[16] = 65536
    BY SmallPowers DEF Frodo1344!Pow2
  <2>2. Frodo1344!Q = 65536
    BY <2>1 DEF Frodo1344!Q
  <2>3. Frodo1344!KeyEncode(m) = m * 4096
    BY <2>1 DEF Frodo1344!KeyEncode
  <2>4. PICK w \in Int : w = (m * 4096 + d) % 65536
    OBVIOUS
  <2>5. w % 65536 = w
    BY <2>4
  <2>6. Frodo1344!KeyDecode(w) = ((w + 2048) \div 4096) % 16
    BY <2>1, <2>2, <2>5 DEF Frodo1344!KeyDecode
  <2>7. ((w + 2048) \div 4096) % 16 = m
    BY <2>4
  <2>8. QED
    BY <2>2, <2>3, <2>4, <2>6, <2>7
<1>3. QED
  BY <1>1, <1>2 DEF ChunksSurviveNoise

THEOREM RoundsWithRoom == Spec => []RoundingLeavesRoom
<1>1. RoundingLeavesRoom
  BY KyberRoundTrip, KyberBuckets, KyberBits, FrodoChunks DEF RoundingLeavesRoom
<1>2. QED
  BY <1>1, PTL

LEMMA BitReturns ==
  ASSUME NEW q \in Nat, q % 2 = 1, NEW m \in {0, 1}, NEW n \in Int, 4 * n + 2 < q, -4 * n + 2 < q,
         NEW w \in Int, Cong(q, w, n - Stretch(q, 2, m))
  PROVE  Squeeze(q, 2, w % q) = m
<1>1. PICK h \in Nat : q > 0 /\ q = 2 * h + 1
  BY OddHalf
<1>2. PICK x \in 0 .. q - 1 : x = w % q /\ Cong(q, x, w)
  <2>1. q > 0
    BY <1>1
  <2>2. w % q \in 0 .. q - 1 /\ Cong(q, w % q, w)
    BY <2>1, CongMod
  <2>3. QED
    BY <2>2
<1>3. Stretch(q, 2, m) = m * (h + 1)
  <2>1. CASE m = 0
    BY <2>1 DEF Stretch
  <2>2. CASE m = 1
    <3>1. 2 * m * q + 2 = (2 * 2) * (h + 1) + 0
      BY <1>1, <2>2
    <3>2. h + 1 \in Int /\ 2 * m * q + 2 \in Int
      BY <2>2
    <3>3. (2 * m * q + 2) \div (2 * 2) = h + 1
      BY <3>1, <3>2
    <3>4. QED
      BY <2>2, <3>3 DEF Stretch
  <2>3. QED
    BY <2>1, <2>2
<1>4. PICK k \in Int : x = n - m * (h + 1) + q * k
  <2>1. PICK z \in Int : z = n - m * (h + 1)
    OBVIOUS
  <2>2. Cong(q, w, z)
    BY <1>3, <2>1
  <2>3. Cong(q, x, z)
    <3>1. x \in Int /\ Cong(q, x, w)
      BY <1>2
    <3>2. QED
      BY <2>2, <3>1, CongTrans
  <2>4. QED
    BY <2>1, <2>3 DEF Cong
<1>5. PICK qk \in Int : qk = q * k
  OBVIOUS
<1>6. /\ Squeeze(q, 2, x) = 1 <=> q < 4 * x /\ 4 * x < 3 * q
      /\ Squeeze(q, 2, x) \in {0, 1}
  BY BitNearest
<1>7. k \in {-1, 0, 1, 2} /\ (k = -1 => qk = -q) /\ (k = 0 => qk = 0) /\ (k = 1 => qk = q) /\ (k = 2 => qk = 2 * q)
  <2>1. -q < qk /\ qk < 3 * q
    <3>1. m * (h + 1) \in 0 .. h + 1
      OBVIOUS
    <3>2. qk = x - n + m * (h + 1)
      BY <1>4, <1>5
    <3>3. PICK mh \in Int : mh = m * (h + 1) /\ 0 <= mh /\ mh <= h + 1
      BY <3>1
    <3>4. QED
      BY <1>1, <3>2, <3>3
  <2>2. ASSUME k <= -1 PROVE FALSE
    <3>1. qk <= -q
      BY <1>5, <2>2
    <3>2. QED
      BY <2>1, <3>1
  <2>3. ASSUME k >= 3 PROVE FALSE
    <3>1. qk >= 3 * q
      BY <1>5, <2>3
    <3>2. QED
      BY <2>1, <3>1
  <2>4. k \in {0, 1, 2}
    BY <2>2, <2>3
  <2>5. QED
    BY <1>5, <2>4
<1>8. CASE m = 0
  <2>1. x = n + qk
    BY <1>4, <1>5, <1>8
  <2>2. ~(q < 4 * x /\ 4 * x < 3 * q)
    BY <1>7, <2>1
  <2>3. QED
    BY <1>2, <1>6, <1>8, <2>2
<1>9. CASE m = 1
  <2>1. x = n - (h + 1) + qk
    BY <1>4, <1>5, <1>9
  <2>2. q < 4 * x /\ 4 * x < 3 * q
    BY <1>1, <1>7, <2>1
  <2>3. QED
    BY <1>2, <1>6, <1>9, <2>2
<1>10. QED
  BY <1>8, <1>9

-----------------------------------------------------------------------------
(***************************************************************************)
(* ML-KEM.  What a decryption reads differs from the message by a mix of   *)
(* noise and of what compression moved, which the budget bounds.           *)
(***************************************************************************)
Size(x) == IF x < 0 THEN -x ELSE x
Loss(q, p) == (q + p) \div (2 * p)
Fits(q, s, e, y, e1, e2, lu, lv) == 4 * (Size(s * e1 - e * y - e2) + Size(s) * lu + lv) + 2 < q
Mixed(s, e, y, e1, e2, du, dv) == s * e1 - e * y - e2 + s * du - dv
Room(q, n) == 4 * n + 2 < q /\ -4 * n + 2 < q

LEMMA LossBounds ==
  ASSUME NEW q \in Nat, NEW p \in Nat, p > 0, NEW e \in Int, HalfBucket(q, p, e)
  PROVE  Loss(q, p) \in Nat /\ e <= Loss(q, p) /\ -e <= Loss(q, p)
<1>1. PICK l \in Int, r \in 0 .. 2 * p - 1 : (q + p) \div (2 * p) = l /\ q + p = (2 * p) * l + r
  <2>1. q + p \in Int /\ 2 * p \in Nat /\ 2 * p > 0
    OBVIOUS
  <2>2. QED
    BY <2>1, DivMod
<1>2. 2 * p * e <= q + p /\ -(q + p) <= 2 * p * e
  BY DEF HalfBucket
<1>3. PICK P \in Nat : P = 2 * p /\ P > 0
  OBVIOUS
<1>4. q + p = P * l + r /\ P * e <= q + p /\ -(q + p) <= P * e /\ r < P
  BY <1>1, <1>2, <1>3
<1>5. PICK Pl \in Int, Pe \in Int : Pl = P * l /\ Pe = P * e
  OBVIOUS
<1>6. ASSUME e >= l + 1 PROVE FALSE
  <2>1. P * e >= P * (l + 1)
    BY <1>3, <1>6
  <2>2. P * (l + 1) = Pl + P
    BY <1>5
  <2>3. QED
    BY <1>4, <1>5, <2>1, <2>2
<1>7. ASSUME e <= -l - 1 PROVE FALSE
  <2>1. P * e <= P * (-l - 1)
    BY <1>3, <1>7
  <2>2. P * (-l - 1) = -Pl - P
    BY <1>5
  <2>3. QED
    BY <1>4, <1>5, <2>1, <2>2
<1>8. l >= 0
  <2>1. SUFFICES ASSUME l <= -1 PROVE FALSE
    OBVIOUS
  <2>2. P * l <= -P
    BY <1>3, <2>1
  <2>3. QED
    BY <1>4, <1>5, <2>2
<1>9. QED
  BY <1>1, <1>6, <1>7, <1>8 DEF Loss

LEMMA FitsLeavesRoom ==
  ASSUME NEW q \in Nat, NEW s \in Int, NEW e \in Int, NEW y \in Int, NEW e1 \in Int, NEW e2 \in Int,
         NEW lu \in Nat, NEW lv \in Nat, Fits(q, s, e, y, e1, e2, lu, lv),
         NEW du \in Int, du <= lu, -du <= lu, NEW dv \in Int, dv <= lv, -dv <= lv
  PROVE  Mixed(s, e, y, e1, e2, du, dv) \in Int /\ Room(q, Mixed(s, e, y, e1, e2, du, dv))
<1>1. PICK z \in Int : z = s * e1 - e * y - e2
  OBVIOUS
<1>2. PICK sd \in Int : sd = s * du
  OBVIOUS
<1>3. PICK k \in Nat : k = Size(s)
  BY DEF Size
<1>4. PICK kl \in Int : kl = k * lu
  OBVIOUS
<1>5. sd <= kl /\ -sd <= kl
  <2>1. CASE s >= 0
    <3>1. k = s
      BY <1>3, <2>1 DEF Size
    <3>2. s * du <= s * lu /\ s * (-du) <= s * lu
      BY <2>1
    <3>3. s * (-du) = -sd
      BY <1>2
    <3>4. QED
      BY <1>2, <1>4, <3>1, <3>2, <3>3
  <2>2. CASE s < 0
    <3>1. k = -s
      BY <1>3, <2>2 DEF Size
    <3>2. k * du <= k * lu /\ k * (-du) <= k * lu
      OBVIOUS
    <3>3. k * (-du) = sd /\ k * du = -sd
      BY <1>2, <3>1
    <3>4. QED
      BY <1>4, <3>2, <3>3
  <2>3. QED
    BY <2>1, <2>2
<1>6. 4 * (Size(z) + kl + lv) + 2 < q
  BY <1>1, <1>3, <1>4 DEF Fits
<1>7. Mixed(s, e, y, e1, e2, du, dv) = z + sd - dv
  BY <1>1, <1>2 DEF Mixed
<1>8. z <= Size(z) /\ -z <= Size(z) /\ Size(z) \in Int
  BY DEF Size
<1>9. PICK sz \in Int : sz = Size(z)
  BY <1>8
<1>10. PICK n \in Int : n = z + sd - dv
  OBVIOUS
<1>11. 4 * n + 2 < q /\ -4 * n + 2 < q
  BY <1>5, <1>6, <1>8, <1>9, <1>10
<1>12. QED
  BY <1>7, <1>10, <1>11 DEF Room

LEMMA MixedIsLeft ==
  ASSUME NEW q \in Nat, NEW a \in Int, NEW s \in Int, NEW e \in Int, NEW y \in Int, NEW e1 \in Int,
         NEW e2 \in Int, NEW M \in Int, NEW t \in Int, NEW u \in Int, NEW v \in Int,
         Cong(q, t, a * s + e), Cong(q, u, a * y + e1), Cong(q, v, t * y + e2 + M),
         NEW U \in Int, NEW du \in Int, Moved(q, u, U, du), NEW V \in Int, NEW dv \in Int, Moved(q, v, V, dv)
  PROVE  Cong(q, s * U - V, Mixed(s, e, y, e1, e2, du, dv) - M)
<1>1. PICK lu \in Int : t = a * s + e + q * lu
  BY DEF Cong
<1>2. PICK lv \in Int : u = a * y + e1 + q * lv
  BY DEF Cong
<1>3. PICK k3 \in Int : v = t * y + e2 + M + q * k3
  BY DEF Cong
<1>4. PICK k4 \in Int : U = u + du + q * k4
  BY DEF Moved, Cong
<1>5. PICK k5 \in Int : V = v + dv + q * k5
  BY DEF Moved, Cong
<1>6. U = a * y + e1 + q * lv + du + q * k4
  BY <1>2, <1>4
<1>7. V = (a * s + e + q * lu) * y + e2 + M + q * k3 + dv + q * k5
  BY <1>1, <1>3, <1>5
<1>8. s * U = s * a * y + s * e1 + s * du + q * (s * lv + s * k4)
  BY <1>6
<1>9. V = s * a * y + e * y + e2 + M + dv + q * (lu * y + k3 + k5)
  BY <1>7
<1>10. PICK w \in Int, g \in Int, h \in Int : w = s * a * y /\ g = s * lv + s * k4 /\ h = lu * y + k3 + k5
  OBVIOUS
<1>11. s * U - V = (Mixed(s, e, y, e1, e2, du, dv) - M) + q * (g - h)
  <2>1. PICK a1 \in Int, a2 \in Int, a3 \in Int : a1 = s * e1 /\ a2 = s * du /\ a3 = e * y
    OBVIOUS
  <2>2. PICK qg \in Int, qh \in Int : qg = q * g /\ qh = q * h
    OBVIOUS
  <2>3. q * (g - h) = qg - qh
    BY <2>2
  <2>4. s * U = w + a1 + a2 + qg
    BY <1>8, <1>10, <2>1, <2>2
  <2>5. V = w + a3 + e2 + M + dv + qh
    BY <1>9, <1>10, <2>1, <2>2
  <2>6. Mixed(s, e, y, e1, e2, du, dv) = a1 - a3 - e2 + a2 - dv
    BY <2>1 DEF Mixed
  <2>7. PICK U1 \in Int : U1 = s * U
    OBVIOUS
  <2>8. QED
    BY <2>3, <2>4, <2>5, <2>6, <2>7
<1>12. g - h \in Int
  OBVIOUS
<1>13. QED
  BY <1>11, <1>12 DEF Cong

-----------------------------------------------------------------------------
LEMMA MlNames ==
  ASSUME KemDu \in Nat, KemDv \in Nat
  PROVE  /\ Ml!Pow2[KemDu] \in Nat /\ Ml!Pow2[KemDu] > 0 /\ Ml!Pow2[KemDv] \in Nat /\ Ml!Pow2[KemDv] > 0
         /\ Ml!Pow2[1] = 2
         /\ \A x, d : Ml!Compress(x, d) = Squeeze(KemQ, Ml!Pow2[d], x)
         /\ \A y, d : Ml!Decompress(y, d) = Stretch(KemQ, Ml!Pow2[d], y)
         /\ \A d : Ml!RoundingLoss(d) = Loss(KemQ, Ml!Pow2[d])
         /\ \A x, r : Ml!NoiseFits(x, r) <=>
              Fits(KemQ, x.s, x.e, r.y, r.e1, r.e2, Loss(KemQ, Ml!Pow2[KemDu]), Loss(KemQ, Ml!Pow2[KemDv]))
<1>1. \A n \in Nat : Ml!Pow2[n] \in Nat \ {0}
  BY PowersOfTwo DEF Ml!Pow2
<1>2. Ml!Pow2[1] = 2
  BY SmallPowers DEF Ml!Pow2
<1>3. \A x, d : Ml!Compress(x, d) = Squeeze(KemQ, Ml!Pow2[d], x)
  BY Zenon DEF Ml!Compress, Squeeze
<1>4. \A y, d : Ml!Decompress(y, d) = Stretch(KemQ, Ml!Pow2[d], y)
  BY Zenon DEF Ml!Decompress, Stretch
<1>5. \A d : Ml!RoundingLoss(d) = Loss(KemQ, Ml!Pow2[d])
  BY Zenon DEF Ml!RoundingLoss, Loss
<1>6. \A x : Ml!Magnitude(x) = Size(x)
  BY Zenon DEF Ml!Magnitude, Size
<1>7. \A x, r : Ml!NoiseFits(x, r) <=>
        Fits(KemQ, x.s, x.e, r.y, r.e1, r.e2, Loss(KemQ, Ml!Pow2[KemDu]), Loss(KemQ, Ml!Pow2[KemDv]))
  BY <1>5, <1>6, Zenon DEF Ml!NoiseFits, Fits
<1>8. QED
  BY <1>1, <1>2, <1>3, <1>4, <1>5, <1>7

LEMMA MlDecrypts ==
  ASSUME KemQ \in Nat, KemQ % 2 = 1, KemDu \in Nat, KemDv \in Nat,
         NEW x \in [a : Int, s : Int, e : Int], NEW r \in [y : Int, e1 : Int, e2 : Int], NEW m \in {0, 1},
         Ml!NoiseFits(x, r)
  PROVE  Ml!KpkeDecrypt(Ml!KeyPair(x), Ml!KpkeEncrypt(Ml!KeyPair(x), m, r)) = m
<1>1. PICK q \in Nat, pu \in Nat, pv \in Nat :
        q = KemQ /\ pu = Ml!Pow2[KemDu] /\ pv = Ml!Pow2[KemDv] /\ pu > 0 /\ pv > 0 /\ q % 2 = 1
  BY MlNames
<1>2. q > 0
  BY <1>1, OddHalf
<1>3. PICK a \in Int, s \in Int, e \in Int, y \in Int, e1 \in Int, e2 \in Int :
        a = x.a /\ s = x.s /\ e = x.e /\ y = r.y /\ e1 = r.e1 /\ e2 = r.e2
  OBVIOUS
<1>4. PICK M \in Int : M = Stretch(q, 2, m)
  <2>1. 2 * m * q + 2 \in Int
    BY m \in Int
  <2>2. Stretch(q, 2, m) \in Int
    BY <2>1 DEF Stretch
  <2>3. QED
    BY <2>2
<1>5. PICK t \in Int : t = (a * s + e) % q /\ Cong(q, t, a * s + e)
  <2>1. PICK z \in Int : z = a * s + e
    OBVIOUS
  <2>2. z % q \in 0 .. q - 1 /\ Cong(q, z % q, z)
    BY <1>2, CongMod
  <2>3. QED
    BY <2>1, <2>2
<1>6. PICK u \in 0 .. q - 1 : u = (a * y + e1) % q /\ Cong(q, u, a * y + e1)
  <2>1. PICK z \in Int : z = a * y + e1
    OBVIOUS
  <2>2. z % q \in 0 .. q - 1 /\ Cong(q, z % q, z)
    BY <1>2, CongMod
  <2>3. QED
    BY <2>1, <2>2
<1>7. PICK v \in 0 .. q - 1 : v = (t * y + e2 + M) % q /\ Cong(q, v, t * y + e2 + M)
  <2>1. PICK z \in Int : z = t * y + e2 + M
    OBVIOUS
  <2>2. z % q \in 0 .. q - 1 /\ Cong(q, z % q, z)
    BY <1>2, CongMod
  <2>3. QED
    BY <2>1, <2>2
<1>8. PICK U \in Int, du \in Int : U = Stretch(q, pu, Squeeze(q, pu, u)) /\ Moved(q, u, U, du) /\ HalfBucket(q, pu, du)
  <2>1. PICK z : z = Stretch(q, pu, Squeeze(q, pu, u))
    OBVIOUS
  <2>2. \E d \in Int : Moved(q, u, Stretch(q, pu, Squeeze(q, pu, u)), d) /\ HalfBucket(q, pu, d)
    BY <1>1, <1>2, RoundTrip
  <2>3. PICK d \in Int : Moved(q, u, z, d) /\ HalfBucket(q, pu, d)
    BY <2>1, <2>2
  <2>4. z \in Int
    BY <2>3 DEF Moved
  <2>5. QED
    BY <2>1, <2>3, <2>4
<1>9. PICK V \in Int, dv \in Int : V = Stretch(q, pv, Squeeze(q, pv, v)) /\ Moved(q, v, V, dv) /\ HalfBucket(q, pv, dv)
  <2>1. PICK z : z = Stretch(q, pv, Squeeze(q, pv, v))
    OBVIOUS
  <2>2. \E d \in Int : Moved(q, v, Stretch(q, pv, Squeeze(q, pv, v)), d) /\ HalfBucket(q, pv, d)
    BY <1>1, <1>2, RoundTrip
  <2>3. PICK d \in Int : Moved(q, v, z, d) /\ HalfBucket(q, pv, d)
    BY <2>1, <2>2
  <2>4. z \in Int
    BY <2>3 DEF Moved
  <2>5. QED
    BY <2>1, <2>3, <2>4
<1>10. PICK lu \in Nat, lv \in Nat : lu = Loss(q, pu) /\ lv = Loss(q, pv) /\ du <= lu /\ -du <= lu /\ dv <= lv /\ -dv <= lv
  <2>1. Loss(q, pu) \in Nat /\ du <= Loss(q, pu) /\ -du <= Loss(q, pu)
    BY <1>1, <1>8, LossBounds
  <2>2. Loss(q, pv) \in Nat /\ dv <= Loss(q, pv) /\ -dv <= Loss(q, pv)
    BY <1>1, <1>9, LossBounds
  <2>3. QED
    BY <2>1, <2>2
<1>11. Fits(q, s, e, y, e1, e2, lu, lv)
  BY <1>1, <1>3, <1>10, MlNames, Zenon
<1>12. PICK n \in Int : n = Mixed(s, e, y, e1, e2, du, dv) /\ Room(q, n)
  <2>1. Mixed(s, e, y, e1, e2, du, dv) \in Int /\ Room(q, Mixed(s, e, y, e1, e2, du, dv))
    BY <1>10, <1>11, FitsLeavesRoom
  <2>2. QED
    BY <2>1
<1>13. PICK w \in Int : w = s * U - V /\ Cong(q, w, n - M)
  <2>1. Cong(q, s * U - V, Mixed(s, e, y, e1, e2, du, dv) - M)
    <3>1. u \in Int /\ v \in Int
      OBVIOUS
    <3>2. QED
      BY <1>5, <1>6, <1>7, <1>8, <1>9, <3>1, MixedIsLeft
  <2>2. PICK w \in Int : w = s * U - V
    OBVIOUS
  <2>3. QED
    BY <1>12, <2>1, <2>2
<1>14. Squeeze(q, 2, w % q) = m
  <2>1. 4 * n + 2 < q /\ -4 * n + 2 < q
    BY <1>12 DEF Room
  <2>2. Cong(q, w, n - Stretch(q, 2, m))
    BY <1>4, <1>13
  <2>3. q % 2 = 1
    BY <1>1
  <2>4. QED
    BY <2>1, <2>2, <2>3, BitReturns
<1>15. PICK kp : kp = Ml!KeyPair(x) /\ kp.a = a /\ kp.s = s /\ kp.t = t
  <2>1. t = (x.a * x.s + x.e) % KemQ
    BY <1>1, <1>3, <1>5
  <2>2. Ml!KeyPair(x).a = a /\ Ml!KeyPair(x).s = s /\ Ml!KeyPair(x).t = t
    BY <1>3, <2>1, Zenon DEF Ml!KeyPair
  <2>3. QED
    BY <2>2, Zenon
<1>16. PICK c : c = Ml!KpkeEncrypt(kp, m, r) /\ c.u = Squeeze(q, pu, u) /\ c.v = Squeeze(q, pv, v)
  <2>1. PICK c : c = Ml!KpkeEncrypt(kp, m, r)
    OBVIOUS
  <2>2. c.u = Ml!Compress((kp.a * r.y + r.e1) % KemQ, KemDu)
    BY <2>1 DEF Ml!KpkeEncrypt
  <2>3. c.v = Ml!Compress((kp.t * r.y + r.e2 + Ml!Decompress(m, 1)) % KemQ, KemDv)
    BY <2>1 DEF Ml!KpkeEncrypt
  <2>4. Ml!Decompress(m, 1) = M
    BY <1>1, <1>4, MlNames, Zenon
  <2>5. c.u = Ml!Compress(u, KemDu)
    BY <1>1, <1>3, <1>6, <1>15, <2>2, Zenon
  <2>6. c.v = Ml!Compress(v, KemDv)
    BY <1>1, <1>3, <1>7, <1>15, <2>3, <2>4, Zenon
  <2>7. QED
    BY <1>1, <2>1, <2>5, <2>6, MlNames, Zenon
<1>17. Ml!KpkeDecrypt(kp, c) = m
  <2>1. Ml!Decompress(c.u, KemDu) = U
    BY <1>1, <1>8, <1>16, MlNames, Zenon
  <2>2. Ml!Decompress(c.v, KemDv) = V
    BY <1>1, <1>9, <1>16, MlNames, Zenon
  <2>3. Ml!KpkeDecrypt(kp, c) = Ml!Compress(w % q, 1)
    BY <1>1, <1>13, <1>15, <2>1, <2>2, Zenon DEF Ml!KpkeDecrypt
  <2>4. QED
    BY <1>1, <1>14, <2>3, MlNames, Zenon
<1>18. QED
  BY <1>15, <1>16, <1>17

-----------------------------------------------------------------------------
(***************************************************************************)
(* Frodo.  The two matrix products of an exchange are the same triple sum  *)
(* but for the noise, and a chunk survives noise below half a step.        *)
(***************************************************************************)
\* Rows and columns.  The two sides of a key exchange hold a product of three
\* matrices each, summed in another order: what they differ by is noise.
Sum(f, J) == SumFunctionOnSet(f, J)
ByPlaces(J, f, g) == [j \in J |-> f[j] * g[j]]
Ints(J, f) == \A j \in J : f[j] \in Int

LEMMA PointwiseSum ==
  ASSUME NEW J, IsFiniteSet(J), NEW f, NEW g, Ints(J, f), Ints(J, g)
  PROVE  Ints(J, ByPlaces(J, f, g)) /\ Sum(ByPlaces(J, f, g), J) \in Int
<1>1. \A j \in J : ByPlaces(J, f, g)[j] \in Int
  BY DEF ByPlaces, Ints
<1>2. QED
  BY <1>1, SumType DEF Sum, Ints

\* A factor taken into a sum of products.
LEMMA PointwiseScaled ==
  ASSUME NEW J, IsFiniteSet(J), NEW f, NEW g, Ints(J, f), Ints(J, g), NEW z \in Int, NEW h,
         \A j \in J : h[j] = z * (f[j] * g[j])
  PROVE  Sum(h, J) = z * Sum(ByPlaces(J, f, g), J)
<1>1. PICK p : p = ByPlaces(J, f, g)
  OBVIOUS
<1>2. \A j \in J : p[j] \in Int /\ p[j] = f[j] * g[j]
  BY <1>1 DEF ByPlaces, Ints
<1>3. \A j \in J : p[j] \in Int /\ h[j] = z * p[j]
  BY <1>2
<1>4. SumFunctionOnSet(h, J) = z * SumFunctionOnSet(p, J)
  BY <1>3, SumTimes
<1>5. QED
  BY <1>1, <1>4 DEF Sum

\* A product with a row that is a sum, but for multiples of q.
Splits(q, J, b, e, t) == \A j \in J : b[j] \in Int /\ Cong(q, b[j], e[j] + t[j])

LEMMA PointwiseSplit ==
  ASSUME NEW q \in Nat, NEW J, IsFiniteSet(J), NEW s, NEW b, NEW e, NEW t,
         Ints(J, s), Ints(J, e), Ints(J, t), Splits(q, J, b, e, t)
  PROVE  Cong(q, Sum(ByPlaces(J, s, b), J), Sum(ByPlaces(J, s, e), J) + Sum(ByPlaces(J, s, t), J))
<1>1. PICK h, f, g : h = ByPlaces(J, s, b) /\ f = ByPlaces(J, s, e) /\ g = ByPlaces(J, s, t)
  OBVIOUS
<1>2. \A j \in J : h[j] = s[j] * b[j] /\ f[j] = s[j] * e[j] /\ g[j] = s[j] * t[j]
  BY <1>1 DEF ByPlaces
<1>3. PICK o \in Int : o = 1
  OBVIOUS
<1>4. ASSUME NEW j \in J
      PROVE  f[j] \in Int /\ g[j] \in Int /\ h[j] \in Int /\ Cong(q, h[j], o * f[j] + o * g[j])
  <2>1. PICK x \in Int, y \in Int, u \in Int, v \in Int : x = s[j] /\ y = b[j] /\ u = e[j] /\ v = t[j]
    BY DEF Ints, Splits
  <2>2. Cong(q, y, u + v)
    BY <2>1 DEF Splits
  <2>3. Cong(q, x * y, x * (u + v))
    <3>1. PICK w \in Int : w = u + v
      OBVIOUS
    <3>2. QED
      BY <2>2, <3>1, CongScale
  <2>4. x * (u + v) = o * (x * u) + o * (x * v)
    BY <1>3
  <2>5. h[j] = x * y /\ f[j] = x * u /\ g[j] = x * v
    BY <1>2, <2>1
  <2>6. QED
    BY <2>3, <2>4, <2>5
<1>5. Cong(q, SumFunctionOnSet(h, J), o * SumFunctionOnSet(f, J) + o * SumFunctionOnSet(g, J))
  BY <1>4, SumLinear
<1>6. SumFunctionOnSet(f, J) \in Int /\ SumFunctionOnSet(g, J) \in Int
  BY <1>4, SumType
<1>7. QED
  BY <1>1, <1>3, <1>5, <1>6 DEF Sum

\* A row of products with the rows of a matrix, or its columns.
Grid(J, a) == \A j, l \in J : a[j][l] \in Int
ByRows(J, a, s) == [j \in J |-> Sum(ByPlaces(J, a[j], s), J)]
Column(J, a, j) == [l \in J |-> a[l][j]]
ByColumns(J, s, a) == [j \in J |-> Sum(ByPlaces(J, s, Column(J, a, j)), J)]

LEMMA ThreeProducts ==
  ASSUME NEW J, IsFiniteSet(J), NEW p, NEW s, NEW a, Ints(J, p), Ints(J, s), Grid(J, a)
  PROVE  /\ Ints(J, ByRows(J, a, s)) /\ Ints(J, ByColumns(J, p, a))
         /\ Sum(ByPlaces(J, p, ByRows(J, a, s)), J) = Sum(ByPlaces(J, ByColumns(J, p, a), s), J)
<1>1. \A j \in J : Ints(J, a[j]) /\ Ints(J, Column(J, a, j))
  BY DEF Grid, Ints, Column
<1>2. PICK br, bc : br = ByRows(J, a, s) /\ bc = ByColumns(J, p, a)
  OBVIOUS
<1>3. \A j \in J : br[j] = Sum(ByPlaces(J, a[j], s), J) /\ bc[j] = Sum(ByPlaces(J, p, Column(J, a, j)), J)
  BY <1>2 DEF ByRows, ByColumns
<1>4. Ints(J, br) /\ Ints(J, bc)
  BY <1>1, <1>3, PointwiseSum DEF Ints
<1>5. PICK f : f = [j \in J |-> [l \in J |-> p[j] * (a[j][l] * s[l])]]
  OBVIOUS
<1>6. \A j, l \in J : f[j][l] = p[j] * (a[j][l] * s[l]) /\ f[j][l] \in Int
  BY <1>5 DEF Ints, Grid
<1>7. PICK rows, cols : /\ rows = [j \in J |-> SumFunctionOnSet(f[j], J)]
                        /\ cols = [l \in J |-> SumFunctionOnSet([j \in J |-> f[j][l]], J)]
  OBVIOUS
<1>8. SumFunctionOnSet(rows, J) = SumFunctionOnSet(cols, J)
  <2>1. \A x \in J, y \in J : f[x][y] \in Int
    BY <1>6
  <2>2. SumFunctionOnSet([x \in J |-> SumFunctionOnSet(f[x], J)], J)
          = SumFunctionOnSet([y \in J |-> SumFunctionOnSet([x \in J |-> f[x][y]], J)], J)
    BY <2>1, SumExchange
  <2>3. QED
    BY <1>7, <2>2, Zenon
<1>9. ASSUME NEW j \in J PROVE rows[j] = p[j] * br[j]
  <2>0. PICK z \in Int : z = p[j]
    BY DEF Ints
  <2>1. PICK g, h : z = p[j] /\ g = a[j] /\ h = f[j]
    BY <2>0
  <2>2. Ints(J, g) /\ \A l \in J : h[l] = z * (g[l] * s[l])
    BY <1>1, <1>6, <2>1
  <2>3. Sum(h, J) = z * Sum(ByPlaces(J, g, s), J)
    BY <2>2, PointwiseScaled
  <2>4. QED
    BY <1>3, <1>7, <2>1, <2>3 DEF Sum
<1>10. ASSUME NEW l \in J PROVE cols[l] = bc[l] * s[l]
  <2>0. PICK z \in Int : z = s[l]
    BY DEF Ints
  <2>1. PICK g, h : z = s[l] /\ g = Column(J, a, l) /\ h = [j \in J |-> f[j][l]]
    BY <2>0
  <2>2. Ints(J, g) /\ \A j \in J : h[j] = z * (p[j] * g[j])
    <3>1. ASSUME NEW j \in J PROVE h[j] = z * (p[j] * g[j])
      <4>1. PICK x \in Int, y \in Int : x = p[j] /\ y = a[j][l]
        BY DEF Ints, Grid
      <4>2. h[j] = x * (y * z) /\ g[j] = y
        BY <1>6, <2>1, <4>1 DEF Column
      <4>3. x * (y * z) = z * (x * y)
        OBVIOUS
      <4>4. QED
        BY <4>1, <4>2, <4>3
    <3>2. QED
      BY <1>1, <2>1, <3>1
  <2>3. Sum(h, J) = z * Sum(ByPlaces(J, p, g), J)
    BY <2>2, PointwiseScaled
  <2>4. cols[l] = z * bc[l] /\ bc[l] \in Int
    BY <1>3, <1>4, <1>7, <2>1, <2>3 DEF Sum, Ints
  <2>5. QED
    BY <2>1, <2>4
<1>11. rows = ByPlaces(J, p, br) /\ cols = ByPlaces(J, bc, s)
  BY <1>7, <1>9, <1>10 DEF ByPlaces
<1>12. QED
  BY <1>2, <1>4, <1>8, <1>11 DEF Sum

LEMMA BothSidesAgree ==
  ASSUME NEW q \in Nat, NEW J, IsFiniteSet(J), NEW p, NEW s, NEW a, NEW e, NEW d, NEW b, NEW c,
         Ints(J, p), Ints(J, s), Ints(J, e), Ints(J, d), Grid(J, a),
         Splits(q, J, b, e, ByRows(J, a, s)), Splits(q, J, c, d, ByColumns(J, p, a))
  PROVE  /\ Sum(ByPlaces(J, p, b), J) \in Int /\ Sum(ByPlaces(J, c, s), J) \in Int
         /\ Sum(ByPlaces(J, p, e), J) \in Int /\ Sum(ByPlaces(J, d, s), J) \in Int
         /\ Cong(q, Sum(ByPlaces(J, p, b), J) - Sum(ByPlaces(J, c, s), J),
                    Sum(ByPlaces(J, p, e), J) - Sum(ByPlaces(J, d, s), J))
<1>1. PICK br, bc : br = ByRows(J, a, s) /\ bc = ByColumns(J, p, a)
  OBVIOUS
<1>2. Ints(J, br) /\ Ints(J, bc) /\ Sum(ByPlaces(J, p, br), J) = Sum(ByPlaces(J, bc, s), J)
  BY <1>1, ThreeProducts
<1>3. Ints(J, b) /\ Ints(J, c)
  BY DEF Splits, Ints
<1>4. \A f, g : Ints(J, f) /\ Ints(J, g) => ByPlaces(J, f, g) = ByPlaces(J, g, f)
  <2>1. SUFFICES ASSUME NEW f, NEW g, Ints(J, f), Ints(J, g) PROVE \A j \in J : f[j] * g[j] = g[j] * f[j]
    BY DEF ByPlaces
  <2>2. QED
    BY <2>1 DEF Ints
<1>5. PICK x \in Int, y \in Int, u \in Int, v \in Int, w \in Int :
        /\ x = Sum(ByPlaces(J, p, b), J) /\ y = Sum(ByPlaces(J, c, s), J)
        /\ u = Sum(ByPlaces(J, p, e), J) /\ v = Sum(ByPlaces(J, d, s), J)
        /\ w = Sum(ByPlaces(J, p, br), J)
  BY <1>2, <1>3, PointwiseSum
<1>6. Cong(q, x, u + w)
  BY <1>1, <1>2, <1>5, PointwiseSplit
<1>7. Cong(q, y, v + w)
  <2>1. Cong(q, Sum(ByPlaces(J, s, c), J), Sum(ByPlaces(J, s, d), J) + Sum(ByPlaces(J, s, bc), J))
    BY <1>1, <1>2, PointwiseSplit
  <2>2. /\ ByPlaces(J, s, c) = ByPlaces(J, c, s) /\ ByPlaces(J, s, d) = ByPlaces(J, d, s)
        /\ ByPlaces(J, s, bc) = ByPlaces(J, bc, s)
    BY <1>2, <1>3, <1>4
  <2>3. QED
    BY <1>2, <1>5, <2>1, <2>2
<1>8. Cong(q, x - y, u - v)
  <2>1. PICK g \in Int, h \in Int : g = u + w /\ h = v + w
    OBVIOUS
  <2>2. Cong(q, x - y, g - h)
    BY <1>6, <1>7, <2>1, CongAdd
  <2>3. QED
    BY <2>1, <2>2
<1>9. QED
  BY <1>5, <1>8

-----------------------------------------------------------------------------
LEMMA PowersAdd ==
  ASSUME NEW P, P = CHOOSE g : g = [n \in Nat |-> IF n = 0 THEN 1 ELSE 2 * g[n - 1]],
         NEW a \in Nat, NEW b \in Nat
  PROVE  P[a + b] = P[a] * P[b]
<1>1. /\ P[0] = 1 /\ \A n \in Nat : P[n] \in Nat /\ P[n + 1] = 2 * P[n]
  BY PowersOfTwo
<1> DEFINE N == {n \in Nat : P[a + n] = P[a] * P[n]}
<1>2. 0 \in N
  <2>1. P[a] \in Nat /\ P[a] * 1 = P[a]
    BY <1>1
  <2>2. QED
    BY <1>1, <2>1
<1>3. ASSUME NEW n \in N PROVE n + 1 \in N
  <2>1. n \in Nat /\ a + n \in Nat /\ a + (n + 1) = (a + n) + 1
    OBVIOUS
  <2>2. PICK x \in Nat, y \in Nat, z \in Nat : x = P[a] /\ y = P[n] /\ z = P[a + n]
    BY <1>1, <2>1
  <2>3. P[n + 1] = 2 * y /\ P[(a + n) + 1] = 2 * z /\ z = x * y
    BY <1>1, <1>3, <2>1, <2>2
  <2>4. 2 * (x * y) = x * (2 * y)
    OBVIOUS
  <2>5. QED
    BY <2>1, <2>2, <2>3, <2>4
<1> HIDE DEF N
<1>4. \A n \in Nat : n \in N
  BY <1>2, <1>3, NatSetInduction DEF N
<1>5. QED
  BY <1>4 DEF N

\* A place in an array of rows of n, taken apart.
LEMMA RowAndColumn ==
  ASSUME NEW n \in Nat, n > 0, NEW m \in Nat, NEW k \in 0 .. m - 1, NEW j \in 0 .. n - 1
  PROVE  k * n + j \in 0 .. n * m - 1 /\ (k * n + j) \div n = k /\ (k * n + j) % n = j
<1>1. PICK kn \in Int : kn = k * n /\ kn = n * k
  OBVIOUS
<1>2. kn + j = n * k + j /\ kn + j \in Int /\ k \in Int /\ 0 <= j /\ j < n
  BY <1>1
<1>3. (kn + j) \div n = k /\ (kn + j) % n = j
  BY <1>2, DivModUnique
<1>4. PICK l \in Nat : m = k + 1 + l
  <2>1. m - k - 1 \in Nat /\ m = k + 1 + (m - k - 1)
    OBVIOUS
  <2>2. QED
    BY <2>1
<1>5. n * m = kn + n + n * l /\ n * l >= 0
  BY <1>1, <1>4
<1>6. PICK nl \in Int : nl = n * l
  OBVIOUS
<1>7. kn >= 0
  BY <1>1
<1>8. PICK nm \in Int : nm = n * m
  OBVIOUS
<1>9. kn + j \in 0 .. nm - 1
  BY <1>5, <1>6, <1>7, <1>8
<1>10. QED
  BY <1>1, <1>3, <1>8, <1>9

LEMMA PlaceTakenApart ==
  ASSUME NEW n \in Nat, n > 0, NEW p \in 0 .. n * n - 1
  PROVE  p \div n \in 0 .. n - 1 /\ p % n \in 0 .. n - 1
<1>1. PICK k \in Int, i \in 0 .. n - 1 : p \div n = k /\ p % n = i /\ p = n * k + i
  <2>1. p \in Int
    OBVIOUS
  <2>2. QED
    BY <2>1, DivMod
<1>2. PICK nk \in Int, nn \in Int : nk = n * k /\ nn = n * n
  OBVIOUS
<1>3. ASSUME k < 0 PROVE FALSE
  <2>1. nk <= -n
    BY <1>2, <1>3
  <2>2. QED
    BY <1>1, <1>2, <2>1
<1>4. ASSUME k >= n PROVE FALSE
  <2>1. nk >= nn
    BY <1>2, <1>4
  <2>2. QED
    BY <1>1, <1>2, <2>1
<1>5. QED
  BY <1>1, <1>3, <1>4

LEMMA ModOfMod ==
  ASSUME NEW q \in Nat, q > 0, NEW t \in Nat, NEW w \in Nat, w = q * t, w > 0, NEW x \in Int
  PROVE  (x % w) % q \in 0 .. q - 1 /\ Cong(q, (x % w) % q, x) /\ Cong(q, x % w, x) /\ x % w \in Int
<1>1. PICK y \in Int : y = x % w /\ Cong(w, y, x)
  BY CongMod
<1>2. PICK e \in Int : y = x + w * e
  BY <1>1 DEF Cong
<1>3. w * e = q * (t * e)
  OBVIOUS
<1>4. Cong(q, y, x)
  BY <1>2, <1>3 DEF Cong
<1>5. y % q \in 0 .. q - 1 /\ Cong(q, y % q, y)
  BY CongMod
<1>6. PICK z \in Int : z = y % q
  BY <1>5
<1>7. Cong(q, z, x)
  BY <1>4, <1>5, <1>6, CongTrans
<1>8. QED
  BY <1>1, <1>4, <1>5, <1>6, <1>7

\* Noise that rounds to nothing leaves the chunk.
LEMMA ChunkReturns ==
  ASSUME NEW b \in Nat, b > 0, NEW M \in Nat, NEW m \in 0 .. M - 1, NEW q \in Nat, q > 0, q = (2 * b) * M,
         NEW n \in Int, (n + b) % q < 2 * b, NEW z \in 0 .. q - 1, Cong(q, z, n + m * (2 * b))
  PROVE  (((z % q) + b) \div (2 * b)) % M = m
<1>1. PICK t \in Int, d \in Int : n = q * t + d /\ -b <= d /\ d < b
  <2>1. PICK t \in Int, s \in 0 .. q - 1 : (n + b) % q = s /\ n + b = q * t + s
    <3>1. n + b \in Int
      OBVIOUS
    <3>2. QED
      BY <3>1, DivMod
  <2>2. PICK qt \in Int, d \in Int : qt = q * t /\ d = s - b
    OBVIOUS
  <2>3. n = qt + d /\ -b <= d /\ d < b
    BY <2>1, <2>2
  <2>4. QED
    BY <2>2, <2>3
<1>2. PICK mb \in Int : mb = m * (2 * b)
  OBVIOUS
<1>3. PICK c \in Int : z = n + mb + q * c
  BY <1>2 DEF Cong
<1>4. z = (mb + d) + q * (t + c)
  <2>1. PICK qt \in Int, qc \in Int : qt = q * t /\ qc = q * c
    OBVIOUS
  <2>2. q * (t + c) = qt + qc
    BY <2>1
  <2>3. QED
    BY <1>1, <1>3, <2>1, <2>2
<1>5. Cong(q, z, mb + d)
  BY <1>4 DEF Cong
<1>6. z % q = (mb + d) % q
  <2>1. z \in Int /\ mb + d \in Int
    OBVIOUS
  <2>2. QED
    BY <1>5, <2>1, CongSame
<1>7. ((((m * (2 * b) + d) % ((2 * b) * M)) + b) \div (2 * b)) % M = m
  BY <1>1, ChunkComesBack
<1>8. QED
  BY <1>2, <1>6, <1>7

-----------------------------------------------------------------------------
FrodoSizes ==
  /\ FrodoN \in Nat \ {0} /\ FrodoNbar \in Nat \ {0} /\ FrodoBits \in Nat
  /\ FrodoLogQ \in Nat /\ FrodoWord \in Nat /\ FrodoBits < FrodoLogQ /\ FrodoLogQ <= FrodoWord

LEMMA FrodoSums == \A f, S : Fro!SumFunctionOnSet(f, S) = SumFunctionOnSet(f, S)
BY Zenon DEF Fro!SumFunctionOnSet, SumFunctionOnSet, Fro!FoldFunctionOnSet, FoldFunctionOnSet,
             Fro!MapThenFoldSet, MapThenFoldSet

LEMMA FrodoPowers ==
  ASSUME FrodoSizes
  PROVE  \E b \in Nat, M \in Nat, t \in Nat :
           /\ b > 0 /\ M > 0 /\ t > 0
           /\ Fro!Pow2[FrodoLogQ - FrodoBits - 1] = b /\ Fro!Pow2[FrodoLogQ - FrodoBits] = 2 * b
           /\ Fro!Pow2[FrodoBits] = M /\ Fro!Q = (2 * b) * M /\ Fro!Q \in Nat /\ Fro!Q > 0
           /\ Fro!Word = Fro!Q * t /\ Fro!Word \in Nat /\ Fro!Word > 0
<1>1. \A n \in Nat : Fro!Pow2[n] \in Nat /\ Fro!Pow2[n] > 0 /\ Fro!Pow2[n + 1] = 2 * Fro!Pow2[n]
  BY PowersOfTwo DEF Fro!Pow2
<1>2. ASSUME NEW a \in Nat, NEW b \in Nat PROVE Fro!Pow2[a + b] = Fro!Pow2[a] * Fro!Pow2[b]
  BY PowersAdd DEF Fro!Pow2
<1>3. PICK u \in Nat, v \in Nat : /\ u = FrodoLogQ - FrodoBits - 1 /\ v = FrodoWord - FrodoLogQ
                                  /\ u + 1 = FrodoLogQ - FrodoBits
                                  /\ (u + 1) + FrodoBits = FrodoLogQ /\ FrodoLogQ + v = FrodoWord
  <2>1. FrodoLogQ - FrodoBits - 1 \in Nat /\ FrodoWord - FrodoLogQ \in Nat
    BY DEF FrodoSizes
  <2>2. PICK u \in Nat, v \in Nat : u = FrodoLogQ - FrodoBits - 1 /\ v = FrodoWord - FrodoLogQ
    BY <2>1
  <2>3. QED
    BY <2>2 DEF FrodoSizes
<1>4. PICK b \in Nat, M \in Nat, t \in Nat, q \in Nat, w \in Nat :
        /\ b = Fro!Pow2[u] /\ M = Fro!Pow2[FrodoBits] /\ t = Fro!Pow2[v]
        /\ q = Fro!Q /\ w = Fro!Word /\ b > 0 /\ M > 0 /\ t > 0 /\ q > 0 /\ w > 0
  BY <1>1 DEF FrodoSizes, Fro!Q, Fro!Word
<1>5. Fro!Pow2[u + 1] = 2 * b
  BY <1>1, <1>4
<1>6. q = (2 * b) * M
  <2>1. Fro!Pow2[(u + 1) + FrodoBits] = Fro!Pow2[u + 1] * Fro!Pow2[FrodoBits]
    BY <1>2 DEF FrodoSizes
  <2>2. QED
    BY <1>3, <1>4, <1>5, <2>1 DEF Fro!Q
<1>7. w = q * t
  <2>1. Fro!Pow2[FrodoLogQ + v] = Fro!Pow2[FrodoLogQ] * Fro!Pow2[v]
    BY <1>2 DEF FrodoSizes
  <2>2. QED
    BY <1>3, <1>4, <2>1 DEF Fro!Q, Fro!Word
<1>8. QED
  BY <1>3, <1>4, <1>5, <1>6, <1>7

FrodoMaterial == [a : [0 .. FrodoN * FrodoN - 1 -> Int], s : [Fro!Rows -> Int], e : [Fro!Rows -> Int]]
FrodoNoise == [s : [Fro!Rows -> Int], e : [Fro!Rows -> Int], f : [Fro!Block -> Int]]

\* The rows and columns that meet in a coefficient of the block.
Row(n, f, k) == [j \in 0 .. n - 1 |-> f[k * n + j]]
Down(n, nb, f, i) == [j \in 0 .. n - 1 |-> f[j * nb + i]]
Matrix(n, a) == [j \in 0 .. n - 1 |-> [l \in 0 .. n - 1 |-> a[j * n + l]]]

\* The public matrix of a key, in the column of a coefficient.
LEMMA FrodoPublic ==
  ASSUME FrodoSizes, NEW x \in FrodoMaterial, NEW i \in 0 .. FrodoNbar - 1,
         NEW J, J = 0 .. FrodoN - 1, NEW s, s = Row(FrodoN, x.s, i), NEW a, a = Matrix(FrodoN, x.a),
         NEW e, e = Down(FrodoN, FrodoNbar, x.e, i), NEW b, b = Down(FrodoN, FrodoNbar, Fro!KeyPair(x).b, i)
  PROVE  Splits(Fro!Q, J, b, e, ByRows(J, a, s))
<1>1. PICK h \in Nat, M \in Nat, t \in Nat :
        Fro!Q \in Nat /\ Fro!Q > 0 /\ Fro!Word = Fro!Q * t /\ Fro!Word \in Nat /\ Fro!Word > 0 /\ t > 0
  BY FrodoPowers
<1>0. FrodoN \in Nat /\ FrodoN > 0 /\ FrodoNbar \in Nat /\ FrodoNbar > 0
  BY DEF FrodoSizes
<1>2. PICK n \in Nat, nb \in Nat, q \in Nat, w \in Nat :
        n = FrodoN /\ nb = FrodoNbar /\ q = Fro!Q /\ w = Fro!Word /\ n > 0 /\ nb > 0 /\ q > 0 /\ w > 0 /\ w = q * t
  BY <1>0, <1>1, Zenon
<1>3. /\ x.s \in [0 .. n * nb - 1 -> Int] /\ x.e \in [0 .. n * nb - 1 -> Int] /\ x.a \in [0 .. n * n - 1 -> Int]
      /\ Fro!Rows = 0 .. n * nb - 1
  BY <1>2 DEF FrodoMaterial, Fro!Rows
<1>4. PICK B : B = Fro!MulAddAsPlusE(x.a, x.s, x.e)
  OBVIOUS
<1>5. B = [y \in Fro!Rows |-> (x.e[y] + Fro!Dot([l \in 0 .. n - 1 |-> x.a[(y \div nb) * n + l] * x.s[(y % nb) * n + l]])) % w]
  BY <1>2, <1>4, Zenon DEF Fro!MulAddAsPlusE, Fro!Value
<1>6. ASSUME NEW j \in J PROVE b[j] \in Int /\ Cong(q, b[j], e[j] + ByRows(J, a, s)[j])
  <2>1. PICK y \in Fro!Rows : y = j * nb + i /\ y \div nb = j /\ y % nb = i
    <3>0. j \in 0 .. n - 1 /\ i \in 0 .. nb - 1
      BY <1>2
    <3>1. j * nb + i \in 0 .. nb * n - 1 /\ (j * nb + i) \div nb = j /\ (j * nb + i) % nb = i
      BY <1>2, <3>0, RowAndColumn
    <3>2. nb * n = n * nb
      BY <1>2
    <3>3. QED
      BY <1>3, <3>1, <3>2
  <2>2. PICK g : g = ByPlaces(J, a[j], s)
    OBVIOUS
  <2>3. ASSUME NEW l \in J PROVE g[l] = x.a[j * n + l] * x.s[i * n + l] /\ g[l] \in Int
    <3>1. j * n + l \in 0 .. n * n - 1 /\ i * n + l \in 0 .. n * nb - 1
      BY <1>2, RowAndColumn
    <3>2. a[j][l] = x.a[j * n + l] /\ s[l] = x.s[i * n + l]
      BY <1>2 DEF Matrix, Row
    <3>3. g[l] = a[j][l] * s[l]
      BY <2>2 DEF ByPlaces
    <3>4. x.a[j * n + l] \in Int /\ x.s[i * n + l] \in Int
      BY <1>3, <3>1
    <3>5. QED
      BY <3>2, <3>3, <3>4
  <2>4. g = [l \in 0 .. n - 1 |-> x.a[(y \div nb) * n + l] * x.s[(y % nb) * n + l]]
    BY <1>2, <2>1, <2>2, <2>3 DEF ByPlaces
  <2>5. Fro!Dot(g) = Sum(g, J)
    BY <1>2, FrodoSums DEF Fro!Dot, Sum
  <2>6. Sum(g, J) \in Int
    <3>1. IsFiniteSet(J)
      BY <1>2, PlacesFinite DEF Places
    <3>2. QED
      BY <2>3, <3>1, SumType DEF Sum
  <2>7. PICK u \in Int : u = x.e[y] + Sum(g, J)
    <3>1. PICK v \in Int, z \in Int : v = x.e[y] /\ z = Sum(g, J)
      BY <1>3, <2>1, <2>6
    <3>2. QED
      BY <3>1
  <2>8. B[y] = u % w
    BY <1>5, <2>1, <2>4, <2>5, <2>7
  <2>9. b[j] = (u % w) % q
    <3>1. Fro!KeyPair(x).b = [z \in Fro!Rows |-> B[z] % q]
      BY <1>2, <1>4 DEF Fro!KeyPair
    <3>2. b[j] = Fro!KeyPair(x).b[y]
      BY <1>2, <2>1 DEF Down
    <3>3. QED
      BY <2>8, <3>1, <3>2
  <2>10. (u % w) % q \in 0 .. q - 1 /\ Cong(q, (u % w) % q, u)
    BY <1>2, ModOfMod
  <2>11. u = e[j] + ByRows(J, a, s)[j]
    BY <1>2, <2>1, <2>2, <2>7 DEF Down, ByRows
  <2>12. QED
    BY <2>9, <2>10, <2>11
<1>7. QED
  BY <1>2, <1>6 DEF Splits

\* The first part of a ciphertext, in the row of a coefficient.
LEMMA FrodoFirst ==
  ASSUME FrodoSizes, NEW x \in FrodoMaterial, NEW r \in FrodoNoise, NEW m, NEW k \in 0 .. FrodoNbar - 1,
         NEW J, J = 0 .. FrodoN - 1, NEW p, p = Row(FrodoN, r.s, k), NEW a, a = Matrix(FrodoN, x.a),
         NEW d, d = Row(FrodoN, r.e, k), NEW c, c = Row(FrodoN, Fro!Encrypt(Fro!KeyPair(x), m, r).c1, k)
  PROVE  Splits(Fro!Q, J, c, d, ByColumns(J, p, a))
<1>1. PICK h \in Nat, M \in Nat, t \in Nat :
        Fro!Q \in Nat /\ Fro!Q > 0 /\ Fro!Word = Fro!Q * t /\ Fro!Word \in Nat /\ Fro!Word > 0 /\ t > 0
  BY FrodoPowers
<1>0. FrodoN \in Nat /\ FrodoN > 0 /\ FrodoNbar \in Nat /\ FrodoNbar > 0
  BY DEF FrodoSizes
<1>2. PICK n \in Nat, nb \in Nat, q \in Nat, w \in Nat :
        n = FrodoN /\ nb = FrodoNbar /\ q = Fro!Q /\ w = Fro!Word /\ n > 0 /\ nb > 0 /\ q > 0 /\ w > 0 /\ w = q * t
  BY <1>0, <1>1, Zenon
<1>3. /\ r.s \in [0 .. n * nb - 1 -> Int] /\ r.e \in [0 .. n * nb - 1 -> Int] /\ x.a \in [0 .. n * n - 1 -> Int]
      /\ Fro!Rows = 0 .. n * nb - 1
  BY <1>2 DEF FrodoMaterial, FrodoNoise, Fro!Rows
<1>4. PICK B : B = Fro!MulAddSaPlusE(x.a, r.s, r.e)
  OBVIOUS
<1>5. B = [y \in Fro!Rows |-> (r.e[y] + Fro!Dot([l \in 0 .. n - 1 |-> r.s[(y \div n) * n + l] * x.a[l * n + (y % n)]])) % w]
  BY <1>2, <1>4, Zenon DEF Fro!MulAddSaPlusE, Fro!Value
<1>6. ASSUME NEW j \in J PROVE c[j] \in Int /\ Cong(q, c[j], d[j] + ByColumns(J, p, a)[j])
  <2>1. PICK y \in Fro!Rows : y = k * n + j /\ y \div n = k /\ y % n = j
    <3>1. k * n + j \in 0 .. n * nb - 1 /\ (k * n + j) \div n = k /\ (k * n + j) % n = j
      BY <1>2, RowAndColumn
    <3>2. QED
      BY <1>3, <3>1
  <2>2. PICK g : g = ByPlaces(J, p, Column(J, a, j))
    OBVIOUS
  <2>3. ASSUME NEW l \in J PROVE g[l] = r.s[k * n + l] * x.a[l * n + j] /\ g[l] \in Int
    <3>1. l * n + j \in 0 .. n * n - 1 /\ k * n + l \in 0 .. n * nb - 1
      BY <1>2, RowAndColumn
    <3>2. Column(J, a, j)[l] = x.a[l * n + j] /\ p[l] = r.s[k * n + l]
      BY <1>2 DEF Matrix, Row, Column
    <3>3. g[l] = p[l] * Column(J, a, j)[l]
      BY <2>2 DEF ByPlaces
    <3>4. x.a[l * n + j] \in Int /\ r.s[k * n + l] \in Int
      BY <1>3, <3>1
    <3>5. QED
      BY <3>2, <3>3, <3>4
  <2>4. g = [l \in 0 .. n - 1 |-> r.s[(y \div n) * n + l] * x.a[l * n + (y % n)]]
    BY <1>2, <2>1, <2>2, <2>3 DEF ByPlaces
  <2>5. Fro!Dot(g) = Sum(g, J)
    BY <1>2, FrodoSums DEF Fro!Dot, Sum
  <2>6. Sum(g, J) \in Int
    <3>1. IsFiniteSet(J)
      BY <1>2, PlacesFinite DEF Places
    <3>2. QED
      BY <2>3, <3>1, SumType DEF Sum
  <2>7. PICK u \in Int : u = r.e[y] + Sum(g, J)
    <3>1. PICK v \in Int, z \in Int : v = r.e[y] /\ z = Sum(g, J)
      BY <1>3, <2>1, <2>6
    <3>2. QED
      BY <3>1
  <2>8. B[y] = u % w
    BY <1>5, <2>1, <2>4, <2>5, <2>7
  <2>9. c[j] = (u % w) % q
    <3>1. Fro!KeyPair(x).a = x.a
      BY DEF Fro!KeyPair
    <3>2. Fro!Encrypt(Fro!KeyPair(x), m, r).c1 = [z \in Fro!Rows |-> B[z] % q]
      BY <1>2, <1>4, <3>1 DEF Fro!Encrypt
    <3>3. c[j] = Fro!Encrypt(Fro!KeyPair(x), m, r).c1[y]
      BY <1>2, <2>1 DEF Row
    <3>4. QED
      BY <2>8, <3>2, <3>3
  <2>10. (u % w) % q \in 0 .. q - 1 /\ Cong(q, (u % w) % q, u)
    BY <1>2, ModOfMod
  <2>11. u = d[j] + ByColumns(J, p, a)[j]
    BY <1>2, <2>1, <2>2, <2>7 DEF Row, ByColumns
  <2>12. QED
    BY <2>9, <2>10, <2>11
<1>7. QED
  BY <1>2, <1>6 DEF Splits

-----------------------------------------------------------------------------
\* What an element of the block makes of the two products.
LEMMA FrodoCoefficient ==
  ASSUME FrodoSizes, NEW x \in FrodoMaterial, NEW r \in FrodoNoise, NEW m, NEW y \in Fro!Block,
         m \in [Fro!Block -> 0 .. Fro!Pow2[FrodoBits] - 1], Fro!NoiseFits(x, r)
  PROVE  Fro!Decrypt(Fro!KeyPair(x), Fro!Encrypt(Fro!KeyPair(x), m, r))[y] = m[y]
<1>1. PICK half \in Nat, M \in Nat, t \in Nat :
        /\ half > 0 /\ M > 0 /\ t > 0
        /\ Fro!Pow2[FrodoLogQ - FrodoBits - 1] = half /\ Fro!Pow2[FrodoLogQ - FrodoBits] = 2 * half
        /\ Fro!Pow2[FrodoBits] = M /\ Fro!Q = (2 * half) * M /\ Fro!Q \in Nat /\ Fro!Q > 0
  BY FrodoPowers
<1>0. FrodoN \in Nat /\ FrodoN > 0 /\ FrodoNbar \in Nat /\ FrodoNbar > 0
  BY DEF FrodoSizes
<1>2. PICK n \in Nat, nb \in Nat, q \in Nat :
        n = FrodoN /\ nb = FrodoNbar /\ q = Fro!Q /\ n > 0 /\ nb > 0 /\ q > 0 /\ q = (2 * half) * M
  BY <1>0, <1>1, Zenon
<1>3. PICK k \in 0 .. nb - 1, i \in 0 .. nb - 1 : y \div nb = k /\ y % nb = i
  <2>1. y \in 0 .. nb * nb - 1
    BY <1>2 DEF Fro!Block
  <2>2. QED
    BY <1>2, <2>1, PlaceTakenApart
<1>4. PICK J : J = 0 .. n - 1 /\ IsFiniteSet(J)
  BY <1>2, PlacesFinite DEF Places
<1>5. PICK kp, ct : kp = Fro!KeyPair(x) /\ ct = Fro!Encrypt(kp, m, r)
  OBVIOUS
<1>6. PICK p, d, s, e, a, b, c :
        /\ p = Row(n, r.s, k) /\ d = Row(n, r.e, k) /\ s = Row(n, x.s, i) /\ e = Down(n, nb, x.e, i)
        /\ a = Matrix(n, x.a) /\ b = Down(n, nb, kp.b, i) /\ c = Row(n, ct.c1, k)
  OBVIOUS
<1>7. Splits(q, J, b, e, ByRows(J, a, s))
  BY <1>2, <1>3, <1>4, <1>5, <1>6, FrodoPublic
<1>8. Splits(q, J, c, d, ByColumns(J, p, a))
  BY <1>2, <1>3, <1>4, <1>5, <1>6, FrodoFirst
<1>9. Ints(J, p) /\ Ints(J, d) /\ Ints(J, s) /\ Ints(J, e) /\ Grid(J, a)
  <2>1. /\ r.s \in [0 .. n * nb - 1 -> Int] /\ r.e \in [0 .. n * nb - 1 -> Int] /\ x.s \in [0 .. n * nb - 1 -> Int]
        /\ x.e \in [0 .. n * nb - 1 -> Int] /\ x.a \in [0 .. n * n - 1 -> Int]
    BY <1>2 DEF FrodoMaterial, FrodoNoise, Fro!Rows
  <2>2. ASSUME NEW j \in J PROVE p[j] \in Int /\ d[j] \in Int /\ s[j] \in Int
    <3>1. k * n + j \in 0 .. n * nb - 1 /\ i * n + j \in 0 .. n * nb - 1
      BY <1>2, <1>4, RowAndColumn
    <3>2. p[j] = r.s[k * n + j] /\ d[j] = r.e[k * n + j] /\ s[j] = x.s[i * n + j]
      BY <1>4, <1>6 DEF Row
    <3>3. QED
      BY <2>1, <3>1, <3>2
  <2>3. ASSUME NEW j \in J PROVE e[j] \in Int
    <3>0. j \in 0 .. n - 1
      BY <1>4
    <3>1. j * nb + i \in 0 .. nb * n - 1
      BY <1>2, <3>0, RowAndColumn
    <3>2. nb * n = n * nb
      OBVIOUS
    <3>3. e[j] = x.e[j * nb + i]
      BY <1>4, <1>6 DEF Down
    <3>4. QED
      BY <2>1, <3>1, <3>2, <3>3
  <2>4. ASSUME NEW j \in J, NEW l \in J PROVE a[j][l] \in Int
    <3>1. j * n + l \in 0 .. n * n - 1
      BY <1>2, <1>4, RowAndColumn
    <3>2. a[j][l] = x.a[j * n + l]
      BY <1>4, <1>6 DEF Matrix
    <3>3. QED
      BY <2>1, <3>1, <3>2
  <2>5. QED
    BY <2>2, <2>3, <2>4 DEF Ints, Grid
<1>10. PICK X \in Int, Y \in Int, U \in Int, V \in Int :
         /\ X = Sum(ByPlaces(J, p, b), J) /\ Y = Sum(ByPlaces(J, c, s), J)
         /\ U = Sum(ByPlaces(J, p, e), J) /\ V = Sum(ByPlaces(J, d, s), J)
         /\ Cong(q, X - Y, U - V)
  <2>1. /\ Sum(ByPlaces(J, p, b), J) \in Int /\ Sum(ByPlaces(J, c, s), J) \in Int
        /\ Sum(ByPlaces(J, p, e), J) \in Int /\ Sum(ByPlaces(J, d, s), J) \in Int
        /\ Cong(q, Sum(ByPlaces(J, p, b), J) - Sum(ByPlaces(J, c, s), J),
                   Sum(ByPlaces(J, p, e), J) - Sum(ByPlaces(J, d, s), J))
    BY <1>4, <1>7, <1>8, <1>9, BothSidesAgree
  <2>2. QED
    BY <2>1
<1>11. \A f : Fro!Dot(f) = Sum(f, J)
  BY <1>2, <1>4, FrodoSums, Zenon DEF Fro!Dot, Sum
<1>12. PICK f \in Int, g \in 0 .. M - 1 : f = r.f[y] /\ g = m[y]
  BY <1>1 DEF FrodoNoise
<1>13. (f + U - V + half) % q < 2 * half
  <2>1. (r.f[y] + Fro!Dot([j \in 0 .. n - 1 |-> r.s[k * n + j] * x.e[j * nb + i]])
           - Fro!Dot([j \in 0 .. n - 1 |-> r.e[k * n + j] * x.s[i * n + j]]) + half) % q < 2 * half
    BY <1>1, <1>2, <1>3, Zenon DEF Fro!NoiseFits
  <2>2. [j \in 0 .. n - 1 |-> r.s[k * n + j] * x.e[j * nb + i]] = ByPlaces(J, p, e)
    BY <1>4, <1>6 DEF ByPlaces, Row, Down
  <2>3. [j \in 0 .. n - 1 |-> r.e[k * n + j] * x.s[i * n + j]] = ByPlaces(J, d, s)
    BY <1>4, <1>6 DEF ByPlaces, Row
  <2>4. QED
    BY <1>10, <1>11, <1>12, <2>1, <2>2, <2>3
<1>14. PICK v \in Int : Fro!MulAddSbPlusE(kp.b, r.s, r.f)[y] = v /\ Cong(q, v, f + X)
  <2>1. Fro!MulAddSbPlusE(kp.b, r.s, r.f)[y]
          = (r.f[y] + Fro!Dot([j \in 0 .. n - 1 |-> r.s[k * n + j] * kp.b[j * nb + i]])) % q
    BY <1>2, <1>3, Zenon DEF Fro!MulAddSbPlusE, Fro!Value
  <2>2. [j \in 0 .. n - 1 |-> r.s[k * n + j] * kp.b[j * nb + i]] = ByPlaces(J, p, b)
    BY <1>4, <1>6 DEF ByPlaces, Row, Down
  <2>3. Fro!MulAddSbPlusE(kp.b, r.s, r.f)[y] = (f + X) % q
    BY <1>10, <1>11, <1>12, <2>1, <2>2
  <2>4. PICK z \in Int : z = f + X
    OBVIOUS
  <2>5. z % q \in 0 .. q - 1 /\ Cong(q, z % q, z)
    BY <1>2, CongMod
  <2>6. QED
    BY <2>3, <2>4, <2>5
<1>15. PICK w \in Int : Fro!MulBs(ct.c1, kp.s)[y] = w /\ Cong(q, w, Y)
  <2>1. Fro!MulBs(ct.c1, kp.s)[y] = Fro!Dot([j \in 0 .. n - 1 |-> ct.c1[k * n + j] * kp.s[i * n + j]]) % q
    BY <1>2, <1>3, Zenon DEF Fro!MulBs, Fro!Value
  <2>2. kp.s = x.s
    BY <1>5 DEF Fro!KeyPair
  <2>3. [j \in 0 .. n - 1 |-> ct.c1[k * n + j] * kp.s[i * n + j]] = ByPlaces(J, c, s)
    BY <1>4, <1>6, <2>2 DEF ByPlaces, Row
  <2>4. Fro!MulBs(ct.c1, kp.s)[y] = Y % q
    BY <1>10, <1>11, <2>1, <2>3
  <2>5. Y % q \in 0 .. q - 1 /\ Cong(q, Y % q, Y)
    BY <1>2, CongMod
  <2>6. QED
    BY <2>4, <2>5
<1>16. PICK h \in Int : Fro!KeyEncode(g) = h /\ h = g * (2 * half)
  BY <1>1 DEF Fro!KeyEncode
<1>17. ct.c2[y] = (v + h) % q
  BY <1>2, <1>5, <1>12, <1>14, <1>16 DEF Fro!Encrypt
<1>18. PICK u \in Int : u = (v + h) % q /\ Cong(q, u, v + h)
  <2>1. PICK z \in Int : z = v + h
    OBVIOUS
  <2>2. z % q \in 0 .. q - 1 /\ Cong(q, z % q, z)
    BY <1>2, CongMod
  <2>3. QED
    BY <2>1, <2>2
<1>19. PICK z \in 0 .. q - 1 : z = (u - w) % q /\ Cong(q, z, u - w)
  <2>1. PICK j \in Int : j = u - w
    OBVIOUS
  <2>2. j % q \in 0 .. q - 1 /\ Cong(q, j % q, j)
    BY <1>2, CongMod
  <2>3. QED
    BY <2>1, <2>2
<1>20. Cong(q, z, (f + U - V) + g * (2 * half))
  <2>1. PICK j1 \in Int, j2 \in Int, j3 \in Int, j4 \in Int, j5 \in Int :
          /\ X - Y = U - V + q * j1 /\ v = f + X + q * j2 /\ w = Y + q * j3 /\ u = v + h + q * j4
          /\ z = u - w + q * j5
    <3>1. PICK j1 \in Int : X - Y = U - V + q * j1
      BY <1>10 DEF Cong
    <3>2. PICK j2 \in Int : v = f + X + q * j2
      BY <1>14 DEF Cong
    <3>3. PICK j3 \in Int : w = Y + q * j3
      BY <1>15 DEF Cong
    <3>4. PICK j4 \in Int : u = v + h + q * j4
      BY <1>18 DEF Cong
    <3>5. PICK j5 \in Int : z = u - w + q * j5
      BY <1>19 DEF Cong
    <3>6. QED
      BY <3>1, <3>2, <3>3, <3>4, <3>5
  <2>2. PICK q1 \in Int, q2 \in Int, q3 \in Int, q4 \in Int, q5 \in Int :
          q1 = q * j1 /\ q2 = q * j2 /\ q3 = q * j3 /\ q4 = q * j4 /\ q5 = q * j5
    OBVIOUS
  <2>3. z = (f + U - V) + h + (q1 + q2 - q3 + q4 + q5)
    BY <2>1, <2>2
  <2>4. q1 + q2 - q3 + q4 + q5 = q * (j1 + j2 - j3 + j4 + j5)
    BY <2>2
  <2>5. j1 + j2 - j3 + j4 + j5 \in Int
    OBVIOUS
  <2>6. QED
    BY <1>16, <2>3, <2>4, <2>5 DEF Cong
<1>21. (((z % q) + half) \div (2 * half)) % M = g
  <2>1. PICK no \in Int : no = f + U - V
    OBVIOUS
  <2>2. (no + half) % q < 2 * half /\ Cong(q, z, no + g * (2 * half))
    BY <1>13, <1>20, <2>1
  <2>3. QED
    BY <1>1, <1>2, <2>2, ChunkReturns
<1>22. Fro!KeyDecode(z) = g
  BY <1>1, <1>2, <1>21, Zenon DEF Fro!KeyDecode
<1>23. Fro!Decrypt(kp, ct)[y] = Fro!KeyDecode(z)
  <2>1. Fro!Decrypt(kp, ct)[y] = Fro!KeyDecode((ct.c2[y] - Fro!MulBs(ct.c1, kp.s)[y]) % q)
    BY <1>2, Zenon DEF Fro!Decrypt
  <2>2. QED
    BY <1>15, <1>17, <1>18, <1>19, <2>1
<1>24. QED
  BY <1>5, <1>12, <1>22, <1>23

LEMMA FrodoDecrypts ==
  ASSUME FrodoSizes, NEW x \in FrodoMaterial, NEW r \in FrodoNoise, NEW m,
         m \in [Fro!Block -> 0 .. Fro!Pow2[FrodoBits] - 1], Fro!NoiseFits(x, r)
  PROVE  Fro!Decrypt(Fro!KeyPair(x), Fro!Encrypt(Fro!KeyPair(x), m, r)) = m
<1>1. PICK d : d = Fro!Decrypt(Fro!KeyPair(x), Fro!Encrypt(Fro!KeyPair(x), m, r))
  OBVIOUS
<1>2. \A y \in Fro!Block : d[y] = m[y]
  BY <1>1, FrodoCoefficient
<1>3. d = [y \in Fro!Block |-> d[y]]
  BY <1>1, Zenon DEF Fro!Decrypt
<1>4. QED
  BY <1>1, <1>2, <1>3

-----------------------------------------------------------------------------
(***************************************************************************)
(* Decryption of NTRU.  A ciphertext times f is r g + m f modulo q; where  *)
(* that does not wrap, its centred coefficients are those integers; modulo *)
(* 3, g is gone, and m f times the inverse of f is m.  Dividing by the     *)
(* public half gives r back.                                               *)
(***************************************************************************)
\* Equal but for multiples of q, place by place.
Same(n, q, a, b) == \A k \in Places(n) : Cong(q, a[k], b[k])
Plus(n, a, b) == [k \in Places(n) |-> a[k] + b[k]]
Rest(n, q, a) == [k \in Places(n) |-> a[k] % q]

LEMMA SameSym ==
  ASSUME NEW n \in Nat, NEW q \in Nat, NEW a, NEW b, Integral(n, a), Integral(n, b), Same(n, q, a, b)
  PROVE  Same(n, q, b, a)
<1>1. SUFFICES ASSUME NEW k \in Places(n) PROVE Cong(q, b[k], a[k])
  BY DEF Same
<1>2. PICK x \in Int, y \in Int : x = a[k] /\ y = b[k]
  BY DEF Integral
<1>3. Cong(q, x, y)
  BY <1>2 DEF Same
<1>4. QED
  BY <1>2, <1>3, CongSym

LEMMA SameTrans ==
  ASSUME NEW n \in Nat, NEW q \in Nat, NEW a, NEW b, NEW d, Integral(n, a), Integral(n, b), Integral(n, d),
         Same(n, q, a, b), Same(n, q, b, d)
  PROVE  Same(n, q, a, d)
<1>1. SUFFICES ASSUME NEW k \in Places(n) PROVE Cong(q, a[k], d[k])
  BY DEF Same
<1>2. PICK x \in Int, y \in Int, z \in Int : x = a[k] /\ y = b[k] /\ z = d[k]
  BY DEF Integral
<1>3. Cong(q, x, y) /\ Cong(q, y, z)
  BY <1>2 DEF Same
<1>4. QED
  BY <1>2, <1>3, CongTrans

LEMMA SameAlike ==
  ASSUME NEW n \in Nat, NEW q \in Nat, NEW a, NEW b, Integral(n, a), Integral(n, b), Same(n, q, a, b)
  PROVE  Alike(n, q, a, b)
BY AlikeRefl DEF Same

LEMMA RestSame ==
  ASSUME NEW n \in Nat, NEW q \in Nat, q > 0, NEW a, Integral(n, a)
  PROVE  Integral(n, Rest(n, q, a)) /\ Same(n, q, Rest(n, q, a), a)
<1>1. ASSUME NEW k \in Places(n) PROVE Rest(n, q, a)[k] \in Int /\ Cong(q, Rest(n, q, a)[k], a[k])
  <2>1. PICK x \in Int : x = a[k]
    BY DEF Integral
  <2>2. x % q \in Int /\ Cong(q, x % q, x)
    BY CongMod
  <2>3. QED
    BY <2>1, <2>2 DEF Rest
<1>2. QED
  BY <1>1 DEF Integral, Same

LEMMA ConvSame ==
  ASSUME NEW n \in Nat, n > 0, NEW q \in Nat, NEW a, NEW b, NEW d,
         Integral(n, a), Integral(n, b), Integral(n, d), Same(n, q, a, b)
  PROVE  Same(n, q, Conv(n, a, d), Conv(n, b, d)) /\ Same(n, q, Conv(n, d, a), Conv(n, d, b))
<1>0. IsFiniteSet(Places(n))
  BY PlacesFinite
<1>1. ASSUME NEW k \in Places(n) PROVE Cong(q, Conv(n, a, d)[k], Conv(n, b, d)[k])
  <2>1. PICK f, h : f = Term(n, b, d, k) /\ h = Term(n, a, d, k)
    OBVIOUS
  <2>2. ASSUME NEW i \in Places(n) PROVE f[i] \in Int /\ h[i] \in Int /\ Cong(q, h[i], f[i])
    <3>1. PICK j \in Places(n) : j = (k - i) % n
      BY Around
    <3>2. PICK x \in Int, y \in Int, z \in Int : x = a[j] /\ y = b[j] /\ z = d[i]
      BY DEF Integral
    <3>3. Cong(q, x, y)
      BY <3>2 DEF Same
    <3>4. Cong(q, z * x, z * y)
      BY <3>3, CongScale
    <3>5. h[i] = z * x /\ f[i] = z * y
      BY <2>1, <3>1, <3>2 DEF Term
    <3>6. QED
      BY <3>4, <3>5
  <2>3. Cong(q, SumFunctionOnSet(h, Places(n)), SumFunctionOnSet(f, Places(n)))
    BY <1>0, <2>2, SumCong
  <2>4. QED
    BY <2>1, <2>3 DEF Conv
<1>2. Conv(n, a, d) = Conv(n, d, a) /\ Conv(n, b, d) = Conv(n, d, b)
  BY ConvCommutes
<1>3. QED
  BY <1>1, <1>2 DEF Same

LEMMA PlusType ==
  ASSUME NEW n \in Nat, NEW a, NEW b, Integral(n, a), Integral(n, b)
  PROVE  Integral(n, Plus(n, a, b)) /\ Integral(n, Minus(n, a, b))
<1>1. ASSUME NEW k \in Places(n) PROVE Plus(n, a, b)[k] \in Int /\ Minus(n, a, b)[k] \in Int
  BY DEF Plus, Minus, Integral
<1>2. QED
  BY <1>1 DEF Integral

LEMMA PlusSame ==
  ASSUME NEW n \in Nat, NEW q \in Nat, NEW a, NEW b, NEW d, NEW e,
         Integral(n, a), Integral(n, b), Integral(n, d), Integral(n, e), Same(n, q, a, b), Same(n, q, d, e)
  PROVE  Same(n, q, Plus(n, a, d), Plus(n, b, e)) /\ Same(n, q, Minus(n, a, d), Minus(n, b, e))
<1>1. ASSUME NEW k \in Places(n)
      PROVE  Cong(q, Plus(n, a, d)[k], Plus(n, b, e)[k]) /\ Cong(q, Minus(n, a, d)[k], Minus(n, b, e)[k])
  <2>1. PICK x \in Int, y \in Int, z \in Int, w \in Int : x = a[k] /\ y = b[k] /\ z = d[k] /\ w = e[k]
    BY DEF Integral
  <2>2. Cong(q, x, y) /\ Cong(q, z, w)
    BY <2>1 DEF Same
  <2>3. Cong(q, x + z, y + w) /\ Cong(q, x - z, y - w)
    BY <2>2, CongAdd
  <2>4. QED
    BY <2>1, <2>3 DEF Plus, Minus
<1>2. QED
  BY <1>1 DEF Same

LEMMA ConvPlus ==
  ASSUME NEW n \in Nat, n > 0, NEW a, NEW b, NEW d, Integral(n, a), Integral(n, b), Integral(n, d)
  PROVE  \A k \in Places(n) : Conv(n, Plus(n, a, b), d)[k] = Conv(n, a, d)[k] + Conv(n, b, d)[k]
<1>0. IsFiniteSet(Places(n)) /\ Integral(n, Plus(n, a, b))
  BY PlacesFinite, PlusType
<1>1. SUFFICES ASSUME NEW k \in Places(n)
               PROVE  Conv(n, Plus(n, a, b), d)[k] = Conv(n, a, d)[k] + Conv(n, b, d)[k]
  OBVIOUS
<1>a. PICK f, g, h : f = Term(n, a, d, k) /\ g = Term(n, b, d, k) /\ h = Term(n, Plus(n, a, b), d, k)
  OBVIOUS
<1>b. PICK q \in Nat, o \in Int : q = 0 /\ o = 1
  OBVIOUS
<1>2. f = Term(n, a, d, k) /\ g = Term(n, b, d, k) /\ h = Term(n, Plus(n, a, b), d, k) /\ q = 0 /\ o = 1
  BY <1>a, <1>b
<1>3. ASSUME NEW i \in Places(n)
      PROVE  f[i] \in Int /\ g[i] \in Int /\ h[i] \in Int /\ Cong(q, h[i], o * f[i] + o * g[i])
  <2>1. PICK j \in Places(n) : j = (k - i) % n
    BY Around
  <2>2. PICK x \in Int, y \in Int, z \in Int : x = a[j] /\ y = b[j] /\ z = d[i]
    BY DEF Integral
  <2>3. f[i] = x * z /\ g[i] = y * z /\ h[i] = (x + y) * z
    BY <1>2, <2>1, <2>2 DEF Term, Plus
  <2>4. (x + y) * z = o * (x * z) + o * (y * z)
    BY <1>2
  <2>5. x * z \in Int /\ y * z \in Int /\ (x + y) * z \in Int
    OBVIOUS
  <2>6. Cong(q, (x + y) * z, (x + y) * z)
    BY <2>5, CongRefl
  <2>7. QED
    BY <2>3, <2>4, <2>5, <2>6
<1>4. Cong(q, SumFunctionOnSet(h, Places(n)), o * SumFunctionOnSet(f, Places(n)) + o * SumFunctionOnSet(g, Places(n)))
  BY <1>0, <1>3, SumLinear
<1>5. PICK F \in Int, G \in Int, H \in Int :
        F = SumFunctionOnSet(f, Places(n)) /\ G = SumFunctionOnSet(g, Places(n)) /\ H = SumFunctionOnSet(h, Places(n))
  BY <1>0, <1>3, SumType
<1>6. H = F + G
  <2>1. Cong(q, H, o * F + o * G)
    BY <1>4, <1>5
  <2>2. QED
    BY <1>2, <2>1 DEF Cong
<1>7. QED
  BY <1>2, <1>5, <1>6 DEF Conv

\* Alike, in range and with the same last coefficient: the same.
LEMMA AlikeUnique ==
  ASSUME NEW n \in Nat, n > 0, NEW q \in Nat, q > 0, NEW a \in [Places(n) -> 0 .. q - 1],
         NEW b \in [Places(n) -> 0 .. q - 1], Alike(n, q, a, b), a[n - 1] = b[n - 1]
  PROVE  a = b
<1>1. PICK c \in Int : \A k \in Places(n) : Cong(q, a[k], b[k] + c)
  BY DEF Alike
<1>2. PICK l \in Places(n), z \in Int : l = n - 1 /\ z = a[l]
  BY DEF Places
<1>3. PICK e \in Int : z = z + c + q * e
  <2>1. Cong(q, z, z + c)
    BY <1>1, <1>2
  <2>2. QED
    BY <2>1 DEF Cong
<1>4. ASSUME NEW k \in Places(n) PROVE a[k] = b[k]
  <2>1. PICK x \in Int, y \in Int : x = a[k] /\ y = b[k] /\ 0 <= x /\ x < q /\ 0 <= y /\ y < q
    OBVIOUS
  <2>2. PICK d \in Int : x = y + c + q * d
    BY <1>1, <2>1 DEF Cong
  <2>3. x = y + q * (d - e)
    <3>1. PICK qe \in Int, qd \in Int : qe = q * e /\ qd = q * d
      OBVIOUS
    <3>2. q * (d - e) = qd - qe
      BY <3>1
    <3>3. QED
      BY <1>3, <2>2, <3>1, <3>2
  <2>4. d - e \in Int
    OBVIOUS
  <2>5. Cong(q, x, y)
    BY <2>3, <2>4 DEF Cong
  <2>6. x % q = y % q
    BY <2>5, CongSame
  <2>7. x % q = x /\ y % q = y
    BY <2>1, Below
  <2>8. QED
    BY <2>1, <2>6, <2>7
<1>5. QED
  BY <1>4

LEMMA ConvAlikeRight ==
  ASSUME NEW n \in Nat, n > 0, NEW q \in Nat, NEW a, NEW b, NEW d,
         Integral(n, a), Integral(n, b), Integral(n, d), Alike(n, q, a, b)
  PROVE  Alike(n, q, Conv(n, d, a), Conv(n, d, b))
<1>1. Conv(n, a, d) = Conv(n, d, a) /\ Conv(n, b, d) = Conv(n, d, b)
  BY ConvCommutes
<1>2. QED
  BY <1>1, ConvAlike

LEMMA ConvByUnit ==
  ASSUME NEW n \in Nat, n > 0, NEW q \in Nat, NEW a, NEW b, Integral(n, a), Integral(n, b), Alike(n, q, b, Unit(n))
  PROVE  Alike(n, q, Conv(n, a, b), a)
<1>1. Integral(n, Unit(n))
  BY DEF Integral, Unit
<1>2. PICK c, d : c = Conv(n, a, b) /\ d = Conv(n, a, Unit(n))
  OBVIOUS
<1>3. Integral(n, c) /\ Integral(n, d)
  BY <1>1, <1>2, ConvType
<1>4. Alike(n, q, c, d)
  BY <1>1, <1>2, ConvAlikeRight
<1>5. \A k \in Places(n) : Cong(q, d[k], a[k])
  BY <1>2, ConvUnit, CongRefl DEF Integral
<1>6. Alike(n, q, d, a)
  BY <1>3, <1>5, AlikeRefl
<1>7. QED
  BY <1>2, <1>3, <1>4, <1>6, AlikeTrans

LEMMA ConvSwap ==
  ASSUME NEW n \in Nat, n > 0, NEW a, NEW b, NEW c, Integral(n, a), Integral(n, b), Integral(n, c)
  PROVE  Conv(n, a, Conv(n, b, c)) = Conv(n, b, Conv(n, a, c))
<1>1. Conv(n, Conv(n, a, b), c) = Conv(n, a, Conv(n, b, c))
  BY ConvAssociates
<1>2. Conv(n, Conv(n, b, a), c) = Conv(n, b, Conv(n, a, c))
  BY ConvAssociates
<1>3. Conv(n, a, b) = Conv(n, b, a)
  BY ConvCommutes
<1>4. QED
  BY <1>1, <1>2, <1>3

-----------------------------------------------------------------------------
\* The products of key generation and decryption, as the source reduces them.
RestTimes(n, q, a, b) == Rest(n, q, Conv(n, a, b))
PhiTimes(n, q, a, b) == PhiMod(n, q, Conv(n, a, b))

LEMMA RestTimesSame ==
  ASSUME NEW n \in Nat, n > 0, NEW q \in Nat, q > 0, NEW a, NEW b, Integral(n, a), Integral(n, b)
  PROVE  /\ Integral(n, RestTimes(n, q, a, b)) /\ Same(n, q, RestTimes(n, q, a, b), Conv(n, a, b))
         /\ Integral(n, PhiTimes(n, q, a, b)) /\ Alike(n, q, PhiTimes(n, q, a, b), Conv(n, a, b))
<1>1. PICK c : c = Conv(n, a, b)
  OBVIOUS
<1>2. Integral(n, c)
  BY <1>1, ConvType
<1>3. Integral(n, Rest(n, q, c)) /\ Same(n, q, Rest(n, q, c), c)
  BY <1>2, RestSame
<1>4. Integral(n, PhiMod(n, q, c)) /\ Alike(n, q, PhiMod(n, q, c), c)
  BY <1>2, PhiModAlike
<1>5. QED
  BY <1>1, <1>3, <1>4 DEF RestTimes, PhiTimes

\* (i a) (a b) with b once more, in one order of the factors.
LEMMA HalvesProduct ==
  ASSUME NEW n \in Nat, n > 0, NEW i, NEW a, NEW b, Integral(n, i), Integral(n, a), Integral(n, b),
         NEW x, x = Conv(n, a, b), NEW ia, ia = Conv(n, i, a), NEW ib, ib = Conv(n, i, b), NEW ix, ix = Conv(n, i, x)
  PROVE  /\ Conv(n, Conv(n, ia, a), Conv(n, ib, b)) = Conv(n, ix, ix)
         /\ Conv(n, Conv(n, ia, a), b) = Conv(n, a, ix)
<1>1. Integral(n, x) /\ Integral(n, ia) /\ Integral(n, ib)
  BY ConvType
<1>2. Integral(n, ix)
  BY <1>1, ConvType
<1>3. PICK iaa, ibb, bx, ax, ibx, xx, ixx :
        /\ iaa = Conv(n, ia, a) /\ ibb = Conv(n, ib, b) /\ bx = Conv(n, b, x) /\ ax = Conv(n, a, x)
        /\ ibx = Conv(n, ib, x) /\ xx = Conv(n, x, x) /\ ixx = Conv(n, i, xx)
  OBVIOUS
<1>4. Integral(n, iaa) /\ Integral(n, ibb) /\ Integral(n, bx) /\ Integral(n, ax) /\ Integral(n, ibx) /\ Integral(n, xx)
  BY <1>1, <1>3, ConvType
<1>5. Conv(n, iaa, b) = Conv(n, a, ix)
  <2>1. Conv(n, iaa, b) = Conv(n, ia, x)
    BY <1>1, <1>3, ConvAssociates
  <2>2. Conv(n, ia, x) = Conv(n, i, ax)
    BY <1>1, <1>3, ConvAssociates
  <2>3. Conv(n, i, ax) = Conv(n, a, ix)
    BY <1>1, <1>3, ConvSwap
  <2>4. QED
    BY <2>1, <2>2, <2>3
<1>6. Conv(n, iaa, ibb) = Conv(n, ia, ibx)
  <2>1. Conv(n, iaa, ibb) = Conv(n, ia, Conv(n, a, ibb))
    BY <1>1, <1>3, <1>4, ConvAssociates
  <2>2. Conv(n, a, ibb) = ibx
    BY <1>1, <1>3, <1>4, ConvSwap
  <2>3. QED
    BY <2>1, <2>2
<1>7. Conv(n, ia, ibx) = Conv(n, i, ixx)
  <2>1. Conv(n, ia, ibx) = Conv(n, i, Conv(n, a, ibx))
    BY <1>4, ConvAssociates
  <2>2. ibx = Conv(n, i, bx)
    BY <1>1, <1>3, ConvAssociates
  <2>3. Conv(n, a, ibx) = Conv(n, i, Conv(n, a, bx))
    BY <1>4, <2>2, ConvSwap
  <2>4. Conv(n, a, bx) = xx
    BY <1>1, <1>3, ConvAssociates
  <2>5. QED
    BY <1>3, <2>1, <2>3, <2>4
<1>8. Conv(n, ix, ix) = Conv(n, i, ixx)
  <2>1. Conv(n, ix, ix) = Conv(n, i, Conv(n, x, ix))
    BY <1>1, <1>2, ConvAssociates
  <2>2. Conv(n, x, ix) = ixx
    BY <1>1, <1>3, ConvSwap
  <2>3. QED
    BY <2>1, <2>2
<1>9. QED
  BY <1>3, <1>5, <1>6, <1>7, <1>8

\* Where the total is nothing, the last coefficient that is not sent is the
\* one that closes the sum.
LEMMA ClosedSame ==
  ASSUME NEW n \in Nat, n > 1, NEW q \in Nat, q > 0, NEW a, Integral(n, a), Cong(q, Total(n, a), 0),
         NEW c, c = [k \in 0 .. n - 2 |-> a[k] % q]
  PROVE  /\ c \in [0 .. n - 2 -> 0 .. q - 1] /\ Integral(n, Closed(n, q, c))
         /\ Cong(q, Total(n, Closed(n, q, c)), 0) /\ Same(n, q, Closed(n, q, c), a)
<1>1. PICK l \in Places(n) : l = n - 1 /\ Places(n) \ {l} = 0 .. n - 2
  <2>1. PICK l \in Int : l = n - 1
    OBVIOUS
  <2>2. l \in Places(n) /\ Places(n) \ {l} = 0 .. n - 2
    BY <2>1 DEF Places
  <2>3. QED
    BY <2>1, <2>2
<1>2. ASSUME NEW k \in 0 .. n - 2 PROVE c[k] \in 0 .. q - 1 /\ c[k] \in Int /\ a[k] \in Int /\ Cong(q, c[k], a[k])
  <2>1. PICK x \in Int : x = a[k]
    BY <1>1 DEF Integral
  <2>2. x % q \in 0 .. q - 1 /\ x % q \in Int
    OBVIOUS
  <2>4. Cong(q, x % q, x)
    BY CongMod
  <2>3. QED
    BY <2>1, <2>2, <2>4
<1>3. c \in [0 .. n - 2 -> 0 .. q - 1]
  BY <1>2
<1>4. PICK v : v = Closed(n, q, c)
  OBVIOUS
<1>5. Integral(n, v) /\ Cong(q, Total(n, v), 0)
  BY <1>2, <1>4, ClosedTotal
<1>6. IsFiniteSet(Places(n)) /\ IsFiniteSet(0 .. n - 2)
  BY <1>1, PlacesFinite, FS_Subset
<1>7. PICK t \in Int, s \in Int, x \in Int, y \in Int :
        /\ t = SumFunctionOnSet(c, 0 .. n - 2) /\ s = SumFunctionOnSet(a, 0 .. n - 2)
        /\ x = a[l] /\ y = SumFunctionOnSet(a, Places(n))
  BY <1>1, <1>2, <1>6, SumType DEF Integral
<1>8. y = x + s
  <2>1. \A k \in Places(n) : a[k] \in Int
    BY DEF Integral
  <2>2. SumFunctionOnSet(a, Places(n)) = a[l] + SumFunctionOnSet(a, Places(n) \ {l})
    BY <1>6, <2>1, SumRemove
  <2>3. QED
    BY <1>1, <1>7, <2>2
<1>9. Cong(q, t, s)
  BY <1>2, <1>6, <1>7, SumCong
<1>10. Cong(q, y, 0)
  BY <1>7 DEF Total
<1>11. PICK m \in Int : m = (-t) % q /\ Cong(q, m, -t)
  <2>1. PICK z \in Int : z = -t
    OBVIOUS
  <2>2. z % q \in Int /\ Cong(q, z % q, z)
    BY CongMod
  <2>3. QED
    BY <2>1, <2>2
<1>12. Cong(q, m, x)
  <2>1. PICK d \in Int, e \in Int, g \in Int : t = s + q * d /\ y = 0 + q * e /\ m = (-t) + q * g
    BY <1>9, <1>10, <1>11 DEF Cong
  <2>2. m = x + q * (g - d - e)
    <3>1. m = (-s) - q * d + q * g
      BY <2>1
    <3>2. s = q * e - x
      BY <1>8, <2>1
    <3>3. PICK a1 \in Int, a2 \in Int, a3 \in Int : a1 = q * d /\ a2 = q * e /\ a3 = q * g
      OBVIOUS
    <3>4. q * (g - d - e) = a3 - a1 - a2
      BY <3>3
    <3>5. QED
      BY <3>1, <3>2, <3>3, <3>4
  <2>3. g - d - e \in Int
    OBVIOUS
  <2>4. QED
    BY <2>2, <2>3 DEF Cong
<1>13. ASSUME NEW k \in Places(n) PROVE Cong(q, v[k], a[k])
  <2>1. CASE k = l
    BY <1>1, <1>4, <1>7, <1>11, <1>12, <2>1 DEF Closed
  <2>2. CASE k # l
    BY <1>1, <1>2, <1>4, <2>2 DEF Closed
  <2>3. QED
    BY <2>1, <2>2
<1>14. QED
  BY <1>3, <1>4, <1>5, <1>13 DEF Same

-----------------------------------------------------------------------------
\* Totals go with what a polynomial is the same as.
LEMMA SameTotal ==
  ASSUME NEW n \in Nat, NEW q \in Nat, NEW a, NEW b, Integral(n, a), Integral(n, b), Same(n, q, a, b),
         Cong(q, Total(n, b), 0)
  PROVE  Cong(q, Total(n, a), 0)
<1>1. IsFiniteSet(Places(n)) /\ \A k \in Places(n) : a[k] \in Int /\ b[k] \in Int /\ Cong(q, a[k], b[k])
  BY PlacesFinite DEF Integral, Same
<1>2. Cong(q, SumFunctionOnSet(a, Places(n)), SumFunctionOnSet(b, Places(n)))
  BY <1>1, SumCong
<1>3. PICK x \in Int, y \in Int : x = Total(n, a) /\ y = Total(n, b)
  BY <1>1, SumType DEF Total
<1>4. Cong(q, x, y) /\ Cong(q, y, 0)
  BY <1>2, <1>3 DEF Total
<1>5. PICK z \in Int : z = 0
  OBVIOUS
<1>6. Cong(q, x, z)
  BY <1>4, <1>5, CongTrans
<1>7. QED
  BY <1>3, <1>5, <1>6

\* A product with a factor of total zero has total zero.
LEMMA ZeroTotal ==
  ASSUME NEW n \in Nat, n > 0, NEW q \in Nat, NEW a, NEW b, Integral(n, a), Integral(n, b), Cong(q, Total(n, a), 0)
  PROVE  Cong(q, Total(n, Conv(n, a, b)), 0) /\ Cong(q, Total(n, Conv(n, b, a)), 0)
<1>1. IsFiniteSet(Places(n)) /\ \A k \in Places(n) : a[k] \in Int /\ b[k] \in Int
  BY PlacesFinite DEF Integral
<1>2. PICK x \in Int, y \in Int : x = Total(n, a) /\ y = Total(n, b)
  BY <1>1, SumType DEF Total
<1>3. Total(n, Conv(n, a, b)) = y * x
  BY <1>2, ConvTotal
<1>4. PICK e \in Int : x = 0 + q * e
  BY <1>2 DEF Cong
<1>5. PICK d \in Int : d = e * y
  OBVIOUS
<1>6. y * x = 0 + q * d
  BY <1>4, <1>5
<1>7. Cong(q, Total(n, Conv(n, a, b)), 0)
  BY <1>3, <1>6 DEF Cong
<1>8. QED
  BY <1>7, ConvCommutes

\* The products of two pairs of alike factors.
LEMMA ConvAlikeBoth ==
  ASSUME NEW n \in Nat, n > 0, NEW q \in Nat, NEW a, NEW b, NEW c, NEW d,
         Integral(n, a), Integral(n, b), Integral(n, c), Integral(n, d), Alike(n, q, a, b), Alike(n, q, c, d)
  PROVE  Alike(n, q, Conv(n, a, c), Conv(n, b, d))
<1>1. PICK x, y, z : x = Conv(n, a, c) /\ y = Conv(n, b, c) /\ z = Conv(n, b, d)
  OBVIOUS
<1>2. Integral(n, x) /\ Integral(n, y) /\ Integral(n, z)
  BY <1>1, ConvType
<1>3. Alike(n, q, x, y)
  BY <1>1, ConvAlike
<1>4. Alike(n, q, y, z)
  BY <1>1, ConvAlikeRight
<1>5. QED
  BY <1>1, <1>2, <1>3, <1>4, AlikeTrans

NtruKey(n, q, u, F, G, i) ==
  /\ n \in Nat /\ n > 2 /\ q \in Nat /\ q > 3 /\ u \in Int /\ Cong(q, n * u, 1)
  /\ Integral(n, F) /\ Integral(n, G) /\ Integral(n, i) /\ Cong(q, Total(n, G), 0)
  /\ PhiTimes(n, q, i, RestTimes(n, q, G, F)) = Unit(n)

PublicHalf(n, q, i, G) == [k \in 0 .. n - 2 |-> RestTimes(n, q, RestTimes(n, q, i, G), G)[k] % q]
SecretHalf(n, q, i, F) == [k \in 0 .. n - 2 |-> PhiTimes(n, q, RestTimes(n, q, i, F), F)[k] % q]
HalvesMeet(n, q, F, G, h, e, hh, ee) ==
  /\ h \in [0 .. n - 2 -> 0 .. q - 1] /\ e \in [0 .. n - 2 -> 0 .. q - 1]
  /\ Integral(n, hh) /\ Integral(n, ee) /\ Cong(q, Total(n, hh), 0)
  /\ Alike(n, q, Conv(n, hh, ee), Unit(n)) /\ Same(n, q, Conv(n, hh, F), G)

\* The two halves of a key are inverse, and the public one times f is g.
LEMMA NtruHalves ==
  ASSUME NEW n, NEW q, NEW u, NEW F, NEW G, NEW i, NtruKey(n, q, u, F, G, i),
         NEW h, h = PublicHalf(n, q, i, G), NEW e, e = SecretHalf(n, q, i, F),
         NEW hh, hh = Closed(n, q, h), NEW ee, ee = Padding(n, e)
  PROVE  HalvesMeet(n, q, F, G, h, e, hh, ee)
<1>0. /\ n \in Nat /\ n > 2 /\ q \in Nat /\ q > 3 /\ u \in Int /\ Cong(q, n * u, 1)
      /\ Integral(n, F) /\ Integral(n, G) /\ Integral(n, i) /\ Cong(q, Total(n, G), 0)
      /\ PhiTimes(n, q, i, RestTimes(n, q, G, F)) = Unit(n)
      /\ n > 0 /\ n > 1 /\ q > 0
  BY DEF NtruKey
<1>u. USE <1>0
<1>1. PICK x, ig, jf, ix, o : /\ x = Conv(n, G, F) /\ ig = Conv(n, i, G) /\ jf = Conv(n, i, F)
                              /\ ix = Conv(n, i, x) /\ o = Unit(n)
  OBVIOUS
<1>2. Integral(n, x) /\ Integral(n, ig) /\ Integral(n, jf) /\ Integral(n, o)
  BY <1>1, ConvType DEF Integral, Unit
<1>3. Integral(n, ix)
  BY <1>1, <1>2, ConvType
<1>4. PICK igg, jff : igg = Conv(n, ig, G) /\ jff = Conv(n, jf, F)
  OBVIOUS
<1>5. Integral(n, igg) /\ Integral(n, jff)
  BY <1>2, <1>4, ConvType
<1>6. Conv(n, igg, jff) = Conv(n, ix, ix) /\ Conv(n, igg, F) = Conv(n, G, ix)
  BY <1>1, <1>2, <1>3, <1>4, HalvesProduct
\* what the inversion says
<1>7. Alike(n, q, ix, o)
  <2>1. PICK y : y = RestTimes(n, q, G, F)
    OBVIOUS
  <2>2. Integral(n, y) /\ Same(n, q, y, x)
    BY <1>1, <2>1, RestTimesSame
  <2>3. PICK iy : iy = Conv(n, i, y)
    OBVIOUS
  <2>4. Integral(n, iy) /\ Same(n, q, iy, ix)
    BY <1>1, <1>2, <2>2, <2>3, ConvType, ConvSame
  <2>5. Alike(n, q, o, iy)
    BY <1>1, <2>1, <2>2, <2>3, RestTimesSame
  <2>6. Alike(n, q, iy, ix)
    BY <1>3, <2>4, SameAlike
  <2>7. Alike(n, q, o, ix)
    BY <1>2, <1>3, <2>4, <2>5, <2>6, AlikeTrans
  <2>8. QED
    BY <1>2, <1>3, <2>7, AlikeSym
\* the public half
<1>8. PICK rg, H : rg = RestTimes(n, q, i, G) /\ H = RestTimes(n, q, rg, G)
  OBVIOUS
<1>9. Integral(n, rg) /\ Same(n, q, rg, ig)
  BY <1>1, <1>8, RestTimesSame
<1>10. Integral(n, H) /\ Same(n, q, H, igg)
  <2>1. PICK rgg : rgg = Conv(n, rg, G)
    OBVIOUS
  <2>2. Integral(n, rgg) /\ Same(n, q, rgg, igg)
    BY <1>2, <1>4, <1>9, <2>1, ConvType, ConvSame
  <2>3. Integral(n, H) /\ Same(n, q, H, rgg)
    BY <1>8, <1>9, <2>1, RestTimesSame
  <2>4. QED
    BY <1>5, <2>2, <2>3, SameTrans
<1>11. Cong(q, Total(n, H), 0)
  <2>1. Cong(q, Total(n, igg), 0)
    BY <1>2, <1>4, ZeroTotal
  <2>2. QED
    BY <1>5, <1>10, <2>1, SameTotal
<1>12. h = [k \in 0 .. n - 2 |-> H[k] % q]
  BY <1>8 DEF PublicHalf
<1>13. /\ h \in [0 .. n - 2 -> 0 .. q - 1] /\ Integral(n, hh) /\ Cong(q, Total(n, hh), 0)
       /\ Same(n, q, hh, H)
  BY <1>10, <1>11, <1>12, ClosedSame
<1>14. Same(n, q, hh, igg)
  BY <1>5, <1>10, <1>13, SameTrans
\* the secret half
<1>15. PICK rf, E : rf = RestTimes(n, q, i, F) /\ E = PhiTimes(n, q, rf, F)
  OBVIOUS
<1>16. Integral(n, rf) /\ Same(n, q, rf, jf)
  BY <1>1, <1>15, RestTimesSame
<1>17. Integral(n, E) /\ Alike(n, q, E, jff)
  <2>1. PICK rff : rff = Conv(n, rf, F)
    OBVIOUS
  <2>2. Integral(n, rff) /\ Same(n, q, rff, jff)
    BY <1>2, <1>4, <1>16, <2>1, ConvType, ConvSame
  <2>3. Integral(n, E) /\ Alike(n, q, E, rff)
    BY <1>15, <1>16, <2>1, RestTimesSame
  <2>4. Alike(n, q, rff, jff)
    BY <1>5, <2>2, SameAlike
  <2>5. QED
    BY <1>5, <2>2, <2>3, <2>4, AlikeTrans
<1>18. e = [k \in 0 .. n - 2 |-> E[k] % q]
  BY <1>15 DEF SecretHalf
<1>19. (\A k \in Places(n) : E[k] \in 0 .. q - 1) /\ E[n - 1] = 0
  <2>1. PICK c : c = Conv(n, rf, F)
    OBVIOUS
  <2>2. Integral(n, c)
    BY <1>16, <2>1, ConvType
  <2>3. PICK l \in Places(n) : l = n - 1
    BY DEF Places
  <2>4. \A k \in Places(n) : E[k] = (c[k] - c[l]) % q
    BY <1>15, <2>1, <2>3 DEF PhiTimes, PhiMod
  <2>5. ASSUME NEW k \in Places(n) PROVE E[k] \in 0 .. q - 1
    <3>1. PICK a \in Int, b \in Int : a = c[k] /\ b = c[l]
      BY <2>2, <2>3 DEF Integral
    <3>2. (a - b) % q \in 0 .. q - 1
      OBVIOUS
    <3>3. QED
      BY <2>4, <3>1, <3>2
  <2>6. E[l] = 0
    <3>1. PICK b \in Int : b = c[l]
      BY <2>2, <2>3 DEF Integral
    <3>2. b - b = 0 /\ 0 % q = 0
      OBVIOUS
    <3>3. E[l] = (b - b) % q
      BY <2>3, <2>4, <3>1
    <3>4. QED
      BY <3>2, <3>3
  <2>7. QED
    BY <2>3, <2>5, <2>6
<1>20. \A k \in 0 .. n - 2 : k \in Places(n) /\ k # n - 1 /\ e[k] = E[k]
  <2>1. SUFFICES ASSUME NEW k \in 0 .. n - 2 PROVE k \in Places(n) /\ k # n - 1 /\ e[k] = E[k]
    OBVIOUS
  <2>2. k \in Places(n) /\ k # n - 1
    BY DEF Places
  <2>3. PICK y \in Int : y = E[k] /\ 0 <= y /\ y < q
    BY <1>19, <2>2
  <2>4. y % q = y
    BY <2>3, Below
  <2>5. QED
    BY <1>18, <2>2, <2>3, <2>4
<1>21. e \in [0 .. n - 2 -> 0 .. q - 1]
  BY <1>18, <1>19, <1>20
<1>22. ASSUME NEW k \in Places(n) PROVE ee[k] = E[k]
  <2>1. k = n - 1 \/ k \in 0 .. n - 2
    BY DEF Places
  <2>2. ee[k] = IF k = n - 1 THEN 0 ELSE e[k]
    BY DEF Padding
  <2>3. QED
    BY <1>19, <1>20, <2>1, <2>2
<1>23. Integral(n, ee) /\ Same(n, q, ee, E)
  <2>1. ASSUME NEW k \in Places(n) PROVE ee[k] \in Int /\ Cong(q, ee[k], E[k])
    <3>1. PICK y \in Int : y = E[k] /\ y = ee[k]
      BY <1>17, <1>22 DEF Integral
    <3>2. QED
      BY <3>1, CongRefl
  <2>2. QED
    BY <2>1 DEF Integral, Same
<1>24. Alike(n, q, ee, jff)
  <2>1. Alike(n, q, ee, E)
    BY <1>17, <1>23, SameAlike
  <2>2. QED
    BY <1>5, <1>17, <1>23, <2>1, AlikeTrans
\* together
<1>25. Alike(n, q, Conv(n, hh, ee), o)
  <2>1. Alike(n, q, hh, igg)
    BY <1>5, <1>13, <1>14, SameAlike
  <2>2. PICK he, ixx, oo : he = Conv(n, hh, ee) /\ ixx = Conv(n, ix, ix) /\ oo = Conv(n, o, o)
    OBVIOUS
  <2>3. Integral(n, he) /\ Integral(n, ixx) /\ Integral(n, oo)
    BY <1>2, <1>3, <1>13, <1>23, <2>2, ConvType
  <2>4. Alike(n, q, he, ixx)
    BY <1>5, <1>6, <1>13, <1>23, <1>24, <2>1, <2>2, ConvAlikeBoth
  <2>5. Alike(n, q, ixx, oo)
    BY <1>2, <1>3, <1>7, <2>2, ConvAlikeBoth
  <2>6. Alike(n, q, oo, o)
    <3>1. Alike(n, q, o, Unit(n))
      <4>1. \A k \in Places(n) : Cong(q, o[k], o[k])
        BY <1>2, CongRefl DEF Integral
      <4>2. Alike(n, q, o, o)
        BY <1>2, <4>1, AlikeRefl
      <4>3. QED
        BY <1>1, <4>2
    <3>2. QED
      BY <1>2, <2>2, <3>1, ConvByUnit
  <2>7. Alike(n, q, he, oo)
    BY <2>3, <2>4, <2>5, AlikeTrans
  <2>8. Alike(n, q, he, o)
    BY <1>2, <2>3, <2>6, <2>7, AlikeTrans
  <2>9. QED
    BY <2>2, <2>8
<1>26. Same(n, q, Conv(n, hh, F), G)
  <2>1. PICK hf, gi, iggf : hf = Conv(n, hh, F) /\ gi = Conv(n, G, ix) /\ iggf = Conv(n, igg, F)
    OBVIOUS
  <2>2. Integral(n, hf) /\ Integral(n, gi) /\ Integral(n, iggf) /\ iggf = gi
    BY <1>3, <1>5, <1>6, <1>13, <2>1, ConvType
  <2>3. Same(n, q, hf, gi)
    BY <1>5, <1>13, <1>14, <2>1, <2>2, ConvSame
  <2>4. Alike(n, q, hf, gi)
    BY <2>2, <2>3, SameAlike
  <2>5. Alike(n, q, gi, G)
    BY <1>1, <1>3, <1>7, <2>1, ConvByUnit
  <2>6. Alike(n, q, hf, G)
    BY <2>2, <2>4, <2>5, AlikeTrans
  <2>7. Cong(q, Total(n, hf), 0)
    BY <1>13, <2>1, ZeroTotal
  <2>8. \A k \in Places(n) : Cong(q, hf[k], G[k])
    BY <2>2, <2>6, <2>7, AlikeSame
  <2>9. QED
    BY <2>1, <2>8 DEF Same
<1>27. QED
  BY <1>1, <1>13, <1>21, <1>23, <1>25, <1>26 DEF HalvesMeet

-----------------------------------------------------------------------------
LEMMA PhiModInRange ==
  ASSUME NEW n \in Nat, n > 0, NEW q \in Nat, q > 0, NEW a, Integral(n, a)
  PROVE  PhiMod(n, q, a) \in [Places(n) -> 0 .. q - 1] /\ PhiMod(n, q, a)[n - 1] = 0
<1>1. PICK l \in Places(n) : l = n - 1
  BY DEF Places
<1>2. PICK c : c = PhiMod(n, q, a)
  OBVIOUS
<1>3. c = [k \in Places(n) |-> (a[k] - a[l]) % q]
  BY <1>1, <1>2 DEF PhiMod
<1>4. ASSUME NEW k \in Places(n) PROVE c[k] \in 0 .. q - 1
  <2>1. PICK x \in Int, y \in Int : x = a[k] /\ y = a[l]
    BY <1>1 DEF Integral
  <2>2. (x - y) % q \in 0 .. q - 1
    OBVIOUS
  <2>3. QED
    BY <1>3, <2>1, <2>2
<1>5. c[l] = 0
  <2>1. PICK y \in Int : y = a[l]
    BY <1>1 DEF Integral
  <2>2. y - y = 0 /\ 0 % q = 0
    OBVIOUS
  <2>3. c[l] = (y - y) % q
    BY <1>1, <1>3, <2>1
  <2>4. QED
    BY <2>2, <2>3
<1>6. QED
  BY <1>1, <1>2, <1>3, <1>4, <1>5

\* (p hh + l) f, factor by factor.
LEMMA SumTimesFactor ==
  ASSUME NEW n \in Nat, n > 0, NEW q \in Nat, NEW p, NEW hh, NEW l, NEW F, NEW G,
         Integral(n, p), Integral(n, hh), Integral(n, l), Integral(n, F), Integral(n, G),
         Same(n, q, Conv(n, hh, F), G)
  PROVE  Same(n, q, Conv(n, Plus(n, Conv(n, p, hh), l), F), Plus(n, Conv(n, p, G), Conv(n, l, F)))
<1>1. PICK ph, hf, lf, pg, s : /\ ph = Conv(n, p, hh) /\ hf = Conv(n, hh, F) /\ lf = Conv(n, l, F)
                               /\ pg = Conv(n, p, G) /\ s = Plus(n, ph, l)
  OBVIOUS
<1>2. Integral(n, ph) /\ Integral(n, hf) /\ Integral(n, lf) /\ Integral(n, pg)
  BY <1>1, ConvType
<1>3. PICK phf : phf = Conv(n, ph, F)
  OBVIOUS
<1>4. Integral(n, phf)
  BY <1>2, <1>3, ConvType
<1>5. phf = Conv(n, p, hf)
  BY <1>1, <1>3, ConvAssociates
<1>6. Same(n, q, phf, pg)
  BY <1>1, <1>2, <1>5, ConvSame
<1>7. Same(n, q, lf, lf)
  <2>1. \A k \in Places(n) : Cong(q, lf[k], lf[k])
    BY <1>2, CongRefl DEF Integral
  <2>2. QED
    BY <2>1 DEF Same
<1>8. Same(n, q, Plus(n, phf, lf), Plus(n, pg, lf))
  BY <1>2, <1>4, <1>6, <1>7, PlusSame
<1>9. \A k \in Places(n) : Conv(n, s, F)[k] = phf[k] + lf[k]
  BY <1>1, <1>2, <1>3, ConvPlus
<1>10. Conv(n, s, F) = Plus(n, phf, lf)
  BY <1>9 DEF Conv, Plus
<1>11. QED
  BY <1>1, <1>8, <1>10

NtruCipher(n, q, P, lift, hh, core, v) ==
  /\ P \in [Places(n) -> 0 .. q - 1] /\ P[n - 1] = 0 /\ Integral(n, lift) /\ Cong(q, Total(n, lift), 0)
  /\ core = [k \in 0 .. n - 2 |-> (RestTimes(n, q, P, hh)[k] + lift[k]) % q]
  /\ v = Closed(n, q, core)

\* What comes of a ciphertext under the two halves.
LEMMA NtruRecovers ==
  ASSUME NEW n, NEW q, NEW u, NEW F, NEW G, NEW i, NtruKey(n, q, u, F, G, i),
         NEW h, NEW e, NEW hh, NEW ee, HalvesMeet(n, q, F, G, h, e, hh, ee),
         NEW P, NEW lift, NEW core, NEW v, NtruCipher(n, q, P, lift, hh, core, v)
  PROVE  /\ core \in [0 .. n - 2 -> 0 .. q - 1] /\ Integral(n, v)
         /\ Same(n, q, Conv(n, v, F), Plus(n, Conv(n, P, G), Conv(n, lift, F)))
         /\ PhiTimes(n, q, Minus(n, v, lift), ee) = P
<1>0. /\ n \in Nat /\ n > 2 /\ q \in Nat /\ q > 3 /\ n > 0 /\ n > 1 /\ q > 0
      /\ Integral(n, F) /\ Integral(n, G)
      /\ Integral(n, hh) /\ Integral(n, ee) /\ Cong(q, Total(n, hh), 0)
      /\ Alike(n, q, Conv(n, hh, ee), Unit(n)) /\ Same(n, q, Conv(n, hh, F), G)
      /\ P \in [Places(n) -> 0 .. q - 1] /\ P[n - 1] = 0 /\ Integral(n, lift) /\ Cong(q, Total(n, lift), 0)
      /\ core = [k \in 0 .. n - 2 |-> (RestTimes(n, q, P, hh)[k] + lift[k]) % q]
      /\ v = Closed(n, q, core)
  BY DEF NtruKey, HalvesMeet, NtruCipher
<1>u. USE <1>0
<1>1. Integral(n, P)
  BY DEF Integral
<1>2. PICK ph, r, a, w : ph = Conv(n, P, hh) /\ r = RestTimes(n, q, P, hh) /\ a = Plus(n, r, lift) /\ w = Plus(n, ph, lift)
  OBVIOUS
<1>3. Integral(n, ph) /\ Integral(n, r) /\ Same(n, q, r, ph)
  BY <1>1, <1>2, ConvType, RestTimesSame
<1>4. Integral(n, a) /\ Integral(n, w)
  BY <1>2, <1>3, PlusType
<1>5. Same(n, q, lift, lift)
  <2>1. \A k \in Places(n) : Cong(q, lift[k], lift[k])
    BY CongRefl DEF Integral
  <2>2. QED
    BY <2>1 DEF Same
<1>6. Same(n, q, a, w)
  BY <1>2, <1>3, <1>5, PlusSame
<1>7. Cong(q, Total(n, w), 0)
  <2>1. IsFiniteSet(Places(n)) /\ \A k \in Places(n) : ph[k] \in Int /\ lift[k] \in Int /\ w[k] \in Int
    BY <1>3, <1>4, PlacesFinite DEF Integral
  <2>2. PICK o \in Int : o = 1
    OBVIOUS
  <2>3. ASSUME NEW k \in Places(n) PROVE Cong(q, w[k], o * ph[k] + o * lift[k])
    <3>1. PICK x \in Int, y \in Int, z \in Int : x = ph[k] /\ y = lift[k] /\ z = w[k]
      BY <2>1
    <3>2. z = o * x + o * y
      BY <1>2, <2>2, <3>1 DEF Plus
    <3>3. Cong(q, z, z)
      BY CongRefl
    <3>4. QED
      BY <3>1, <3>2, <3>3
  <2>4. Cong(q, SumFunctionOnSet(w, Places(n)), o * SumFunctionOnSet(ph, Places(n)) + o * SumFunctionOnSet(lift, Places(n)))
    BY <2>1, <2>3, SumLinear
  <2>5. PICK x \in Int, y \in Int, z \in Int : x = Total(n, ph) /\ y = Total(n, lift) /\ z = Total(n, w)
    BY <2>1, SumType DEF Total
  <2>6. Cong(q, x, 0)
    BY <1>1, <1>2, <2>5, ZeroTotal
  <2>7. Cong(q, y, 0)
    BY <2>5
  <2>8. Cong(q, x + y, 0 + 0)
    BY <2>6, <2>7, CongAdd
  <2>9. Cong(q, z, x + y)
    <3>1. Cong(q, z, o * x + o * y)
      BY <2>4, <2>5 DEF Total
    <3>2. o * x + o * y = x + y
      BY <2>2
    <3>3. QED
      BY <3>1, <3>2
  <2>10. PICK t \in Int, b \in Int : t = x + y /\ b = 0
    OBVIOUS
  <2>11. Cong(q, z, t) /\ Cong(q, t, b)
    BY <2>8, <2>9, <2>10
  <2>12. Cong(q, z, b)
    BY <2>11, CongTrans
  <2>13. QED
    BY <2>5, <2>10, <2>12
<1>8. Cong(q, Total(n, a), 0)
  BY <1>4, <1>6, <1>7, SameTotal
<1>9. core = [k \in 0 .. n - 2 |-> a[k] % q]
  <2>1. \A k \in 0 .. n - 2 : k \in Places(n)
    BY DEF Places
  <2>2. \A k \in 0 .. n - 2 : a[k] = RestTimes(n, q, P, hh)[k] + lift[k]
    BY <1>2, <2>1 DEF Plus
  <2>3. QED
    BY <2>2
<1>10. core \in [0 .. n - 2 -> 0 .. q - 1] /\ Integral(n, v) /\ Same(n, q, v, a)
  BY <1>4, <1>8, <1>9, ClosedSame
<1>11. Same(n, q, v, w)
  BY <1>4, <1>6, <1>10, SameTrans
<1>12. Same(n, q, Conv(n, v, F), Plus(n, Conv(n, P, G), Conv(n, lift, F)))
  <2>1. PICK vf, wf, pg, lf : vf = Conv(n, v, F) /\ wf = Conv(n, w, F) /\ pg = Conv(n, P, G) /\ lf = Conv(n, lift, F)
    OBVIOUS
  <2>2. Integral(n, vf) /\ Integral(n, wf) /\ Integral(n, pg) /\ Integral(n, lf)
    BY <1>1, <1>4, <1>10, <2>1, ConvType
  <2>3. Integral(n, Plus(n, pg, lf))
    BY <2>2, PlusType
  <2>4. Same(n, q, vf, wf)
    BY <1>4, <1>10, <1>11, <2>1, ConvSame
  <2>5. Same(n, q, wf, Plus(n, pg, lf))
    BY <1>1, <1>2, <2>1, SumTimesFactor
  <2>6. Same(n, q, vf, Plus(n, pg, lf))
    BY <2>2, <2>3, <2>4, <2>5, SameTrans
  <2>7. QED
    BY <2>1, <2>6
<1>13. PhiTimes(n, q, Minus(n, v, lift), ee) = P
  <2>1. PICK d : d = Minus(n, v, lift)
    OBVIOUS
  <2>2. Integral(n, d)
    BY <1>10, <2>1, PlusType
  <2>3. Same(n, q, d, ph)
    <3>1. PICK x : x = Minus(n, w, lift)
      OBVIOUS
    <3>2. Integral(n, x) /\ Same(n, q, d, x)
      BY <1>4, <1>5, <1>10, <1>11, <2>1, <3>1, PlusType, PlusSame
    <3>3. ASSUME NEW k \in Places(n) PROVE x[k] = ph[k]
      <4>1. ph[k] \in Int /\ lift[k] \in Int
        BY <1>3 DEF Integral
      <4>2. QED
        BY <1>2, <3>1, <4>1 DEF Plus, Minus
    <3>4. QED
      BY <3>2, <3>3 DEF Same
  <2>4. PICK de, phe, he : de = Conv(n, d, ee) /\ phe = Conv(n, ph, ee) /\ he = Conv(n, hh, ee)
    OBVIOUS
  <2>5. Integral(n, de) /\ Integral(n, phe) /\ Integral(n, he)
    BY <1>3, <2>2, <2>4, ConvType
  <2>6. Same(n, q, de, phe)
    BY <1>3, <2>2, <2>3, <2>4, ConvSame
  <2>7. phe = Conv(n, P, he)
    BY <1>1, <1>2, <2>4, ConvAssociates
  <2>8. Alike(n, q, phe, P)
    BY <1>1, <2>4, <2>5, <2>7, ConvByUnit
  <2>9. Alike(n, q, de, phe)
    BY <2>5, <2>6, SameAlike
  <2>10. Alike(n, q, de, P)
    BY <1>1, <2>5, <2>8, <2>9, AlikeTrans
  <2>11. PICK s : s = PhiMod(n, q, de)
    OBVIOUS
  <2>12. Integral(n, s) /\ Alike(n, q, s, de)
    BY <2>5, <2>11, PhiModAlike
  <2>13. s \in [Places(n) -> 0 .. q - 1] /\ s[n - 1] = 0
    BY <2>5, <2>11, PhiModInRange
  <2>14. Alike(n, q, s, P)
    BY <1>1, <2>5, <2>10, <2>12, AlikeTrans
  <2>15. s = P
    BY <2>13, <2>14, AlikeUnique
  <2>16. QED
    BY <2>1, <2>4, <2>11, <2>15 DEF PhiTimes
<1>14. QED
  BY <1>10, <1>12, <1>13

-----------------------------------------------------------------------------
Zeros(n) == [k \in Places(n) |-> 0]
Centred(n, q, a) == [k \in Places(n) |-> IF 2 * a[k] >= q THEN a[k] - q ELSE a[k]]
Small(n, q, a) == \A k \in Places(n) : -q <= 2 * a[k] /\ 2 * a[k] < q

LEMMA CentreIs ==
  ASSUME NEW q \in Nat, NEW x \in Int, 0 <= x, x < q, NEW y \in Int, -q <= 2 * y, 2 * y < q, Cong(q, x, y)
  PROVE  (IF 2 * x >= q THEN x - q ELSE x) = y
<1>1. PICK e \in Int : x = y + q * e
  BY DEF Cong
<1>2. e = 0 \/ e = 1
  <2>1. CASE e >= 2
    <3>1. PICK d \in Nat : e = 2 + d
      <4>1. e - 2 \in Nat /\ e = 2 + (e - 2)
        BY <2>1
      <4>2. QED
        BY <4>1
    <3>2. PICK z \in Nat : z = q * d
      OBVIOUS
    <3>3. q * e = 2 * q + z
      BY <3>1, <3>2
    <3>4. QED
      BY <1>1, <3>3
  <2>2. CASE e <= -1
    <3>1. PICK d \in Nat : e = -1 - d
      <4>1. -1 - e \in Nat /\ e = -1 - (-1 - e)
        BY <2>2
      <4>2. QED
        BY <4>1
    <3>2. PICK z \in Nat : z = q * d
      OBVIOUS
    <3>3. q * e = -q - z
      BY <3>1, <3>2
    <3>4. QED
      BY <1>1, <3>3
  <2>3. QED
    BY <2>1, <2>2
<1>3. CASE e = 0
  BY <1>1, <1>3
<1>4. CASE e = 1
  BY <1>1, <1>4
<1>5. QED
  BY <1>2, <1>3, <1>4

LEMMA CentredAt ==
  ASSUME NEW n \in Nat, NEW q \in Nat, q > 0, NEW c, Integral(n, c), NEW a, Integral(n, a),
         Same(n, q, c, a), Small(n, q, a), NEW r, r = Rest(n, q, c), NEW k \in Places(n)
  PROVE  Centred(n, q, r)[k] = a[k]
<1>1. PICK x \in Int, y \in Int : x = c[k] /\ y = a[k]
  BY DEF Integral
<1>2. x % q \in 0 .. q - 1 /\ Cong(q, x, y)
  BY <1>1 DEF Same
<1>3. Cong(q, x % q, x)
  BY CongMod
<1>4. PICK z \in Int : z = x % q /\ 0 <= z /\ z < q
  BY <1>2
<1>5. Cong(q, z, y)
  BY <1>2, <1>3, <1>4, CongTrans
<1>6. -q <= 2 * y /\ 2 * y < q
  BY <1>1 DEF Small
<1>7. (IF 2 * z >= q THEN z - q ELSE z) = y
  BY <1>4, <1>5, <1>6, CentreIs
<1>8. r[k] = z
  BY <1>1, <1>4 DEF Rest
<1>9. QED
  BY <1>1, <1>7, <1>8 DEF Centred

LEMMA ConvZeros ==
  ASSUME NEW n \in Nat, n > 0, NEW a, Integral(n, a)
  PROVE  Integral(n, Zeros(n)) /\ \A k \in Places(n) : Conv(n, a, Zeros(n))[k] = 0
<1>1. Integral(n, Zeros(n))
  BY DEF Integral, Zeros
<1>2. ASSUME NEW k \in Places(n) PROVE Conv(n, a, Zeros(n))[k] = 0
  <2>1. PICK t : t = Term(n, a, Zeros(n), k)
    OBVIOUS
  <2>2. ASSUME NEW i \in Places(n) PROVE t[i] = 0
    <3>1. PICK j \in Places(n) : j = (k - i) % n
      BY Around
    <3>2. PICK x \in Int : x = a[j]
      BY DEF Integral
    <3>3. t[i] = x * 0
      BY <2>1, <3>1, <3>2 DEF Term, Zeros
    <3>4. QED
      BY <3>3
  <2>3. SumFunctionOnSet(t, Places(n)) = 0
    BY <2>2, PlacesFinite, SumOfZeros
  <2>4. QED
    BY <2>1, <2>3 DEF Conv
<1>3. QED
  BY <1>1, <1>2

\* A message comes out of what is small: modulo 3 the g goes and f comes off.
NtruSmall(n, t, Ps, Gs, Ls, Fs, N, f, m, finv) ==
  /\ n \in Nat /\ n > 0 /\ t = 3
  /\ Integral(n, Ps) /\ Integral(n, Gs) /\ Integral(n, Ls) /\ Integral(n, Fs)
  /\ N = Plus(n, Conv(n, Ps, Gs), Conv(n, Ls, Fs))
  /\ Same(n, t, Gs, Zeros(n)) /\ Same(n, t, Fs, f) /\ Alike(n, t, Ls, m)
  /\ Integral(n, f) /\ m \in [Places(n) -> 0 .. t - 1] /\ m[n - 1] = 0
  /\ Integral(n, finv) /\ PhiTimes(n, t, f, finv) = Unit(n)

LEMMA NtruMessage ==
  ASSUME NEW n, NEW t, NEW Ps, NEW Gs, NEW Ls, NEW Fs, NEW N, NEW f, NEW m, NEW finv,
         NtruSmall(n, t, Ps, Gs, Ls, Fs, N, f, m, finv)
  PROVE  PhiTimes(n, t, PhiMod(n, t, N), finv) = m
<1>0. /\ n \in Nat /\ n > 0 /\ t = 3 /\ t \in Nat /\ t > 0
      /\ Integral(n, Ps) /\ Integral(n, Gs) /\ Integral(n, Ls) /\ Integral(n, Fs)
      /\ N = Plus(n, Conv(n, Ps, Gs), Conv(n, Ls, Fs))
      /\ Same(n, t, Gs, Zeros(n)) /\ Same(n, t, Fs, f) /\ Alike(n, t, Ls, m)
      /\ Integral(n, f) /\ m \in [Places(n) -> 0 .. t - 1] /\ m[n - 1] = 0
      /\ Integral(n, finv) /\ PhiTimes(n, t, f, finv) = Unit(n)
  BY DEF NtruSmall
<1>1. n \in Nat /\ n > 0 /\ t \in Nat /\ t > 0 /\ Integral(n, m) /\ Integral(n, Zeros(n)) /\ Integral(n, Unit(n))
  <2>1. \A k \in Places(n) : m[k] \in Int
    BY <1>0
  <2>2. QED
    BY <1>0, <2>1 DEF Integral, Zeros, Unit
<1>2. PICK pg, lf, mf, ff, o : /\ pg = Conv(n, Ps, Gs) /\ lf = Conv(n, Ls, Fs) /\ mf = Conv(n, m, f)
                               /\ ff = Conv(n, f, finv) /\ o = Unit(n)
  OBVIOUS
<1>3. Integral(n, pg) /\ Integral(n, lf) /\ Integral(n, mf) /\ Integral(n, ff) /\ Integral(n, o)
  BY <1>0, <1>1, <1>2, ConvType
<1>4. Integral(n, N)
  BY <1>0, <1>2, <1>3, PlusType
<1>5. Same(n, t, N, lf)
  <2>1. PICK pz : pz = Conv(n, Ps, Zeros(n))
    OBVIOUS
  <2>2. Same(n, t, pg, pz)
    BY <1>0, <1>1, <1>2, <2>1, ConvSame
  <2>3. \A k \in Places(n) : pz[k] = 0
    BY <1>0, <2>1, ConvZeros
  <2>4. ASSUME NEW k \in Places(n) PROVE Cong(t, N[k], lf[k])
    <3>1. PICK x \in Int, y \in Int : x = pg[k] /\ y = lf[k]
      BY <1>3 DEF Integral
    <3>2. Cong(t, x, 0)
      BY <2>2, <2>3, <3>1 DEF Same
    <3>3. Cong(t, y, y)
      BY <1>1, CongRefl
    <3>4. PICK b \in Int : b = 0
      OBVIOUS
    <3>5. Cong(t, x + y, b + y)
      BY <1>1, <3>2, <3>3, <3>4, CongAdd
    <3>6. N[k] = x + y /\ b + y = y
      BY <1>0, <1>2, <3>1, <3>4 DEF Plus
    <3>7. QED
      BY <3>1, <3>5, <3>6
  <2>5. QED
    BY <2>4 DEF Same
<1>6. Alike(n, t, lf, mf)
  <2>1. Alike(n, t, Fs, f)
    BY <1>0, <1>1, SameAlike
  <2>2. QED
    BY <1>0, <1>1, <1>2, <2>1, ConvAlikeBoth
<1>7. PICK x : x = PhiMod(n, t, N)
  OBVIOUS
<1>8. Integral(n, x) /\ Alike(n, t, x, N)
  BY <1>1, <1>4, <1>7, PhiModAlike
<1>9. Alike(n, t, x, mf)
  <2>1. Alike(n, t, N, lf)
    BY <1>1, <1>3, <1>4, <1>5, SameAlike
  <2>2. Alike(n, t, x, lf)
    BY <1>1, <1>3, <1>4, <1>8, <2>1, AlikeTrans
  <2>3. QED
    BY <1>1, <1>3, <1>6, <1>8, <2>2, AlikeTrans
<1>10. PICK xf, mff : xf = Conv(n, x, finv) /\ mff = Conv(n, mf, finv)
  OBVIOUS
<1>11. Integral(n, xf) /\ Integral(n, mff)
  BY <1>0, <1>1, <1>3, <1>8, <1>10, ConvType
<1>12. Alike(n, t, xf, mff)
  BY <1>0, <1>1, <1>3, <1>8, <1>9, <1>10, ConvAlike
<1>13. Alike(n, t, mff, m)
  <2>1. mff = Conv(n, m, ff)
    BY <1>0, <1>1, <1>2, <1>10, ConvAssociates
  <2>2. Alike(n, t, ff, o)
    <3>1. o = PhiMod(n, t, ff)
      BY <1>0, <1>2 DEF PhiTimes
    <3>2. Alike(n, t, o, ff)
      BY <1>1, <1>3, <3>1, PhiModAlike
    <3>3. QED
      BY <1>1, <1>3, <3>2, AlikeSym
  <2>3. QED
    BY <1>1, <1>2, <1>3, <2>1, <2>2, ConvByUnit
<1>14. Alike(n, t, xf, m)
  BY <1>1, <1>11, <1>12, <1>13, AlikeTrans
<1>15. PICK s : s = PhiMod(n, t, xf)
  OBVIOUS
<1>16. Integral(n, s) /\ Alike(n, t, s, xf)
  BY <1>1, <1>11, <1>15, PhiModAlike
<1>17. s \in [Places(n) -> 0 .. t - 1] /\ s[n - 1] = 0
  BY <1>1, <1>11, <1>15, PhiModInRange
<1>18. Alike(n, t, s, m)
  BY <1>1, <1>11, <1>14, <1>16, AlikeTrans
<1>19. s = m
  BY <1>0, <1>1, <1>17, <1>18, AlikeUnique
<1>20. QED
  BY <1>7, <1>10, <1>15, <1>19 DEF PhiTimes

-----------------------------------------------------------------------------
\* Trits with their signs, and the products by x - 1 and by 3.
SignedOf(n, a) == [k \in Places(n) |-> IF a[k] = 2 THEN -1 ELSE a[k]]
Step(n, b) == [k \in Places(n) |-> (IF k = 0 THEN 0 ELSE b[k - 1]) - b[k]]
Thrice(n, a) == [k \in Places(n) |-> 3 * a[k]]
Trits(n, a) == \A k \in Places(n) : a[k] \in 0 .. 2

LEMMA SignedSame ==
  ASSUME NEW n \in Nat, NEW q \in Nat, q > 3, NEW a, Trits(n, a), NEW t \in Nat, t = 3
  PROVE  /\ Integral(n, SignedOf(n, a)) /\ Integral(n, a)
         /\ TritsIn(n, q, a) \in [Places(n) -> 0 .. q - 1] /\ Integral(n, TritsIn(n, q, a))
         /\ Same(n, q, SignedOf(n, a), TritsIn(n, q, a)) /\ Same(n, t, SignedOf(n, a), a)
<1>1. PICK s, p : s = SignedOf(n, a) /\ p = TritsIn(n, q, a)
  OBVIOUS
<1>2. ASSUME NEW k \in Places(n)
      PROVE  /\ s[k] \in Int /\ a[k] \in Int /\ p[k] \in 0 .. q - 1 /\ p[k] \in Int
             /\ Cong(q, s[k], p[k]) /\ Cong(t, s[k], a[k])
  <2>1. PICK x \in 0 .. 2 : x = a[k]
    BY DEF Trits
  <2>2. PICK m \in Int, z \in Int : m = -1 /\ z = 0
    OBVIOUS
  <2>3. CASE x = 2
    <3>1. s[k] = m /\ p[k] = q - 1 /\ a[k] = 2
      BY <1>1, <2>1, <2>2, <2>3 DEF SignedOf, TritsIn
    <3>2. m = (q - 1) + q * m /\ m = 2 + t * m
      BY <2>2
    <3>3. Cong(q, m, q - 1) /\ Cong(t, m, 2)
      BY <3>2 DEF Cong
    <3>4. QED
      BY <2>2, <3>1, <3>3
  <2>4. CASE x # 2
    <3>1. s[k] = x /\ p[k] = x /\ a[k] = x
      BY <1>1, <2>1, <2>4 DEF SignedOf, TritsIn
    <3>2. Cong(q, x, x) /\ Cong(t, x, x)
      BY CongRefl
    <3>3. QED
      BY <3>1, <3>2
  <2>5. QED
    BY <2>3, <2>4
<1>3. p \in [Places(n) -> 0 .. q - 1]
  BY <1>1, <1>2 DEF TritsIn
<1>4. QED
  BY <1>1, <1>2, <1>3 DEF Integral, Same

LEMMA StepSame ==
  ASSUME NEW n \in Nat, n > 0, NEW q \in Nat, NEW a, NEW b, Integral(n, a), Integral(n, b), Same(n, q, a, b)
  PROVE  Integral(n, Step(n, a)) /\ Same(n, q, Step(n, a), Step(n, b))
<1>1. ASSUME NEW k \in Places(n) PROVE Step(n, a)[k] \in Int /\ Cong(q, Step(n, a)[k], Step(n, b)[k])
  <2>1. PICK x \in Int, y \in Int : x = a[k] /\ y = b[k]
    BY DEF Integral
  <2>2. Cong(q, x, y)
    BY <2>1 DEF Same
  <2>3. PICK v \in Int, w \in Int : /\ v = (IF k = 0 THEN 0 ELSE a[k - 1]) /\ w = (IF k = 0 THEN 0 ELSE b[k - 1])
                                    /\ Cong(q, v, w)
    <3>1. CASE k = 0
      <4>1. PICK z \in Int : z = 0
        OBVIOUS
      <4>2. Cong(q, z, z)
        BY CongRefl
      <4>3. QED
        BY <3>1, <4>1, <4>2
    <3>2. CASE k # 0
      <4>1. PICK j \in Places(n) : j = k - 1
        BY <3>2 DEF Places
      <4>2. PICK v \in Int, w \in Int : v = a[j] /\ w = b[j]
        BY DEF Integral
      <4>3. Cong(q, v, w)
        BY <4>2 DEF Same
      <4>4. QED
        BY <3>2, <4>1, <4>2, <4>3
    <3>3. QED
      BY <3>1, <3>2
  <2>4. Cong(q, v - x, w - y)
    BY <2>2, <2>3, CongAdd
  <2>5. Step(n, a)[k] = v - x /\ Step(n, b)[k] = w - y
    BY <2>1, <2>3 DEF Step
  <2>6. QED
    BY <2>4, <2>5
<1>2. QED
  BY <1>1 DEF Integral, Same

LEMMA ThriceSame ==
  ASSUME NEW n \in Nat, NEW q \in Nat, NEW a, NEW b, Integral(n, a), Integral(n, b), Same(n, q, a, b),
         NEW t \in Nat, t = 3
  PROVE  /\ Integral(n, Thrice(n, a)) /\ Same(n, q, Thrice(n, a), Thrice(n, b))
         /\ Same(n, t, Thrice(n, a), Zeros(n))
<1>1. ASSUME NEW k \in Places(n)
      PROVE  /\ Thrice(n, a)[k] \in Int /\ Cong(q, Thrice(n, a)[k], Thrice(n, b)[k])
             /\ Cong(t, Thrice(n, a)[k], Zeros(n)[k])
  <2>1. PICK x \in Int, y \in Int, d \in Int : x = a[k] /\ y = b[k] /\ d = 3
    BY DEF Integral
  <2>2. Cong(q, x, y)
    BY <2>1 DEF Same
  <2>3. Cong(q, d * x, d * y)
    BY <2>2, CongScale
  <2>4. Thrice(n, a)[k] = d * x /\ Thrice(n, b)[k] = d * y /\ Zeros(n)[k] = 0
    BY <2>1 DEF Thrice, Zeros
  <2>5. d * x = 0 + t * x /\ d * x \in Int
    BY <2>1
  <2>6. Cong(t, d * x, 0)
    BY <2>5 DEF Cong
  <2>7. QED
    BY <2>3, <2>4, <2>5, <2>6
<1>2. QED
  BY <1>1 DEF Integral, Same

LEMMA ThriceTotal ==
  ASSUME NEW n \in Nat, NEW q \in Nat, NEW a, Integral(n, a), Cong(q, Total(n, a), 0)
  PROVE  Cong(q, Total(n, Thrice(n, a)), 0)
<1>1. IsFiniteSet(Places(n)) /\ \A k \in Places(n) : a[k] \in Int
  BY PlacesFinite DEF Integral
<1>a. PICK b : b = Thrice(n, a)
  OBVIOUS
<1>2. PICK d \in Int, z \in Int, x \in Int : d = 3 /\ z = 0 /\ x = Total(n, a)
  BY <1>1, SumType DEF Total
<1>3. ASSUME NEW k \in Places(n) PROVE b[k] \in Int /\ Cong(q, b[k], d * a[k] + z * a[k])
  <2>1. PICK y \in Int : y = a[k]
    BY <1>1
  <2>2. b[k] = d * y /\ d * y = d * y + z * y /\ d * y \in Int
    BY <1>2, <1>a, <2>1 DEF Thrice
  <2>3. QED
    BY <2>1, <2>2, CongRefl
<1>4. Cong(q, SumFunctionOnSet(b, Places(n)), d * SumFunctionOnSet(a, Places(n)) + z * SumFunctionOnSet(a, Places(n)))
  BY <1>1, <1>3, SumLinear
<1>5. Cong(q, Total(n, b), d * x)
  <2>1. Cong(q, Total(n, b), d * x + z * x)
    BY <1>2, <1>4, <1>a DEF Total
  <2>2. d * x + z * x = d * x
    BY <1>2
  <2>3. QED
    BY <2>1, <2>2
<1>6. PICK w \in Int, v \in Int : w = Total(n, b) /\ v = d * x
  BY <1>1, <1>3, SumType DEF Total
<1>7. Cong(q, x, z)
  BY <1>2
<1>8. Cong(q, d * x, d * z)
  BY <1>7, CongScale
<1>9. Cong(q, v, z)
  <2>1. d * z = z
    BY <1>2
  <2>2. QED
    BY <1>6, <1>8, <2>1
<1>10. Cong(q, w, v)
  BY <1>5, <1>6
<1>11. Cong(q, w, z)
  BY <1>9, <1>10, CongTrans
<1>12. QED
  BY <1>2, <1>a, <1>6, <1>11

LEMMA StepTotal ==
  ASSUME NEW n \in Nat, n > 2, NEW q \in Nat, q > 0, NEW b, Integral(n, b), b[n - 1] = 0
  PROVE  /\ Integral(n, Step(n, b)) /\ Difference(n, q, b) = Rest(n, q, Step(n, b))
         /\ Cong(q, Total(n, Step(n, b)), 0)
<1>1. PICK s, d : s = Step(n, b) /\ d = Difference(n, q, b)
  OBVIOUS
<1>2. n > 0 /\ Same(n, q, b, b)
  <2>1. \A k \in Places(n) : Cong(q, b[k], b[k])
    BY CongRefl DEF Integral
  <2>2. QED
    BY <2>1 DEF Same
<1>3. Integral(n, s)
  BY <1>1, <1>2, StepSame
<1>4. d = Rest(n, q, s)
  BY <1>1 DEF Difference, Rest, Step
<1>5. Integral(n, d) /\ Cong(q, Total(n, d), 0)
  BY <1>1, DifferenceTotal
<1>6. Same(n, q, d, s)
  BY <1>3, <1>4, RestSame
<1>7. Same(n, q, s, d)
  BY <1>3, <1>5, <1>6, SameSym
<1>8. Cong(q, Total(n, s), 0)
  BY <1>3, <1>5, <1>7, SameTotal
<1>9. QED
  BY <1>1, <1>3, <1>4, <1>8

-----------------------------------------------------------------------------
\* Dividing by x - 1 modulo 3: the sums of an array up to its places.
Upto(a, i) == SumFunctionOnSet(a, 0 .. i)

LEMMA UptoFar ==
  ASSUME NEW n \in Nat, NEW a, Integral(n, a), NEW i \in Places(n), NEW r \in 0 .. i,
         NEW f, f = [j \in r + 1 .. i |-> a[j]]
  PROVE  /\ Upto(a, i) \in Int /\ Upto(a, r) \in Int
         /\ SumFunctionOnSet(f, r + 1 .. i) = Upto(a, i) - Upto(a, r)
<1>1. i \in Int /\ r \in Int /\ 0 <= r /\ r <= i /\ 0 \in Int
  BY DEF Places
<1>2. \A j \in 0 .. i : a[j] \in Int
  BY DEF Places, Integral
<1>3. IsFiniteSet(r + 1 .. i) /\ IsFiniteSet(0 .. r) /\ IsFiniteSet(0 .. i)
  <2>1. PICK x \in Int : x = r + 1
    BY <1>1
  <2>2. IsFiniteSet(x .. i) /\ IsFiniteSet(0 .. r) /\ IsFiniteSet(0 .. i)
    BY <1>1, FS_Interval
  <2>3. QED
    BY <2>1, <2>2
<1>4. SumFunctionOnSet(a, 0 .. i) = SumFunctionOnSet(a, 0 .. r) + SumFunctionOnSet(a, r + 1 .. i)
  <2>1. 0 <= r + 1
    BY <1>1
  <2>2. QED
    BY <1>1, <1>2, <2>1, SumSplit
<1>5. \A j \in r + 1 .. i : a[j] \in Int /\ f[j] = a[j]
  BY <1>1, <1>2
<1>6. SumFunctionOnSet(f, r + 1 .. i) = SumFunctionOnSet(a, r + 1 .. i)
  BY <1>3, <1>5, SumSame
<1>7. \A j \in 0 .. r : a[j] \in Int
  BY <1>1, <1>2
<1>8. SumFunctionOnSet(a, 0 .. i) \in Int /\ SumFunctionOnSet(a, 0 .. r) \in Int
  BY <1>2, <1>3, <1>7, SumType
<1>9. SumFunctionOnSet(a, r + 1 .. i) \in Int
  BY <1>3, <1>5, SumType
<1>10. QED
  BY <1>4, <1>6, <1>8, <1>9 DEF Upto

LEMMA UptoNext ==
  ASSUME NEW n \in Nat, NEW a, Integral(n, a)
  PROVE  /\ \A i \in Places(n) : i > 0 => Upto(a, i) = Upto(a, i - 1) + a[i]
         /\ n > 0 => Upto(a, 0) = a[0]
<1>1. ASSUME NEW i \in Places(n), i > 0 PROVE Upto(a, i) = Upto(a, i - 1) + a[i]
  <2>1. PICK r \in 0 .. i : r = i - 1
    BY <1>1 DEF Places
  <2>2. PICK f : f = [j \in r + 1 .. i |-> a[j]]
    OBVIOUS
  <2>3. /\ Upto(a, i) \in Int /\ Upto(a, r) \in Int
        /\ SumFunctionOnSet(f, r + 1 .. i) = Upto(a, i) - Upto(a, r)
    BY <2>2, UptoFar
  <2>4. r + 1 .. i = {i} /\ f[i] = a[i] /\ a[i] \in Int
    BY <2>1, <2>2 DEF Places, Integral
  <2>5. SumFunctionOnSet(f, {i}) = f[i]
    BY <2>4, SumOne
  <2>6. SumFunctionOnSet(f, r + 1 .. i) = a[i]
    BY <2>4, <2>5
  <2>7. QED
    BY <2>1, <2>3, <2>4, <2>6
<1>2. ASSUME n > 0 PROVE Upto(a, 0) = a[0]
  <2>1. a[0] \in Int /\ 0 .. 0 = {0}
    BY <1>2 DEF Places, Integral
  <2>2. QED
    BY <2>1, SumOne DEF Upto
<1>3. QED
  BY <1>1, <1>2

Firsts(t, x, y, w, W, S, e0, e1, e2, all, f1, f2, f3) ==
  /\ t \in {1, 2} /\ x \in Int /\ y \in Int /\ w \in Int /\ W \in Int /\ S \in Int
  /\ e0 \in Int /\ e1 \in Int /\ e2 \in Int /\ all \in Int /\ all = x + y + w + S
  /\ f1 = x * (2 - t) + w * t + (W + 2 * t * S + 3 * e2)
  /\ f2 = y * (2 - t) + (W + t * S + 3 * e1) + x * (2 + t)
  /\ f3 = w * (2 - t) + (W + 3 * e0) + x * 2 + y * (2 + t)

LEMMA FirstThree ==
  ASSUME NEW t, NEW x, NEW y, NEW w, NEW W, NEW S, NEW e0, NEW e1, NEW e2, NEW all, NEW f1, NEW f2, NEW f3,
         Firsts(t, x, y, w, W, S, e0, e1, e2, all, f1, f2, f3)
  PROVE  /\ Cong(3, f1 - f2, y + t * all) /\ Cong(3, f2 - f3, w + t * all)
         /\ Cong(3, f3 - f1, 2 * (y + w) + t * all)
<1> USE DEF Firsts
<1>1. CASE t = 1
  <2>1. f1 - f2 = (y + t * all) + 3 * (e2 - e1 - x - y)
    BY <1>1
  <2>2. f2 - f3 = (w + t * all) + 3 * (e1 - e0 - y - w)
    BY <1>1
  <2>3. f3 - f1 = (2 * (y + w) + t * all) + 3 * (e0 - e2 - S - w)
    BY <1>1
  <2>4. e2 - e1 - x - y \in Int /\ e1 - e0 - y - w \in Int /\ e0 - e2 - S - w \in Int
    OBVIOUS
  <2>5. QED
    BY <2>1, <2>2, <2>3, <2>4 DEF Cong
<1>2. CASE t = 2
  <2>1. f1 - f2 = (y + t * all) + 3 * (e2 - e1 - 2 * x - y)
    BY <1>2
  <2>2. f2 - f3 = (w + t * all) + 3 * (e1 - e0 - 2 * y - w)
    BY <1>2
  <2>3. f3 - f1 = (2 * (y + w) + t * all) + 3 * (e0 - e2 - 2 * S - 2 * w)
    BY <1>2
  <2>4. e2 - e1 - 2 * x - y \in Int /\ e1 - e0 - 2 * y - w \in Int /\ e0 - e2 - 2 * S - 2 * w \in Int
    OBVIOUS
  <2>5. QED
    BY <2>1, <2>2, <2>3, <2>4 DEF Cong
<1>3. QED
  BY <1>1, <1>2

LEMMA ThirdAfter ==
  ASSUME NEW k \in Nat, k > 0
  PROVE  /\ k % 3 = 1 => (k - 1) % 3 = 0
         /\ k % 3 = 2 => (k - 1) % 3 = 1
         /\ k % 3 = 0 => (k - 1) % 3 = 2
         /\ k % 3 \in {0, 1, 2} /\ (k - 1) % 3 \in {0, 1, 2}
OBVIOUS

\* The quotient's places before the last is taken from them.
Divided(n, t, a, all, f1, f2, f3, p) ==
  /\ n \in Nat /\ n > 2 /\ t = 3 - (n % 3) /\ n % 3 # 0 /\ Integral(n, a) /\ all = Upto(a, n - 1)
  /\ f1 \in Int /\ f2 \in Int /\ f3 \in Int
  /\ Cong(3, f1 - f2, a[1] + t * all) /\ Cong(3, f2 - f3, a[2] + t * all)
  /\ Cong(3, f3 - f1, 2 * (a[1] + a[2]) + t * all)
  /\ \A i \in Places(n) :
       /\ i % 3 = 0 => p[i] = f1 + 2 * (Upto(a, i) - Upto(a, 0))
       /\ i % 3 = 1 => p[i] = f2 + 2 * (Upto(a, i) - Upto(a, 1))
       /\ i % 3 = 2 => p[i] = f3 + 2 * (Upto(a, i) - Upto(a, 2))

LEMMA DividedSteps ==
  ASSUME NEW n, NEW t, NEW a, NEW all, NEW f1, NEW f2, NEW f3, NEW p, Divided(n, t, a, all, f1, f2, f3, p)
  PROVE  /\ n \in Nat /\ n > 2 /\ Integral(n, a) /\ t * all \in Int /\ Integral(n, p)
         /\ \A k \in Places(n) : k > 0 => Cong(3, p[k - 1] - p[k], a[k] + t * all)
         /\ Cong(3, p[n - 1] - p[0], a[0] + t * all)
<1>1. /\ n \in Nat /\ n > 2 /\ t = 3 - (n % 3) /\ n % 3 # 0 /\ Integral(n, a) /\ all = Upto(a, n - 1)
      /\ f1 \in Int /\ f2 \in Int /\ f3 \in Int
      /\ Cong(3, f1 - f2, a[1] + t * all) /\ Cong(3, f2 - f3, a[2] + t * all)
      /\ Cong(3, f3 - f1, 2 * (a[1] + a[2]) + t * all)
  BY DEF Divided
<1>2. \A i \in Places(n) :
        /\ i % 3 = 0 => p[i] = f1 + 2 * (Upto(a, i) - Upto(a, 0))
        /\ i % 3 = 1 => p[i] = f2 + 2 * (Upto(a, i) - Upto(a, 1))
        /\ i % 3 = 2 => p[i] = f3 + 2 * (Upto(a, i) - Upto(a, 2))
  BY DEF Divided
<1>3. 0 \in Places(n) /\ 1 \in Places(n) /\ 2 \in Places(n) /\ n - 1 \in Places(n)
  BY <1>1 DEF Places
<1>4. ASSUME NEW i \in Places(n) PROVE Upto(a, i) \in Int
  <2>1. i \in 0 .. i
    BY DEF Places
  <2>2. QED
    BY <1>1, <2>1, UptoFar
<1>5. PICK x \in Int, y \in Int, w \in Int : x = a[0] /\ y = a[1] /\ w = a[2]
  BY <1>1, <1>3 DEF Integral
<1>6. Upto(a, 0) = x /\ Upto(a, 1) = x + y /\ Upto(a, 2) = x + y + w
  <2>1. Upto(a, 0) = x
    BY <1>1, <1>5, UptoNext
  <2>2. Upto(a, 1) = Upto(a, 0) + y
    BY <1>1, <1>3, <1>5, UptoNext
  <2>3. Upto(a, 2) = Upto(a, 1) + w
    BY <1>1, <1>3, <1>5, UptoNext
  <2>4. QED
    BY <2>1, <2>2, <2>3
<1>7. PICK T \in Int : T = all
  BY <1>1, <1>3, <1>4
<1>8. t \in {1, 2}
  BY <1>1
<1>9. t * all \in Int
  BY <1>7, <1>8
<1>10. PICK L \in Int : L = t * all
  BY <1>9
<1>11. PICK e1 \in Int : f1 - f2 = y + L + 3 * e1
  BY <1>1, <1>5, <1>10 DEF Cong
<1>12. PICK e2 \in Int : f2 - f3 = w + L + 3 * e2
  BY <1>1, <1>5, <1>10 DEF Cong
<1>13. PICK e3 \in Int : f3 - f1 = 2 * (y + w) + L + 3 * e3
  BY <1>1, <1>5, <1>10 DEF Cong
<1>14. Integral(n, p)
  <2>1. ASSUME NEW i \in Places(n) PROVE p[i] \in Int
    <3>1. PICK U \in Int : U = Upto(a, i)
      BY <1>4
    <3>2. i % 3 \in {0, 1, 2}
      BY DEF Places
    <3>3. /\ f1 + 2 * (U - x) \in Int /\ f2 + 2 * (U - (x + y)) \in Int
          /\ f3 + 2 * (U - (x + y + w)) \in Int
      BY <1>1
    <3>4. QED
      BY <1>2, <1>6, <3>1, <3>2, <3>3
  <2>2. QED
    BY <2>1 DEF Integral
<1>15. ASSUME NEW k \in Places(n), k > 0 PROVE Cong(3, p[k - 1] - p[k], a[k] + L)
  <2>1. PICK j \in Places(n) : j = k - 1
    BY <1>1, <1>15 DEF Places
  <2>2. PICK U \in Int, V \in Int, z \in Int : U = Upto(a, k) /\ V = Upto(a, j) /\ z = a[k]
    BY <1>1, <1>4 DEF Integral
  <2>3. U = V + z
    BY <1>1, <1>15, <2>1, <2>2, UptoNext
  <2>4. /\ k % 3 = 1 => j % 3 = 0
        /\ k % 3 = 2 => j % 3 = 1
        /\ k % 3 = 0 => j % 3 = 2
        /\ k % 3 \in {0, 1, 2}
    BY <1>15, <2>1, ThirdAfter DEF Places
  <2>5. CASE k % 3 = 1
    <3>1. p[j] = f1 + 2 * (V - x) /\ p[k] = f2 + 2 * (U - (x + y))
      BY <1>2, <1>6, <2>2, <2>4, <2>5
    <3>9. PICK e \in Int : e = e1 + y - z
      BY <1>1
    <3>2. p[j] - p[k] = (z + L) + 3 * e
      BY <3>9, <1>1, <1>11, <2>3, <3>1
    <3>3. QED
      BY <2>1, <2>2, <3>2 DEF Cong
  <2>6. CASE k % 3 = 2
    <3>1. p[j] = f2 + 2 * (V - (x + y)) /\ p[k] = f3 + 2 * (U - (x + y + w))
      BY <1>2, <1>6, <2>2, <2>4, <2>6
    <3>9. PICK e \in Int : e = e2 + w - z
      BY <1>1
    <3>2. p[j] - p[k] = (z + L) + 3 * e
      BY <3>9, <1>1, <1>12, <2>3, <3>1
    <3>3. QED
      BY <2>1, <2>2, <3>2 DEF Cong
  <2>7. CASE k % 3 = 0
    <3>1. p[j] = f3 + 2 * (V - (x + y + w)) /\ p[k] = f1 + 2 * (U - x)
      BY <1>2, <1>6, <2>2, <2>4, <2>7
    <3>9. PICK e \in Int : e = e3 - z
      BY <1>1
    <3>2. p[j] - p[k] = (z + L) + 3 * e
      BY <3>9, <1>1, <1>13, <2>3, <3>1
    <3>3. QED
      BY <2>1, <2>2, <3>2 DEF Cong
  <2>8. QED
    BY <2>4, <2>5, <2>6, <2>7
<1>16. Cong(3, p[n - 1] - p[0], x + L)
  <2>1. p[0] = f1 + 2 * (x - x)
    BY <1>2, <1>3, <1>6
  <2>2. T = Upto(a, n - 1)
    BY <1>1, <1>7
  <2>3. CASE n % 3 = 1
    <3>1. t = 2 /\ (n - 1) % 3 = 0
      BY <1>1, <2>3
    <3>2. p[n - 1] = f1 + 2 * (T - x)
      BY <1>2, <1>3, <1>6, <2>2, <3>1
    <3>3. L = 2 * T
      BY <1>7, <1>10, <3>1
    <3>9. PICK e \in Int : e = -x
      BY <1>1
    <3>4. p[n - 1] - p[0] = (x + L) + 3 * e
      BY <3>9, <1>1, <2>1, <3>2, <3>3
    <3>5. QED
      BY <3>4 DEF Cong
  <2>4. CASE n % 3 = 2
    <3>1. t = 1 /\ (n - 1) % 3 = 1
      BY <1>1, <2>4
    <3>2. p[n - 1] = f2 + 2 * (T - (x + y))
      BY <1>2, <1>3, <1>6, <2>2, <3>1
    <3>3. L = T
      BY <1>7, <1>10, <3>1
    <3>9. PICK e \in Int : e = -(x + y + e1)
      BY <1>1
    <3>4. p[n - 1] - p[0] = (x + L) + 3 * e
      BY <3>9, <1>1, <1>11, <2>1, <3>2, <3>3
    <3>5. QED
      BY <3>4 DEF Cong
  <2>5. n % 3 \in {1, 2}
    BY <1>1
  <2>6. QED
    BY <2>3, <2>4, <2>5
<1>17. QED
  BY <1>1, <1>5, <1>9, <1>10, <1>14, <1>15, <1>16

-----------------------------------------------------------------------------
Weighted(S, a, v, c, g, f) ==
  /\ IsFiniteSet(S) /\ (\A i \in S : a[i] \in Int /\ v[i] \in Int) /\ c \in Int
  /\ g = [i \in S |-> a[i] * v[i]] /\ f = [i \in S |-> a[i] * (v[i] + c)]

LEMMA WeightedSum ==
  ASSUME NEW S, NEW a, NEW v, NEW c, NEW g, NEW f, Weighted(S, a, v, c, g, f)
  PROVE  /\ SumFunctionOnSet(g, S) \in Int /\ SumFunctionOnSet(a, S) \in Int
         /\ \E e \in Int : SumFunctionOnSet(f, S) = SumFunctionOnSet(g, S) + c * SumFunctionOnSet(a, S) + 3 * e
<1> USE DEF Weighted
<1>1. PICK o \in Int, t \in Nat : o = 1 /\ t = 3
  OBVIOUS
<1>2. ASSUME NEW i \in S PROVE a[i] \in Int /\ g[i] \in Int /\ f[i] \in Int /\ Cong(t, f[i], o * g[i] + c * a[i])
  <2>1. PICK x \in Int, y \in Int : x = a[i] /\ y = v[i]
    OBVIOUS
  <2>2. g[i] = x * y /\ f[i] = x * (y + c) /\ x * y \in Int /\ x * (y + c) \in Int
    BY <2>1
  <2>3. x * (y + c) = o * (x * y) + c * x
    BY <1>1
  <2>4. PICK u \in Int : u = x * (y + c)
    BY <2>2
  <2>5. Cong(t, u, u)
    BY CongRefl
  <2>6. QED
    BY <2>1, <2>2, <2>3, <2>4, <2>5
<1>3. Cong(t, SumFunctionOnSet(f, S), o * SumFunctionOnSet(g, S) + c * SumFunctionOnSet(a, S))
  BY <1>2, SumLinear
<1>4. SumFunctionOnSet(g, S) \in Int /\ SumFunctionOnSet(a, S) \in Int
  BY <1>2, SumType
<1>5. PICK x \in Int, y \in Int : x = SumFunctionOnSet(g, S) /\ y = SumFunctionOnSet(a, S)
  BY <1>4
<1>6. PICK e \in Int : SumFunctionOnSet(f, S) = (o * x + c * y) + t * e
  BY <1>3, <1>5 DEF Cong
<1>7. SumFunctionOnSet(f, S) = x + c * y + 3 * e
  BY <1>1, <1>6
<1>8. QED
  BY <1>5, <1>7

LEMMA PhiStep ==
  ASSUME NEW n, NEW t, NEW a, NEW all, NEW f1, NEW f2, NEW f3, NEW p, Divided(n, t, a, all, f1, f2, f3, p),
         NEW c, c = [k \in Places(n) |-> (p[k] - p[n - 1]) % 3]
  PROVE  Alike(n, 3, Step(n, c), a)
<1>1. /\ n \in Nat /\ n > 2 /\ Integral(n, a) /\ t * all \in Int /\ Integral(n, p)
      /\ \A k \in Places(n) : k > 0 => Cong(3, p[k - 1] - p[k], a[k] + t * all)
      /\ Cong(3, p[n - 1] - p[0], a[0] + t * all)
  BY DividedSteps
<1>2. PICK L \in Int : L = t * all
  BY <1>1
<1>3. PICK d \in Nat : d = 3 /\ d > 0
  OBVIOUS
<1>4. n - 1 \in Places(n) /\ 0 \in Places(n)
  BY <1>1 DEF Places
<1>5. PICK l \in Int : l = p[n - 1]
  BY <1>1, <1>4 DEF Integral
<1>6. ASSUME NEW k \in Places(n) PROVE Cong(d, Step(n, c)[k], a[k] + L)
  <2>1. PICK x \in Int, z \in Int : x = p[k] /\ z = a[k]
    BY <1>1 DEF Integral
  <2>2. PICK w \in Int : w = x - l
    OBVIOUS
  <2>3. w % d \in Int /\ Cong(d, w % d, w)
    <3>1. d > 0
      BY <1>3
    <3>2. w % d \in 0 .. d - 1 /\ Cong(d, w % d, w)
      BY <3>1, CongMod
    <3>3. QED
      BY <3>2
  <2>4. PICK r \in Int : r = w % d
    BY <2>3
  <2>5. c[k] = r /\ Cong(d, r, w)
    BY <1>3, <1>5, <2>1, <2>2, <2>3, <2>4
  <2>6. CASE k = 0
    <3>1. Step(n, c)[k] = 0 - r
      BY <1>4, <2>5, <2>6 DEF Step
    <3>2. Cong(d, l - x, z + L)
      BY <1>1, <1>2, <1>3, <1>5, <2>1, <2>6
    <3>3. PICK e \in Int : r = w + d * e
      BY <2>5 DEF Cong
    <3>4. PICK g \in Int : l - x = (z + L) + d * g
      BY <3>2 DEF Cong
    <3>5. PICK h \in Int : h = g - e
      OBVIOUS
    <3>6. 0 - r = (z + L) + d * h
      BY <1>3, <2>2, <3>3, <3>4, <3>5
    <3>7. QED
      BY <2>1, <3>1, <3>6 DEF Cong
  <2>7. CASE k # 0
    <3>1. PICK j \in Places(n) : j = k - 1
      BY <1>1, <2>7 DEF Places
    <3>2. PICK y \in Int : y = p[j]
      BY <1>1 DEF Integral
    <3>3. PICK v \in Int : v = y - l
      OBVIOUS
    <3>4. v % d \in Int /\ Cong(d, v % d, v)
      <4>1. d > 0
        BY <1>3
      <4>2. v % d \in 0 .. d - 1 /\ Cong(d, v % d, v)
        BY <4>1, CongMod
      <4>3. QED
        BY <4>2
    <3>5. PICK s \in Int : s = v % d
      BY <3>4
    <3>6. c[j] = s /\ Cong(d, s, v)
      BY <1>3, <1>5, <3>2, <3>3, <3>4, <3>5
    <3>7. Step(n, c)[k] = s - r
      BY <2>5, <2>7, <3>1, <3>6 DEF Step
    <3>8. Cong(d, y - x, z + L)
      <4>1. k > 0
        BY <2>7 DEF Places
      <4>2. QED
        BY <1>1, <1>2, <1>3, <2>1, <3>1, <3>2, <4>1
    <3>9. PICK e \in Int : r = w + d * e
      BY <2>5 DEF Cong
    <3>10. PICK f \in Int : s = v + d * f
      BY <3>6 DEF Cong
    <3>11. PICK g \in Int : y - x = (z + L) + d * g
      BY <3>8 DEF Cong
    <3>12. PICK h \in Int : h = g + f - e
      OBVIOUS
    <3>13. s - r = (z + L) + d * h
      BY <1>3, <2>2, <3>3, <3>9, <3>10, <3>11, <3>12
    <3>14. QED
      BY <2>1, <3>7, <3>13 DEF Cong
  <2>8. QED
    BY <2>6, <2>7
<1>7. QED
  BY <1>3, <1>6 DEF Alike

LEMMA LastThird ==
  ASSUME NEW n \in Nat, n > 2, n % 3 # 0, NEW t, t = 3 - (n % 3)
  PROVE  t \in {1, 2} /\ ((n - 3) * t) % 3 = 2
<1>1. n % 3 \in {1, 2}
  OBVIOUS
<1>2. CASE n % 3 = 1
  <2>1. PICK m \in Int : n = 3 * m + 1
    BY <1>2
  <2>2. t = 2
    BY <1>2
  <2>3. (n - 3) * t = 3 * (2 * m - 2) + 2
    BY <2>1, <2>2
  <2>4. PICK h \in Int : h = 2 * m - 2
    BY <2>1
  <2>5. (3 * h + 2) % 3 = 2
    OBVIOUS
  <2>6. QED
    BY <2>2, <2>3, <2>4, <2>5
<1>3. CASE n % 3 = 2
  <2>1. PICK m \in Int : n = 3 * m + 2
    BY <1>3
  <2>2. t = 1
    BY <1>3
  <2>3. (n - 3) * t = 3 * (m - 1) + 2
    BY <2>1, <2>2
  <2>4. PICK h \in Int : h = m - 1
    BY <2>1
  <2>5. (3 * h + 2) % 3 = 2
    OBVIOUS
  <2>6. QED
    BY <2>2, <2>3, <2>4, <2>5
<1>4. QED
  BY <1>1, <1>2, <1>3

\* The quotient of a polynomial, times x - 1, is the polynomial modulo 3 and
\* Phi_n.
LEMMA HrssDivides ==
  ASSUME "HRSS" \in Schemes, NEW a \in [Places(NtruN) -> 0 .. 2]
  PROVE  Alike(NtruN, 3, Step(NtruN, Hrss!Quotient(a)), a)
<1>1. NtruN \in Nat /\ NtruN > 2 /\ Hrss!Exps = Places(NtruN) /\ NtruN % 3 # 0
  BY HrssFacts, HrssAssumption
<1>2. Integral(NtruN, a) /\ \A k \in Places(NtruN) : a[k] \in Int
  BY DEF Integral
<1>3. PICK t : t = 3 - (NtruN % 3)
  OBVIOUS
<1>4. DEFINE z(i) == ((i - 3) * t) % 3
             Rest3(c) == Hrss!Sum([i \in 3 .. NtruN - 1 |-> a[i] * (z(i) + c)])
             Far(i) == Hrss!Sum([j \in (i % 3) + 1 .. i |-> a[j]])
<1>5. t \in {1, 2} /\ t \in Int /\ z(NtruN) = 2
  BY <1>1, <1>3, LastThird
<1>6. PICK I : I = 3 .. NtruN - 1
  OBVIOUS
<1>7. PICK v : v = [i \in I |-> z(i)]
  OBVIOUS
<1>8. IsFiniteSet(I) /\ \A i \in I : i \in Places(NtruN) /\ i \in Int
  <2>1. PICK l \in Int, b \in Int : l = NtruN - 1 /\ b = 3
    BY <1>1
  <2>2. IsFiniteSet(b .. l)
    BY FS_Interval
  <2>3. QED
    BY <1>1, <1>6, <2>1, <2>2 DEF Places
<1>9. \A i \in I : a[i] \in Int /\ v[i] \in Int /\ v[i] = z(i)
  <2>1. ASSUME NEW i \in I PROVE a[i] \in Int /\ v[i] \in Int /\ v[i] = z(i)
    <3>1. a[i] \in Int /\ i \in Int
      BY <1>2, <1>8
    <3>2. PICK y \in Int : y = (i - 3) * t
      BY <1>5, <3>1
    <3>3. y % 3 \in Int
      OBVIOUS
    <3>4. QED
      BY <1>7, <3>1, <3>2, <3>3
  <2>2. QED
    BY <2>1
<1>10. PICK g : g = [i \in I |-> a[i] * v[i]]
  OBVIOUS
<1>11. PICK W, S : W = SumFunctionOnSet(g, I) /\ S = SumFunctionOnSet(a, I)
  OBVIOUS
<1>12. ASSUME NEW c \in Int PROVE W \in Int /\ S \in Int /\ \E e \in Int : Rest3(c) = W + c * S + 3 * e
  <2>1. PICK f : f = [i \in I |-> a[i] * (v[i] + c)]
    OBVIOUS
  <2>2. /\ SumFunctionOnSet(g, I) \in Int /\ SumFunctionOnSet(a, I) \in Int
        /\ \E e \in Int : SumFunctionOnSet(f, I) = SumFunctionOnSet(g, I) + c * SumFunctionOnSet(a, I) + 3 * e
    <3>1. Weighted(I, a, v, c, g, f)
      BY <1>8, <1>9, <1>10, <2>1 DEF Weighted
    <3>2. QED
      BY <3>1, WeightedSum
  <2>3. f = [i \in 3 .. NtruN - 1 |-> a[i] * (z(i) + c)]
    BY <1>6, <1>9, <2>1
  <2>4. Rest3(c) = SumFunctionOnSet(f, I)
    <3>1. DOMAIN f = I
      BY <2>1
    <3>2. Rest3(c) = SumFunctionOnSet(f, DOMAIN f)
      BY <2>3, HrssSums DEF Hrss!Sum
    <3>3. QED
      BY <3>1, <3>2
  <2>5. QED
    BY <1>11, <2>2, <2>4
<1>13. W \in Int /\ S \in Int /\ \E e \in Int : Rest3(2 * t) = W + (2 * t) * S + 3 * e
  <2>1. PICK c \in Int : c = 2 * t
    BY <1>5
  <2>2. QED
    BY <1>12, <2>1
<1>14. PICK e2 \in Int : Rest3(2 * t) = W + (2 * t) * S + 3 * e2
  BY <1>13
<1>15. PICK e1 \in Int : Rest3(t) = W + t * S + 3 * e1
  BY <1>5, <1>12
<1>16. PICK e0 \in Int : Rest3(0) = W + 3 * e0
  <2>1. PICK c \in Int : c = 0
    OBVIOUS
  <2>2. PICK e \in Int : Rest3(c) = W + c * S + 3 * e
    BY <1>12
  <2>3. W + c * S + 3 * e = W + 3 * e
    BY <1>13, <2>1
  <2>4. QED
    BY <2>1, <2>2, <2>3
<1>17. 0 \in Places(NtruN) /\ 1 \in Places(NtruN) /\ 2 \in Places(NtruN) /\ NtruN - 1 \in Places(NtruN)
  BY <1>1 DEF Places
<1>18. PICK x \in Int, y \in Int, w \in Int : x = a[0] /\ y = a[1] /\ w = a[2]
  BY <1>2, <1>17
<1>19. PICK all \in Int : all = Upto(a, NtruN - 1) /\ all = x + y + w + S
  <2>9. PICK l \in Places(NtruN) : l = NtruN - 1
    BY <1>17
  <2>0. PICK r \in 0 .. l : r = 2
    BY <1>1, <2>9
  <2>1. l = NtruN - 1 /\ r = 2
    BY <2>0, <2>9
  <2>2. PICK f : f = [j \in r + 1 .. l |-> a[j]]
    OBVIOUS
  <2>3. /\ Upto(a, l) \in Int /\ Upto(a, r) \in Int
        /\ SumFunctionOnSet(f, r + 1 .. l) = Upto(a, l) - Upto(a, r)
    BY <1>1, <1>2, <2>2, UptoFar
  <2>4. r + 1 .. l = I
    BY <1>6, <2>1
  <2>5. \A j \in I : a[j] \in Int /\ f[j] = a[j]
    BY <1>9, <2>2, <2>4
  <2>6. SumFunctionOnSet(f, I) = S
    BY <1>8, <1>11, <2>5, SumSame
  <2>7. Upto(a, 2) = x + y + w
    <3>1. Upto(a, 0) = x
      BY <1>1, <1>2, <1>18, UptoNext
    <3>2. Upto(a, 1) = Upto(a, 0) + y
      BY <1>1, <1>2, <1>17, <1>18, UptoNext
    <3>3. Upto(a, 2) = Upto(a, 1) + w
      BY <1>1, <1>2, <1>17, <1>18, UptoNext
    <3>4. QED
      BY <3>1, <3>2, <3>3
  <2>8. Upto(a, r) = x + y + w
    BY <2>1, <2>7
  <2>10. S = Upto(a, l) - Upto(a, r)
    BY <2>3, <2>4, <2>6
  <2>11. Upto(a, l) = x + y + w + S
    BY ONLY <1>13, <1>18, <2>3, <2>8, <2>10, x \in Int, y \in Int, w \in Int
  <2>12. Upto(a, NtruN - 1) = x + y + w + S /\ Upto(a, NtruN - 1) \in Int
    BY <2>1, <2>3, <2>11
  <2>13. QED
    BY ONLY <2>12
<1>20. PICK f1 : f1 = x * (2 - t) + w * t + (W + 2 * t * S + 3 * e2)
  OBVIOUS
<1>21. PICK f2 : f2 = y * (2 - t) + (W + t * S + 3 * e1) + x * (2 + t)
  OBVIOUS
<1>22. PICK f3 : f3 = w * (2 - t) + (W + 3 * e0) + x * 2 + y * (2 + t)
  OBVIOUS
<1>23. f1 \in Int /\ f2 \in Int /\ f3 \in Int
  BY <1>5, <1>13, <1>20, <1>21, <1>22
<1>24. /\ Cong(3, f1 - f2, y + t * all) /\ Cong(3, f2 - f3, w + t * all)
       /\ Cong(3, f3 - f1, 2 * (y + w) + t * all)
  <2>1. Firsts(t, x, y, w, W, S, e0, e1, e2, all, f1, f2, f3)
    BY <1>5, <1>13, <1>19, <1>20, <1>21, <1>22 DEF Firsts
  <2>2. QED
    BY <2>1, FirstThree
<1>25. PICK first : first = <<f1, f2, f3>>
  OBVIOUS
<1>26. first = <<a[0] * (2 - t) + a[2] * t + Rest3(2 * t),
                 a[1] * (2 - t) + Rest3(t) + a[0] * (z(NtruN) + t),
                 a[2] * (2 - t) + Rest3(0) + a[0] * z(NtruN) + a[1] * (z(NtruN) + t)>>
  <2>1. f1 = x * (2 - t) + w * t + (W + (2 * t) * S + 3 * e2)
    BY <1>5, <1>13, <1>20
  <2>2. QED
    BY <1>5, <1>14, <1>15, <1>16, <1>18, <1>21, <1>22, <1>25, <2>1
<1>27. PICK p : p = [i \in Places(NtruN) |-> first[(i % 3) + 1] + 2 * Far(i)]
  OBVIOUS
<1>28. Hrss!Quotient(a) = Hrss!ModPhi(p, 3)
  BY <1>1, <1>3, <1>26, <1>27 DEF Hrss!Quotient
<1>29. Hrss!ModPhi(p, 3) = [k \in Places(NtruN) |-> (p[k] - p[NtruN - 1]) % 3]
  BY <1>1 DEF Hrss!ModPhi, Hrss!Value
<1>30. ASSUME NEW i \in Places(NtruN)
       PROVE  Far(i) = Upto(a, i) - Upto(a, i % 3) /\ i % 3 \in {0, 1, 2}
  <2>1. i \in Nat
    BY <1>1 DEF Places
  <2>2. PICK r \in 0 .. i : r = i % 3
    BY <2>1
  <2>3. PICK f : f = [j \in r + 1 .. i |-> a[j]]
    OBVIOUS
  <2>4. SumFunctionOnSet(f, r + 1 .. i) = Upto(a, i) - Upto(a, r)
    BY <1>1, <1>2, <2>3, UptoFar
  <2>5. f = [j \in (i % 3) + 1 .. i |-> a[j]]
    BY <2>2, <2>3
  <2>6. Far(i) = SumFunctionOnSet(f, DOMAIN f)
    BY <2>5, HrssSums DEF Hrss!Sum
  <2>7. DOMAIN f = r + 1 .. i
    BY <2>3
  <2>8. i % 3 \in {0, 1, 2}
    BY <2>1
  <2>9. QED
    BY <2>2, <2>4, <2>6, <2>7, <2>8
<1>31. \A i \in Places(NtruN) :
         /\ i % 3 = 0 => p[i] = f1 + 2 * (Upto(a, i) - Upto(a, 0))
         /\ i % 3 = 1 => p[i] = f2 + 2 * (Upto(a, i) - Upto(a, 1))
         /\ i % 3 = 2 => p[i] = f3 + 2 * (Upto(a, i) - Upto(a, 2))
  <2>1. ASSUME NEW i \in Places(NtruN)
        PROVE  /\ i % 3 = 0 => p[i] = f1 + 2 * (Upto(a, i) - Upto(a, 0))
               /\ i % 3 = 1 => p[i] = f2 + 2 * (Upto(a, i) - Upto(a, 1))
               /\ i % 3 = 2 => p[i] = f3 + 2 * (Upto(a, i) - Upto(a, 2))
    <3>1. p[i] = first[(i % 3) + 1] + 2 * (Upto(a, i) - Upto(a, i % 3))
      BY <1>27, <1>30
    <3>2. first[1] = f1 /\ first[2] = f2 /\ first[3] = f3
      BY <1>25
    <3>3. 0 + 1 = 1 /\ 1 + 1 = 2 /\ 2 + 1 = 3
      OBVIOUS
    <3>4. PICK r \in {0, 1, 2} : r = i % 3
      BY <1>30
    <3>5. p[i] = first[r + 1] + 2 * (Upto(a, i) - Upto(a, r))
      BY <3>1, <3>4
    <3>6. QED
      BY <3>2, <3>3, <3>4, <3>5
  <2>2. QED
    BY <2>1
<1>32. Divided(NtruN, t, a, all, f1, f2, f3, p)
  BY <1>1, <1>2, <1>3, <1>18, <1>19, <1>23, <1>24, <1>31 DEF Divided
<1>33. QED
  BY <1>28, <1>29, <1>32, PhiStep

-----------------------------------------------------------------------------
(***************************************************************************)
(* What comes out of a decryption, for both families.                      *)
(***************************************************************************)
LEMMA HalvesUnit ==
  ASSUME NEW n, NEW q, NEW u, NEW F, NEW G, NEW i, NtruKey(n, q, u, F, G, i),
         NEW h, NEW e, NEW hh, NEW ee, HalvesMeet(n, q, F, G, h, e, hh, ee)
  PROVE  PhiTimes(n, q, hh, ee) = Unit(n)
<1>1. n \in Nat /\ n > 2 /\ n > 0 /\ q \in Nat /\ q > 3 /\ q > 0
  BY DEF NtruKey
<1>2. Integral(n, hh) /\ Integral(n, ee) /\ Alike(n, q, Conv(n, hh, ee), Unit(n))
  BY DEF HalvesMeet
<1>3. PICK c, p, o : c = Conv(n, hh, ee) /\ p = PhiMod(n, q, c) /\ o = Unit(n)
  OBVIOUS
<1>4. Integral(n, c)
  BY <1>1, <1>2, <1>3, ConvType
<1>5. Integral(n, p) /\ Alike(n, q, p, c)
  BY <1>1, <1>3, <1>4, PhiModAlike
<1>6. p \in [Places(n) -> 0 .. q - 1] /\ p[n - 1] = 0
  BY <1>1, <1>3, <1>4, PhiModInRange
<1>7. o \in [Places(n) -> 0 .. q - 1] /\ o[n - 1] = 0
  <2>1. n - 1 \in Places(n) /\ n - 1 # 0
    BY <1>1 DEF Places
  <2>2. 0 \in 0 .. q - 1 /\ 1 \in 0 .. q - 1
    BY <1>1
  <2>3. QED
    BY <1>3, <2>1, <2>2 DEF Unit
<1>8. Integral(n, o)
  BY <1>3 DEF Integral, Unit
<1>9. Alike(n, q, c, o)
  BY <1>2, <1>3
<1>10. Alike(n, q, p, o)
  BY <1>1, <1>4, <1>5, <1>8, <1>9, AlikeTrans
<1>11. p = o
  BY <1>1, <1>6, <1>7, <1>10, AlikeUnique
<1>12. QED
  BY <1>3, <1>11 DEF PhiTimes

LEMMA TritsBack ==
  ASSUME NEW n \in Nat, NEW q \in Nat, q > 3, NEW r \in [Places(n) -> 0 .. 2]
  PROVE  TritsOut(n, q, TritsIn(n, q, r)) = r
<1>1. PICK p, s : p = TritsIn(n, q, r) /\ s = TritsOut(n, q, p)
  OBVIOUS
<1>2. ASSUME NEW k \in Places(n) PROVE s[k] = r[k]
  <2>1. PICK x \in 0 .. 2 : x = r[k]
    OBVIOUS
  <2>2. CASE x = 2
    <3>1. p[k] = q - 1
      BY <1>1, <2>1, <2>2 DEF TritsIn
    <3>2. (q - 1) % q = q - 1
      OBVIOUS
    <3>3. QED
      BY <1>1, <2>1, <2>2, <3>1, <3>2 DEF TritsOut
  <2>3. CASE x # 2
    <3>1. p[k] = x
      BY <1>1, <2>1, <2>3 DEF TritsIn
    <3>2. x % q = x /\ x # q - 1
      BY <2>3
    <3>3. QED
      BY <1>1, <2>1, <3>1, <3>2 DEF TritsOut
  <2>4. QED
    BY <2>2, <2>3
<1>3. s = [k \in Places(n) |-> s[k]]
  BY <1>1 DEF TritsOut
<1>4. r = [k \in Places(n) |-> r[k]]
  OBVIOUS
<1>5. s = r
  BY <1>2, <1>3, <1>4
<1>6. QED
  BY <1>1, <1>5

\* What a message and its coins are over the integers.
NtruSigned(n, q, t, Ps, Gs, Ls, Fs, N, P, G, lift, F) ==
  /\ Same(n, q, Ps, P) /\ Same(n, q, Gs, G) /\ Same(n, q, Ls, lift) /\ Same(n, q, Fs, F)
  /\ Small(n, q, N)

LEMMA NtruReturns ==
  ASSUME NEW n, NEW q, NEW u, NEW F, NEW G, NEW i, NtruKey(n, q, u, F, G, i),
         NEW h, NEW e, NEW hh, NEW ee, HalvesMeet(n, q, F, G, h, e, hh, ee),
         NEW P, NEW lift, NEW core, NEW v, NtruCipher(n, q, P, lift, hh, core, v),
         NEW t, NEW Ps, NEW Gs, NEW Ls, NEW Fs, NEW N, NEW f, NEW m, NEW finv,
         NtruSmall(n, t, Ps, Gs, Ls, Fs, N, f, m, finv),
         NtruSigned(n, q, t, Ps, Gs, Ls, Fs, N, P, G, lift, F)
  PROVE  /\ core \in [0 .. n - 2 -> 0 .. q - 1]
         /\ PhiTimes(n, t, PhiMod(n, t, Centred(n, q, RestTimes(n, q, v, F))), finv) = m
         /\ PhiTimes(n, q, Minus(n, v, lift), ee) = P
<1>1. /\ core \in [0 .. n - 2 -> 0 .. q - 1] /\ Integral(n, v)
      /\ Same(n, q, Conv(n, v, F), Plus(n, Conv(n, P, G), Conv(n, lift, F)))
      /\ PhiTimes(n, q, Minus(n, v, lift), ee) = P
  BY NtruRecovers
<1>2. PhiTimes(n, t, PhiMod(n, t, N), finv) = m
  BY NtruMessage
<1>3. /\ n \in Nat /\ n > 2 /\ n > 0 /\ q \in Nat /\ q > 3 /\ q > 0 /\ Integral(n, F) /\ Integral(n, G)
  BY DEF NtruKey
<1>4. P \in [Places(n) -> 0 .. q - 1] /\ Integral(n, lift)
  BY DEF NtruCipher
<1>5. /\ Integral(n, Ps) /\ Integral(n, Gs) /\ Integral(n, Ls) /\ Integral(n, Fs)
      /\ N = Plus(n, Conv(n, Ps, Gs), Conv(n, Ls, Fs))
  BY DEF NtruSmall
<1>6. /\ Same(n, q, Ps, P) /\ Same(n, q, Gs, G) /\ Same(n, q, Ls, lift) /\ Same(n, q, Fs, F)
      /\ Small(n, q, N)
  BY DEF NtruSigned
<1>7. Integral(n, P)
  <2>1. \A k \in Places(n) : P[k] \in 0 .. q - 1
    BY <1>4
  <2>2. QED
    BY <1>3, <2>1 DEF Integral
<1>8. PICK a, b, c, d : a = Conv(n, Ps, Gs) /\ b = Conv(n, Ls, Fs) /\ c = Conv(n, P, G) /\ d = Conv(n, lift, F)
  OBVIOUS
<1>9. PICK x, y : x = Conv(n, P, Gs) /\ y = Conv(n, lift, Fs)
  OBVIOUS
<1>10. Integral(n, a) /\ Integral(n, b) /\ Integral(n, c) /\ Integral(n, d) /\ Integral(n, x) /\ Integral(n, y)
  BY <1>3, <1>4, <1>5, <1>7, <1>8, <1>9, ConvType
<1>11. Same(n, q, a, x) /\ Same(n, q, x, c)
  BY <1>3, <1>5, <1>6, <1>7, <1>8, <1>9, ConvSame
<1>12. Same(n, q, b, y) /\ Same(n, q, y, d)
  BY <1>3, <1>4, <1>5, <1>6, <1>8, <1>9, ConvSame
<1>13. Same(n, q, a, c) /\ Same(n, q, b, d)
  BY <1>3, <1>10, <1>11, <1>12, SameTrans
<1>14. PICK s, w : s = Plus(n, c, d) /\ w = Conv(n, v, F)
  OBVIOUS
<1>15. Same(n, q, N, s)
  BY <1>3, <1>5, <1>8, <1>10, <1>13, <1>14, PlusSame
<1>16. Integral(n, N) /\ Integral(n, s) /\ Integral(n, w)
  BY <1>1, <1>3, <1>5, <1>8, <1>10, <1>14, PlusType, ConvType
<1>17. Same(n, q, s, N)
  BY <1>3, <1>15, <1>16, SameSym
<1>18. Same(n, q, w, s)
  BY <1>1, <1>8, <1>14
<1>19. Same(n, q, w, N)
  BY <1>3, <1>16, <1>17, <1>18, SameTrans
<1>20. PICK r, z : r = Rest(n, q, w) /\ z = Centred(n, q, r)
  OBVIOUS
<1>21. \A k \in Places(n) : z[k] = N[k]
  <2>1. ASSUME NEW k \in Places(n) PROVE z[k] = N[k]
    <3>1. Centred(n, q, r)[k] = N[k]
      BY <1>3, <1>6, <1>16, <1>19, <1>20, CentredAt
    <3>2. QED
      BY <1>20, <3>1
  <2>2. QED
    BY <2>1
<1>22. n - 1 \in Places(n)
  BY <1>3 DEF Places
<1>23. PhiMod(n, t, z) = PhiMod(n, t, N)
  BY <1>21, <1>22 DEF PhiMod
<1>24. z = Centred(n, q, RestTimes(n, q, v, F))
  BY <1>14, <1>20 DEF RestTimes
<1>25. QED
  BY <1>1, <1>2, <1>23, <1>24

\* Everything a decryption meets, as trits.
NtruTrits(n, q, u, t, f, G, Gs, i, finv, r, m, lift, Ls) ==
  /\ NtruKey(n, q, u, TritsIn(n, q, f), G, i) /\ t = 3
  /\ f \in [Places(n) -> 0 .. 2] /\ r \in [Places(n) -> 0 .. 2] /\ m \in [Places(n) -> 0 .. 2]
  /\ r[n - 1] = 0 /\ m[n - 1] = 0
  /\ Integral(n, Gs) /\ Same(n, q, Gs, G) /\ Same(n, t, Gs, Zeros(n))
  /\ Integral(n, lift) /\ Cong(q, Total(n, lift), 0)
  /\ Integral(n, Ls) /\ Same(n, q, Ls, lift) /\ Alike(n, t, Ls, m)
  /\ Integral(n, finv) /\ PhiTimes(n, t, f, finv) = Unit(n)
  /\ Small(n, q, Plus(n, Conv(n, SignedOf(n, r), Gs), Conv(n, Ls, SignedOf(n, f))))

NtruSends(n, q, f, G, i, r, lift, F, h, e, hh, ee, P, core, v) ==
  /\ F = TritsIn(n, q, f) /\ h = PublicHalf(n, q, i, G) /\ e = SecretHalf(n, q, i, F)
  /\ hh = Closed(n, q, h) /\ ee = Padding(n, e) /\ P = TritsIn(n, q, r)
  /\ core = [k \in 0 .. n - 2 |-> (RestTimes(n, q, P, hh)[k] + lift[k]) % q] /\ v = Closed(n, q, core)

LEMMA TritsReturn ==
  ASSUME NEW n, NEW q, NEW u, NEW t, NEW f, NEW G, NEW Gs, NEW i, NEW finv, NEW r, NEW m, NEW lift, NEW Ls,
         NtruTrits(n, q, u, t, f, G, Gs, i, finv, r, m, lift, Ls),
         NEW F, NEW h, NEW e, NEW hh, NEW ee, NEW P, NEW core, NEW v,
         NtruSends(n, q, f, G, i, r, lift, F, h, e, hh, ee, P, core, v)
  PROVE  /\ h \in [0 .. n - 2 -> 0 .. q - 1] /\ e \in [0 .. n - 2 -> 0 .. q - 1]
         /\ core \in [0 .. n - 2 -> 0 .. q - 1]
         /\ PhiTimes(n, t, PhiMod(n, t, Centred(n, q, RestTimes(n, q, v, F))), finv) = m
         /\ PhiTimes(n, q, Minus(n, v, lift), ee) = P
         /\ P[n - 1] = 0 /\ (\A k \in 0 .. n - 2 : P[k] \in {0, 1, q - 1}) /\ TritsOut(n, q, P) = r
<1> USE DEF NtruSends
<1>1. /\ NtruKey(n, q, u, F, G, i) /\ t = 3 /\ t \in Nat
      /\ f \in [Places(n) -> 0 .. 2] /\ r \in [Places(n) -> 0 .. 2] /\ m \in [Places(n) -> 0 .. 2]
      /\ r[n - 1] = 0 /\ m[n - 1] = 0
      /\ Integral(n, Gs) /\ Same(n, q, Gs, G) /\ Same(n, t, Gs, Zeros(n))
      /\ Integral(n, lift) /\ Cong(q, Total(n, lift), 0)
      /\ Integral(n, Ls) /\ Same(n, q, Ls, lift) /\ Alike(n, t, Ls, m)
      /\ Integral(n, finv) /\ PhiTimes(n, t, f, finv) = Unit(n)
      /\ Small(n, q, Plus(n, Conv(n, SignedOf(n, r), Gs), Conv(n, Ls, SignedOf(n, f))))
  BY DEF NtruTrits
<1>2. n \in Nat /\ n > 2 /\ n > 0 /\ q \in Nat /\ q > 3 /\ q > 0 /\ n - 1 \in Places(n) /\ \A k \in 0 .. n - 2 : k \in Places(n)
  BY <1>1 DEF NtruKey, Places
<1>3. HalvesMeet(n, q, F, G, h, e, hh, ee)
  BY <1>1, NtruHalves
<1>4. h \in [0 .. n - 2 -> 0 .. q - 1] /\ e \in [0 .. n - 2 -> 0 .. q - 1]
  BY <1>3 DEF HalvesMeet
<1>5. Trits(n, f) /\ Trits(n, r)
  BY <1>1 DEF Trits
<1>6. PICK Fs, Ps : Fs = SignedOf(n, f) /\ Ps = SignedOf(n, r)
  OBVIOUS
<1>7. /\ Integral(n, Fs) /\ Integral(n, f) /\ Same(n, q, Fs, F) /\ Same(n, t, Fs, f)
  BY <1>1, <1>2, <1>5, <1>6, SignedSame
<1>8. Integral(n, Ps) /\ P \in [Places(n) -> 0 .. q - 1] /\ Same(n, q, Ps, P)
  BY <1>1, <1>2, <1>5, <1>6, SignedSame
<1>9. P[n - 1] = 0 /\ \A k \in 0 .. n - 2 : P[k] \in {0, 1, q - 1}
  <2>1. P[n - 1] = 0
    BY <1>1, <1>2 DEF TritsIn
  <2>2. ASSUME NEW k \in 0 .. n - 2 PROVE P[k] \in {0, 1, q - 1}
    <3>1. k \in Places(n) /\ r[k] \in 0 .. 2
      BY <1>1, <1>2
    <3>2. QED
      BY <3>1 DEF TritsIn
  <2>3. QED
    BY <2>1, <2>2
<1>10. NtruCipher(n, q, P, lift, hh, core, v)
  BY <1>1, <1>8, <1>9 DEF NtruCipher
<1>11. PICK N : N = Plus(n, Conv(n, Ps, Gs), Conv(n, Ls, Fs))
  OBVIOUS
<1>12. m \in [Places(n) -> 0 .. t - 1]
  <2>1. 0 .. t - 1 = 0 .. 2
    BY <1>1
  <2>2. QED
    BY <1>1, <2>1
<1>13. NtruSmall(n, t, Ps, Gs, Ls, Fs, N, f, m, finv)
  BY <1>1, <1>2, <1>7, <1>8, <1>11, <1>12 DEF NtruSmall
<1>14. NtruSigned(n, q, t, Ps, Gs, Ls, Fs, N, P, G, lift, F)
  BY <1>1, <1>6, <1>7, <1>8, <1>11 DEF NtruSigned
<1>15. /\ core \in [0 .. n - 2 -> 0 .. q - 1]
       /\ PhiTimes(n, t, PhiMod(n, t, Centred(n, q, RestTimes(n, q, v, F))), finv) = m
       /\ PhiTimes(n, q, Minus(n, v, lift), ee) = P
  BY <1>1, <1>3, <1>10, <1>13, <1>14, NtruReturns
<1>16. TritsOut(n, q, P) = r
  BY <1>1, <1>2, TritsBack
<1>17. QED
  BY <1>4, <1>9, <1>15, <1>16

-----------------------------------------------------------------------------
(***************************************************************************)
(* The family of fixed weight.                                             *)
(***************************************************************************)
LEMMA HpsSpread ==
  ASSUME "HPS" \in Schemes, NEW g \in Hps!FixedType, NEW G, G = Hps!Spread(Hps!Z3ToZq(g)),
         NEW Gs, Gs = Hps!Spread(Hps!Signed(g)), NEW t \in Nat, t = 3
  PROVE  /\ Integral(NtruN, G) /\ Cong(Hps!Q, Total(NtruN, G), 0)
         /\ Integral(NtruN, Gs) /\ Same(NtruN, Hps!Q, Gs, G) /\ Same(NtruN, t, Gs, Zeros(NtruN))
<1>1. /\ NtruN \in Nat /\ NtruN > 2 /\ Hps!Q \in Nat /\ Hps!Q > 3 /\ Hps!Exps = Places(NtruN)
  BY HpsFacts
<1>2. PICK n, q : n = NtruN /\ q = Hps!Q
  OBVIOUS
<1>3. PICK b, s : b = TritsIn(n, q, g) /\ s = SignedOf(n, g)
  OBVIOUS
<1>4. g \in [Places(n) -> 0 .. 2] /\ Integral(n, b) /\ Cong(q, Total(n, b), 0)
  <2>1. Hps!Lift(g) = b
    BY <1>2, <1>3, HpsOperators DEF Hps!Lift
  <2>2. QED
    BY <1>2, <2>1, HpsLift
<1>5. G = Thrice(n, b) /\ Gs = Thrice(n, s)
  <2>1. Hps!Z3ToZq(g) = b
    BY <1>2, <1>3, HpsOperators
  <2>2. Hps!Signed(g) = s
    BY <1>1, <1>2, <1>3 DEF Hps!Signed, SignedOf
  <2>3. \A a : Hps!Spread(a) = Thrice(n, a)
    BY <1>1, <1>2 DEF Hps!Spread, Thrice
  <2>4. QED
    BY <2>1, <2>2, <2>3
<1>6. Integral(n, s) /\ Same(n, q, s, b)
  <2>1. Trits(n, g)
    BY <1>4 DEF Trits
  <2>2. QED
    BY <1>1, <1>2, <1>3, <2>1, SignedSame
<1>7. Integral(n, b) /\ Same(n, q, b, b)
  <2>1. \A k \in Places(n) : Cong(q, b[k], b[k])
    BY <1>1, <1>2, <1>4, CongRefl DEF Integral
  <2>2. QED
    BY <1>4, <2>1 DEF Same
<1>8. Integral(n, Gs) /\ Same(n, q, Gs, G) /\ Same(n, t, Gs, Zeros(n))
  BY <1>1, <1>2, <1>4, <1>5, <1>6, ThriceSame
<1>9. Integral(n, G)
  BY <1>1, <1>2, <1>5, <1>7, ThriceSame
<1>10. Cong(q, Total(n, G), 0)
  BY <1>1, <1>2, <1>4, <1>5, ThriceTotal
<1>11. QED
  BY <1>2, <1>8, <1>9, <1>10

LEMMA HpsMore ==
  ASSUME "HPS" \in Schemes
  PROVE  /\ \A a, b : Hps!RqMul(a, b) = RestTimes(NtruN, Hps!Q, a, b)
         /\ \A a, b : Hps!SqMul(a, b) = PhiTimes(NtruN, Hps!Q, a, b)
         /\ \A a, b : Hps!S3Mul(a, b) = PhiTimes(NtruN, 3, a, b)
         /\ \A a : Hps!RqToS3(a) = PhiMod(NtruN, 3, Centred(NtruN, Hps!Q, a))
         /\ \A a : Hps!Signed(a) = SignedOf(NtruN, a)
<1>1. Hps!Exps = Places(NtruN)
  BY HpsFacts
<1>2. ASSUME NEW a, NEW b PROVE Hps!RqMul(a, b) = RestTimes(NtruN, Hps!Q, a, b)
  BY HpsOperators DEF RestTimes, Rest
<1>3. ASSUME NEW a, NEW b PROVE Hps!SqMul(a, b) = PhiTimes(NtruN, Hps!Q, a, b)
  BY HpsOperators DEF PhiTimes
<1>4. ASSUME NEW a, NEW b PROVE Hps!S3Mul(a, b) = PhiTimes(NtruN, 3, a, b)
  BY <1>1, HpsOperators DEF Hps!S3Mul, Hps!ModPhi, Hps!Value, PhiTimes, PhiMod
<1>5. ASSUME NEW a PROVE Hps!RqToS3(a) = PhiMod(NtruN, 3, Centred(NtruN, Hps!Q, a))
  BY <1>1 DEF Hps!RqToS3, Hps!ModPhi, Hps!Value, PhiMod, Centred
<1>6. ASSUME NEW a PROVE Hps!Signed(a) = SignedOf(NtruN, a)
  BY <1>1 DEF Hps!Signed, SignedOf
<1>7. QED
  BY <1>2, <1>3, <1>4, <1>5, <1>6

\* A generated key pair: its fields and what makes it one.
LEMMA HpsKeyPair ==
  ASSUME "HPS" \in Schemes, NEW f \in Hps!Ternary, NEW g \in Hps!FixedType, Hps!InversionsReturn(f, g),
         NEW F, F = TritsIn(NtruN, Hps!Q, f), NEW G, G = Hps!Spread(Hps!Z3ToZq(g)),
         NEW i, i = Hps!RqInv(Hps!RqMul(G, F)), NEW kp, kp = Hps!KeyPair(f, g)
  PROVE  /\ \E u \in Int : NtruKey(NtruN, Hps!Q, u, F, G, i)
         /\ kp.f = f /\ kp.finv = Hps!S3Inv(f) /\ kp.h = PublicHalf(NtruN, Hps!Q, i, G)
         /\ kp.hinv = SecretHalf(NtruN, Hps!Q, i, F)
         /\ f \in [Places(NtruN) -> 0 .. 2] /\ Integral(NtruN, kp.finv)
         /\ PhiTimes(NtruN, 3, f, kp.finv) = Unit(NtruN)
<1>1. /\ NtruN \in Nat /\ NtruN > 2 /\ Hps!Q \in Nat /\ Hps!Q > 3 /\ Hps!Exps = Places(NtruN)
      /\ Hps!Packed = 0 .. NtruN - 2
  BY HpsFacts
<1>2. PICK u \in Int : Cong(Hps!Q, NtruN * u, 1)
  BY HpsFacts
<1>3. Hps!Z3ToZq(f) = F
  BY HpsOperators
<1>4. /\ i \in [Hps!Exps -> 0 .. Hps!Q - 1] /\ Hps!SqMul(i, Hps!RqMul(G, F)) = Hps!One
      /\ Hps!S3Inv(f) \in [Hps!Exps -> 0 .. 2] /\ Hps!S3Mul(f, Hps!S3Inv(f)) = Hps!One
  BY <1>3 DEF Hps!InversionsReturn
<1>5. f \in [Places(NtruN) -> 0 .. 2]
  BY <1>1 DEF Hps!Ternary
<1>6. Integral(NtruN, F)
  <2>1. Trits(NtruN, f)
    BY <1>5 DEF Trits
  <2>2. PICK t \in Nat : t = 3
    OBVIOUS
  <2>3. QED
    BY <1>1, <2>1, <2>2, SignedSame
<1>7. Integral(NtruN, G) /\ Cong(Hps!Q, Total(NtruN, G), 0)
  <2>1. PICK t \in Nat : t = 3
    OBVIOUS
  <2>2. PICK Gs : Gs = Hps!Spread(Hps!Signed(g))
    OBVIOUS
  <2>3. QED
    BY <2>1, <2>2, HpsSpread
<1>8. Integral(NtruN, i)
  <2>1. \A k \in Places(NtruN) : i[k] \in 0 .. Hps!Q - 1
    BY <1>1, <1>4
  <2>2. QED
    BY <1>1, <2>1 DEF Integral
<1>9. PhiTimes(NtruN, Hps!Q, i, RestTimes(NtruN, Hps!Q, G, F)) = Unit(NtruN)
  BY <1>4, HpsMore, HpsOperators
<1>10. NtruKey(NtruN, Hps!Q, u, F, G, i)
  BY <1>1, <1>2, <1>6, <1>7, <1>8, <1>9 DEF NtruKey
<1>11. kp = [f |-> f, finv |-> Hps!S3Inv(f),
             hinv |-> Hps!ToBytes(Hps!SqMul(Hps!RqMul(i, F), F)), h |-> Hps!ToBytes(Hps!RqMul(Hps!RqMul(i, G), G))]
  BY <1>3 DEF Hps!KeyPair
<1>12. /\ kp.f = f /\ kp.finv = Hps!S3Inv(f) /\ kp.h = Hps!ToBytes(Hps!RqMul(Hps!RqMul(i, G), G))
       /\ kp.hinv = Hps!ToBytes(Hps!SqMul(Hps!RqMul(i, F), F))
  BY <1>11
<1>13. kp.h = PublicHalf(NtruN, Hps!Q, i, G) /\ kp.hinv = SecretHalf(NtruN, Hps!Q, i, F)
  BY <1>1, <1>12, HpsMore DEF Hps!ToBytes, PublicHalf, SecretHalf
<1>14. Integral(NtruN, kp.finv)
  <2>1. \A k \in Places(NtruN) : kp.finv[k] \in 0 .. 2
    BY <1>1, <1>4, <1>12
  <2>2. QED
    BY <2>1 DEF Integral
<1>15. PhiTimes(NtruN, 3, f, kp.finv) = Unit(NtruN)
  BY <1>4, <1>12, HpsMore, HpsOperators
<1>16. QED
  BY <1>5, <1>10, <1>12, <1>13, <1>14, <1>15

LEMMA HpsHalves ==
  ASSUME "HPS" \in Schemes, NEW f \in Hps!Ternary, NEW g \in Hps!FixedType, Hps!InversionsReturn(f, g)
  PROVE  Hps!HalvesInvert(Hps!KeyPair(f, g))
<1>1. PICK F, G, kp : F = TritsIn(NtruN, Hps!Q, f) /\ G = Hps!Spread(Hps!Z3ToZq(g)) /\ kp = Hps!KeyPair(f, g)
  OBVIOUS
<1>2. PICK i : i = Hps!RqInv(Hps!RqMul(G, F))
  OBVIOUS
<1>3. /\ \E u \in Int : NtruKey(NtruN, Hps!Q, u, F, G, i)
      /\ kp.h = PublicHalf(NtruN, Hps!Q, i, G) /\ kp.hinv = SecretHalf(NtruN, Hps!Q, i, F)
  BY <1>1, <1>2, HpsKeyPair
<1>4. PICK u \in Int : NtruKey(NtruN, Hps!Q, u, F, G, i)
  BY <1>3
<1>5. PICK h, e : h = kp.h /\ e = kp.hinv
  OBVIOUS
<1>6. PICK hh, ee : hh = Closed(NtruN, Hps!Q, h) /\ ee = Padding(NtruN, e)
  OBVIOUS
<1>7. HalvesMeet(NtruN, Hps!Q, F, G, h, e, hh, ee)
  BY <1>3, <1>4, <1>5, <1>6, NtruHalves
<1>8. PhiTimes(NtruN, Hps!Q, hh, ee) = Unit(NtruN)
  BY <1>4, <1>7, HalvesUnit
<1>9. h \in [0 .. NtruN - 2 -> 0 .. Hps!Q - 1] /\ e \in [0 .. NtruN - 2 -> 0 .. Hps!Q - 1]
  BY <1>7 DEF HalvesMeet
<1>10. Hps!SumZero(h) = hh /\ Hps!Padded(e) = ee /\ Hps!One = Unit(NtruN)
  BY <1>6, <1>9, HpsOperators
<1>11. Hps!SqMul(hh, ee) = Unit(NtruN) /\ Hps!Packed = 0 .. NtruN - 2
  BY <1>8, HpsMore, HpsFacts
<1>12. QED
  BY <1>1, <1>5, <1>9, <1>10, <1>11 DEF Hps!HalvesInvert

-----------------------------------------------------------------------------
\* A message over the integers and as it is sent.
LEMMA HpsLifted ==
  ASSUME "HPS" \in Schemes, NEW m \in Hps!FixedType, NEW lift, lift = Hps!Lift(m),
         NEW Ls, Ls = Hps!SignedLift(m), NEW t \in Nat, t = 3
  PROVE  /\ m \in [Places(NtruN) -> 0 .. 2] /\ m[NtruN - 1] = 0
         /\ Integral(NtruN, lift) /\ Cong(Hps!Q, Total(NtruN, lift), 0)
         /\ Integral(NtruN, Ls) /\ Same(NtruN, Hps!Q, Ls, lift) /\ Alike(NtruN, t, Ls, m)
<1>1. NtruN \in Nat /\ Hps!Q \in Nat /\ Hps!Q > 3
  BY HpsFacts
<1>2. /\ m \in [Places(NtruN) -> 0 .. 2] /\ Integral(NtruN, lift) /\ Cong(Hps!Q, Total(NtruN, lift), 0)
  BY HpsLift
<1>3. m[NtruN - 1] = 0
  BY DEF Hps!FixedType, Hps!Ternary
<1>4. lift = TritsIn(NtruN, Hps!Q, m) /\ Ls = SignedOf(NtruN, m)
  BY HpsOperators, HpsMore DEF Hps!Lift, Hps!SignedLift
<1>5. Trits(NtruN, m)
  BY <1>2 DEF Trits
<1>6. Integral(NtruN, Ls) /\ Integral(NtruN, m) /\ Same(NtruN, Hps!Q, Ls, lift) /\ Same(NtruN, t, Ls, m)
  BY <1>1, <1>4, <1>5, SignedSame
<1>7. Alike(NtruN, t, Ls, m)
  BY <1>1, <1>6, SameAlike
<1>8. QED
  BY <1>2, <1>3, <1>6, <1>7

LEMMA HpsReturns ==
  ASSUME "HPS" \in Schemes, NEW f \in Hps!Ternary, NEW g \in Hps!FixedType, Hps!InversionsReturn(f, g),
         NEW y \in Hps!Pairs, Hps!NoiseFits(f, g, y), NEW kp, kp = Hps!KeyPair(f, g)
  PROVE  Hps!Decrypt(kp, Hps!Encrypt(kp, y)) = [ok |-> TRUE, x |-> y]
<1>1. /\ NtruN \in Nat /\ NtruN > 2 /\ Hps!Q \in Nat /\ Hps!Q > 3 /\ Hps!Exps = Places(NtruN)
      /\ Hps!Packed = 0 .. NtruN - 2
  BY HpsFacts
<1>a. PICK t \in Nat : t = 3
  OBVIOUS
<1>b. PICK n, q : n = NtruN /\ q = Hps!Q
  OBVIOUS
<1>2. n = NtruN /\ q = Hps!Q /\ t = 3
  BY <1>a, <1>b
<1>3. PICK r, m : r = y.r /\ m = y.m
  OBVIOUS
<1>4. r \in Hps!Ternary /\ m \in Hps!FixedType /\ y = [r |-> r, m |-> m]
  BY <1>3 DEF Hps!Pairs
<1>5. PICK F, G, Gs : F = TritsIn(n, q, f) /\ G = Hps!Spread(Hps!Z3ToZq(g)) /\ Gs = Hps!Spread(Hps!Signed(g))
  OBVIOUS
<1>6. PICK i : i = Hps!RqInv(Hps!RqMul(G, F))
  OBVIOUS
<1>7. PICK h, e, finv : h = kp.h /\ e = kp.hinv /\ finv = kp.finv
  OBVIOUS
<1>8. /\ \E u \in Int : NtruKey(n, q, u, F, G, i)
      /\ kp.f = f /\ h = PublicHalf(n, q, i, G) /\ e = SecretHalf(n, q, i, F)
      /\ f \in [Places(n) -> 0 .. 2] /\ Integral(n, finv) /\ PhiTimes(n, 3, f, finv) = Unit(n)
  BY <1>2, <1>5, <1>6, <1>7, HpsKeyPair
<1>9. PICK u \in Int : NtruKey(n, q, u, F, G, i)
  BY <1>8
<1>10. Integral(n, Gs) /\ Same(n, q, Gs, G) /\ Same(n, t, Gs, Zeros(n))
  BY <1>2, <1>5, HpsSpread
<1>11. PICK lift, Ls : lift = Hps!Lift(m) /\ Ls = Hps!SignedLift(m)
  OBVIOUS
<1>12. /\ m \in [Places(n) -> 0 .. 2] /\ m[n - 1] = 0
       /\ Integral(n, lift) /\ Cong(q, Total(n, lift), 0)
       /\ Integral(n, Ls) /\ Same(n, q, Ls, lift) /\ Alike(n, t, Ls, m)
  BY <1>2, <1>4, <1>11, HpsLifted
<1>13. r \in [Places(n) -> 0 .. 2] /\ r[n - 1] = 0
  BY <1>1, <1>2, <1>4 DEF Hps!Ternary
<1>14. Small(n, q, Plus(n, Conv(n, SignedOf(n, r), Gs), Conv(n, Ls, SignedOf(n, f))))
  <2>1. PICK rg, mf : rg = Conv(n, SignedOf(n, r), Gs) /\ mf = Conv(n, Ls, SignedOf(n, f))
    OBVIOUS
  <2>2. rg = Hps!Circulant(Hps!Signed(y.r), Gs) /\ mf = Hps!Circulant(Hps!SignedLift(y.m), Hps!Signed(f))
    BY <1>2, <1>3, <1>11, <2>1, HpsOperators, HpsMore
  <2>3. \A k \in Places(n) : -q <= 2 * (rg[k] + mf[k]) /\ 2 * (rg[k] + mf[k]) < q
    BY <1>1, <1>2, <1>5, <2>2 DEF Hps!NoiseFits
  <2>4. QED
    BY <2>1, <2>3 DEF Small, Plus
<1>15. NtruTrits(n, q, u, t, f, G, Gs, i, finv, r, m, lift, Ls)
  BY <1>2, <1>5, <1>8, <1>9, <1>10, <1>12, <1>13, <1>14 DEF NtruTrits
<1>16. PICK hh, ee, P : hh = Closed(n, q, h) /\ ee = Padding(n, e) /\ P = TritsIn(n, q, r)
  OBVIOUS
<1>17. PICK core : core = [k \in 0 .. n - 2 |-> (RestTimes(n, q, P, hh)[k] + lift[k]) % q]
  OBVIOUS
<1>18. PICK v : v = Closed(n, q, core)
  OBVIOUS
<1>19. /\ h \in [0 .. n - 2 -> 0 .. q - 1] /\ e \in [0 .. n - 2 -> 0 .. q - 1]
       /\ core \in [0 .. n - 2 -> 0 .. q - 1]
       /\ PhiTimes(n, t, PhiMod(n, t, Centred(n, q, RestTimes(n, q, v, F))), finv) = m
       /\ PhiTimes(n, q, Minus(n, v, lift), ee) = P
       /\ P[n - 1] = 0 /\ (\A k \in 0 .. n - 2 : P[k] \in {0, 1, q - 1}) /\ TritsOut(n, q, P) = r
  <2>1. NtruSends(n, q, f, G, i, r, lift, F, h, e, hh, ee, P, core, v)
    BY <1>5, <1>8, <1>16, <1>17, <1>18 DEF NtruSends
  <2>2. QED
    BY <1>15, <2>1, TritsReturn
<1>20. Hps!Encrypt(kp, y) = [core |-> core, pad |-> 0]
  <2>1. Hps!Z3ToZq(y.r) = P /\ Hps!SumZero(kp.h) = hh
    BY <1>2, <1>3, <1>7, <1>16, <1>19, HpsOperators
  <2>2. PICK prod : prod = RestTimes(n, q, P, hh)
    OBVIOUS
  <2>3. Hps!RqMul(Hps!Z3ToZq(y.r), Hps!SumZero(kp.h)) = prod
    BY <1>2, <2>1, <2>2, HpsMore
  <2>4. Hps!Encrypt(kp, y) = [core |-> Hps!ToBytes([k \in Hps!Exps |-> prod[k] + lift[k]]), pad |-> 0]
    BY <1>3, <1>11, <2>3 DEF Hps!Encrypt
  <2>5. Hps!ToBytes([k \in Hps!Exps |-> prod[k] + lift[k]]) = [k \in 0 .. n - 2 |-> (prod[k] + lift[k]) % q]
    <3>1. \A k \in 0 .. n - 2 : k \in Places(n)
      BY <1>1, <1>2 DEF Places
    <3>2. QED
      BY <1>1, <1>2, <3>1 DEF Hps!ToBytes
  <2>6. QED
    BY <1>17, <2>2, <2>4, <2>5
<1>21. PICK c : c = Hps!Encrypt(kp, y)
  OBVIOUS
<1>22. c.core = core /\ c.pad = 0
  BY <1>20, <1>21
<1>23. Hps!SumZero(c.core) = v
  BY <1>2, <1>18, <1>19, <1>22, HpsOperators
<1>24. Hps!S3Mul(Hps!RqToS3(Hps!RqMul(v, Hps!Z3ToZq(kp.f))), kp.finv) = m
  <2>1. Hps!Z3ToZq(kp.f) = F
    BY <1>2, <1>5, <1>8, HpsOperators
  <2>2. Hps!RqMul(v, F) = RestTimes(n, q, v, F)
    BY <1>2, HpsMore
  <2>3. Hps!RqToS3(RestTimes(n, q, v, F)) = PhiMod(n, 3, Centred(n, q, RestTimes(n, q, v, F)))
    BY <1>2, HpsMore
  <2>4. Hps!S3Mul(PhiMod(n, 3, Centred(n, q, RestTimes(n, q, v, F))), finv)
          = PhiTimes(n, 3, PhiMod(n, 3, Centred(n, q, RestTimes(n, q, v, F))), finv)
    BY <1>2, HpsMore
  <2>5. QED
    BY <1>2, <1>7, <1>19, <2>1, <2>2, <2>3, <2>4
<1>25. Hps!SqMul([k \in Hps!Exps |-> v[k] - lift[k]], Hps!Padded(kp.hinv)) = P
  <2>1. [k \in Hps!Exps |-> v[k] - lift[k]] = Minus(n, v, lift)
    BY <1>1, <1>2 DEF Minus
  <2>2. Hps!Padded(kp.hinv) = ee
    BY <1>2, <1>7, <1>16, HpsOperators
  <2>3. QED
    BY <1>2, <1>19, <2>1, <2>2, HpsMore
<1>26. Hps!CheckCiphertext(c) /\ Hps!CheckM(m)
  BY <1>4, <1>22 DEF Hps!CheckCiphertext, Hps!CheckM
<1>27. Hps!CheckR(P)
  BY <1>1, <1>2, <1>19 DEF Hps!CheckR
<1>28. Hps!ZqToZ3(P) = r
  BY <1>2, <1>19, HpsOperators
<1>29. Hps!Decrypt(kp, c) = [ok |-> Hps!CheckCiphertext(c) /\ Hps!CheckM(m) /\ Hps!CheckR(P),
                             x |-> [r |-> Hps!ZqToZ3(P), m |-> m]]
  BY <1>11, <1>23, <1>24, <1>25 DEF Hps!Decrypt
<1>30. Hps!Decrypt(kp, c) = [ok |-> TRUE, x |-> [r |-> r, m |-> m]]
  BY <1>26, <1>27, <1>28, <1>29
<1>31. QED
  BY <1>4, <1>21, <1>30

-----------------------------------------------------------------------------
(***************************************************************************)
(* The family without one, whose messages are lifted by x - 1.             *)
(***************************************************************************)
LEMMA HrssSpread ==
  ASSUME "HRSS" \in Schemes, NEW g \in Hrss!Ternary, NEW G, G = Hrss!Spread(Hrss!Z3ToZq(g)),
         NEW Gs, Gs = Hrss!Spread(Hrss!Signed(g)), NEW t \in Nat, t = 3
  PROVE  /\ Integral(NtruN, G) /\ Cong(Hrss!Q, Total(NtruN, G), 0)
         /\ Integral(NtruN, Gs) /\ Same(NtruN, Hrss!Q, Gs, G) /\ Same(NtruN, t, Gs, Zeros(NtruN))
<1>1. /\ NtruN \in Nat /\ NtruN > 2 /\ NtruN > 0 /\ Hrss!Q \in Nat /\ Hrss!Q > 3 /\ Hrss!Q > 0
      /\ Hrss!Exps = Places(NtruN)
  BY HrssFacts
<1>2. PICK n, q : n = NtruN /\ q = Hrss!Q
  OBVIOUS
<1>3. PICK b, s : b = TritsIn(n, q, g) /\ s = SignedOf(n, g)
  OBVIOUS
<1>4. g \in [Places(n) -> 0 .. 2] /\ g[n - 1] = 0 /\ n - 1 \in Places(n)
  BY <1>1, <1>2 DEF Hrss!Ternary, Places
<1>5. Integral(n, s) /\ Integral(n, b) /\ Same(n, q, s, b)
  <2>1. Trits(n, g)
    BY <1>4 DEF Trits
  <2>2. QED
    BY <1>1, <1>2, <1>3, <2>1, SignedSame
<1>6. b[n - 1] = 0
  BY <1>3, <1>4 DEF TritsIn
<1>7. PICK x, w : x = Step(n, b) /\ w = Step(n, s)
  OBVIOUS
<1>8. Integral(n, x) /\ Cong(q, Total(n, x), 0)
  BY <1>1, <1>2, <1>5, <1>6, <1>7, StepTotal
<1>9. Integral(n, w) /\ Same(n, q, w, x)
  BY <1>1, <1>2, <1>5, <1>7, StepSame
<1>10. G = Thrice(n, x) /\ Gs = Thrice(n, w)
  <2>1. Hrss!Z3ToZq(g) = b
    BY <1>2, <1>3, HrssOperators
  <2>2. Hrss!Signed(g) = s
    BY <1>1, <1>2, <1>3 DEF Hrss!Signed, SignedOf
  <2>3. \A a : Hrss!Spread(a) = Thrice(n, Step(n, a))
    BY <1>1, <1>2 DEF Hrss!Spread, Thrice, Step
  <2>4. QED
    BY <1>7, <2>1, <2>2, <2>3
<1>11. Integral(n, Gs) /\ Same(n, q, Gs, G) /\ Same(n, t, Gs, Zeros(n))
  BY <1>1, <1>2, <1>8, <1>9, <1>10, ThriceSame
<1>12. Same(n, q, x, x)
  <2>1. \A k \in Places(n) : Cong(q, x[k], x[k])
    BY <1>1, <1>2, <1>8, CongRefl DEF Integral
  <2>2. QED
    BY <2>1 DEF Same
<1>13. Integral(n, G)
  BY <1>1, <1>2, <1>8, <1>10, <1>12, ThriceSame
<1>14. Cong(q, Total(n, G), 0)
  BY <1>1, <1>2, <1>8, <1>10, ThriceTotal
<1>15. QED
  BY <1>2, <1>11, <1>13, <1>14

LEMMA HrssMore ==
  ASSUME "HRSS" \in Schemes
  PROVE  /\ \A a, b : Hrss!RqMul(a, b) = RestTimes(NtruN, Hrss!Q, a, b)
         /\ \A a, b : Hrss!SqMul(a, b) = PhiTimes(NtruN, Hrss!Q, a, b)
         /\ \A a, b : Hrss!S3Mul(a, b) = PhiTimes(NtruN, 3, a, b)
         /\ \A a : Hrss!RqToS3(a) = PhiMod(NtruN, 3, Centred(NtruN, Hrss!Q, a))
         /\ \A a : Hrss!Signed(a) = SignedOf(NtruN, a)
<1>1. Hrss!Exps = Places(NtruN)
  BY HrssFacts
<1>2. ASSUME NEW a, NEW b PROVE Hrss!RqMul(a, b) = RestTimes(NtruN, Hrss!Q, a, b)
  BY HrssOperators DEF RestTimes, Rest
<1>3. ASSUME NEW a, NEW b PROVE Hrss!SqMul(a, b) = PhiTimes(NtruN, Hrss!Q, a, b)
  BY HrssOperators DEF PhiTimes
<1>4. ASSUME NEW a, NEW b PROVE Hrss!S3Mul(a, b) = PhiTimes(NtruN, 3, a, b)
  BY <1>1, HrssOperators DEF Hrss!S3Mul, Hrss!ModPhi, Hrss!Value, PhiTimes, PhiMod
<1>5. ASSUME NEW a PROVE Hrss!RqToS3(a) = PhiMod(NtruN, 3, Centred(NtruN, Hrss!Q, a))
  BY <1>1 DEF Hrss!RqToS3, Hrss!ModPhi, Hrss!Value, PhiMod, Centred
<1>6. ASSUME NEW a PROVE Hrss!Signed(a) = SignedOf(NtruN, a)
  BY <1>1 DEF Hrss!Signed, SignedOf
<1>7. QED
  BY <1>2, <1>3, <1>4, <1>5, <1>6

\* A generated key pair: its fields and what makes it one.
LEMMA HrssKeyPair ==
  ASSUME "HRSS" \in Schemes, NEW f \in Hrss!Ternary, NEW g \in Hrss!Ternary, Hrss!InversionsReturn(f, g),
         NEW F, F = TritsIn(NtruN, Hrss!Q, f), NEW G, G = Hrss!Spread(Hrss!Z3ToZq(g)),
         NEW i, i = Hrss!RqInv(Hrss!RqMul(G, F)), NEW kp, kp = Hrss!KeyPair(f, g)
  PROVE  /\ \E u \in Int : NtruKey(NtruN, Hrss!Q, u, F, G, i)
         /\ kp.f = f /\ kp.finv = Hrss!S3Inv(f) /\ kp.h = PublicHalf(NtruN, Hrss!Q, i, G)
         /\ kp.hinv = SecretHalf(NtruN, Hrss!Q, i, F)
         /\ f \in [Places(NtruN) -> 0 .. 2] /\ Integral(NtruN, kp.finv)
         /\ PhiTimes(NtruN, 3, f, kp.finv) = Unit(NtruN)
<1>1. /\ NtruN \in Nat /\ NtruN > 2 /\ Hrss!Q \in Nat /\ Hrss!Q > 3 /\ Hrss!Exps = Places(NtruN)
      /\ Hrss!Packed = 0 .. NtruN - 2
  BY HrssFacts
<1>2. PICK u \in Int : Cong(Hrss!Q, NtruN * u, 1)
  BY HrssFacts
<1>3. Hrss!Z3ToZq(f) = F
  BY HrssOperators
<1>4. /\ i \in [Hrss!Exps -> 0 .. Hrss!Q - 1] /\ Hrss!SqMul(i, Hrss!RqMul(G, F)) = Hrss!One
      /\ Hrss!S3Inv(f) \in [Hrss!Exps -> 0 .. 2] /\ Hrss!S3Mul(f, Hrss!S3Inv(f)) = Hrss!One
  BY <1>3 DEF Hrss!InversionsReturn
<1>5. f \in [Places(NtruN) -> 0 .. 2]
  BY <1>1 DEF Hrss!Ternary
<1>6. Integral(NtruN, F)
  <2>1. Trits(NtruN, f)
    BY <1>5 DEF Trits
  <2>2. PICK t \in Nat : t = 3
    OBVIOUS
  <2>3. QED
    BY <1>1, <2>1, <2>2, SignedSame
<1>7. Integral(NtruN, G) /\ Cong(Hrss!Q, Total(NtruN, G), 0)
  <2>1. PICK t \in Nat : t = 3
    OBVIOUS
  <2>2. PICK Gs : Gs = Hrss!Spread(Hrss!Signed(g))
    OBVIOUS
  <2>3. QED
    BY <2>1, <2>2, HrssSpread
<1>8. Integral(NtruN, i)
  <2>1. \A k \in Places(NtruN) : i[k] \in 0 .. Hrss!Q - 1
    BY <1>1, <1>4
  <2>2. QED
    BY <1>1, <2>1 DEF Integral
<1>9. PhiTimes(NtruN, Hrss!Q, i, RestTimes(NtruN, Hrss!Q, G, F)) = Unit(NtruN)
  BY <1>4, HrssMore, HrssOperators
<1>10. NtruKey(NtruN, Hrss!Q, u, F, G, i)
  BY <1>1, <1>2, <1>6, <1>7, <1>8, <1>9 DEF NtruKey
<1>11. kp = [f |-> f, finv |-> Hrss!S3Inv(f),
             hinv |-> Hrss!ToBytes(Hrss!SqMul(Hrss!RqMul(i, F), F)), h |-> Hrss!ToBytes(Hrss!RqMul(Hrss!RqMul(i, G), G))]
  BY <1>3 DEF Hrss!KeyPair
<1>12. /\ kp.f = f /\ kp.finv = Hrss!S3Inv(f) /\ kp.h = Hrss!ToBytes(Hrss!RqMul(Hrss!RqMul(i, G), G))
       /\ kp.hinv = Hrss!ToBytes(Hrss!SqMul(Hrss!RqMul(i, F), F))
  BY <1>11
<1>13. kp.h = PublicHalf(NtruN, Hrss!Q, i, G) /\ kp.hinv = SecretHalf(NtruN, Hrss!Q, i, F)
  BY <1>1, <1>12, HrssMore DEF Hrss!ToBytes, PublicHalf, SecretHalf
<1>14. Integral(NtruN, kp.finv)
  <2>1. \A k \in Places(NtruN) : kp.finv[k] \in 0 .. 2
    BY <1>1, <1>4, <1>12
  <2>2. QED
    BY <2>1 DEF Integral
<1>15. PhiTimes(NtruN, 3, f, kp.finv) = Unit(NtruN)
  BY <1>4, <1>12, HrssMore, HrssOperators
<1>16. QED
  BY <1>5, <1>10, <1>12, <1>13, <1>14, <1>15

LEMMA HrssHalves ==
  ASSUME "HRSS" \in Schemes, NEW f \in Hrss!Ternary, NEW g \in Hrss!Ternary, Hrss!InversionsReturn(f, g)
  PROVE  Hrss!HalvesInvert(Hrss!KeyPair(f, g))
<1>1. PICK F, G, kp : F = TritsIn(NtruN, Hrss!Q, f) /\ G = Hrss!Spread(Hrss!Z3ToZq(g)) /\ kp = Hrss!KeyPair(f, g)
  OBVIOUS
<1>2. PICK i : i = Hrss!RqInv(Hrss!RqMul(G, F))
  OBVIOUS
<1>3. /\ \E u \in Int : NtruKey(NtruN, Hrss!Q, u, F, G, i)
      /\ kp.h = PublicHalf(NtruN, Hrss!Q, i, G) /\ kp.hinv = SecretHalf(NtruN, Hrss!Q, i, F)
  BY <1>1, <1>2, HrssKeyPair
<1>4. PICK u \in Int : NtruKey(NtruN, Hrss!Q, u, F, G, i)
  BY <1>3
<1>5. PICK h, e : h = kp.h /\ e = kp.hinv
  OBVIOUS
<1>6. PICK hh, ee : hh = Closed(NtruN, Hrss!Q, h) /\ ee = Padding(NtruN, e)
  OBVIOUS
<1>7. HalvesMeet(NtruN, Hrss!Q, F, G, h, e, hh, ee)
  BY <1>3, <1>4, <1>5, <1>6, NtruHalves
<1>8. PhiTimes(NtruN, Hrss!Q, hh, ee) = Unit(NtruN)
  BY <1>4, <1>7, HalvesUnit
<1>9. h \in [0 .. NtruN - 2 -> 0 .. Hrss!Q - 1] /\ e \in [0 .. NtruN - 2 -> 0 .. Hrss!Q - 1]
  BY <1>7 DEF HalvesMeet
<1>10. Hrss!SumZero(h) = hh /\ Hrss!Padded(e) = ee /\ Hrss!One = Unit(NtruN)
  BY <1>6, <1>9, HrssOperators
<1>11. Hrss!SqMul(hh, ee) = Unit(NtruN) /\ Hrss!Packed = 0 .. NtruN - 2
  BY <1>8, HrssMore, HrssFacts
<1>12. QED
  BY <1>1, <1>5, <1>9, <1>10, <1>11 DEF Hrss!HalvesInvert

-----------------------------------------------------------------------------
\* A message over the integers and as it is sent: its quotient times x - 1.
LEMMA HrssLifted ==
  ASSUME "HRSS" \in Schemes, NEW m \in Hrss!Ternary, NEW lift, lift = Hrss!Lift(m),
         NEW Ls, Ls = Hrss!SignedLift(m), NEW t \in Nat, t = 3
  PROVE  /\ m \in [Places(NtruN) -> 0 .. 2] /\ m[NtruN - 1] = 0
         /\ Integral(NtruN, lift) /\ Cong(Hrss!Q, Total(NtruN, lift), 0)
         /\ Integral(NtruN, Ls) /\ Same(NtruN, Hrss!Q, Ls, lift) /\ Alike(NtruN, t, Ls, m)
<1>1. /\ NtruN \in Nat /\ NtruN > 2 /\ NtruN > 0 /\ Hrss!Q \in Nat /\ Hrss!Q > 3 /\ Hrss!Q > 0
      /\ Hrss!Exps = Places(NtruN)
  BY HrssFacts
<1>2. /\ m \in [Places(NtruN) -> 0 .. 2] /\ Integral(NtruN, lift) /\ Cong(Hrss!Q, Total(NtruN, lift), 0)
  BY HrssLift
<1>3. m[NtruN - 1] = 0
  BY DEF Hrss!Ternary
<1>4. PICK n, q : n = NtruN /\ q = Hrss!Q
  OBVIOUS
<1>5. PICK c : c = Hrss!Quotient(m)
  OBVIOUS
<1>6. PICK b, s : b = TritsIn(n, q, c) /\ s = SignedOf(n, c)
  OBVIOUS
<1>7. Trits(n, c)
  BY <1>2, <1>4, <1>5, HrssQuotient DEF Trits
<1>8. Integral(n, s) /\ Integral(n, c) /\ Integral(n, b) /\ Same(n, q, s, b) /\ Same(n, t, s, c)
  BY <1>1, <1>4, <1>6, <1>7, SignedSame
<1>9. PICK x, w, z : x = Step(n, b) /\ w = Step(n, s) /\ z = Step(n, c)
  OBVIOUS
<1>10. lift = Rest(n, q, x)
  <2>1. Hrss!Z3ToZq(c) = b
    BY <1>4, <1>6, HrssOperators
  <2>2. lift = [k \in Places(n) |-> ((IF k = 0 THEN 0 ELSE b[k - 1]) - b[k]) % q]
    BY <1>1, <1>4, <1>5, <2>1 DEF Hrss!Lift, Hrss!LiftHrss
  <2>3. QED
    BY <1>9, <2>2 DEF Rest, Step
<1>11. Ls = w
  <2>1. Hrss!Signed(c) = s
    BY <1>4, <1>6, HrssMore
  <2>2. Ls = [k \in Places(n) |-> (IF k = 0 THEN 0 ELSE s[k - 1]) - s[k]]
    BY <1>1, <1>4, <1>5, <2>1 DEF Hrss!SignedLift
  <2>3. QED
    BY <1>9, <2>2 DEF Step
<1>12. Integral(n, w) /\ Same(n, q, w, x) /\ Same(n, t, w, z)
  BY <1>1, <1>4, <1>8, <1>9, StepSame
<1>13. Integral(n, x) /\ Integral(n, z)
  <2>1. (\A k \in Places(n) : Cong(q, b[k], b[k]) /\ Cong(q, c[k], c[k]))
    BY <1>1, <1>4, <1>8, CongRefl DEF Integral
  <2>2. Same(n, q, b, b) /\ Same(n, q, c, c)
    BY <2>1 DEF Same
  <2>3. QED
    BY <1>1, <1>4, <1>8, <1>9, <2>2, StepSame
<1>14. Integral(n, lift) /\ Same(n, q, lift, x)
  BY <1>1, <1>4, <1>10, <1>13, RestSame
<1>15. Same(n, q, x, lift)
  BY <1>1, <1>4, <1>13, <1>14, SameSym
<1>16. Same(n, q, w, lift)
  BY <1>1, <1>4, <1>12, <1>13, <1>14, <1>15, SameTrans
<1>17. Integral(n, m)
  BY <1>2, <1>4 DEF Integral
<1>18. Alike(n, t, z, m)
  BY <1>2, <1>4, <1>5, <1>9, HrssDivides
<1>19. Alike(n, t, w, z)
  BY <1>1, <1>4, <1>12, <1>13, SameAlike
<1>20. Alike(n, t, w, m)
  BY <1>1, <1>4, <1>12, <1>13, <1>17, <1>18, <1>19, AlikeTrans
<1>21. QED
  BY <1>2, <1>3, <1>4, <1>11, <1>12, <1>16, <1>20

LEMMA HrssReturns ==
  ASSUME "HRSS" \in Schemes, NEW f \in Hrss!Ternary, NEW g \in Hrss!Ternary, Hrss!InversionsReturn(f, g),
         NEW y \in Hrss!Pairs, Hrss!NoiseFits(f, g, y), NEW kp, kp = Hrss!KeyPair(f, g)
  PROVE  Hrss!Decrypt(kp, Hrss!Encrypt(kp, y)) = [ok |-> TRUE, x |-> y]
<1>1. /\ NtruN \in Nat /\ NtruN > 2 /\ Hrss!Q \in Nat /\ Hrss!Q > 3 /\ Hrss!Exps = Places(NtruN)
      /\ Hrss!Packed = 0 .. NtruN - 2
  BY HrssFacts
<1>a. PICK t \in Nat : t = 3
  OBVIOUS
<1>b. PICK n, q : n = NtruN /\ q = Hrss!Q
  OBVIOUS
<1>2. n = NtruN /\ q = Hrss!Q /\ t = 3
  BY <1>a, <1>b
<1>3. PICK r, m : r = y.r /\ m = y.m
  OBVIOUS
<1>4. r \in Hrss!Ternary /\ m \in Hrss!Ternary /\ y = [r |-> r, m |-> m]
  BY <1>3 DEF Hrss!Pairs
<1>5. PICK F, G, Gs : F = TritsIn(n, q, f) /\ G = Hrss!Spread(Hrss!Z3ToZq(g)) /\ Gs = Hrss!Spread(Hrss!Signed(g))
  OBVIOUS
<1>6. PICK i : i = Hrss!RqInv(Hrss!RqMul(G, F))
  OBVIOUS
<1>7. PICK h, e, finv : h = kp.h /\ e = kp.hinv /\ finv = kp.finv
  OBVIOUS
<1>8. /\ \E u \in Int : NtruKey(n, q, u, F, G, i)
      /\ kp.f = f /\ h = PublicHalf(n, q, i, G) /\ e = SecretHalf(n, q, i, F)
      /\ f \in [Places(n) -> 0 .. 2] /\ Integral(n, finv) /\ PhiTimes(n, 3, f, finv) = Unit(n)
  BY <1>2, <1>5, <1>6, <1>7, HrssKeyPair
<1>9. PICK u \in Int : NtruKey(n, q, u, F, G, i)
  BY <1>8
<1>10. Integral(n, Gs) /\ Same(n, q, Gs, G) /\ Same(n, t, Gs, Zeros(n))
  BY <1>2, <1>5, HrssSpread
<1>11. PICK lift, Ls : lift = Hrss!Lift(m) /\ Ls = Hrss!SignedLift(m)
  OBVIOUS
<1>12. /\ m \in [Places(n) -> 0 .. 2] /\ m[n - 1] = 0
       /\ Integral(n, lift) /\ Cong(q, Total(n, lift), 0)
       /\ Integral(n, Ls) /\ Same(n, q, Ls, lift) /\ Alike(n, t, Ls, m)
  BY <1>2, <1>4, <1>11, HrssLifted
<1>13. r \in [Places(n) -> 0 .. 2] /\ r[n - 1] = 0
  BY <1>1, <1>2, <1>4 DEF Hrss!Ternary
<1>14. Small(n, q, Plus(n, Conv(n, SignedOf(n, r), Gs), Conv(n, Ls, SignedOf(n, f))))
  <2>1. PICK rg, mf : rg = Conv(n, SignedOf(n, r), Gs) /\ mf = Conv(n, Ls, SignedOf(n, f))
    OBVIOUS
  <2>2. rg = Hrss!Circulant(Hrss!Signed(y.r), Gs) /\ mf = Hrss!Circulant(Hrss!SignedLift(y.m), Hrss!Signed(f))
    BY <1>2, <1>3, <1>11, <2>1, HrssOperators, HrssMore
  <2>3. \A k \in Places(n) : -q <= 2 * (rg[k] + mf[k]) /\ 2 * (rg[k] + mf[k]) < q
    BY <1>1, <1>2, <1>5, <2>2 DEF Hrss!NoiseFits
  <2>4. QED
    BY <2>1, <2>3 DEF Small, Plus
<1>15. NtruTrits(n, q, u, t, f, G, Gs, i, finv, r, m, lift, Ls)
  BY <1>2, <1>5, <1>8, <1>9, <1>10, <1>12, <1>13, <1>14 DEF NtruTrits
<1>16. PICK hh, ee, P : hh = Closed(n, q, h) /\ ee = Padding(n, e) /\ P = TritsIn(n, q, r)
  OBVIOUS
<1>17. PICK core : core = [k \in 0 .. n - 2 |-> (RestTimes(n, q, P, hh)[k] + lift[k]) % q]
  OBVIOUS
<1>18. PICK v : v = Closed(n, q, core)
  OBVIOUS
<1>19. /\ h \in [0 .. n - 2 -> 0 .. q - 1] /\ e \in [0 .. n - 2 -> 0 .. q - 1]
       /\ core \in [0 .. n - 2 -> 0 .. q - 1]
       /\ PhiTimes(n, t, PhiMod(n, t, Centred(n, q, RestTimes(n, q, v, F))), finv) = m
       /\ PhiTimes(n, q, Minus(n, v, lift), ee) = P
       /\ P[n - 1] = 0 /\ (\A k \in 0 .. n - 2 : P[k] \in {0, 1, q - 1}) /\ TritsOut(n, q, P) = r
  <2>1. NtruSends(n, q, f, G, i, r, lift, F, h, e, hh, ee, P, core, v)
    BY <1>5, <1>8, <1>16, <1>17, <1>18 DEF NtruSends
  <2>2. QED
    BY <1>15, <2>1, TritsReturn
<1>20. Hrss!Encrypt(kp, y) = [core |-> core, pad |-> 0]
  <2>1. Hrss!Z3ToZq(y.r) = P /\ Hrss!SumZero(kp.h) = hh
    BY <1>2, <1>3, <1>7, <1>16, <1>19, HrssOperators
  <2>2. PICK prod : prod = RestTimes(n, q, P, hh)
    OBVIOUS
  <2>3. Hrss!RqMul(Hrss!Z3ToZq(y.r), Hrss!SumZero(kp.h)) = prod
    BY <1>2, <2>1, <2>2, HrssMore
  <2>4. Hrss!Encrypt(kp, y) = [core |-> Hrss!ToBytes([k \in Hrss!Exps |-> prod[k] + lift[k]]), pad |-> 0]
    BY <1>3, <1>11, <2>3 DEF Hrss!Encrypt
  <2>5. Hrss!ToBytes([k \in Hrss!Exps |-> prod[k] + lift[k]]) = [k \in 0 .. n - 2 |-> (prod[k] + lift[k]) % q]
    <3>1. \A k \in 0 .. n - 2 : k \in Places(n)
      BY <1>1, <1>2 DEF Places
    <3>2. QED
      BY <1>1, <1>2, <3>1 DEF Hrss!ToBytes
  <2>6. QED
    BY <1>17, <2>2, <2>4, <2>5
<1>21. PICK c : c = Hrss!Encrypt(kp, y)
  OBVIOUS
<1>22. c.core = core /\ c.pad = 0
  BY <1>20, <1>21
<1>23. Hrss!SumZero(c.core) = v
  BY <1>2, <1>18, <1>19, <1>22, HrssOperators
<1>24. Hrss!S3Mul(Hrss!RqToS3(Hrss!RqMul(v, Hrss!Z3ToZq(kp.f))), kp.finv) = m
  <2>1. Hrss!Z3ToZq(kp.f) = F
    BY <1>2, <1>5, <1>8, HrssOperators
  <2>2. Hrss!RqMul(v, F) = RestTimes(n, q, v, F)
    BY <1>2, HrssMore
  <2>3. Hrss!RqToS3(RestTimes(n, q, v, F)) = PhiMod(n, 3, Centred(n, q, RestTimes(n, q, v, F)))
    BY <1>2, HrssMore
  <2>4. Hrss!S3Mul(PhiMod(n, 3, Centred(n, q, RestTimes(n, q, v, F))), finv)
          = PhiTimes(n, 3, PhiMod(n, 3, Centred(n, q, RestTimes(n, q, v, F))), finv)
    BY <1>2, HrssMore
  <2>5. QED
    BY <1>2, <1>7, <1>19, <2>1, <2>2, <2>3, <2>4
<1>25. Hrss!SqMul([k \in Hrss!Exps |-> v[k] - lift[k]], Hrss!Padded(kp.hinv)) = P
  <2>1. [k \in Hrss!Exps |-> v[k] - lift[k]] = Minus(n, v, lift)
    BY <1>1, <1>2 DEF Minus
  <2>2. Hrss!Padded(kp.hinv) = ee
    BY <1>2, <1>7, <1>16, HrssOperators
  <2>3. QED
    BY <1>2, <1>19, <2>1, <2>2, HrssMore
<1>26. Hrss!CheckCiphertext(c) /\ Hrss!CheckM(m)
  BY <1>4, <1>22 DEF Hrss!CheckCiphertext, Hrss!CheckM
<1>27. Hrss!CheckR(P)
  BY <1>1, <1>2, <1>19 DEF Hrss!CheckR
<1>28. Hrss!ZqToZ3(P) = r
  BY <1>2, <1>19, HrssOperators
<1>29. Hrss!Decrypt(kp, c) = [ok |-> Hrss!CheckCiphertext(c) /\ Hrss!CheckM(m) /\ Hrss!CheckR(P),
                             x |-> [r |-> Hrss!ZqToZ3(P), m |-> m]]
  BY <1>11, <1>23, <1>24, <1>25 DEF Hrss!Decrypt
<1>30. Hrss!Decrypt(kp, c) = [ok |-> TRUE, x |-> [r |-> r, m |-> m]]
  BY <1>26, <1>27, <1>28, <1>29
<1>31. QED
  BY <1>4, <1>21, <1>30

-----------------------------------------------------------------------------
(***************************************************************************)
(* The inductive invariant: the keys are generated, an encapsulation and a *)
(* decapsulation in the record are what the scheme computes, and what was  *)
(* decapsulated under NTRU has the shape of a ciphertext.                  *)
(***************************************************************************)
Generated == scheme \in Schemes /\ \E x \in Material[scheme] : keys = [k \in Keys |-> KeyPair(scheme, x[k])]
SessionsComputed ==
  \A e \in sessions : \E k \in Keys, y \in Inputs[scheme] :
    e.key = k /\ e.c = Encapsulated(k, y).c /\ e.ss = Encapsulated(k, y).ss
ResultsComputed ==
  \A d \in results : d.dk \in DecapsulationKeys /\ d.ss = Decapsulated(d.dk, d.c)
ResultsShaped ==
  /\ scheme = "HPS" => \A d \in results : NtruShaped(NtruN, Hps!Q, d.c)
  /\ scheme = "HRSS" => \A d \in results : NtruShaped(NtruN, Hrss!Q, d.c)
BindInv == Generated /\ SessionsComputed /\ ResultsComputed /\ ResultsShaped

LEMMA HpsKeys ==
  ASSUME KeysInvert, Generated, scheme = "HPS", NEW k \in Keys
  PROVE  "HPS" \in Schemes /\ Hps!HalvesInvert(keys[k]) /\ Inputs[scheme] \subseteq Hps!Pairs
<1>1. "HPS" \in Schemes
  BY DEF Generated
<1>2. PICK x \in Material["HPS"] : keys = [j \in Keys |-> KeyPair("HPS", x[j])]
  BY DEF Generated
<1>3. keys[k] = Hps!KeyPair(x[k].f, x[k].g)
  BY <1>2 DEF KeyPair
<1>4. x[k].f \in Hps!Ternary /\ x[k].g \in Hps!FixedType
  BY <1>1, HpsAssumption
<1>5. Hps!InversionsReturn(x[k].f, x[k].g)
  BY <1>1 DEF KeysInvert
<1>6. Hps!HalvesInvert(keys[k])
  BY <1>1, <1>3, <1>4, <1>5, HpsHalves
<1>7. QED
  BY <1>1, <1>6, HpsAssumption

LEMMA HrssKeys ==
  ASSUME KeysInvert, Generated, scheme = "HRSS", NEW k \in Keys
  PROVE  "HRSS" \in Schemes /\ Hrss!HalvesInvert(keys[k]) /\ Inputs[scheme] \subseteq Hrss!Pairs
<1>1. "HRSS" \in Schemes
  BY DEF Generated
<1>2. PICK x \in Material["HRSS"] : keys = [j \in Keys |-> KeyPair("HRSS", x[j])]
  BY DEF Generated
<1>3. keys[k] = Hrss!KeyPair(x[k].f, x[k].g)
  BY <1>2 DEF KeyPair
<1>4. x[k].f \in Hrss!Ternary /\ x[k].g \in Hrss!Ternary
  BY <1>1, HrssAssumption
<1>5. Hrss!InversionsReturn(x[k].f, x[k].g)
  BY <1>1 DEF KeysInvert
<1>6. Hrss!HalvesInvert(keys[k])
  BY <1>1, <1>3, <1>4, <1>5, HrssHalves
<1>7. QED
  BY <1>1, <1>6, HrssAssumption

LEMMA BindInit == Init => BindInv
<1>1. SUFFICES ASSUME Init PROVE BindInv
  OBVIOUS
<1>2. Generated
  BY <1>1 DEF Init, Generated
<1>3. sessions = {} /\ results = {}
  BY <1>1 DEF Init
<1>4. SessionsComputed /\ ResultsComputed /\ ResultsShaped
  BY <1>3 DEF SessionsComputed, ResultsComputed, ResultsShaped
<1>5. QED
  BY <1>2, <1>4 DEF BindInv

LEMMA BindNext == ASSUME KeysInvert PROVE BindInv /\ [Next]_vars => BindInv'
<1>1. SUFFICES ASSUME BindInv, [Next]_vars PROVE BindInv'
  OBVIOUS
<1>2. scheme' = scheme /\ keys' = keys /\ coins' = coins
  BY <1>1 DEF Next, Encapsulate, Decapsulate, vars
<1>3. Generated'
  BY <1>1, <1>2 DEF BindInv, Generated
<1>4. \A k, y : Encapsulated(k, y)' = Encapsulated(k, y)
  BY <1>2 DEF Encapsulated
<1>5. \A dk, c : Decapsulated(dk, c)' = Decapsulated(dk, c)
  BY <1>2 DEF Decapsulated
<1>6. DecapsulationKeys' = DecapsulationKeys
  BY <1>2 DEF DecapsulationKeys, Imported
<1>7. CASE UNCHANGED vars
  <2>1. sessions' = sessions /\ results' = results
    BY <1>7 DEF vars
  <2>2. SessionsComputed'
    BY <1>1, <1>2, <1>4, <2>1 DEF BindInv, SessionsComputed
  <2>3. ResultsComputed'
    BY <1>1, <1>5, <1>6, <2>1 DEF BindInv, ResultsComputed
  <2>4. ResultsShaped'
    BY <1>1, <1>2, <2>1 DEF BindInv, ResultsShaped
  <2>5. QED
    BY <1>3, <2>2, <2>3, <2>4 DEF BindInv
<1>8. ASSUME NEW k \in Keys, NEW x \in Inputs[scheme], Encapsulate(k, x) PROVE BindInv'
  <2>1. results' = results /\ sessions' = {[key |-> k, c |-> Encapsulated(k, x).c, ss |-> Encapsulated(k, x).ss]}
    BY <1>8 DEF Encapsulate
  <2>2. SessionsComputed'
    <3>1. SUFFICES ASSUME NEW e \in sessions'
                   PROVE  \E j \in Keys, y \in Inputs[scheme] :
                            e.key = j /\ e.c = Encapsulated(j, y)'.c /\ e.ss = Encapsulated(j, y)'.ss
      BY <1>2 DEF SessionsComputed
    <3>2. e.key = k /\ e.c = Encapsulated(k, x).c /\ e.ss = Encapsulated(k, x).ss
      BY <2>1
    <3>3. QED
      BY <1>4, <1>8, <3>2
  <2>3. ResultsComputed'
    BY <1>1, <1>5, <1>6, <2>1 DEF BindInv, ResultsComputed
  <2>4. ResultsShaped'
    BY <1>1, <1>2, <2>1 DEF BindInv, ResultsShaped
  <2>5. QED
    BY <1>3, <2>2, <2>3, <2>4 DEF BindInv
<1>9. ASSUME NEW dk \in DecapsulationKeys, NEW e \in sessions, NEW c, c = e.c \/ c \in Altered(e.c),
             Decapsulate(dk, c)
      PROVE  BindInv'
  <2>1. sessions' = sessions /\ results' = {[dk |-> dk, c |-> c, ss |-> Decapsulated(dk, c)]}
    BY <1>9 DEF Decapsulate
  <2>2. SessionsComputed'
    BY <1>1, <1>2, <1>4, <2>1 DEF BindInv, SessionsComputed
  <2>3. ResultsComputed'
    <3>1. SUFFICES ASSUME NEW d \in results'
                   PROVE  d.dk \in DecapsulationKeys /\ d.ss = Decapsulated(d.dk, d.c)
      BY <1>5, <1>6 DEF ResultsComputed
    <3>2. d.dk = dk /\ d.c = c /\ d.ss = Decapsulated(dk, c)
      BY <2>1
    <3>3. QED
      BY <1>9, <3>2
  <2>4. PICK k \in Keys, y \in Inputs[scheme] : e.c = Encapsulated(k, y).c
    BY <1>1, <1>9 DEF BindInv, SessionsComputed
  <2>5. \A d \in results' : d.c = c
    BY <2>1
  <2>6. ASSUME scheme = "HPS" PROVE NtruShaped(NtruN, Hps!Q, c)
    <3>1. "HPS" \in Schemes /\ Hps!HalvesInvert(keys[k]) /\ y \in Hps!Pairs
      BY <1>1, <2>4, <2>6, HpsKeys DEF BindInv
    <3>2. Hps!Q \in Nat /\ Hps!Q > 0
      BY <3>1, HpsFacts
    <3>3. Encapsulated(k, y) = Hps!Encapsulate(keys[k], y)
      BY <2>6 DEF Encapsulated
    <3>4. NtruShaped(NtruN, Hps!Q, e.c)
      BY <2>4, <3>1, <3>3, HpsSent
    <3>5. CASE c \in Altered(e.c)
      <4>1. \/ \E a \in Off(e.c.core, Hps!Q, {1, -1}) : c = [e.c EXCEPT !.core = a]
            \/ \E p \in 1 .. 2^Hps!PadBits - 1 : c = [e.c EXCEPT !.pad = p]
        BY <2>6, <3>5 DEF Altered
      <4>2. CASE \E a \in Off(e.c.core, Hps!Q, {1, -1}) : c = [e.c EXCEPT !.core = a]
        <5>1. PICK q, b, p : q = Hps!Q /\ b = e.c /\ p = 0
          OBVIOUS
        <5>2. q \in Nat /\ q > 0 /\ NtruShaped(NtruN, q, b)
          BY <3>2, <3>4, <5>1
        <5>3. PICK a \in Off(b.core, q, {1, -1}) : c = [b EXCEPT !.core = a]
          BY <4>2, <5>1
        <5>4. NtruShaped(NtruN, q, [b EXCEPT !.core = a])
          BY <5>2, NtruAltered
        <5>5. QED
          BY <5>1, <5>3, <5>4
      <4>3. CASE \E p \in 1 .. 2^Hps!PadBits - 1 : c = [e.c EXCEPT !.pad = p]
        BY <3>4, <4>3 DEF NtruShaped
      <4>4. QED
        BY <4>1, <4>2, <4>3
    <3>6. QED
      BY <1>9, <3>4, <3>5
  <2>7. ASSUME scheme = "HRSS" PROVE NtruShaped(NtruN, Hrss!Q, c)
    <3>1. "HRSS" \in Schemes /\ Hrss!HalvesInvert(keys[k]) /\ y \in Hrss!Pairs
      BY <1>1, <2>4, <2>7, HrssKeys DEF BindInv
    <3>2. Hrss!Q \in Nat /\ Hrss!Q > 0
      BY <3>1, HrssFacts
    <3>3. Encapsulated(k, y) = Hrss!Encapsulate(keys[k], y)
      BY <2>7 DEF Encapsulated
    <3>4. NtruShaped(NtruN, Hrss!Q, e.c)
      BY <2>4, <3>1, <3>3, HrssSent
    <3>5. CASE c \in Altered(e.c)
      <4>1. \/ \E a \in Off(e.c.core, Hrss!Q, {1, -1}) : c = [e.c EXCEPT !.core = a]
            \/ \E p \in 1 .. 2^Hrss!PadBits - 1 : c = [e.c EXCEPT !.pad = p]
        BY <2>7, <3>5 DEF Altered
      <4>2. CASE \E a \in Off(e.c.core, Hrss!Q, {1, -1}) : c = [e.c EXCEPT !.core = a]
        <5>1. PICK q, b, p : q = Hrss!Q /\ b = e.c /\ p = 0
          OBVIOUS
        <5>2. q \in Nat /\ q > 0 /\ NtruShaped(NtruN, q, b)
          BY <3>2, <3>4, <5>1
        <5>3. PICK a \in Off(b.core, q, {1, -1}) : c = [b EXCEPT !.core = a]
          BY <4>2, <5>1
        <5>4. NtruShaped(NtruN, q, [b EXCEPT !.core = a])
          BY <5>2, NtruAltered
        <5>5. QED
          BY <5>1, <5>3, <5>4
      <4>3. CASE \E p \in 1 .. 2^Hrss!PadBits - 1 : c = [e.c EXCEPT !.pad = p]
        BY <3>4, <4>3 DEF NtruShaped
      <4>4. QED
        BY <4>1, <4>2, <4>3
    <3>6. QED
      BY <1>9, <3>4, <3>5
  <2>8. ResultsShaped'
    BY <1>2, <2>5, <2>6, <2>7 DEF ResultsShaped
  <2>9. QED
    BY <1>3, <2>2, <2>3, <2>8 DEF BindInv
<1>10. CASE Next
  <2>1. CASE \E k \in Keys, x \in Inputs[scheme] : Encapsulate(k, x)
    BY <1>8, <2>1
  <2>2. CASE \E dk \in DecapsulationKeys, e \in sessions :
               \/ Decapsulate(dk, e.c)
               \/ \E c \in Altered(e.c) : Decapsulate(dk, c)
    BY <1>9, <2>2
  <2>3. QED
    BY <1>10, <2>1, <2>2 DEF Next
<1>11. QED
  BY <1>1, <1>7, <1>10

LEMMA BindHolds == ASSUME KeysInvert PROVE BindInv => SecretsBindCiphertexts
<1>1. SUFFICES ASSUME BindInv, NEW e \in sessions, NEW d \in results, d.ss = e.ss
               PROVE  IF scheme \in {"HPS", "HRSS"}
                      THEN d.dk.s = e.key => d.c = e.c
                      ELSE /\ d.c = e.c /\ d.dk.h = e.key
                           /\ scheme = "ML-KEM" => d.dk.ek = e.key
  BY DEF SecretsBindCiphertexts
<1>2. PICK k \in Keys, y \in Inputs[scheme] : e.key = k /\ e.c = Encapsulated(k, y).c /\ e.ss = Encapsulated(k, y).ss
  BY <1>1 DEF BindInv, SessionsComputed
<1>3. /\ d.dk \in [s : Keys, ek : Keys, h : Keys, z : Keys] /\ Imported(d.dk)
      /\ Decapsulated(d.dk, d.c) = Encapsulated(k, y).ss
  BY <1>1, <1>2 DEF BindInv, ResultsComputed, DecapsulationKeys
<1>4. scheme \in {"ML-KEM", "Frodo", "HPS", "HRSS", "Prime"}
  BY <1>1, SchemesAssumption DEF BindInv, Generated
<1>5. CASE scheme = "ML-KEM"
  <2>1. d.dk.ek = d.dk.h
    BY <1>3, <1>5 DEF Imported
  <2>2. Decapsulated(d.dk, d.c) = Ml!Decapsulate(keys[d.dk.s], keys[d.dk.h], d.dk.h, d.dk.z, d.c, coins)
    BY <1>5, <2>1, Zenon DEF Decapsulated
  <2>3. Encapsulated(k, y) = Ml!Encapsulate(keys[k], k, y, coins[y, k])
    BY <1>5, Zenon DEF Encapsulated
  <2>4. d.dk.h = k /\ d.c = Ml!Encapsulate(keys[k], k, y, coins[y, k]).c
    <3>1. Ml!Decapsulate(keys[d.dk.s], keys[d.dk.h], d.dk.h, d.dk.z, d.c, coins)
            = Ml!Encapsulate(keys[k], k, y, coins[y, k]).ss
      BY <1>3, <2>2, <2>3, Zenon
    <3>2. PICK sk, ks, h, z, c, cs, r : /\ sk = keys[d.dk.s] /\ ks = keys /\ h = d.dk.h
                                        /\ z = d.dk.z /\ c = d.c /\ cs = coins /\ r = coins[y, k]
      BY Zenon
    <3>3. Ml!Decapsulate(sk, ks[h], h, z, c, cs) = Ml!Encapsulate(ks[k], k, y, r).ss /\ r = cs[y, k]
      BY <3>1, <3>2, Zenon
    <3>4. h = k /\ c = Ml!Encapsulate(ks[k], k, y, r).c
      <4>1. MlAgrees(sk, ks, h, z, c, cs, k, y, r)
        BY <3>3, Zenon DEF MlAgrees
      <4>2. QED
        BY <4>1, MlBinds, Zenon
    <3>5. QED
      BY <3>2, <3>4, Zenon
  <2>5. QED
    BY <1>2, <1>5, <2>1, <2>3, <2>4, Zenon
<1>6. CASE scheme = "Frodo"
  <2>2. Decapsulated(d.dk, d.c) = Fro!Decapsulate(keys[d.dk.s], keys[d.dk.ek], d.dk.h, d.dk.z, d.c, coins)
    BY <1>6, Zenon DEF Decapsulated
  <2>3. Encapsulated(k, y) = Fro!Encapsulate(keys[k], k, y, coins[y, k])
    BY <1>6, Zenon DEF Encapsulated
  <2>4. d.dk.h = k /\ d.c = Fro!Encapsulate(keys[k], k, y, coins[y, k]).c
    <3>1. Fro!Decapsulate(keys[d.dk.s], keys[d.dk.ek], d.dk.h, d.dk.z, d.c, coins)
            = Fro!Encapsulate(keys[k], k, y, coins[y, k]).ss
      BY <1>3, <2>2, <2>3, Zenon
    <3>2. PICK sk, ek, h, s, c, cs, kp, r : /\ sk = keys[d.dk.s] /\ ek = keys[d.dk.ek] /\ h = d.dk.h
                                            /\ s = d.dk.z /\ c = d.c /\ cs = coins /\ kp = keys[k]
                                            /\ r = coins[y, k]
      BY Zenon
    <3>3. Fro!Decapsulate(sk, ek, h, s, c, cs) = Fro!Encapsulate(kp, k, y, r).ss
      BY <3>1, <3>2, Zenon
    <3>4. h = k /\ c = Fro!Encapsulate(kp, k, y, r).c
      BY <3>3, FrodoBinds
    <3>5. QED
      BY <3>2, <3>4, Zenon
  <2>5. QED
    BY <1>2, <1>6, <2>3, <2>4, Zenon
<1>7. CASE scheme = "HPS"
  <2>1. "HPS" \in Schemes /\ Hps!HalvesInvert(keys[k]) /\ y \in Hps!Pairs
    BY <1>1, <1>2, <1>7, HpsKeys DEF BindInv
  <2>2. NtruShaped(NtruN, Hps!Q, d.c)
    BY <1>1, <1>7 DEF BindInv, ResultsShaped
  <2>3. Decapsulated(d.dk, d.c) = Hps!Decapsulate(keys[d.dk.s], d.dk.z, d.c)
    BY <1>7, Zenon DEF Decapsulated
  <2>4. Encapsulated(k, y) = Hps!Encapsulate(keys[k], y)
    BY <1>7, Zenon DEF Encapsulated
  <2>5. d.dk.s = k => d.c = Hps!Encapsulate(keys[k], y).c
    BY <1>3, <2>1, <2>2, <2>3, <2>4, HpsBinds, Zenon
  <2>6. QED
    BY <1>2, <1>7, <2>4, <2>5
<1>8. CASE scheme = "HRSS"
  <2>1. "HRSS" \in Schemes /\ Hrss!HalvesInvert(keys[k]) /\ y \in Hrss!Pairs
    BY <1>1, <1>2, <1>8, HrssKeys DEF BindInv
  <2>2. NtruShaped(NtruN, Hrss!Q, d.c)
    BY <1>1, <1>8 DEF BindInv, ResultsShaped
  <2>3. Decapsulated(d.dk, d.c) = Hrss!Decapsulate(keys[d.dk.s], d.dk.z, d.c)
    BY <1>8, Zenon DEF Decapsulated
  <2>4. Encapsulated(k, y) = Hrss!Encapsulate(keys[k], y)
    BY <1>8, Zenon DEF Encapsulated
  <2>5. d.dk.s = k => d.c = Hrss!Encapsulate(keys[k], y).c
    BY <1>3, <2>1, <2>2, <2>3, <2>4, HrssBinds, Zenon
  <2>6. QED
    BY <1>2, <1>8, <2>4, <2>5
<1>9. CASE scheme = "Prime"
  <2>2. Decapsulated(d.dk, d.c) = Prime!Decapsulate(keys[d.dk.s], keys[d.dk.ek], d.dk.h, d.dk.z, d.c)
    BY <1>9, Zenon DEF Decapsulated
  <2>3. Encapsulated(k, y) = Prime!Encapsulate(keys[k], k, y)
    BY <1>9, Zenon DEF Encapsulated
  <2>4. d.dk.h = k /\ d.c = Prime!Encapsulate(keys[k], k, y).c
    <3>1. Prime!Decapsulate(keys[d.dk.s], keys[d.dk.ek], d.dk.h, d.dk.z, d.c)
            = Prime!Encapsulate(keys[k], k, y).ss
      BY <1>3, <2>2, <2>3, Zenon
    <3>2. PICK sk, ek, h, rho, c, kp : /\ sk = keys[d.dk.s] /\ ek = keys[d.dk.ek] /\ h = d.dk.h
                                       /\ rho = d.dk.z /\ c = d.c /\ kp = keys[k]
      OBVIOUS
    <3>3. Prime!Decapsulate(sk, ek, h, rho, c) = Prime!Encapsulate(kp, k, y).ss
      BY <3>1, <3>2
    <3>4. h = k /\ c = Prime!Encapsulate(kp, k, y).c
      BY <3>3, PrimeBinds
    <3>5. QED
      BY <3>2, <3>4
  <2>5. QED
    BY <1>2, <1>9, <2>3, <2>4
<1>10. QED
  BY <1>4, <1>5, <1>6, <1>7, <1>8, <1>9

\* The secret of an encapsulation comes out of no other ciphertext, for every
\* modulus, length and width, every noise and every material whose halves
\* invert each other: what each decapsulation compares, hashes or decodes
\* names the ciphertext.
THEOREM SecretsBind == ASSUME KeysInvert PROVE Spec => []SecretsBindCiphertexts
<1>1. Init => BindInv
  BY BindInit
<1>2. BindInv /\ [Next]_vars => BindInv'
  BY BindNext
<1>3. BindInv => SecretsBindCiphertexts
  BY BindHolds
<1>4. QED
  BY <1>1, <1>2, <1>3, PTL DEF Spec

-----------------------------------------------------------------------------
(***************************************************************************)
(* NTRU Prime.  The ring Z[x]/(x^n - x - 1): b times x^j has, at place k,  *)
(* the coefficient Turned(n, b, j, k), and a product is a combination of    *)
(* those (TriTimes).  Weighed by numbers w for the places, a product is a  *)
(* form in a and b whose matrix depends on the sum of its indices alone    *)
(* (Reaches, Hankel): what the ring's laws need is that it is symmetric.   *)
(***************************************************************************)
Inside(n, b, x) == IF x \in Places(n) THEN b[x] ELSE 0
Turned(n, b, j, k) == Inside(n, b, k - j) + Inside(n, b, k + n - j) + (IF k = 0 THEN 0 ELSE Inside(n, b, k + n - 1 - j))
Moves(n, b) == [j \in Places(n) |-> [k \in Places(n) |-> Turned(n, b, j, k)]]
TriTimes(n, a, b) == ByColumns(Places(n), a, Moves(n, b))
Reaches(n, w, s) == IF s < n THEN w[s] ELSE w[s - n] + w[s - n + 1]
Hankel(n, w) == [i \in Places(n) |-> [j \in Places(n) |-> Reaches(n, w, i + j)]]
Form(n, a, h, b) == Sum(ByPlaces(Places(n), a, ByRows(Places(n), h, b)), Places(n))
Symmetric(n, h) == Grid(Places(n), h) /\ \A i, j \in Places(n) : h[i][j] = h[j][i]

LEMMA ByPlacesCommutes ==
  ASSUME NEW J, NEW f, NEW g, Ints(J, f), Ints(J, g)
  PROVE  ByPlaces(J, f, g) = ByPlaces(J, g, f)
<1>1. ASSUME NEW j \in J PROVE f[j] * g[j] = g[j] * f[j]
  <2>1. PICK x \in Int, y \in Int : x = f[j] /\ y = g[j]
    BY DEF Ints
  <2>2. QED
    BY <2>1
<1>2. QED
  BY <1>1 DEF ByPlaces

\* A sum over the places where something is.
LEMMA SumWhere ==
  ASSUME NEW J, IsFiniteSet(J), NEW S \in SUBSET J, NEW f, \A x \in S : f[x] \in Int, \A x \in J \ S : f[x] = 0
  PROVE  SumFunctionOnSet(f, J) = SumFunctionOnSet(f, S) /\ SumFunctionOnSet(f, S) \in Int
<1>1. IsFiniteSet(S) /\ IsFiniteSet(J \ S)
  BY FS_Subset
<1>2. J = S \cup (J \ S) /\ S \cap (J \ S) = {}
  OBVIOUS
<1>3. \A x \in S \cup (J \ S) : f[x] \in Int
  OBVIOUS
<1>4. SumFunctionOnSet(f, S \cup (J \ S)) = SumFunctionOnSet(f, S) + SumFunctionOnSet(f, J \ S)
  BY <1>1, <1>2, <1>3, SumUnion
<1>5. SumFunctionOnSet(f, J \ S) = 0
  BY <1>1, SumOfZeros
<1>6. SumFunctionOnSet(f, S) \in Int
  BY <1>1, SumType
<1>7. SumFunctionOnSet(f, J) = SumFunctionOnSet(f, S \cup (J \ S))
  BY <1>2
<1>8. PICK s \in Int : s = SumFunctionOnSet(f, S)
  BY <1>6
<1>9. SumFunctionOnSet(f, J) = s + 0
  BY <1>4, <1>5, <1>7, <1>8
<1>10. QED
  BY <1>8, <1>9

\* The place k of b moved by d is the place k - d of b.
LEMMA TurnedSum ==
  ASSUME NEW n \in Nat, n > 0, NEW w, NEW b, Integral(n, w), Integral(n, b), NEW d \in Int, NEW lo \in Int, lo >= 0
  PROVE  SumFunctionOnSet([k \in Places(n) |-> IF lo <= k THEN w[k] * Inside(n, b, k - d) ELSE 0], Places(n))
           = SumFunctionOnSet([i \in Places(n) |-> IF i + d \in lo .. n - 1 THEN w[i + d] * b[i] ELSE 0], Places(n))
<1> DEFINE F == [k \in Places(n) |-> IF lo <= k THEN w[k] * Inside(n, b, k - d) ELSE 0]
           G == [i \in Places(n) |-> IF i + d \in lo .. n - 1 THEN w[i + d] * b[i] ELSE 0]
           S == {k \in Places(n) : lo <= k /\ k - d \in Places(n)}
           R == {i \in Places(n) : i + d \in lo .. n - 1}
           m == [i \in R |-> i + d]
<1>0. \A k \in Places(n) : k \in Int /\ 0 <= k /\ k < n
  BY DEF Places
<1>1. \A i \in R : i \in Places(n) /\ i + d \in Places(n) /\ lo <= i + d /\ (i + d) - d = i
  BY <1>0 DEF Places
<1>2. \A k \in S : k \in Places(n) /\ lo <= k /\ k - d \in R /\ (k - d) + d = k
  BY <1>0 DEF Places
<1>3. ASSUME NEW i \in R PROVE G[i] \in Int /\ F[i + d] = G[i]
  <2>1. PICK x \in Int, y \in Int : x = w[i + d] /\ y = b[i]
    BY <1>1 DEF Integral
  <2>2. G[i] = x * y
    BY <2>1
  <2>3. F[i + d] = w[i + d] * Inside(n, b, (i + d) - d)
    BY <1>1
  <2>4. Inside(n, b, (i + d) - d) = y
    BY <1>1, <2>1 DEF Inside
  <2>5. QED
    BY <2>1, <2>2, <2>3, <2>4
<1>4. \A i \in Places(n) \ R : G[i] = 0
  OBVIOUS
<1>5. ASSUME NEW k \in Places(n) \ S PROVE F[k] = 0
  <2>1. PICK x \in Int : x = w[k]
    BY DEF Integral
  <2>2. lo <= k => Inside(n, b, k - d) = 0
    BY DEF Inside
  <2>3. QED
    BY <2>1, <2>2
<1>6. \A k \in S : F[k] \in Int
  <2>1. SUFFICES ASSUME NEW k \in S PROVE F[k] \in Int
    OBVIOUS
  <2>2. F[(k - d) + d] \in Int
    BY <1>2, <1>3
  <2>3. QED
    BY <1>2, <2>2
<1>7. m \in [R -> S] /\ (\A x, y \in R : m[x] = m[y] => x = y) /\ \A y \in S : \E x \in R : m[x] = y
  <2>1. \A i \in R : m[i] = i + d /\ i + d \in S
    BY <1>1
  <2>2. \A x, y \in R : m[x] = m[y] => x = y
    BY <1>0, <1>1
  <2>3. \A y \in S : \E x \in R : m[x] = y
    BY <1>2
  <2>4. QED
    BY <2>1, <2>2, <2>3
<1>8. IsFiniteSet(Places(n)) /\ IsFiniteSet(S) /\ IsFiniteSet(R) /\ S \in SUBSET Places(n) /\ R \in SUBSET Places(n)
  BY PlacesFinite, FS_Subset
<1>9. \A i \in R : G[i] \in Int /\ F[m[i]] = G[i]
  BY <1>3
<1> HIDE DEF F, G, S, R, m
<1>10. SumFunctionOnSet(F, S) = SumFunctionOnSet(G, R)
  BY <1>7, <1>8, <1>9, SumReindex
<1>11. SumFunctionOnSet(F, Places(n)) = SumFunctionOnSet(F, S)
  BY <1>5, <1>6, <1>8, SumWhere
<1>12. SumFunctionOnSet(G, Places(n)) = SumFunctionOnSet(G, R)
  BY <1>4, <1>8, <1>9, SumWhere
<1>13. QED
  BY <1>10, <1>11, <1>12 DEF F, G

LEMMA SumOfThree ==
  ASSUME NEW n \in Nat, n > 0, NEW f, NEW f1, NEW f2, NEW f3,
         \A k \in Places(n) : /\ f1[k] \in Int /\ f2[k] \in Int /\ f3[k] \in Int /\ f[k] \in Int
                              /\ f[k] = f1[k] + f2[k] + f3[k]
  PROVE  SumFunctionOnSet(f, Places(n))
           = SumFunctionOnSet(f1, Places(n)) + SumFunctionOnSet(f2, Places(n)) + SumFunctionOnSet(f3, Places(n))
<1>1. PICK q \in Nat, o \in Int : q = 0 /\ o = 1
  OBVIOUS
<1>2. PICK h : h = [k \in Places(n) |-> f1[k] + f2[k]]
  OBVIOUS
<1>3. \A k \in Places(n) : h[k] \in Int /\ h[k] = f1[k] + f2[k]
  BY <1>2
<1>4. IsFiniteSet(Places(n))
  BY PlacesFinite
<1>5. ASSUME NEW k \in Places(n)
      PROVE  Cong(q, h[k], o * f1[k] + o * f2[k]) /\ Cong(q, f[k], o * h[k] + o * f3[k])
  <2>1. PICK x \in Int, y \in Int, u \in Int, v \in Int : x = f1[k] /\ y = f2[k] /\ u = f3[k] /\ v = f[k]
    OBVIOUS
  <2>2. h[k] = x + y /\ v = x + y + u /\ o * x + o * y = x + y /\ o * (x + y) + o * u = x + y + u
    BY <1>1, <1>3, <2>1
  <2>3. PICK s \in Int, t \in Int : s = x + y /\ t = x + y + u
    OBVIOUS
  <2>4. Cong(q, s, s) /\ Cong(q, t, t)
    BY CongRefl
  <2>5. QED
    BY <2>1, <2>2, <2>3, <2>4
<1>6. Cong(q, SumFunctionOnSet(h, Places(n)), o * SumFunctionOnSet(f1, Places(n)) + o * SumFunctionOnSet(f2, Places(n)))
  BY <1>3, <1>4, <1>5, SumLinear
<1>7. Cong(q, SumFunctionOnSet(f, Places(n)), o * SumFunctionOnSet(h, Places(n)) + o * SumFunctionOnSet(f3, Places(n)))
  BY <1>3, <1>4, <1>5, SumLinear
<1>8. /\ SumFunctionOnSet(f, Places(n)) \in Int /\ SumFunctionOnSet(f1, Places(n)) \in Int /\ SumFunctionOnSet(f2, Places(n)) \in Int
      /\ SumFunctionOnSet(f3, Places(n)) \in Int /\ SumFunctionOnSet(h, Places(n)) \in Int
  BY <1>3, <1>4, SumType
<1>9. QED
  BY <1>1, <1>6, <1>7, <1>8 DEF Cong

LEMMA TurnedType ==
  ASSUME NEW n \in Nat, n > 0, NEW b, Integral(n, b)
  PROVE  /\ \A j, k \in Places(n) : Turned(n, b, j, k) \in Int
         /\ Grid(Places(n), Moves(n, b))
<1>1. \A x : Inside(n, b, x) \in Int
  BY DEF Inside, Integral
<1>2. \A j, k \in Places(n) : Turned(n, b, j, k) \in Int
  BY <1>1 DEF Turned
<1>3. QED
  BY <1>2 DEF Grid, Moves

LEMMA ReachesType ==
  ASSUME NEW n \in Nat, n > 1, NEW w, Integral(n, w)
  PROVE  /\ \A s \in 0 .. 2 * n - 2 : Reaches(n, w, s) \in Int
         /\ Symmetric(n, Hankel(n, w))
<1>1. ASSUME NEW s \in 0 .. 2 * n - 2 PROVE Reaches(n, w, s) \in Int
  <2>1. CASE s < n
    <3>1. s \in Places(n)
      BY <2>1 DEF Places
    <3>2. QED
      BY <2>1, <3>1 DEF Reaches, Integral
  <2>2. CASE s >= n
    <3>1. s - n \in Places(n) /\ s - n + 1 \in Places(n)
      BY <2>2 DEF Places
    <3>2. w[s - n] \in Int /\ w[s - n + 1] \in Int
      BY <3>1 DEF Integral
    <3>3. QED
      BY <2>2, <3>2 DEF Reaches
  <2>3. QED
    BY <2>1, <2>2
<1>2. ASSUME NEW i \in Places(n), NEW j \in Places(n)
      PROVE  i + j \in 0 .. 2 * n - 2 /\ i + j = j + i
  BY DEF Places
<1>3. \A i, j \in Places(n) : Hankel(n, w)[i][j] \in Int /\ Hankel(n, w)[i][j] = Hankel(n, w)[j][i]
  <2>1. SUFFICES ASSUME NEW i \in Places(n), NEW j \in Places(n)
                 PROVE  Hankel(n, w)[i][j] \in Int /\ Hankel(n, w)[i][j] = Hankel(n, w)[j][i]
    OBVIOUS
  <2>2. Hankel(n, w)[i][j] = Reaches(n, w, i + j) /\ Hankel(n, w)[j][i] = Reaches(n, w, j + i)
    BY DEF Hankel
  <2>3. QED
    BY <1>1, <1>2, <2>2
<1>4. QED
  BY <1>1, <1>3 DEF Symmetric, Grid

\* The weight of b times x^j.
LEMMA TurnedForm ==
  ASSUME NEW n \in Nat, n > 1, NEW w, NEW b, Integral(n, w), Integral(n, b), NEW j \in Places(n)
  PROVE  Sum(ByPlaces(Places(n), Moves(n, b)[j], w), Places(n)) = Sum(ByPlaces(Places(n), Hankel(n, w)[j], b), Places(n))
<1> DEFINE F(d, lo) == [k \in Places(n) |-> IF lo <= k THEN w[k] * Inside(n, b, k - d) ELSE 0]
           G(d, lo) == [i \in Places(n) |-> IF i + d \in lo .. n - 1 THEN w[i + d] * b[i] ELSE 0]
<1>0. \A k \in Places(n) : k \in Int /\ 0 <= k /\ k < n
  BY DEF Places
<1>1. \A d \in Int, lo \in Int : lo >= 0 => SumFunctionOnSet(F(d, lo), Places(n)) = SumFunctionOnSet(G(d, lo), Places(n))
  BY TurnedSum
<1>2. PICK d1 \in Int, d2 \in Int, d3 \in Int, o \in Int, z \in Int : d1 = j /\ d2 = j - n /\ d3 = j - n + 1 /\ o = 1 /\ z = 0
  BY <1>0
<1>3. PICK f1, f2, f3, g1, g2, g3 :
        /\ f1 = F(d1, z) /\ f2 = F(d2, z) /\ f3 = F(d3, o)
        /\ g1 = G(d1, z) /\ g2 = G(d2, z) /\ g3 = G(d3, o)
  OBVIOUS
<1>4. /\ SumFunctionOnSet(f1, Places(n)) = SumFunctionOnSet(g1, Places(n))
      /\ SumFunctionOnSet(f2, Places(n)) = SumFunctionOnSet(g2, Places(n))
      /\ SumFunctionOnSet(f3, Places(n)) = SumFunctionOnSet(g3, Places(n))
  <2>1. z >= 0 /\ o >= 0
    BY <1>2
  <2> HIDE DEF F, G
  <2>2. QED
    BY <1>1, <1>3, <2>1
<1>5. PICK f, g : f = ByPlaces(Places(n), Moves(n, b)[j], w) /\ g = ByPlaces(Places(n), Hankel(n, w)[j], b)
  OBVIOUS
<1>6. ASSUME NEW k \in Places(n)
      PROVE  /\ f1[k] \in Int /\ f2[k] \in Int /\ f3[k] \in Int /\ f[k] \in Int
             /\ f[k] = f1[k] + f2[k] + f3[k]
  <2>1. PICK x \in Int, u \in Int, v \in Int, t \in Int :
          x = w[k] /\ u = Inside(n, b, k - j) /\ v = Inside(n, b, k + n - j) /\ t = Inside(n, b, k + n - 1 - j)
    BY DEF Integral, Inside
  <2>2. k - d1 = k - j /\ k - d2 = k + n - j /\ k - d3 = k + n - 1 - j
    BY <1>0, <1>2
  <2>3. f1[k] = x * u /\ f2[k] = x * v /\ f3[k] = IF k = 0 THEN 0 ELSE x * t
    BY <1>0, <1>2, <1>3, <2>1, <2>2
  <2>4. f[k] = (u + v + (IF k = 0 THEN 0 ELSE t)) * x
    BY <1>5, <2>1 DEF ByPlaces, Moves, Turned
  <2>5. QED
    BY <2>3, <2>4
<1>7. ASSUME NEW i \in Places(n)
      PROVE  /\ g1[i] \in Int /\ g2[i] \in Int /\ g3[i] \in Int /\ g[i] \in Int
             /\ g[i] = g1[i] + g2[i] + g3[i]
  <2>1. PICK y \in Int : y = b[i]
    BY DEF Integral
  <2>2. g[i] = Reaches(n, w, j + i) * y
    BY <1>5, <2>1 DEF ByPlaces, Hankel
  <2>3. CASE j + i < n
    <3>1. PICK x \in Int : x = w[j + i]
      BY <1>0, <2>3 DEF Integral, Places
    <3>2. i + d1 = j + i /\ i + d1 \in z .. n - 1 /\ i + d2 \notin z .. n - 1 /\ i + d3 \notin o .. n - 1
      BY <1>0, <1>2, <2>3
    <3>3. g1[i] = x * y /\ g2[i] = 0 /\ g3[i] = 0
      BY <1>3, <2>1, <3>1, <3>2
    <3>4. g[i] = x * y
      BY <2>2, <2>3, <3>1 DEF Reaches
    <3>5. QED
      BY <3>3, <3>4
  <2>4. CASE j + i >= n
    <3>1. PICK x \in Int, v \in Int : x = w[j + i - n] /\ v = w[j + i - n + 1]
      <4>1. j + i - n \in Places(n) /\ j + i - n + 1 \in Places(n)
        BY <1>0, <2>4 DEF Places
      <4>2. QED
        BY <4>1 DEF Integral
    <3>2. /\ i + d1 \notin z .. n - 1 /\ i + d2 \in z .. n - 1 /\ i + d3 \in o .. n - 1
          /\ i + d2 = j + i - n /\ i + d3 = j + i - n + 1
      BY <1>0, <1>2, <2>4
    <3>3. g1[i] = 0 /\ g2[i] = x * y /\ g3[i] = v * y
      BY <1>3, <2>1, <3>1, <3>2
    <3>4. g[i] = (x + v) * y
      <4>1. Reaches(n, w, j + i) = x + v
        BY <1>0, <2>4, <3>1 DEF Reaches
      <4>2. QED
        BY <2>2, <4>1
    <3>5. QED
      BY <3>3, <3>4
  <2>5. QED
    BY <1>0, <2>3, <2>4
<1> HIDE DEF F, G
<1>8. SumFunctionOnSet(f, Places(n)) = SumFunctionOnSet(f1, Places(n)) + SumFunctionOnSet(f2, Places(n)) + SumFunctionOnSet(f3, Places(n))
  BY <1>6, SumOfThree
<1>9. SumFunctionOnSet(g, Places(n)) = SumFunctionOnSet(g1, Places(n)) + SumFunctionOnSet(g2, Places(n)) + SumFunctionOnSet(g3, Places(n))
  BY <1>7, SumOfThree
<1>10. QED
  BY <1>4, <1>5, <1>8, <1>9 DEF Sum

-----------------------------------------------------------------------------
LEMMA TriType ==
  ASSUME NEW n \in Nat, n > 0, NEW a, NEW b, Integral(n, a), Integral(n, b)
  PROVE  Integral(n, TriTimes(n, a, b))
<1>1. PICK J : J = Places(n)
  OBVIOUS
<1>2. IsFiniteSet(J) /\ Ints(J, a) /\ Grid(J, Moves(n, b))
  BY <1>1, PlacesFinite, TurnedType DEF Ints, Integral
<1>3. Ints(J, ByColumns(J, a, Moves(n, b)))
  BY <1>2, ThreeProducts
<1>4. QED
  BY <1>1, <1>3 DEF Ints, Integral, TriTimes

\* The weight of a product is a form in its factors.
LEMMA WeighedProduct ==
  ASSUME NEW n \in Nat, n > 1, NEW w, NEW a, NEW b, Integral(n, w), Integral(n, a), Integral(n, b)
  PROVE  Sum(ByPlaces(Places(n), TriTimes(n, a, b), w), Places(n)) = Form(n, a, Hankel(n, w), b)
<1>1. PICK J, m, h : J = Places(n) /\ m = Moves(n, b) /\ h = Hankel(n, w)
  OBVIOUS
<1>2. IsFiniteSet(J) /\ Ints(J, a) /\ Ints(J, w) /\ Grid(J, m)
  BY <1>1, PlacesFinite, TurnedType DEF Ints, Integral
<1>3. Sum(ByPlaces(J, a, ByRows(J, m, w)), J) = Sum(ByPlaces(J, ByColumns(J, a, m), w), J)
  BY <1>2, ThreeProducts
<1>4. ASSUME NEW j \in J PROVE Sum(ByPlaces(J, m[j], w), J) = Sum(ByPlaces(J, h[j], b), J)
  BY <1>1, TurnedForm
<1>5. ByRows(J, m, w) = ByRows(J, h, b)
  BY <1>4 DEF ByRows
<1>6. QED
  BY <1>1, <1>3, <1>5 DEF Form, TriTimes

LEMMA FormSymmetric ==
  ASSUME NEW n \in Nat, n > 0, NEW a, NEW b, Integral(n, a), Integral(n, b), NEW h, Symmetric(n, h)
  PROVE  Form(n, a, h, b) = Form(n, b, h, a)
<1>1. PICK J : J = Places(n)
  OBVIOUS
<1>2. IsFiniteSet(J) /\ Ints(J, a) /\ Ints(J, b) /\ Grid(J, h) /\ \A i, j \in J : h[i][j] = h[j][i]
  BY <1>1, PlacesFinite DEF Ints, Integral, Symmetric
<1>3. /\ Ints(J, ByRows(J, h, b)) /\ Ints(J, ByColumns(J, a, h))
      /\ Sum(ByPlaces(J, a, ByRows(J, h, b)), J) = Sum(ByPlaces(J, ByColumns(J, a, h), b), J)
  BY <1>2, ThreeProducts
<1>4. ASSUME NEW j \in J PROVE ByPlaces(J, a, Column(J, h, j)) = ByPlaces(J, h[j], a)
  <2>1. PICK c, d : c = Column(J, h, j) /\ d = h[j]
    OBVIOUS
  <2>2. \A l \in J : c[l] = d[l] /\ d[l] \in Int
    BY <1>2, <2>1 DEF Column, Grid
  <2>3. Ints(J, d)
    BY <2>2 DEF Ints
  <2>4. ByPlaces(J, a, c) = ByPlaces(J, a, d)
    BY <2>2 DEF ByPlaces
  <2>5. ByPlaces(J, a, d) = ByPlaces(J, d, a)
    BY <1>2, <2>3, ByPlacesCommutes
  <2>6. QED
    BY <2>1, <2>4, <2>5
<1>5. ByColumns(J, a, h) = ByRows(J, h, a)
  BY <1>4 DEF ByColumns, ByRows
<1>6. PICK c : c = ByRows(J, h, a)
  OBVIOUS
<1>7. ByPlaces(J, c, b) = ByPlaces(J, b, c)
  BY <1>2, <1>3, <1>5, <1>6, ByPlacesCommutes
<1>8. QED
  BY <1>1, <1>3, <1>5, <1>6, <1>7 DEF Form

\* The place k alone.
Spike(n, k) == [i \in Places(n) |-> IF i = k THEN 1 ELSE 0]

LEMMA SpikeSum ==
  ASSUME NEW n \in Nat, n > 0, NEW f, Integral(n, f), NEW k \in Places(n)
  PROVE  Integral(n, Spike(n, k)) /\ Sum(ByPlaces(Places(n), f, Spike(n, k)), Places(n)) = f[k]
<1>1. Integral(n, Spike(n, k))
  BY DEF Integral, Spike
<1>2. PICK p, J : p = ByPlaces(Places(n), f, Spike(n, k)) /\ J = Places(n)
  OBVIOUS
<1>3. \A i \in J : p[i] \in Int /\ p[i] = (IF i = k THEN f[k] ELSE 0)
  <2>1. SUFFICES ASSUME NEW i \in J PROVE p[i] \in Int /\ p[i] = (IF i = k THEN f[k] ELSE 0)
    OBVIOUS
  <2>2. PICK x \in Int, s \in Int : x = f[i] /\ s = IF i = k THEN 1 ELSE 0
    BY <1>2 DEF Integral
  <2>3. p[i] = x * s
    BY <1>2, <2>2 DEF ByPlaces, Spike
  <2>4. QED
    BY <2>2, <2>3
<1>4. IsFiniteSet(J) /\ {k} \in SUBSET J
  BY <1>2, PlacesFinite
<1>5. SumFunctionOnSet(p, J) = SumFunctionOnSet(p, {k})
  <2>1. (\A x \in {k} : p[x] \in Int) /\ \A x \in J \ {k} : p[x] = 0
    BY <1>3, <1>4
  <2>2. QED
    BY <1>4, <2>1, SumWhere
<1>6. SumFunctionOnSet(p, {k}) = p[k]
  BY <1>3, <1>4, SumOne
<1>7. QED
  BY <1>1, <1>2, <1>3, <1>5, <1>6 DEF Sum

LEMMA TriAsForm ==
  ASSUME NEW n \in Nat, n > 1, NEW a, NEW b, Integral(n, a), Integral(n, b), NEW k \in Places(n)
  PROVE  TriTimes(n, a, b)[k] = Form(n, a, Hankel(n, Spike(n, k)), b)
<1>1. PICK w, p : w = Spike(n, k) /\ p = TriTimes(n, a, b)
  OBVIOUS
<1>2. Integral(n, p) /\ Integral(n, w)
  BY <1>1, TriType, SpikeSum
<1>3. Sum(ByPlaces(Places(n), p, w), Places(n)) = p[k]
  BY <1>1, <1>2, SpikeSum
<1>4. Sum(ByPlaces(Places(n), p, w), Places(n)) = Form(n, a, Hankel(n, w), b)
  BY <1>1, <1>2, WeighedProduct
<1>5. QED
  BY <1>1, <1>3, <1>4

LEMMA TriCommutes ==
  ASSUME NEW n \in Nat, n > 1, NEW a, NEW b, Integral(n, a), Integral(n, b)
  PROVE  TriTimes(n, a, b) = TriTimes(n, b, a)
<1>1. ASSUME NEW k \in Places(n) PROVE TriTimes(n, a, b)[k] = TriTimes(n, b, a)[k]
  <2>1. PICK h : h = Hankel(n, Spike(n, k))
    OBVIOUS
  <2>2. Symmetric(n, h)
    BY <2>1, SpikeSum, ReachesType
  <2>3. Form(n, a, h, b) = Form(n, b, h, a)
    BY <2>2, FormSymmetric
  <2>4. TriTimes(n, a, b)[k] = Form(n, a, h, b) /\ TriTimes(n, b, a)[k] = Form(n, b, h, a)
    BY <2>1, TriAsForm
  <2>5. QED
    BY <2>3, <2>4
<1>2. QED
  BY <1>1 DEF TriTimes, ByColumns

\* The matrix of a product of three, whose factors change places in pairs.
Deep(n, w, i) == Hankel(n, Hankel(n, w)[i])
Mixture(n, w, b) == [i \in Places(n) |-> ByRows(Places(n), Deep(n, w, i), b)]
Triple(n, w, c, a, b) ==
  Sum(ByPlaces(Places(n), c, [i \in Places(n) |-> Form(n, a, Deep(n, w, i), b)]), Places(n))

LEMMA DeepBySum ==
  ASSUME NEW n \in Nat, n > 1, NEW w, Integral(n, w), NEW i \in Places(n)
  PROVE  /\ Integral(n, Hankel(n, w)[i]) /\ Symmetric(n, Deep(n, w, i))
         /\ \A j, l \in Places(n) : Deep(n, w, i)[j][l] = Deep(n, w, j)[i][l]
<1>0. \A k \in Places(n) : k \in Int /\ 0 <= k /\ k < n
  BY DEF Places
<1>1. \A k \in Places(n) : Integral(n, Hankel(n, w)[k])
  <2>1. Grid(Places(n), Hankel(n, w))
    BY ReachesType DEF Symmetric
  <2>2. QED
    BY <2>1 DEF Grid, Integral
<1>2. \A k \in Places(n) : Symmetric(n, Deep(n, w, k))
  <2>1. SUFFICES ASSUME NEW k \in Places(n) PROVE Symmetric(n, Deep(n, w, k))
    OBVIOUS
  <2>2. PICK v : v = Hankel(n, w)[k]
    OBVIOUS
  <2>3. Integral(n, v)
    BY <1>1, <2>2
  <2>4. Symmetric(n, Hankel(n, v))
    BY <2>3, ReachesType
  <2>5. QED
    BY <2>2, <2>4 DEF Deep
<1>3. ASSUME NEW j \in Places(n), NEW l \in Places(n)
      PROVE  Deep(n, w, i)[j][l] = Deep(n, w, j)[i][l]
  <2>1. /\ Deep(n, w, i)[j][l] = Reaches(n, Hankel(n, w)[i], j + l)
        /\ Deep(n, w, j)[i][l] = Reaches(n, Hankel(n, w)[j], i + l)
    BY DEF Deep, Hankel
  <2>2. ASSUME NEW x \in Places(n), NEW y \in Places(n)
        PROVE  Reaches(n, Hankel(n, w)[x], y + l)
                 = IF y + l < n THEN Reaches(n, w, x + y + l)
                   ELSE Reaches(n, w, (x + y + l) - n) + Reaches(n, w, (x + y + l) - n + 1)
    <3>1. CASE y + l < n
      <4>1. y + l \in Places(n) /\ x + (y + l) = x + y + l
        BY <1>0, <3>1 DEF Places
      <4>2. Hankel(n, w)[x][y + l] = Reaches(n, w, x + (y + l))
        BY <4>1 DEF Hankel
      <4>3. QED
        BY <3>1, <4>1, <4>2 DEF Reaches
    <3>2. CASE ~(y + l < n)
      <4>1. /\ (y + l) - n \in Places(n) /\ (y + l) - n + 1 \in Places(n)
            /\ x + ((y + l) - n) = (x + y + l) - n /\ x + ((y + l) - n + 1) = (x + y + l) - n + 1
        BY <1>0, <3>2 DEF Places
      <4>2. /\ Hankel(n, w)[x][(y + l) - n] = Reaches(n, w, x + ((y + l) - n))
            /\ Hankel(n, w)[x][(y + l) - n + 1] = Reaches(n, w, x + ((y + l) - n + 1))
        BY <4>1 DEF Hankel
      <4>3. Reaches(n, Hankel(n, w)[x], y + l) = Hankel(n, w)[x][(y + l) - n] + Hankel(n, w)[x][(y + l) - n + 1]
        <5>1. PICK v : v = Hankel(n, w)[x]
          OBVIOUS
        <5>2. Reaches(n, v, y + l) = v[(y + l) - n] + v[(y + l) - n + 1]
          BY <3>2, Zenon DEF Reaches
        <5>3. QED
          BY ONLY <5>1, <5>2
      <4>4. QED
        BY <3>2, <4>1, <4>2, <4>3
    <3>3. QED
      BY <3>1, <3>2
  <2>3. PICK s \in Int : s = i + j + l
    BY <1>0
  <2>4. i + j + l = s /\ j + i + l = s
    BY <1>0, <2>3
  <2>5. ASSUME NEW x \in Places(n), NEW y \in Places(n), x + y + l = s, y + l < n, s >= n
        PROVE  Reaches(n, w, s) = Reaches(n, w, s - n) + Reaches(n, w, s - n + 1)
    <3>1. s - n < n /\ s - n + 1 < n /\ ~(s < n)
      BY <1>0, <2>5
    <3>2. QED
      BY <3>1 DEF Reaches
  <2>6. ASSUME NEW x \in Places(n), NEW y \in Places(n), x + y + l = s, s < n
        PROVE  y + l < n
    BY <1>0, <2>6
  <2>7. PICK R, T : R = Reaches(n, w, s) /\ T = Reaches(n, w, s - n) + Reaches(n, w, s - n + 1)
    OBVIOUS
  <2>8. /\ Reaches(n, Hankel(n, w)[i], j + l) = IF j + l < n THEN R ELSE T
        /\ Reaches(n, Hankel(n, w)[j], i + l) = IF i + l < n THEN R ELSE T
    <3>1. Reaches(n, Hankel(n, w)[i], j + l)
            = IF j + l < n THEN Reaches(n, w, i + j + l)
              ELSE Reaches(n, w, (i + j + l) - n) + Reaches(n, w, (i + j + l) - n + 1)
      BY <2>2
    <3>2. Reaches(n, Hankel(n, w)[j], i + l)
            = IF i + l < n THEN Reaches(n, w, j + i + l)
              ELSE Reaches(n, w, (j + i + l) - n) + Reaches(n, w, (j + i + l) - n + 1)
      BY <2>2
    <3>3. Reaches(n, Hankel(n, w)[i], j + l)
            = IF j + l < n THEN Reaches(n, w, s) ELSE Reaches(n, w, s - n) + Reaches(n, w, s - n + 1)
      BY <2>4, <3>1, Zenon
    <3>4. Reaches(n, Hankel(n, w)[j], i + l)
            = IF i + l < n THEN Reaches(n, w, s) ELSE Reaches(n, w, s - n) + Reaches(n, w, s - n + 1)
      BY <2>4, <3>2, Zenon
    <3>5. QED
      BY <2>7, <3>3, <3>4, Zenon
  <2>9. /\ s < n => j + l < n /\ i + l < n
        /\ s >= n /\ j + l < n => R = T
        /\ s >= n /\ i + l < n => R = T
    BY <2>4, <2>5, <2>6, <2>7
  <2>10. QED
    BY <2>1, <2>8, <2>9
<1>4. QED
  BY <1>1, <1>2, <1>3

LEMMA MixtureRight ==
  ASSUME NEW n \in Nat, n > 1, NEW w, NEW c, NEW a, NEW b, Integral(n, w), Integral(n, c), Integral(n, a), Integral(n, b)
  PROVE  /\ Symmetric(n, Mixture(n, w, b))
         /\ Triple(n, w, c, a, b) = Form(n, c, Mixture(n, w, b), a)
<1>1. PICK J, m : J = Places(n) /\ m = Mixture(n, w, b)
  OBVIOUS
<1>2. IsFiniteSet(J) /\ Ints(J, a) /\ Ints(J, b) /\ Ints(J, c)
  BY <1>1, PlacesFinite DEF Ints, Integral
<1>3. \A i \in J : Grid(J, Deep(n, w, i)) /\ Ints(J, m[i]) /\ m[i] = ByRows(J, Deep(n, w, i), b)
  <2>1. SUFFICES ASSUME NEW i \in J
                 PROVE  Grid(J, Deep(n, w, i)) /\ Ints(J, m[i]) /\ m[i] = ByRows(J, Deep(n, w, i), b)
    OBVIOUS
  <2>2. PICK d : d = Deep(n, w, i)
    OBVIOUS
  <2>3. Grid(J, d)
    BY <1>1, <2>2, DeepBySum DEF Symmetric
  <2>4. Ints(J, ByRows(J, d, b))
    BY <1>2, <2>3, ThreeProducts
  <2>5. m[i] = ByRows(J, d, b)
    BY <1>1, <2>2 DEF Mixture
  <2>6. QED
    BY <2>2, <2>3, <2>4, <2>5
<1>4. ASSUME NEW i \in J, NEW j \in J PROVE m[i][j] = m[j][i]
  <2>1. PICK d, e : d = Deep(n, w, i) /\ e = Deep(n, w, j)
    OBVIOUS
  <2>2. m[i][j] = Sum(ByPlaces(J, d[j], b), J) /\ m[j][i] = Sum(ByPlaces(J, e[i], b), J)
    BY <1>3, <2>1 DEF ByRows
  <2>3. \A l \in J : d[j][l] = e[i][l]
    BY <1>1, <2>1, DeepBySum
  <2>4. ByPlaces(J, d[j], b) = ByPlaces(J, e[i], b)
    BY <2>3 DEF ByPlaces
  <2>5. QED
    BY <2>2, <2>4
<1>5. Symmetric(n, m)
  BY <1>1, <1>3, <1>4 DEF Symmetric, Grid, Ints
<1>6. ASSUME NEW i \in J PROVE Form(n, a, Deep(n, w, i), b) = Sum(ByPlaces(J, m[i], a), J)
  <2>1. PICK r : r = m[i]
    OBVIOUS
  <2>2. ByPlaces(J, a, r) = ByPlaces(J, r, a)
    BY <1>2, <1>3, <2>1, ByPlacesCommutes
  <2>3. Form(n, a, Deep(n, w, i), b) = Sum(ByPlaces(J, a, r), J)
    BY <1>1, <1>3, <2>1 DEF Form
  <2>4. QED
    BY <2>1, <2>2, <2>3
<1>7. [i \in J |-> Form(n, a, Deep(n, w, i), b)] = ByRows(J, m, a)
  BY <1>6 DEF ByRows
<1>8. Triple(n, w, c, a, b) = Sum(ByPlaces(J, c, ByRows(J, m, a)), J)
  BY <1>1, <1>7 DEF Triple
<1>9. QED
  BY <1>1, <1>5, <1>8 DEF Form

LEMMA TripleSwaps ==
  ASSUME NEW n \in Nat, n > 1, NEW w, NEW c, NEW a, NEW b, Integral(n, w), Integral(n, c), Integral(n, a), Integral(n, b)
  PROVE  Triple(n, w, c, a, b) = Triple(n, w, a, c, b) /\ Triple(n, w, c, a, b) = Triple(n, w, c, b, a)
<1>1. PICK m : m = Mixture(n, w, b)
  OBVIOUS
<1>2. /\ Symmetric(n, m) /\ Triple(n, w, c, a, b) = Form(n, c, m, a) /\ Triple(n, w, a, c, b) = Form(n, a, m, c)
  BY <1>1, MixtureRight
<1>3. Form(n, c, m, a) = Form(n, a, m, c)
  BY <1>2, FormSymmetric
<1>4. ASSUME NEW i \in Places(n) PROVE Form(n, a, Deep(n, w, i), b) = Form(n, b, Deep(n, w, i), a)
  <2>1. PICK d : d = Deep(n, w, i)
    OBVIOUS
  <2>2. Symmetric(n, d)
    BY <2>1, DeepBySum
  <2>3. QED
    BY <2>1, <2>2, FormSymmetric
<1>5. Triple(n, w, c, a, b) = Triple(n, w, c, b, a)
  <2>1. [i \in Places(n) |-> Form(n, a, Deep(n, w, i), b)] = [i \in Places(n) |-> Form(n, b, Deep(n, w, i), a)]
    BY <1>4
  <2>2. QED
    BY <2>1 DEF Triple
<1>6. QED
  BY <1>2, <1>3, <1>5

\* A form in a product is one in three.
LEMMA FormOfProduct ==
  ASSUME NEW n \in Nat, n > 1, NEW w, NEW c, NEW a, NEW b, Integral(n, w), Integral(n, c), Integral(n, a), Integral(n, b)
  PROVE  Form(n, c, Hankel(n, w), TriTimes(n, a, b)) = Triple(n, w, c, a, b)
<1>1. PICK J, h, p : J = Places(n) /\ h = Hankel(n, w) /\ p = TriTimes(n, a, b)
  OBVIOUS
<1>2. Integral(n, p)
  BY <1>1, TriType
<1>3. ASSUME NEW i \in J PROVE Sum(ByPlaces(J, h[i], p), J) = Form(n, a, Deep(n, w, i), b)
  <2>1. PICK v : v = h[i]
    OBVIOUS
  <2>2. Integral(n, v)
    BY <1>1, <2>1, DeepBySum
  <2>3. Sum(ByPlaces(J, p, v), J) = Form(n, a, Hankel(n, v), b)
    BY <1>1, <2>2, WeighedProduct
  <2>4. ByPlaces(J, p, v) = ByPlaces(J, v, p)
    BY <1>1, <1>2, <2>2, ByPlacesCommutes DEF Ints, Integral
  <2>5. QED
    BY <1>1, <2>1, <2>3, <2>4 DEF Deep
<1>4. ByRows(J, h, p) = [i \in J |-> Form(n, a, Deep(n, w, i), b)]
  BY <1>3 DEF ByRows
<1>5. QED
  BY <1>1, <1>4 DEF Form, Triple

LEMMA TriAssociates ==
  ASSUME NEW n \in Nat, n > 1, NEW a, NEW b, NEW c, Integral(n, a), Integral(n, b), Integral(n, c)
  PROVE  TriTimes(n, TriTimes(n, a, b), c) = TriTimes(n, a, TriTimes(n, b, c))
<1>1. PICK p, r : p = TriTimes(n, a, b) /\ r = TriTimes(n, b, c)
  OBVIOUS
<1>2. Integral(n, p) /\ Integral(n, r)
  BY <1>1, TriType
<1>3. ASSUME NEW k \in Places(n) PROVE TriTimes(n, p, c)[k] = TriTimes(n, a, r)[k]
  <2>1. PICK w, h : w = Spike(n, k) /\ h = Hankel(n, w)
    OBVIOUS
  <2>2. Integral(n, w)
    BY <2>1, SpikeSum
  <2>3. Form(n, c, h, p) = Triple(n, w, c, a, b) /\ Form(n, a, h, r) = Triple(n, w, a, b, c)
    BY <1>1, <2>1, <2>2, FormOfProduct
  <2>4. Triple(n, w, c, a, b) = Triple(n, w, a, c, b) /\ Triple(n, w, a, c, b) = Triple(n, w, a, b, c)
    BY <2>2, TripleSwaps
  <2>5. TriTimes(n, c, p)[k] = Form(n, c, h, p) /\ TriTimes(n, a, r)[k] = Form(n, a, h, r)
    BY <1>2, <2>1, TriAsForm
  <2>6. TriTimes(n, p, c) = TriTimes(n, c, p)
    BY <1>2, TriCommutes
  <2>7. QED
    BY <2>3, <2>4, <2>5, <2>6
<1>4. TriTimes(n, p, c) = TriTimes(n, a, r)
  BY <1>3 DEF TriTimes, ByColumns
<1>5. QED
  BY <1>1, <1>4

-----------------------------------------------------------------------------
(***************************************************************************)
(* Products of NTRU Prime modulo q, and how large they are.                *)
(***************************************************************************)
LEMMA TriAt ==
  ASSUME NEW n \in Nat, n > 0, NEW a, NEW b, Integral(n, a), Integral(n, b), NEW k \in Places(n)
  PROVE  LET c == [j \in Places(n) |-> Turned(n, b, j, k)]
         IN  /\ Ints(Places(n), c)
             /\ TriTimes(n, a, b)[k] = Sum(ByPlaces(Places(n), a, c), Places(n))
             /\ TriTimes(n, a, b)[k] = Sum(ByPlaces(Places(n), c, a), Places(n))
<1> DEFINE c == [j \in Places(n) |-> Turned(n, b, j, k)]
<1>1. Ints(Places(n), c)
  BY TurnedType DEF Ints
<1>2. Column(Places(n), Moves(n, b), k) = c
  BY DEF Column, Moves
<1> HIDE DEF c
<1>3. TriTimes(n, a, b)[k] = Sum(ByPlaces(Places(n), a, c), Places(n))
  BY <1>2 DEF TriTimes, ByColumns
<1>4. ByPlaces(Places(n), a, c) = ByPlaces(Places(n), c, a)
  BY <1>1, ByPlacesCommutes DEF Ints, Integral
<1>5. QED
  BY <1>1, <1>3, <1>4 DEF c

LEMMA TriUnit ==
  ASSUME NEW n \in Nat, n > 0, NEW b, Integral(n, b), NEW k \in Places(n)
  PROVE  Integral(n, Unit(n)) /\ TriTimes(n, Unit(n), b)[k] = b[k]
<1>1. PICK z \in Places(n) : z = 0
  BY DEF Places
<1>2. Unit(n) = Spike(n, z) /\ Integral(n, Unit(n))
  BY <1>1 DEF Unit, Spike, Integral
<1>3. PICK c : c = [j \in Places(n) |-> Turned(n, b, j, k)]
  OBVIOUS
<1>4. Ints(Places(n), c) /\ TriTimes(n, Unit(n), b)[k] = Sum(ByPlaces(Places(n), c, Unit(n)), Places(n))
  BY <1>2, <1>3, TriAt
<1>5. Sum(ByPlaces(Places(n), c, Spike(n, z)), Places(n)) = c[z]
  BY <1>4, SpikeSum DEF Ints, Integral
<1>6. c[z] = Turned(n, b, 0, k)
  BY <1>1, <1>3
<1>7. Turned(n, b, 0, k) = b[k]
  <2>1. k \in Int /\ 0 <= k /\ k < n
    BY DEF Places
  <2>2. k - 0 = k /\ k + n - 0 \notin Places(n) /\ (k # 0 => k + n - 1 - 0 \notin Places(n))
    BY <2>1 DEF Places
  <2>3. b[k] \in Int
    BY DEF Integral
  <2>4. QED
    BY <2>2, <2>3 DEF Turned, Inside
<1>8. QED
  BY <1>2, <1>4, <1>5, <1>6, <1>7

LEMMA TriSplit ==
  ASSUME NEW n \in Nat, n > 0, NEW q \in Nat, NEW x, NEW e, NEW t, NEW b,
         Integral(n, x), Integral(n, e), Integral(n, t), Integral(n, b), Splits(q, Places(n), x, e, t)
  PROVE  \A k \in Places(n) : Cong(q, TriTimes(n, x, b)[k], TriTimes(n, e, b)[k] + TriTimes(n, t, b)[k])
<1>1. SUFFICES ASSUME NEW k \in Places(n)
               PROVE  Cong(q, TriTimes(n, x, b)[k], TriTimes(n, e, b)[k] + TriTimes(n, t, b)[k])
  OBVIOUS
<1>2. PICK c : c = [j \in Places(n) |-> Turned(n, b, j, k)]
  OBVIOUS
<1>3. /\ Ints(Places(n), c)
      /\ TriTimes(n, x, b)[k] = Sum(ByPlaces(Places(n), c, x), Places(n))
      /\ TriTimes(n, e, b)[k] = Sum(ByPlaces(Places(n), c, e), Places(n))
      /\ TriTimes(n, t, b)[k] = Sum(ByPlaces(Places(n), c, t), Places(n))
  BY <1>2, TriAt
<1>4. IsFiniteSet(Places(n)) /\ Ints(Places(n), e) /\ Ints(Places(n), t)
  BY PlacesFinite DEF Ints, Integral
<1>5. Cong(q, Sum(ByPlaces(Places(n), c, x), Places(n)),
           Sum(ByPlaces(Places(n), c, e), Places(n)) + Sum(ByPlaces(Places(n), c, t), Places(n)))
  BY <1>3, <1>4, PointwiseSplit
<1>6. QED
  BY <1>3, <1>5

LEMMA TriSame ==
  ASSUME NEW n \in Nat, n > 0, NEW q \in Nat, NEW x, NEW y, NEW b,
         Integral(n, x), Integral(n, y), Integral(n, b), Same(n, q, x, y)
  PROVE  Same(n, q, TriTimes(n, x, b), TriTimes(n, y, b))
<1>1. PICK z : z = [j \in Places(n) |-> 0]
  OBVIOUS
<1>2. Integral(n, z) /\ \A j \in Places(n) : z[j] = 0
  BY <1>1 DEF Integral
<1>3. Splits(q, Places(n), x, y, z)
  <2>1. ASSUME NEW j \in Places(n) PROVE x[j] \in Int /\ Cong(q, x[j], y[j] + z[j])
    <3>1. x[j] \in Int /\ y[j] \in Int /\ Cong(q, x[j], y[j])
      BY DEF Integral, Same
    <3>2. y[j] + z[j] = y[j]
      BY <1>2, <3>1
    <3>3. QED
      BY <3>1, <3>2
  <2>2. QED
    BY <2>1 DEF Splits
<1>4. ASSUME NEW k \in Places(n) PROVE Cong(q, TriTimes(n, x, b)[k], TriTimes(n, y, b)[k])
  <2>1. Cong(q, TriTimes(n, x, b)[k], TriTimes(n, y, b)[k] + TriTimes(n, z, b)[k])
    BY <1>2, <1>3, TriSplit
  <2>2. PICK c, p : c = [j \in Places(n) |-> Turned(n, b, j, k)] /\ p = ByPlaces(Places(n), z, c)
    OBVIOUS
  <2>3. Ints(Places(n), c) /\ TriTimes(n, z, b)[k] = Sum(p, Places(n))
    BY <1>2, <2>2, TriAt
  <2>4. \A j \in Places(n) : p[j] = 0
    BY <1>2, <2>2, <2>3 DEF ByPlaces, Ints
  <2>5. TriTimes(n, z, b)[k] = 0
    BY <2>3, <2>4, PlacesFinite, SumOfZeros DEF Sum
  <2>6. TriTimes(n, y, b)[k] \in Int
    BY TriType DEF Integral
  <2>7. TriTimes(n, y, b)[k] + TriTimes(n, z, b)[k] = TriTimes(n, y, b)[k]
    BY <2>5, <2>6
  <2>8. QED
    BY <2>1, <2>7
<1>5. QED
  BY <1>4 DEF Same

LEMMA TriScaled ==
  ASSUME NEW n \in Nat, n > 1, NEW a, NEW f, NEW t, NEW z \in Int, Integral(n, a), Integral(n, f),
         \A j \in Places(n) : t[j] = z * f[j]
  PROVE  Integral(n, t) /\ \A k \in Places(n) : TriTimes(n, a, t)[k] = z * TriTimes(n, a, f)[k]
<1>1. Integral(n, t)
  BY DEF Integral
<1>2. ASSUME NEW k \in Places(n) PROVE TriTimes(n, t, a)[k] = z * TriTimes(n, f, a)[k]
  <2>1. PICK c, h : c = [j \in Places(n) |-> Turned(n, a, j, k)] /\ h = ByPlaces(Places(n), t, c)
    OBVIOUS
  <2>2. /\ Ints(Places(n), c) /\ TriTimes(n, t, a)[k] = Sum(h, Places(n))
        /\ TriTimes(n, f, a)[k] = Sum(ByPlaces(Places(n), f, c), Places(n))
    BY <1>1, <2>1, TriAt
  <2>3. ASSUME NEW j \in Places(n) PROVE h[j] = z * (f[j] * c[j])
    <3>1. PICK x \in Int, y \in Int : x = f[j] /\ y = c[j]
      BY <2>2 DEF Integral, Ints
    <3>2. h[j] = (z * x) * y
      BY <2>1, <3>1 DEF ByPlaces
    <3>3. (z * x) * y = z * (x * y)
      OBVIOUS
    <3>4. QED
      BY <3>1, <3>2, <3>3
  <2>4. IsFiniteSet(Places(n)) /\ Ints(Places(n), f)
    BY PlacesFinite DEF Ints, Integral
  <2>5. Sum(h, Places(n)) = z * Sum(ByPlaces(Places(n), f, c), Places(n))
    BY <2>2, <2>3, <2>4, PointwiseScaled
  <2>6. QED
    BY <2>2, <2>5
<1>3. TriTimes(n, a, t) = TriTimes(n, t, a) /\ TriTimes(n, a, f) = TriTimes(n, f, a)
  BY <1>1, TriCommutes
<1>4. QED
  BY <1>1, <1>2, <1>3

\* A sum of numbers no larger than two.
LEMMA SumBounded ==
  ASSUME NEW J, IsFiniteSet(J), NEW f, \A x \in J : f[x] \in -2 .. 2
  PROVE  /\ SumFunctionOnSet(f, J) \in Int /\ Cardinality(J) \in Nat
         /\ -(2 * Cardinality(J)) <= SumFunctionOnSet(f, J) /\ SumFunctionOnSet(f, J) <= 2 * Cardinality(J)
<1> DEFINE Held(s) == -(2 * Cardinality(s)) <= SumFunctionOnSet(f, s) /\ SumFunctionOnSet(f, s) <= 2 * Cardinality(s)
           V == {s \in SUBSET J : Held(s)}
<1>1. \A s \in SUBSET J : IsFiniteSet(s) /\ Cardinality(s) \in Nat /\ SumFunctionOnSet(f, s) \in Int
  <2>1. SUFFICES ASSUME NEW s \in SUBSET J
                 PROVE  IsFiniteSet(s) /\ Cardinality(s) \in Nat /\ SumFunctionOnSet(f, s) \in Int
    OBVIOUS
  <2>2. IsFiniteSet(s) /\ \A x \in s : f[x] \in Int
    BY FS_Subset
  <2>3. QED
    BY <2>2, FS_CardinalityType, SumType
<1>2. {} \in V
  <2>1. SumFunctionOnSet(f, {}) = 0 /\ Cardinality({}) = 0
    BY SumEmpty, FS_EmptySet
  <2>2. QED
    BY <2>1
<1>3. ASSUME NEW s \in SUBSET J, s # {}, \A x \in s : s \ {x} \in V
      PROVE  s \in V
  <2>1. PICK x \in s : TRUE
    BY <1>3
  <2>2. PICK r : r = s \ {x}
    OBVIOUS
  <2>3. r \in V
    BY <1>3, <2>2
  <2>4. IsFiniteSet(s) /\ (\A y \in s : f[y] \in Int) /\ f[x] \in -2 .. 2
    BY <1>1
  <2>5. SumFunctionOnSet(f, s) = f[x] + SumFunctionOnSet(f, r)
    BY <2>2, <2>4, SumRemove
  <2>6. Cardinality(r) = Cardinality(s) - 1
    BY <2>2, <2>4, FS_RemoveElement
  <2>7. PICK c \in Nat, d \in Nat, u \in Int, v \in Int, y \in -2 .. 2 :
          c = Cardinality(s) /\ d = Cardinality(r) /\ u = SumFunctionOnSet(f, s) /\ v = SumFunctionOnSet(f, r) /\ y = f[x]
    <3>1. r \in SUBSET J
      BY <2>2
    <3>2. QED
      BY <1>1, <2>4, <3>1
  <2>8. -(2 * d) <= v /\ v <= 2 * d
    BY <2>3, <2>7
  <2>9. u = y + v /\ d = c - 1
    BY <2>5, <2>6, <2>7
  <2>10. -(2 * c) <= u /\ u <= 2 * c
    BY <2>8, <2>9
  <2>11. QED
    BY <2>7, <2>10
<1>4. \A s \in SUBSET J : s \in V
  <2> HIDE DEF V
  <2>1. \A s \in SUBSET J : s # {} /\ (\A x \in s : s \ {x} \in V) => s \in V
    BY <1>3
  <2>2. QED
    BY <1>2, <2>1, SetInduction
<1>5. QED
  BY <1>1, <1>4

\* A polynomial of few coefficients -1, 0 and 1 times one of any number.
LEMMA TriBound ==
  ASSUME NEW n \in Nat, n > 1, NEW a \in [Places(n) -> -1 .. 1], NEW b \in [Places(n) -> -1 .. 1],
         NEW k \in Places(n), NEW v \in Nat, Cardinality({i \in Places(n) : a[i] % 2 = 1}) = v
  PROVE  TriTimes(n, a, b)[k] \in Int /\ -(2 * v) <= TriTimes(n, a, b)[k] /\ TriTimes(n, a, b)[k] <= 2 * v
<1>0. \A j \in Places(n) : j \in Int /\ 0 <= j /\ j < n
  BY DEF Places
<1>1. Integral(n, a) /\ Integral(n, b)
  BY DEF Integral
<1>2. PICK c, f, S : /\ c = [j \in Places(n) |-> Turned(n, b, j, k)] /\ f = ByPlaces(Places(n), a, c)
                     /\ S = {i \in Places(n) : a[i] % 2 = 1}
  OBVIOUS
<1>3. TriTimes(n, a, b)[k] = SumFunctionOnSet(f, Places(n))
  BY <1>1, <1>2, TriAt DEF Sum
<1>4. ASSUME NEW j \in Places(n) PROVE c[j] \in -2 .. 2
  <2>1. \A x : Inside(n, b, x) \in -1 .. 1
    BY DEF Inside
  <2>2. PICK x \in -1 .. 1, y \in -1 .. 1, z \in -1 .. 1 :
          x = Inside(n, b, k - j) /\ y = Inside(n, b, k + n - j) /\ z = Inside(n, b, k + n - 1 - j)
    BY <2>1
  <2>3. c[j] = x + y + (IF k = 0 THEN 0 ELSE z)
    BY <1>2, <2>2 DEF Turned
  <2>4. x = 0 \/ y = 0
    <3>1. k - j \notin Places(n) \/ k + n - j \notin Places(n)
      BY <1>0 DEF Places
    <3>2. QED
      BY <2>2, <3>1 DEF Inside
  <2>5. QED
    BY <2>3, <2>4
<1>5. ASSUME NEW j \in Places(n) PROVE f[j] \in -2 .. 2 /\ (j \notin S => f[j] = 0)
  <2>1. PICK x \in -1 .. 1, y \in -2 .. 2 : x = a[j] /\ y = c[j]
    BY <1>4
  <2>2. f[j] = x * y
    BY <1>2, <2>1 DEF ByPlaces
  <2>3. x = -1 \/ x = 0 \/ x = 1
    OBVIOUS
  <2>4. x * y \in -2 .. 2
    BY <2>3
  <2>5. j \notin S => x = 0
    <3>1. PICK one \in Int, two \in Nat, minus \in Int : one = 1 /\ two = 2 /\ minus = -1
      OBVIOUS
    <3>2. one = two * 0 + one /\ minus = two * (-1) + one /\ two > 0 /\ 0 <= one /\ one < two
      BY <3>1
    <3>3. one % two = one /\ minus % two = one
      BY <3>2, DivModUnique
    <3>4. QED
      BY <1>2, <2>1, <2>3, <3>1, <3>3
  <2>6. QED
    BY <2>2, <2>4, <2>5
<1>6. IsFiniteSet(Places(n)) /\ S \in SUBSET Places(n) /\ IsFiniteSet(S)
  BY <1>2, PlacesFinite, FS_Subset
<1>7. SumFunctionOnSet(f, Places(n)) = SumFunctionOnSet(f, S)
  <2>1. (\A x \in S : f[x] \in Int) /\ \A x \in Places(n) \ S : f[x] = 0
    BY <1>5, <1>6
  <2>2. QED
    BY <1>6, <2>1, SumWhere
<1>8. /\ SumFunctionOnSet(f, S) \in Int
      /\ -(2 * Cardinality(S)) <= SumFunctionOnSet(f, S) /\ SumFunctionOnSet(f, S) <= 2 * Cardinality(S)
  <2>1. \A x \in S : f[x] \in -2 .. 2
    BY <1>5, <1>6
  <2>2. QED
    BY <1>6, <2>1, SumBounded
<1>9. QED
  BY <1>2, <1>3, <1>7, <1>8

\* A residue centred, for a modulus of either kind.
CentredOf(x, m) == ((x + (m - 1) \div 2) % m) - ((m - 1) \div 2)

LEMMA CentredType ==
  ASSUME NEW m \in Nat, m > 0, NEW x \in Int
  PROVE  /\ CentredOf(x, m) \in Int /\ Cong(m, CentredOf(x, m), x)
         /\ -((m - 1) \div 2) <= CentredOf(x, m) /\ CentredOf(x, m) < m - (m - 1) \div 2
<1>1. PICK h \in Int : h = (m - 1) \div 2
  OBVIOUS
<1>2. PICK u \in Int : u = x + h
  OBVIOUS
<1>3. u % m \in 0 .. m - 1 /\ Cong(m, u % m, u)
  BY CongMod
<1>4. PICK r \in 0 .. m - 1 : r = u % m
  BY <1>3
<1>5. Cong(m, r - h, u - h)
  BY <1>3, <1>4, CongRefl, CongAdd
<1>6. CentredOf(x, m) = r - h /\ u - h = x
  BY <1>1, <1>2, <1>4 DEF CentredOf
<1>7. QED
  BY <1>1, <1>4, <1>5, <1>6

LEMMA CentredIs ==
  ASSUME NEW m \in Nat, m > 0, NEW x \in Int, NEW y \in Int, Cong(m, x, y),
         -((m - 1) \div 2) <= y, y < m - (m - 1) \div 2
  PROVE  CentredOf(x, m) = y
<1>1. PICK h \in Int : h = (m - 1) \div 2
  OBVIOUS
<1>2. PICK u \in Int, v \in Int : u = x + h /\ v = y + h
  OBVIOUS
<1>3. Cong(m, u, v)
  BY <1>1, <1>2, CongRefl, CongAdd
<1>4. u % m = v % m
  BY <1>3, CongSame
<1>5. 0 <= v /\ v < m /\ v = m * 0 + v
  BY <1>1, <1>2
<1>6. v % m = v
  BY <1>5, DivModUnique
<1>7. CentredOf(x, m) = (u % m) - h
  BY <1>1, <1>2 DEF CentredOf
<1>8. QED
  BY <1>2, <1>4, <1>6, <1>7

-----------------------------------------------------------------------------
(***************************************************************************)
(* The model's product is TriTimes, centred.                               *)
(***************************************************************************)
LEMMA PrimeSums == \A f, S : Prime!SumFunctionOnSet(f, S) = SumFunctionOnSet(f, S)
BY Zenon DEF Prime!SumFunctionOnSet, SumFunctionOnSet, Prime!FoldFunctionOnSet, FoldFunctionOnSet,
             Prime!MapThenFoldSet, MapThenFoldSet

LEMMA PrimeValue == ASSUME NEW x PROVE Prime!Value(x) = x
<1>1. \E v \in {x} : v = x
  OBVIOUS
<1>2. QED
  BY <1>1, Zenon DEF Prime!Value

LEMMA PrimePlaces == Prime!Exps = Places(PrimeP)
BY DEF Prime!Exps, Places

\* The part of a product at place s, before the places at n and above return.
Part(n, a, b, s) == [j \in Places(n) |-> IF s - j \in Places(n) THEN a[j] * b[s - j] ELSE 0]
Flat(n, a, b) == [s \in 0 .. 2 * n - 1 |-> SumFunctionOnSet(Part(n, a, b, s), Places(n))]

LEMMA TriFolds ==
  ASSUME NEW n \in Nat, n > 1, NEW a, NEW b, Integral(n, a), Integral(n, b), NEW k \in Places(n)
  PROVE  TriTimes(n, a, b)[k]
           = Flat(n, a, b)[k] + Flat(n, a, b)[k + n] + (IF k = 0 THEN 0 ELSE Flat(n, a, b)[k + n - 1])
<1>0. k \in Int /\ 0 <= k /\ k < n /\ IsFiniteSet(Places(n))
  BY PlacesFinite DEF Places
<1>1. PICK c, f : c = [j \in Places(n) |-> Turned(n, b, j, k)] /\ f = ByPlaces(Places(n), a, c)
  OBVIOUS
<1>2. Ints(Places(n), c) /\ TriTimes(n, a, b)[k] = SumFunctionOnSet(f, Places(n))
  BY <1>1, TriAt DEF Sum
<1>3. PICK f1, f2, f3 : /\ f1 = Part(n, a, b, k) /\ f2 = Part(n, a, b, k + n)
                        /\ f3 = IF k = 0 THEN [j \in Places(n) |-> 0] ELSE Part(n, a, b, k + n - 1)
  OBVIOUS
<1>4. ASSUME NEW s \in Int, NEW j \in Places(n)
      PROVE  Part(n, a, b, s)[j] \in Int /\ Part(n, a, b, s)[j] = a[j] * Inside(n, b, s - j)
  <2>1. PICK x \in Int : x = a[j]
    BY DEF Integral
  <2>0. PICK v : v = s - j
    OBVIOUS
  <2>2. Part(n, a, b, s)[j] = IF v \in Places(n) THEN x * b[v] ELSE 0
    BY <2>1, <2>0 DEF Part
  <2>3. CASE v \in Places(n)
    <3>1. PICK y \in Int : y = b[v]
      BY <2>3 DEF Integral
    <3>2. QED
      BY <2>1, <2>2, <2>3, <2>0, <3>1 DEF Inside
  <2>4. CASE v \notin Places(n)
    BY <2>1, <2>2, <2>4, <2>0 DEF Inside
  <2>5. QED
    BY <2>3, <2>4
<1>5. ASSUME NEW j \in Places(n)
      PROVE  /\ f1[j] \in Int /\ f2[j] \in Int /\ f3[j] \in Int /\ f[j] \in Int
             /\ f[j] = f1[j] + f2[j] + f3[j]
  <2>1. \A x : Inside(n, b, x) \in Int
    BY DEF Inside, Integral
  <2>2. PICK x \in Int, u \in Int, v \in Int, w \in Int :
          /\ x = a[j] /\ u = Inside(n, b, k - j) /\ v = Inside(n, b, k + n - j)
          /\ w = IF k = 0 THEN 0 ELSE Inside(n, b, k + n - 1 - j)
    <3>1. 0 \in Int /\ a[j] \in Int
      BY DEF Integral
    <3>2. QED
      BY <2>1, <3>1
  <2>3. c[j] = u + v + w
    BY <1>1, <2>2 DEF Turned
  <2>4. f[j] = x * (u + v + w)
    BY <1>1, <2>2, <2>3 DEF ByPlaces
  <2>5. f1[j] = x * u /\ f1[j] \in Int /\ f2[j] = x * v /\ f2[j] \in Int
    <3>1. /\ Part(n, a, b, k)[j] \in Int /\ Part(n, a, b, k)[j] = a[j] * Inside(n, b, k - j)
          /\ Part(n, a, b, k + n)[j] \in Int /\ Part(n, a, b, k + n)[j] = a[j] * Inside(n, b, k + n - j)
      <4>1. k + n \in Int
        BY <1>0
      <4>2. QED
        BY <1>0, <1>4, <4>1
    <3>2. QED
      BY <1>3, <2>2, <3>1
  <2>6. f3[j] = x * w /\ f3[j] \in Int
    <3>1. CASE k = 0
      <4>1. f3[j] = 0 /\ w = 0 /\ x * w = 0
        BY <1>3, <2>2, <3>1
      <4>2. QED
        BY <4>1
    <3>2. CASE k # 0
      <4>1. /\ Part(n, a, b, k + n - 1)[j] \in Int
            /\ Part(n, a, b, k + n - 1)[j] = a[j] * Inside(n, b, k + n - 1 - j)
        <5>1. PICK s \in Int : s = k + n - 1
          BY <1>0
        <5>2. Part(n, a, b, s)[j] \in Int /\ Part(n, a, b, s)[j] = a[j] * Inside(n, b, s - j)
          BY <1>4
        <5>3. s - j = k + n - 1 - j
          BY <1>0, <5>1 DEF Places
        <5>4. QED
          BY <5>1, <5>2, <5>3, Zenon
      <4>2. QED
        BY <1>3, <2>2, <3>2, <4>1
    <3>3. QED
      BY <3>1, <3>2
  <2>7. x * (u + v + w) = x * u + x * v + x * w /\ x * (u + v + w) \in Int
    OBVIOUS
  <2>8. QED
    BY <2>4, <2>5, <2>6, <2>7
<1>6. SumFunctionOnSet(f, Places(n))
        = SumFunctionOnSet(f1, Places(n)) + SumFunctionOnSet(f2, Places(n)) + SumFunctionOnSet(f3, Places(n))
  BY <1>0, <1>5, SumOfThree
<1>7. Flat(n, a, b)[k] = SumFunctionOnSet(f1, Places(n)) /\ Flat(n, a, b)[k + n] = SumFunctionOnSet(f2, Places(n))
  BY <1>0, <1>3 DEF Flat
<1>8. (IF k = 0 THEN 0 ELSE Flat(n, a, b)[k + n - 1]) = SumFunctionOnSet(f3, Places(n))
  <2>1. CASE k = 0
    BY <1>0, <1>3, <2>1, SumOfZeros
  <2>2. CASE k # 0
    BY <1>0, <1>3, <2>2 DEF Flat
  <2>3. QED
    BY <2>1, <2>2
<1>9. QED
  BY <1>2, <1>6, <1>7, <1>8

LEMMA PrimeMult ==
  ASSUME PrimeP \in Nat, PrimeP > 1, NEW a, NEW b, NEW m, Integral(PrimeP, a), Integral(PrimeP, b)
  PROVE  Prime!Mult(a, b, m) = [k \in Places(PrimeP) |-> CentredOf(TriTimes(PrimeP, a, b)[k], m)]
<1>1. PICK n, ab : n = PrimeP /\ n > 1 /\ n \in Nat /\ ab = Flat(n, a, b)
  OBVIOUS
<1>2. Prime!Value([k \in 0 .. 2 * PrimeP - 1 |->
               Prime!SumFunctionOnSet([j \in Prime!Exps |-> IF k - j \in Prime!Exps THEN a[j] * b[k - j] ELSE 0], Prime!Exps)])
        = [k \in 0 .. 2 * n - 1 |->
               Prime!SumFunctionOnSet([j \in Prime!Exps |-> IF k - j \in Prime!Exps THEN a[j] * b[k - j] ELSE 0], Prime!Exps)]
  BY <1>1, PrimeValue, Zenon
<1>3. ab = [k \in 0 .. 2 * n - 1 |->
               Prime!SumFunctionOnSet([j \in Prime!Exps |-> IF k - j \in Prime!Exps THEN a[j] * b[k - j] ELSE 0], Prime!Exps)]
  BY <1>1, PrimeSums, PrimePlaces, Zenon DEF Flat, Part
<1>4. Prime!Mult(a, b, m) = Prime!Value([k \in Prime!Exps |->
        Prime!Centre(ab[k] + ab[k + PrimeP] + (IF k = 0 THEN 0 ELSE ab[k + PrimeP - 1]), m)])
  BY <1>2, <1>3, Zenon DEF Prime!Mult
<1>5. Prime!Mult(a, b, m) = [k \in Places(n) |->
        CentredOf(ab[k] + ab[k + n] + (IF k = 0 THEN 0 ELSE ab[k + n - 1]), m)]
  BY <1>1, <1>4, PrimeValue, PrimePlaces, Zenon DEF Prime!Centre, CentredOf
<1>6. \A k \in Places(n) : TriTimes(n, a, b)[k] = ab[k] + ab[k + n] + (IF k = 0 THEN 0 ELSE ab[k + n - 1])
  BY <1>1, TriFolds
<1>7. QED
  BY <1>1, <1>5, <1>6, Zenon

-----------------------------------------------------------------------------
(***************************************************************************)
(* Decryption of NTRU Prime.  With h the quotient of g and 3 f, what 3 f   *)
(* makes of a rounded h r is r g and three times a sum of few errors.      *)
(***************************************************************************)
LEMMA TriMiddle ==
  ASSUME NEW n \in Nat, n > 1, NEW a, NEW b, NEW c, Integral(n, a), Integral(n, b), Integral(n, c)
  PROVE  TriTimes(n, TriTimes(n, a, b), c) = TriTimes(n, TriTimes(n, a, c), b)
<1>1. TriTimes(n, TriTimes(n, a, b), c) = TriTimes(n, a, TriTimes(n, b, c))
  BY TriAssociates
<1>2. TriTimes(n, TriTimes(n, a, c), b) = TriTimes(n, a, TriTimes(n, c, b))
  BY TriAssociates
<1>3. TriTimes(n, b, c) = TriTimes(n, c, b)
  BY TriCommutes
<1>4. QED
  BY <1>1, <1>2, <1>3

\* An inverse on the one side undoes the other.
LEMMA TriUndone ==
  ASSUME NEW n \in Nat, n > 1, NEW q \in Nat, NEW d, NEW u, NEW g, Integral(n, d), Integral(n, u), Integral(n, g),
         Same(n, q, TriTimes(n, d, u), Unit(n))
  PROVE  Same(n, q, TriTimes(n, TriTimes(n, u, g), d), g)
<1>1. PICK p, o : p = TriTimes(n, d, u) /\ o = Unit(n)
  OBVIOUS
<1>2. PICK z \in Places(n) : TRUE
  BY DEF Places
<1>3. Integral(n, p) /\ Integral(n, o) /\ Same(n, q, p, o)
  BY <1>1, <1>2, TriType, TriUnit
<1>4. Same(n, q, TriTimes(n, p, g), TriTimes(n, o, g))
  BY <1>3, TriSame
<1>5. TriTimes(n, TriTimes(n, u, g), d) = TriTimes(n, p, g)
  <2>1. TriTimes(n, TriTimes(n, u, g), d) = TriTimes(n, TriTimes(n, u, d), g)
    BY TriMiddle
  <2>2. TriTimes(n, u, d) = p
    BY <1>1, TriCommutes
  <2>3. QED
    BY <2>1, <2>2
<1>6. \A k \in Places(n) : TriTimes(n, o, g)[k] = g[k]
  BY <1>1, TriUnit
<1>7. QED
  BY <1>4, <1>5, <1>6 DEF Same

LEMMA PrimeCancels ==
  ASSUME NEW n \in Nat, n > 1, NEW q \in Nat, NEW d, NEW u, NEW g, NEW h, NEW r,
         Integral(n, d), Integral(n, u), Integral(n, g), Integral(n, h), Integral(n, r),
         Same(n, q, TriTimes(n, d, u), Unit(n)), Same(n, q, h, TriTimes(n, u, g))
  PROVE  Same(n, q, TriTimes(n, TriTimes(n, h, r), d), TriTimes(n, r, g))
<1>1. PICK ug, hd, ugd : ug = TriTimes(n, u, g) /\ hd = TriTimes(n, h, d) /\ ugd = TriTimes(n, ug, d)
  OBVIOUS
<1>2. Integral(n, ug) /\ Integral(n, hd)
  BY <1>1, TriType
<1>3. Integral(n, ugd)
  BY <1>1, <1>2, TriType
<1>4. Same(n, q, hd, ugd)
  BY <1>1, <1>2, TriSame
<1>5. Same(n, q, ugd, g)
  BY <1>1, TriUndone
<1>6. Same(n, q, hd, g)
  BY <1>2, <1>3, <1>4, <1>5, SameTrans
<1>7. Same(n, q, TriTimes(n, hd, r), TriTimes(n, g, r))
  BY <1>2, <1>6, TriSame
<1>8. TriTimes(n, TriTimes(n, h, r), d) = TriTimes(n, hd, r)
  BY <1>1, TriMiddle
<1>9. TriTimes(n, g, r) = TriTimes(n, r, g)
  BY TriCommutes
<1>10. QED
  BY <1>7, <1>8, <1>9

\* What three times a decrypted product is, modulo q.
LEMMA PrimeNoise ==
  ASSUME NEW n \in Nat, n > 1, NEW q \in Nat, NEW f, NEW d, NEW u, NEW g, NEW h, NEW r, NEW e, NEW x, NEW w \in Int,
         Integral(n, f), Integral(n, u), Integral(n, g), Integral(n, h), Integral(n, r), Integral(n, e), Integral(n, x),
         w = 3, \A j \in Places(n) : d[j] = w * f[j],
         Same(n, q, TriTimes(n, d, u), Unit(n)), Same(n, q, h, TriTimes(n, u, g)),
         Splits(q, Places(n), x, e, TriTimes(n, h, r)), NEW k \in Places(n)
  PROVE  Cong(q, w * TriTimes(n, x, f)[k], TriTimes(n, r, g)[k] + w * TriTimes(n, f, e)[k])
<1>1. PICK t : t = TriTimes(n, h, r)
  OBVIOUS
<1>2. Integral(n, t)
  BY <1>1, TriType
<1>3. /\ Integral(n, d) /\ TriTimes(n, x, d)[k] = w * TriTimes(n, x, f)[k]
      /\ TriTimes(n, e, d)[k] = w * TriTimes(n, e, f)[k]
  BY TriScaled
<1>4. Cong(q, TriTimes(n, x, d)[k], TriTimes(n, e, d)[k] + TriTimes(n, t, d)[k])
  BY <1>1, <1>2, <1>3, TriSplit
<1>5. Cong(q, TriTimes(n, t, d)[k], TriTimes(n, r, g)[k])
  <2>1. Same(n, q, TriTimes(n, t, d), TriTimes(n, r, g))
    BY <1>1, <1>3, PrimeCancels
  <2>2. QED
    BY <2>1 DEF Same
<1>6. TriTimes(n, e, f) = TriTimes(n, f, e)
  BY TriCommutes
<1>7. PICK a \in Int, b \in Int, c \in Int, y \in Int, z \in Int :
        /\ a = TriTimes(n, x, d)[k] /\ b = TriTimes(n, e, d)[k] /\ c = TriTimes(n, t, d)[k]
        /\ y = TriTimes(n, r, g)[k] /\ z = TriTimes(n, f, e)[k]
  <2>1. /\ Integral(n, TriTimes(n, x, d)) /\ Integral(n, TriTimes(n, e, d)) /\ Integral(n, TriTimes(n, t, d))
        /\ Integral(n, TriTimes(n, r, g)) /\ Integral(n, TriTimes(n, f, e))
    BY <1>2, <1>3, TriType
  <2>2. QED
    BY <2>1 DEF Integral
<1>8. Cong(q, a, b + c) /\ Cong(q, c, y)
  BY <1>4, <1>5, <1>7
<1>9. Cong(q, b + c, b + y)
  BY <1>8, CongRefl, CongAdd
<1>10. Cong(q, a, b + y)
  <2>1. PICK s \in Int, p \in Int : s = b + c /\ p = b + y
    OBVIOUS
  <2>2. Cong(q, a, s) /\ Cong(q, s, p)
    BY <1>8, <1>9, <2>1
  <2>3. QED
    BY <2>1, <2>2, CongTrans
<1>11. b = w * z /\ a = w * TriTimes(n, x, f)[k]
  BY <1>3, <1>6, <1>7
<1>12. b + y = y + w * z
  BY <1>11
<1>13. QED
  BY <1>7, <1>10, <1>11, <1>12

-----------------------------------------------------------------------------
PrimeSizes == PrimeP \in Nat /\ PrimeP > 1 /\ PrimeQ \in Nat /\ PrimeW \in Nat /\ 16 * PrimeW < PrimeQ

LEMMA PrimeShorts ==
  ASSUME NEW r \in Prime!Short
  PROVE  r \in [Places(PrimeP) -> -1 .. 1] /\ Cardinality({i \in Places(PrimeP) : r[i] % 2 = 1}) = PrimeW
<1>1. r \in Prime!Small /\ Prime!Weight(r) = PrimeW
  BY DEF Prime!Short
<1>2. Prime!Weight(r) = Cardinality({i \in Places(PrimeP) : r[i] % 2 = 1})
  BY PrimePlaces, Zenon DEF Prime!Weight, Prime!Cardinality, Cardinality
<1>3. QED
  BY <1>1, <1>2, PrimePlaces DEF Prime!Small

LEMMA PrimeProduct ==
  ASSUME PrimeSizes, NEW n, n = PrimeP, NEW a, NEW b, Integral(n, a), Integral(n, b), NEW m \in Nat, m > 0
  PROVE  /\ Integral(n, Prime!Mult(a, b, m)) /\ Same(n, m, Prime!Mult(a, b, m), TriTimes(n, a, b))
         /\ (Prime!Mult(a, b, m) = Prime!One => Same(n, m, TriTimes(n, a, b), Unit(n)))
<1>1. n \in Nat /\ n > 1
  BY DEF PrimeSizes
<1>2. PICK t, M : t = TriTimes(n, a, b) /\ M = Prime!Mult(a, b, m)
  OBVIOUS
<1>3. Integral(n, t)
  BY <1>1, <1>2, TriType
<1>4. M = [k \in Places(n) |-> CentredOf(t[k], m)]
  BY <1>1, <1>2, PrimeMult
<1>5. \A k \in Places(n) : M[k] \in Int /\ Cong(m, M[k], t[k])
  <2>1. SUFFICES ASSUME NEW k \in Places(n) PROVE M[k] \in Int /\ Cong(m, M[k], t[k])
    OBVIOUS
  <2>2. PICK x \in Int : x = t[k]
    BY <1>3 DEF Integral
  <2>3. CentredOf(x, m) \in Int /\ Cong(m, CentredOf(x, m), x)
    BY CentredType
  <2>4. QED
    BY <1>4, <2>2, <2>3
<1>6. Integral(n, M) /\ Same(n, m, M, t)
  BY <1>5 DEF Integral, Same
<1>7. ASSUME M = Prime!One PROVE Same(n, m, t, Unit(n))
  <2>1. M = Unit(n)
    BY <1>7, PrimePlaces, Zenon DEF Prime!One, Unit
  <2>2. QED
    BY <1>1, <1>3, <1>6, <2>1, SameSym
<1>8. QED
  BY <1>2, <1>6, <1>7

\* What a product is congruent to is what it is, where that is a trit.
LEMMA PrimeRight ==
  ASSUME PrimeSizes, NEW n, n = PrimeP, NEW m \in Nat, m = 3, NEW c, NEW v, NEW r, NEW g,
         Integral(n, c), Integral(n, v), Integral(n, g), r \in [Places(n) -> -1 .. 1],
         Same(n, m, c, TriTimes(n, r, g)), Same(n, m, TriTimes(n, g, v), Unit(n))
  PROVE  Prime!Mult(c, v, m) = r
<1>1. n \in Nat /\ n > 1
  BY DEF PrimeSizes
<1>2. Integral(n, r)
  BY DEF Integral
<1>3. PICK rg, t, s : rg = TriTimes(n, r, g) /\ t = TriTimes(n, c, v) /\ s = TriTimes(n, rg, v)
  OBVIOUS
<1>4. Integral(n, rg) /\ Integral(n, t)
  BY <1>1, <1>2, <1>3, TriType
<1>5. Integral(n, s) /\ Same(n, m, t, s)
  BY <1>1, <1>3, <1>4, TriType, TriSame
<1>6. Same(n, m, s, r)
  <2>1. Same(n, m, TriTimes(n, TriTimes(n, v, r), g), r)
    BY <1>1, <1>2, TriUndone
  <2>2. TriTimes(n, TriTimes(n, v, r), g) = TriTimes(n, TriTimes(n, r, v), g)
    <3>1. TriTimes(n, v, r) = TriTimes(n, r, v)
      BY <1>1, <1>2, TriCommutes
    <3>2. QED
      BY <3>1
  <2>3. TriTimes(n, TriTimes(n, r, v), g) = s
    BY <1>1, <1>2, <1>3, TriMiddle
  <2>4. QED
    BY <2>1, <2>2, <2>3
<1>7. Same(n, m, t, r)
  BY <1>1, <1>2, <1>4, <1>5, <1>6, SameTrans
<1>8. ASSUME NEW k \in Places(n) PROVE CentredOf(t[k], m) = r[k]
  <2>1. PICK x \in Int, y \in Int : x = t[k] /\ y = r[k]
    BY <1>2, <1>4 DEF Integral
  <2>2. Cong(m, x, y)
    BY <1>7, <2>1 DEF Same
  <2>3. -1 <= y /\ y <= 1
    BY <2>1
  <2>4. (m - 1) \div 2 = 1
    BY Z3
  <2>5. -((m - 1) \div 2) <= y /\ y < m - (m - 1) \div 2
    BY <2>3, <2>4
  <2>6. CentredOf(x, m) = y
    BY <2>2, <2>5, CentredIs
  <2>7. QED
    BY <2>1, <2>6
<1>9. Prime!Mult(c, v, m) = [k \in Places(n) |-> CentredOf(t[k], m)]
  BY <1>1, <1>3, PrimeMult
<1>10. QED
  BY <1>8, <1>9

\* Rounding, and decryption, by places.
LEMMA PrimeRounds ==
  ASSUME PrimeSizes, NEW n, n = PrimeP, NEW q, q = PrimeQ, NEW r, NEW h, Integral(n, r), Integral(n, h),
         NEW x, x = Prime!Encrypt(r, h)
  PROVE  /\ Integral(n, x)
         /\ \E e \in [Places(n) -> -1 .. 1] : Splits(q, Places(n), x, e, TriTimes(n, h, r))
<1>1. PICK M : M = Prime!Mult(h, r, q)
  OBVIOUS
<1>2. Integral(n, M) /\ Same(n, q, M, TriTimes(n, h, r)) /\ q \in Nat /\ n \in Nat
  BY <1>1, PrimeProduct DEF PrimeSizes
<1>3. x = [k \in Places(n) |-> M[k] - CentredOf(M[k], 3)]
  BY <1>1, PrimePlaces, Zenon DEF Prime!Encrypt, Prime!Round, Prime!Centre, CentredOf
<1>4. PICK e : e = [k \in Places(n) |-> -CentredOf(M[k], 3)]
  OBVIOUS
<1>5. ASSUME NEW k \in Places(n)
      PROVE  e[k] \in -1 .. 1 /\ x[k] \in Int /\ Cong(q, x[k], e[k] + TriTimes(n, h, r)[k])
  <2>1. PICK y \in Int, z \in Int : y = M[k] /\ z = TriTimes(n, h, r)[k]
    <3>1. Integral(n, TriTimes(n, h, r))
      BY <1>2, TriType DEF PrimeSizes
    <3>2. QED
      BY <1>2, <3>1 DEF Integral
  <2>2. PICK t \in Nat : t = 3
    OBVIOUS
  <2>3. /\ CentredOf(y, t) \in Int /\ -((t - 1) \div 2) <= CentredOf(y, t)
        /\ CentredOf(y, t) < t - (t - 1) \div 2
    BY <2>2, CentredType
  <2>4. (t - 1) \div 2 = 1
    BY <2>2, Z3
  <2>5. PICK c \in Int : c = CentredOf(y, 3) /\ -1 <= c /\ c <= 1
    BY <2>2, <2>3, <2>4
  <2>6. x[k] = y - c /\ e[k] = -c
    BY <1>3, <1>4, <2>1, <2>5
  <2>7. Cong(q, y, z)
    BY <1>2, <2>1 DEF Same
  <2>8. Cong(q, y - c, z - c)
    BY <1>2, <2>7, CongRefl, CongAdd
  <2>9. z - c = -c + z
    OBVIOUS
  <2>10. QED
    BY <2>1, <2>5, <2>6, <2>8, <2>9
<1>6. e \in [Places(n) -> -1 .. 1]
  BY <1>4, <1>5
<1>7. Splits(q, Places(n), x, e, TriTimes(n, h, r)) /\ Integral(n, x)
  BY <1>5 DEF Splits, Integral
<1>8. QED
  BY <1>6, <1>7

-----------------------------------------------------------------------------
\* The key pair, and what its inversions returned.
LEMMA PrimeKeys ==
  ASSUME NEW f, NEW g, Prime!InversionsReturn(f, g), NEW n, n = PrimeP, NEW q, q = PrimeQ,
         NEW kp, kp = Prime!KeyPair(f, g)
  PROVE  \E u, d : /\ kp.f = f /\ kp.h = Prime!Mult(u, g, q)
                   /\ Integral(n, kp.ginv) /\ Prime!Mult(g, kp.ginv, 3) = Prime!One
                   /\ Integral(n, u) /\ d = [i \in Places(n) |-> 3 * f[i]] /\ Prime!Mult(d, u, q) = Prime!One
<1>1. PICK end : end = Prime!F3!Steps(Prime!Reversed(g, 3), 1, 2 * PrimeP - 1)
  OBVIOUS
<1>2. PICK u, d, v : /\ u = Prime!RqRecip3(f) /\ d = [i \in Prime!Exps |-> 3 * f[i]] /\ v = Prime!R3Recip(end)
  OBVIOUS
<1>3. /\ Prime!R3Invertible(end) /\ v \in [Prime!Exps -> Int] /\ Prime!Mult(g, v, 3) = Prime!One
      /\ u \in [Prime!Exps -> Int] /\ Prime!Mult(d, u, q) = Prime!One
  BY <1>1, <1>2, Zenon DEF Prime!InversionsReturn
<1>4. kp = [f |-> f, ginv |-> v, h |-> Prime!Mult(u, g, q)]
  BY <1>1, <1>2, <1>3, Zenon DEF Prime!KeyPair
<1>5. kp.f = f /\ kp.ginv = v /\ kp.h = Prime!Mult(u, g, q)
  BY <1>4
<1>6. Integral(n, v) /\ Integral(n, u)
  BY <1>3, PrimePlaces DEF Integral
<1>7. d = [i \in Places(n) |-> 3 * f[i]]
  BY <1>2, PrimePlaces, Zenon
<1>8. QED
  BY <1>3, <1>5, <1>6, <1>7, Zenon

\* Nothing wraps: three products of few trits stay below half of q.
LEMMA PrimeFits ==
  ASSUME PrimeSizes, NEW n, n = PrimeP, NEW q, q = PrimeQ, NEW f \in Prime!Short, NEW r \in Prime!Short,
         NEW g \in Prime!Small, NEW e \in [Places(n) -> -1 .. 1], NEW k \in Places(n), NEW x \in Int, NEW w \in Int, w = 3,
         Cong(q, x, TriTimes(n, r, g)[k] + w * TriTimes(n, f, e)[k])
  PROVE  CentredOf(x, q) \in Int /\ Cong(3, CentredOf(x, q), TriTimes(n, r, g)[k])
<1>1. n \in Nat /\ n > 1 /\ q \in Nat /\ PrimeW \in Nat /\ q > 16 * PrimeW
  BY DEF PrimeSizes
<1>2. g \in [Places(n) -> -1 .. 1]
  BY PrimePlaces DEF Prime!Small
<1>3. PICK y \in Int, z \in Int : y = TriTimes(n, r, g)[k] /\ z = TriTimes(n, f, e)[k]
                                  /\ -(2 * PrimeW) <= y /\ y <= 2 * PrimeW
                                  /\ -(2 * PrimeW) <= z /\ z <= 2 * PrimeW
  BY <1>1, <1>2, PrimeShorts, TriBound
<1>4. PICK s \in Int : s = y + w * z
  OBVIOUS
<1>5. s = y + 3 * z /\ -(8 * PrimeW) <= s /\ s <= 8 * PrimeW
  BY <1>1, <1>3, <1>4
<1>6. Cong(q, x, s)
  BY <1>3, <1>4
<1>7. -((q - 1) \div 2) <= s /\ s < q - (q - 1) \div 2
  <2>1. PICK c \in Int, b \in Int : c = (q - 1) \div 2 /\ b = (q - 1) % 2 /\ 0 <= b /\ b < 2 /\ q - 1 = 2 * c + b
    BY <1>1, Z3
  <2>2. -c <= s /\ s < q - c
    BY <1>1, <1>5, <2>1
  <2>3. QED
    BY <2>1, <2>2
<1>8. CentredOf(x, q) = s
  <2>1. q > 0
    BY <1>1
  <2>2. QED
    BY <1>1, <1>6, <1>7, <2>1, CentredIs
<1>9. Cong(3, s, y)
  BY <1>5 DEF Cong
<1>10. QED
  BY <1>3, <1>8, <1>9

LEMMA PrimeDecrypts ==
  ASSUME PrimeSizes, NEW f \in Prime!Short, NEW g \in Prime!Small, NEW r \in Prime!Short, Prime!InversionsReturn(f, g),
         NEW kp, kp = Prime!KeyPair(f, g)
  PROVE  Prime!Decrypt(kp, Prime!Encrypt(r, kp.h)) = r
<1>a. PICK t \in Nat, w \in Int : t = 3 /\ w = 3
  OBVIOUS
<1>b. PICK n, q : n = PrimeP /\ q = PrimeQ
  OBVIOUS
<1>1. n = PrimeP /\ q = PrimeQ /\ n \in Nat /\ n > 1 /\ q \in Nat /\ q > 0 /\ t = 3 /\ t > 0 /\ w = 3
  BY <1>a, <1>b DEF PrimeSizes
<1>2. /\ f \in [Places(n) -> -1 .. 1] /\ g \in [Places(n) -> -1 .. 1] /\ r \in [Places(n) -> -1 .. 1]
      /\ Integral(n, f) /\ Integral(n, g) /\ Integral(n, r)
  <2>1. f \in [Places(n) -> -1 .. 1] /\ g \in [Places(n) -> -1 .. 1] /\ r \in [Places(n) -> -1 .. 1]
    BY <1>1, PrimeShorts, PrimePlaces DEF Prime!Small
  <2>2. QED
    BY <2>1 DEF Integral
<1>3. PICK h, v : h = kp.h /\ v = kp.ginv
  OBVIOUS
<1>4. PICK u, d : /\ kp.f = f /\ h = Prime!Mult(u, g, q) /\ Integral(n, v) /\ Prime!Mult(g, v, t) = Prime!One
                  /\ Integral(n, u) /\ d = [i \in Places(n) |-> 3 * f[i]] /\ Prime!Mult(d, u, q) = Prime!One
  BY <1>1, <1>3, PrimeKeys
<1>5. Integral(n, d) /\ \A j \in Places(n) : d[j] = w * f[j]
  BY <1>1, <1>2, <1>4 DEF Integral
<1>6. Same(n, q, TriTimes(n, d, u), Unit(n)) /\ Same(n, t, TriTimes(n, g, v), Unit(n))
  BY <1>1, <1>2, <1>4, <1>5, PrimeProduct
<1>7. Integral(n, h) /\ Same(n, q, h, TriTimes(n, u, g))
  BY <1>1, <1>2, <1>4, PrimeProduct
<1>8. PICK x : x = Prime!Encrypt(r, h)
  OBVIOUS
<1>9. Integral(n, x)
  BY <1>1, <1>2, <1>7, <1>8, PrimeRounds
<1>10. PICK e \in [Places(n) -> -1 .. 1] : Splits(q, Places(n), x, e, TriTimes(n, h, r))
  BY <1>1, <1>2, <1>7, <1>8, PrimeRounds
<1>11. Integral(n, e)
  BY DEF Integral
<1>12. PICK M, c3, c : /\ M = Prime!Mult(x, f, q)
                       /\ c3 = [i \in Places(n) |-> CentredOf(3 * M[i], q)]
                       /\ c = [i \in Places(n) |-> CentredOf(c3[i], 3)]
  OBVIOUS
<1>13. Integral(n, M) /\ Same(n, q, M, TriTimes(n, x, f))
  BY <1>1, <1>2, <1>9, <1>12, PrimeProduct
<1>14. ASSUME NEW k \in Places(n) PROVE c[k] \in Int /\ Cong(t, c[k], TriTimes(n, r, g)[k])
  <2>1. PICK y \in Int, z \in Int, a \in Int, b \in Int :
          y = M[k] /\ z = TriTimes(n, x, f)[k] /\ a = TriTimes(n, r, g)[k] /\ b = TriTimes(n, f, e)[k]
    <3>1. Integral(n, TriTimes(n, x, f)) /\ Integral(n, TriTimes(n, r, g)) /\ Integral(n, TriTimes(n, f, e))
      BY <1>1, <1>2, <1>9, <1>11, TriType
    <3>2. QED
      BY <1>13, <3>1 DEF Integral
  <2>2. Cong(q, w * z, a + w * b)
    BY <1>1, <1>2, <1>4, <1>5, <1>6, <1>7, <1>9, <1>10, <1>11, <2>1, PrimeNoise
  <2>3. Cong(q, w * y, w * z)
    <3>1. Cong(q, y, z)
      BY <1>13, <2>1 DEF Same
    <3>2. QED
      BY <1>1, <3>1, CongScale
  <2>4. PICK p \in Int, s \in Int, o \in Int : p = w * y /\ s = w * z /\ o = a + w * b
    OBVIOUS
  <2>5. Cong(q, p, o)
    BY <1>1, <2>2, <2>3, <2>4, CongTrans
  <2>6. c3[k] = CentredOf(p, q)
    BY <1>1, <1>12, <2>1, <2>4
  <2>7. Cong(q, p, TriTimes(n, r, g)[k] + w * TriTimes(n, f, e)[k])
    BY <2>1, <2>4, <2>5
  <2>8. CentredOf(p, q) \in Int /\ Cong(3, CentredOf(p, q), TriTimes(n, r, g)[k])
    BY <1>1, <2>7, PrimeFits
  <2>9. PICK m \in Int : m = c3[k] /\ Cong(t, m, a)
    BY <1>1, <2>1, <2>6, <2>8
  <2>10. CentredOf(m, t) \in Int /\ Cong(t, CentredOf(m, t), m)
    BY <1>1, CentredType
  <2>11. PICK j \in Int : j = c[k] /\ Cong(t, j, m)
    BY <1>1, <1>12, <2>9, <2>10
  <2>12. Cong(t, j, a)
    BY <2>9, <2>11, CongTrans
  <2>13. QED
    BY <2>1, <2>11, <2>12
<1>15. Integral(n, c) /\ Same(n, t, c, TriTimes(n, r, g))
  BY <1>14 DEF Integral, Same
<1>16. Prime!Mult(c, v, t) = r
  BY <1>1, <1>2, <1>4, <1>6, <1>15, PrimeRight
<1>17. Prime!Weight(r) = PrimeW
  BY DEF Prime!Short
<1>18. Prime!Decrypt(kp, x) = r
  <2>1. Prime!Value([i \in Prime!Exps |-> Prime!Centre(3 * Prime!Mult(x, kp.f, PrimeQ)[i], PrimeQ)]) = c3
    BY <1>1, <1>4, <1>12, PrimePlaces, PrimeValue, Zenon DEF Prime!Centre, CentredOf
  <2>2. [i \in Prime!Exps |-> Prime!Centre(c3[i], 3)] = c
    <3>1. c = [i \in Prime!Exps |-> CentredOf(c3[i], 3)]
      BY <1>1, <1>12, PrimePlaces
    <3>2. \A y : Prime!Centre(y, 3) = CentredOf(y, 3)
      BY Zenon DEF Prime!Centre, CentredOf
    <3>3. QED
      BY <3>1, <3>2, Zenon
  <2>3. Prime!Mult([i \in Prime!Exps |-> Prime!Centre(c3[i], 3)], kp.ginv, 3) = r
    BY <1>1, <1>3, <1>16, <2>2, Zenon
  <2>4. QED
    BY <1>17, <2>1, <2>3, Zenon DEF Prime!Decrypt
<1>19. QED
  BY <1>3, <1>8, <1>18

-----------------------------------------------------------------------------
(***************************************************************************)
(* No decryption fails where noise fits and keys invert.                   *)
(***************************************************************************)
LEMMA MlAlwaysReturns == ASSUME "ML-KEM" \in Schemes, NoiseFits PROVE Returns("ML-KEM")
<1>1. /\ KemQ \in Nat /\ KemQ % 2 = 1 /\ KemDu \in Nat /\ KemDv \in Nat
      /\ Inputs["ML-KEM"] \subseteq {0, 1}
      /\ \A x \in Material["ML-KEM"], k \in Keys : x[k] \in [a : Int, s : Int, e : Int]
      /\ \A cs \in CoinTables["ML-KEM"], y \in Inputs["ML-KEM"], k \in Keys :
           cs[y, k] \in [y : Int, e1 : Int, e2 : Int]
  BY MlAssumption, Zenon
<1>2. ASSUME NEW x \in Material["ML-KEM"], NEW k \in Keys, NEW y \in Inputs["ML-KEM"], NEW cs \in CoinTables["ML-KEM"]
      PROVE  DecryptionReturns("ML-KEM", KeyPair("ML-KEM", x[k]), y, cs[y, k])
  <2>1. PICK w, r : w = x[k] /\ r = cs[y, k]
    BY Zenon
  <2>2. w \in [a : Int, s : Int, e : Int] /\ r \in [y : Int, e1 : Int, e2 : Int] /\ y \in {0, 1}
    BY <1>1, <2>1, Zenon
  <2>3. Ml!NoiseFits(w, r)
    BY <2>1, Zenon DEF NoiseFits
  <2>4. Ml!KpkeDecrypt(Ml!KeyPair(w), Ml!KpkeEncrypt(Ml!KeyPair(w), y, r)) = y
    BY <1>1, <2>2, <2>3, MlDecrypts
  <2>5. KeyPair("ML-KEM", w) = Ml!KeyPair(w)
    BY Zenon DEF KeyPair
  <2>6. DecryptionReturns("ML-KEM", KeyPair("ML-KEM", w), y, r)
    BY <2>4, <2>5, Zenon DEF DecryptionReturns
  <2>7. QED
    BY <2>1, <2>6, Zenon
<1>3. QED
  BY <1>2, Zenon DEF Returns

LEMMA FrodoAlwaysReturns == ASSUME "Frodo" \in Schemes, NoiseFits PROVE Returns("Frodo")
<1>1. /\ FrodoSizes
      /\ Inputs["Frodo"] \subseteq [Fro!Block -> 0 .. Fro!Pow2[FrodoBits] - 1]
      /\ \A x \in Material["Frodo"], k \in Keys : x[k] \in FrodoMaterial
      /\ \A cs \in CoinTables["Frodo"], y \in Inputs["Frodo"], k \in Keys : cs[y, k] \in FrodoNoise
  BY FrodoAssumption, Zenon DEF FrodoSizes, FrodoMaterial, FrodoNoise
<1>2. ASSUME NEW x \in Material["Frodo"], NEW k \in Keys, NEW y \in Inputs["Frodo"], NEW cs \in CoinTables["Frodo"]
      PROVE  DecryptionReturns("Frodo", KeyPair("Frodo", x[k]), y, cs[y, k])
  <2>1. PICK w, r : w = x[k] /\ r = cs[y, k]
    BY Zenon
  <2>2. w \in FrodoMaterial /\ r \in FrodoNoise /\ y \in [Fro!Block -> 0 .. Fro!Pow2[FrodoBits] - 1]
    BY <1>1, <2>1, Zenon
  <2>3. Fro!NoiseFits(w, r)
    BY <2>1, Zenon DEF NoiseFits
  <2>4. Fro!Decrypt(Fro!KeyPair(w), Fro!Encrypt(Fro!KeyPair(w), y, r)) = y
    BY <1>1, <2>2, <2>3, FrodoDecrypts
  <2>5. KeyPair("Frodo", w) = Fro!KeyPair(w)
    BY Zenon DEF KeyPair
  <2>6. DecryptionReturns("Frodo", KeyPair("Frodo", w), y, r)
    BY <2>4, <2>5, Zenon DEF DecryptionReturns
  <2>7. QED
    BY <2>1, <2>6, Zenon
<1>3. QED
  BY <1>2, Zenon DEF Returns

LEMMA HpsAlwaysReturns == ASSUME "HPS" \in Schemes, KeysInvert, NoiseFits PROVE Returns("HPS")
<1>1. /\ Inputs["HPS"] \subseteq Hps!Pairs
      /\ \A x \in Material["HPS"], k \in Keys : x[k].f \in Hps!Ternary /\ x[k].g \in Hps!FixedType
  BY HpsAssumption, Zenon
<1>2. ASSUME NEW x \in Material["HPS"], NEW k \in Keys, NEW y \in Inputs["HPS"], NEW cs \in CoinTables["HPS"]
      PROVE  DecryptionReturns("HPS", KeyPair("HPS", x[k]), y, cs[y, k])
  <2>1. PICK f, g, r : f = x[k].f /\ g = x[k].g /\ r = cs[y, k]
    BY Zenon
  <2>2. f \in Hps!Ternary /\ g \in Hps!FixedType /\ y \in Hps!Pairs
    BY <1>1, <2>1, Zenon
  <2>3. Hps!InversionsReturn(f, g)
    BY <2>1, Zenon DEF KeysInvert
  <2>4. Hps!NoiseFits(f, g, y)
    BY <2>1, Zenon DEF NoiseFits
  <2>5. Hps!Decrypt(Hps!KeyPair(f, g), Hps!Encrypt(Hps!KeyPair(f, g), y)) = [ok |-> TRUE, x |-> y]
    BY <2>2, <2>3, <2>4, HpsReturns
  <2>6. KeyPair("HPS", x[k]) = Hps!KeyPair(f, g)
    BY <2>1, Zenon DEF KeyPair
  <2>7. DecryptionReturns("HPS", KeyPair("HPS", x[k]), y, r)
    BY <2>5, <2>6, Zenon DEF DecryptionReturns
  <2>8. QED
    BY <2>1, <2>7, Zenon
<1>3. QED
  BY <1>2, Zenon DEF Returns

LEMMA HrssAlwaysReturns == ASSUME "HRSS" \in Schemes, KeysInvert, NoiseFits PROVE Returns("HRSS")
<1>1. /\ Inputs["HRSS"] \subseteq Hrss!Pairs
      /\ \A x \in Material["HRSS"], k \in Keys : x[k].f \in Hrss!Ternary /\ x[k].g \in Hrss!Ternary
  BY HrssAssumption, Zenon
<1>2. ASSUME NEW x \in Material["HRSS"], NEW k \in Keys, NEW y \in Inputs["HRSS"], NEW cs \in CoinTables["HRSS"]
      PROVE  DecryptionReturns("HRSS", KeyPair("HRSS", x[k]), y, cs[y, k])
  <2>1. PICK f, g, r : f = x[k].f /\ g = x[k].g /\ r = cs[y, k]
    BY Zenon
  <2>2. f \in Hrss!Ternary /\ g \in Hrss!Ternary /\ y \in Hrss!Pairs
    BY <1>1, <2>1, Zenon
  <2>3. Hrss!InversionsReturn(f, g)
    BY <2>1, Zenon DEF KeysInvert
  <2>4. Hrss!NoiseFits(f, g, y)
    BY <2>1, Zenon DEF NoiseFits
  <2>5. Hrss!Decrypt(Hrss!KeyPair(f, g), Hrss!Encrypt(Hrss!KeyPair(f, g), y)) = [ok |-> TRUE, x |-> y]
    BY <2>2, <2>3, <2>4, HrssReturns
  <2>6. KeyPair("HRSS", x[k]) = Hrss!KeyPair(f, g)
    BY <2>1, Zenon DEF KeyPair
  <2>7. DecryptionReturns("HRSS", KeyPair("HRSS", x[k]), y, r)
    BY <2>5, <2>6, Zenon DEF DecryptionReturns
  <2>8. QED
    BY <2>1, <2>7, Zenon
<1>3. QED
  BY <1>2, Zenon DEF Returns
LEMMA PrimeAlwaysReturns == ASSUME "Prime" \in Schemes, KeysInvert PROVE Returns("Prime")
<1>1. /\ PrimeSizes /\ Inputs["Prime"] \subseteq Prime!Short
      /\ \A x \in Material["Prime"], k \in Keys : x[k].f \in Prime!Short /\ x[k].g \in Prime!Small
  BY PrimeAssumption, Zenon DEF PrimeSizes
<1>2. ASSUME NEW x \in Material["Prime"], NEW k \in Keys, NEW y \in Inputs["Prime"], NEW cs \in CoinTables["Prime"]
      PROVE  DecryptionReturns("Prime", KeyPair("Prime", x[k]), y, cs[y, k])
  <2>1. PICK f, g, r, kp : f = x[k].f /\ g = x[k].g /\ r = cs[y, k] /\ kp = Prime!KeyPair(f, g)
    BY Zenon
  <2>2. f \in Prime!Short /\ g \in Prime!Small /\ y \in Prime!Short
    BY <1>1, <2>1, Zenon
  <2>3. Prime!InversionsReturn(f, g)
    BY <2>1, Zenon DEF KeysInvert
  <2>4. Prime!Decrypt(kp, Prime!Encrypt(y, kp.h)) = y
    <3>1. PrimeSizes /\ kp = Prime!KeyPair(f, g)
      BY <1>1, <2>1, Zenon
    <3>2. QED
      BY <2>2, <2>3, <3>1, PrimeDecrypts
  <2>5. KeyPair("Prime", x[k]) = kp
    BY <2>1, Zenon DEF KeyPair
  <2>6. DecryptionReturns("Prime", KeyPair("Prime", x[k]), y, r)
    BY <2>4, <2>5, Zenon DEF DecryptionReturns
  <2>7. QED
    BY <2>1, <2>6, Zenon
<1>3. QED
  BY <1>2, Zenon DEF Returns

-----------------------------------------------------------------------------
(***************************************************************************)
(* The refinement of IdealKem.  A whole key that decrypts rightly gives    *)
(* back the secret of the ciphertext it is given; that it gives it back    *)
(* for no other is SecretsBindCiphertexts.                                 *)
(***************************************************************************)

\* The noise of an encapsulation is what the table of coins derives.
Derived(cs, k, y, r) == r = cs[y, k]

LEMMA MlAnswers ==
  ASSUME NEW kp, NEW k, NEW y, NEW cs, NEW r, Derived(cs, k, y, r), NEW c, NEW z,
         Ml!KpkeDecrypt(kp, Ml!KpkeEncrypt(kp, y, r)) = y, c = Ml!Encapsulate(kp, k, y, r).c
  PROVE  Ml!Decapsulate(kp, kp, k, z, c, cs) = Ml!Encapsulate(kp, k, y, r).ss
<1>1. c = Ml!KpkeEncrypt(kp, y, r) /\ Ml!Encapsulate(kp, k, y, r).ss = Ml!SharedSecret(y, k)
  BY DEF Ml!Encapsulate
<1>2. Ml!KpkeDecrypt(kp, c) = y
  BY <1>1
<1>3. Ml!Reencrypts(kp, y, cs[y, k], c)
  BY <1>1, Zenon DEF Ml!Reencrypts, Derived
<1>4. QED
  BY <1>1, <1>2, <1>3, Zenon DEF Ml!Decapsulate

LEMMA FrodoAnswers ==
  ASSUME NEW kp, NEW k, NEW y, NEW cs, NEW r, Derived(cs, k, y, r), NEW c, NEW s,
         Fro!Decrypt(kp, Fro!Encrypt(kp, y, r)) = y, c = Fro!Encapsulate(kp, k, y, r).c
  PROVE  Fro!Decapsulate(kp, kp, k, s, c, cs) = Fro!Encapsulate(kp, k, y, r).ss
<1>1. PICK d : d = Fro!Encrypt(kp, y, r)
  OBVIOUS
<1>2. c = d /\ Fro!Encapsulate(kp, k, y, r).ss = <<d, <<"k", k, y>>>>
  BY <1>1 DEF Fro!Encapsulate
<1>3. Fro!Decrypt(kp, c) = y
  BY <1>1, <1>2
<1>4. Fro!CtVerify(c, Fro!Encrypt(kp, y, cs[y, k]))
  BY <1>1, <1>2, Zenon DEF Fro!CtVerify, Derived
<1>5. Fro!Decapsulate(kp, kp, k, s, c, cs) = <<c, <<"k", k, y>>>>
  BY <1>3, <1>4, Zenon DEF Fro!Decapsulate
<1>6. QED
  BY <1>2, <1>5

LEMMA HpsAnswers ==
  ASSUME NEW kp, NEW y, NEW c, NEW prf,
         Hps!Decrypt(kp, Hps!Encrypt(kp, y)) = [ok |-> TRUE, x |-> y], c = Hps!Encapsulate(kp, y).c
  PROVE  Hps!Decapsulate(kp, prf, c) = Hps!Encapsulate(kp, y).ss
<1>1. c = Hps!Encrypt(kp, y) /\ Hps!Encapsulate(kp, y).ss = <<"k", y>>
  BY DEF Hps!Encapsulate
<1>2. PICK d : d = Hps!Decrypt(kp, c)
  OBVIOUS
<1>3. d.ok /\ d.x = y
  <2>1. d = [ok |-> TRUE, x |-> y]
    BY <1>1, <1>2
  <2>2. QED
    BY <2>1
<1>4. Hps!Decapsulate(kp, prf, c) = IF d.ok THEN <<"k", d.x>> ELSE <<"prf", prf, c>>
  BY <1>2 DEF Hps!Decapsulate
<1>5. QED
  BY <1>1, <1>3, <1>4

LEMMA HrssAnswers ==
  ASSUME NEW kp, NEW y, NEW c, NEW prf,
         Hrss!Decrypt(kp, Hrss!Encrypt(kp, y)) = [ok |-> TRUE, x |-> y], c = Hrss!Encapsulate(kp, y).c
  PROVE  Hrss!Decapsulate(kp, prf, c) = Hrss!Encapsulate(kp, y).ss
<1>1. c = Hrss!Encrypt(kp, y) /\ Hrss!Encapsulate(kp, y).ss = <<"k", y>>
  BY DEF Hrss!Encapsulate
<1>2. PICK d : d = Hrss!Decrypt(kp, c)
  OBVIOUS
<1>3. d.ok /\ d.x = y
  <2>1. d = [ok |-> TRUE, x |-> y]
    BY <1>1, <1>2
  <2>2. QED
    BY <2>1
<1>4. Hrss!Decapsulate(kp, prf, c) = IF d.ok THEN <<"k", d.x>> ELSE <<"prf", prf, c>>
  BY <1>2 DEF Hrss!Decapsulate
<1>5. QED
  BY <1>1, <1>3, <1>4

LEMMA PrimeAnswers ==
  ASSUME NEW kp, NEW k, NEW y, NEW c, NEW rho,
         Prime!Decrypt(kp, Prime!Encrypt(y, kp.h)) = y, c = Prime!Encapsulate(kp, k, y).c
  PROVE  Prime!Decapsulate(kp, kp, k, rho, c) = Prime!Encapsulate(kp, k, y).ss
<1>1. c = Prime!Hide(kp, k, y) /\ Prime!Encapsulate(kp, k, y).ss = Prime!HashSession(1, y, c)
  BY DEF Prime!Encapsulate
<1>2. c.core = Prime!Encrypt(y, kp.h)
  BY <1>1 DEF Prime!Hide
<1>3. Prime!Decrypt(kp, c.core) = y
  BY <1>2
<1>4. Prime!Same(c, Prime!Hide(kp, k, y))
  BY <1>1 DEF Prime!Same
<1>5. QED
  BY <1>1, <1>3, <1>4, Zenon DEF Prime!Decapsulate

\* The coins are those of a run.
Noisy == coins \in CoinTables[scheme]

LEMMA WholeReturns ==
  ASSUME Returns(scheme), Generated, Noisy, NEW k \in Keys, NEW y \in Inputs[scheme],
         NEW dk, Whole(dk), dk.s = k
  PROVE  Decapsulated(dk, Encapsulated(k, y).c) = Encapsulated(k, y).ss
<1>1. PICK x \in Material[scheme] : keys = [j \in Keys |-> KeyPair(scheme, x[j])]
  BY DEF Generated
<1>2. keys[k] = KeyPair(scheme, x[k])
  BY <1>1
<1>3. PICK kp, r, cs, c : kp = keys[k] /\ r = coins[y, k] /\ cs = coins /\ c = Encapsulated(k, y).c
  BY Zenon
<1>4. DecryptionReturns(scheme, kp, y, r)
  <2>1. \E p \in {KeyPair(scheme, x[k])} : \A v \in Inputs[scheme], t \in CoinTables[scheme] :
          DecryptionReturns(scheme, p, v, t[v, k])
    BY <1>1, Zenon DEF Returns
  <2>2. \A v \in Inputs[scheme], t \in CoinTables[scheme] : DecryptionReturns(scheme, kp, v, t[v, k])
    BY <2>1, <1>2, <1>3, Zenon
  <2>3. QED
    BY <2>2, <1>3, Zenon DEF Noisy
<1>5. scheme \in {"ML-KEM", "Frodo", "HPS", "HRSS", "Prime"}
  BY SchemesAssumption DEF Generated
<1>6. dk.s = k /\ dk.ek = k /\ dk.h = k /\ dk.z = k
  BY DEF Whole
<1>7. CASE scheme = "ML-KEM"
  <2>1. Encapsulated(k, y) = Ml!Encapsulate(kp, k, y, r)
    BY <1>3, <1>7, Zenon DEF Encapsulated
  <2>2. Decapsulated(dk, c) = Ml!Decapsulate(kp, kp, k, k, c, cs)
    BY <1>3, <1>6, <1>7, Zenon DEF Decapsulated
  <2>3. Ml!KpkeDecrypt(kp, Ml!KpkeEncrypt(kp, y, r)) = y
    BY <1>4, <1>7, Zenon DEF DecryptionReturns
  <2>4. c = Ml!Encapsulate(kp, k, y, r).c /\ Derived(cs, k, y, r)
    BY <1>3, <2>1, Zenon DEF Derived
  <2>5. Ml!Decapsulate(kp, kp, k, k, c, cs) = Ml!Encapsulate(kp, k, y, r).ss
    BY <2>3, <2>4, MlAnswers
  <2>6. QED
    BY <1>3, <2>1, <2>2, <2>5, Zenon
<1>8. CASE scheme = "Frodo"
  <2>1. Encapsulated(k, y) = Fro!Encapsulate(kp, k, y, r)
    BY <1>3, <1>8, Zenon DEF Encapsulated
  <2>2. Decapsulated(dk, c) = Fro!Decapsulate(kp, kp, k, k, c, cs)
    BY <1>3, <1>6, <1>8, Zenon DEF Decapsulated
  <2>3. Fro!Decrypt(kp, Fro!Encrypt(kp, y, r)) = y
    BY <1>4, <1>8, Zenon DEF DecryptionReturns
  <2>4. c = Fro!Encapsulate(kp, k, y, r).c /\ Derived(cs, k, y, r)
    BY <1>3, <2>1, Zenon DEF Derived
  <2>5. Fro!Decapsulate(kp, kp, k, k, c, cs) = Fro!Encapsulate(kp, k, y, r).ss
    BY <2>3, <2>4, FrodoAnswers
  <2>6. QED
    BY <1>3, <2>1, <2>2, <2>5, Zenon
<1>9. CASE scheme = "HPS"
  <2>1. Encapsulated(k, y) = Hps!Encapsulate(kp, y)
    BY <1>3, <1>9, Zenon DEF Encapsulated
  <2>2. Decapsulated(dk, c) = Hps!Decapsulate(kp, k, c)
    BY <1>3, <1>6, <1>9, Zenon DEF Decapsulated
  <2>3. Hps!Decrypt(kp, Hps!Encrypt(kp, y)) = [ok |-> TRUE, x |-> y]
    BY <1>4, <1>9, Zenon DEF DecryptionReturns
  <2>4. Hps!Decapsulate(kp, k, c) = Hps!Encapsulate(kp, y).ss
    BY <1>3, <2>1, <2>3, HpsAnswers, Zenon
  <2>5. QED
    BY <1>3, <2>1, <2>2, <2>4, Zenon
<1>10. CASE scheme = "HRSS"
  <2>1. Encapsulated(k, y) = Hrss!Encapsulate(kp, y)
    BY <1>3, <1>10, Zenon DEF Encapsulated
  <2>2. Decapsulated(dk, c) = Hrss!Decapsulate(kp, k, c)
    BY <1>3, <1>6, <1>10, Zenon DEF Decapsulated
  <2>3. Hrss!Decrypt(kp, Hrss!Encrypt(kp, y)) = [ok |-> TRUE, x |-> y]
    BY <1>4, <1>10, Zenon DEF DecryptionReturns
  <2>4. Hrss!Decapsulate(kp, k, c) = Hrss!Encapsulate(kp, y).ss
    BY <1>3, <2>1, <2>3, HrssAnswers, Zenon
  <2>5. QED
    BY <1>3, <2>1, <2>2, <2>4, Zenon
<1>11. CASE scheme = "Prime"
  <2>1. Encapsulated(k, y) = Prime!Encapsulate(kp, k, y)
    BY <1>3, <1>11, Zenon DEF Encapsulated
  <2>2. Decapsulated(dk, c) = Prime!Decapsulate(kp, kp, k, k, c)
    BY <1>3, <1>6, <1>11, Zenon DEF Decapsulated
  <2>3. Prime!Decrypt(kp, Prime!Encrypt(y, kp.h)) = y
    BY <1>4, <1>11, Zenon DEF DecryptionReturns
  <2>4. c = Prime!Encapsulate(kp, k, y).c
    BY <1>3, <2>1, Zenon
  <2>5. Prime!Decapsulate(kp, kp, k, k, c) = Prime!Encapsulate(kp, k, y).ss
    BY <2>3, <2>4, PrimeAnswers, Zenon
  <2>6. QED
    BY <1>3, <2>1, <2>2, <2>5, Zenon
<1>12. QED
  BY <1>5, <1>7, <1>8, <1>9, <1>10, <1>11

\* The record holds one encapsulation and one decapsulation, in that order.
AtMostOne(S) == \A a, b \in S : a = b
OneOfEach == AtMostOne(sessions) /\ AtMostOne(results) /\ (results # {} => sessions # {})
IdealInv == BindInv /\ Noisy /\ OneOfEach

LEMMA IdealInvInit == Init => IdealInv
<1>1. SUFFICES ASSUME Init PROVE IdealInv
  OBVIOUS
<1>2. sessions = {} /\ results = {} /\ Noisy
  BY <1>1 DEF Init, Noisy
<1>3. OneOfEach
  BY <1>2 DEF OneOfEach, AtMostOne
<1>4. QED
  BY <1>1, <1>2, <1>3, BindInit DEF IdealInv

LEMMA IdealInvNext == ASSUME KeysInvert PROVE IdealInv /\ [Next]_vars => IdealInv'
<1>1. SUFFICES ASSUME IdealInv, [Next]_vars PROVE IdealInv'
  OBVIOUS
<1>2. BindInv'
  BY <1>1, BindNext DEF IdealInv
<1>3. Noisy'
  BY <1>1 DEF IdealInv, Noisy, Next, Encapsulate, Decapsulate, vars
<1>4. OneOfEach'
  <2>1. CASE UNCHANGED vars
    BY <1>1, <2>1 DEF IdealInv, OneOfEach, AtMostOne, vars
  <2>2. ASSUME NEW k \in Keys, NEW x \in Inputs[scheme], Encapsulate(k, x) PROVE OneOfEach'
    <3>1. results' = results /\ \E r : sessions' = {r}
      BY <2>2 DEF Encapsulate
    <3>2. QED
      BY <1>1, <3>1 DEF IdealInv, OneOfEach, AtMostOne
  <2>3. ASSUME NEW dk \in DecapsulationKeys, NEW e \in sessions, NEW c, Decapsulate(dk, c) PROVE OneOfEach'
    <3>1. sessions' = sessions /\ \E r : results' = {r}
      BY <2>3 DEF Decapsulate
    <3>2. QED
      BY <1>1, <2>3, <3>1 DEF IdealInv, OneOfEach, AtMostOne
  <2>4. QED
    BY <1>1, <2>1, <2>2, <2>3 DEF Next
<1>5. QED
  BY <1>2, <1>3, <1>4 DEF IdealInv

\* What the table of answers says of the record.
AnswersAgree ==
  \A e \in sessions, d \in results :
    Whole(d.dk) /\ d.dk.s = e.key => (e.c = d.c <=> e.ss = d.ss)

\* A whole key answers an encapsulation and a decapsulation alike where the
\* ciphertexts are the same, and differently where they are not.
LEMMA IdealConsistent ==
  ASSUME KeysInvert, \A s \in Schemes : Returns(s)
  PROVE  IdealInv => AnswersAgree
<1> SUFFICES ASSUME IdealInv, NEW e \in sessions, NEW d \in results, Whole(d.dk), d.dk.s = e.key
             PROVE  e.c = d.c <=> e.ss = d.ss
  BY DEF AnswersAgree
<1>1. ASSUME e.ss = d.ss PROVE e.c = d.c
  BY <1>1, BindHolds DEF IdealInv, SecretsBindCiphertexts
<1>2. ASSUME e.c = d.c PROVE e.ss = d.ss
  <2>1. PICK k \in Keys, y \in Inputs[scheme] : e.key = k /\ e.c = Encapsulated(k, y).c /\ e.ss = Encapsulated(k, y).ss
    BY DEF IdealInv, BindInv, SessionsComputed
  <2>2. d.ss = Decapsulated(d.dk, d.c)
    BY DEF IdealInv, BindInv, ResultsComputed
  <2>3. Generated /\ Noisy
    BY DEF IdealInv, BindInv
  <2>8. Returns(scheme)
    BY <2>3 DEF Generated
  <2>4. d.dk.s = k
    BY <2>1
  <2>5. Decapsulated(d.dk, Encapsulated(k, y).c) = Encapsulated(k, y).ss
    BY <2>3, <2>4, <2>8, WholeReturns, Zenon
  <2>6. QED
    BY <1>2, <2>1, <2>2, <2>5, Zenon
<1>3. QED
  BY <1>1, <1>2

LEMMA IdealStep == IdealInv /\ AnswersAgree' /\ [Next]_vars => [Ideal!Answer]_Answers
<1>1. SUFFICES ASSUME IdealInv, AnswersAgree', [Next]_vars PROVE [Ideal!Answer]_Answers
  OBVIOUS
<1>2. CASE UNCHANGED vars
  BY <1>2 DEF Answers, Whole, vars
<1>3. ASSUME NEW k \in Keys, NEW x \in Inputs[scheme], Encapsulate(k, x) PROVE Ideal!Answer
  <2>1. PICK r : sessions = {} /\ sessions' = {r} /\ results' = results
    BY <1>3 DEF Encapsulate
  <2>2. results = {}
    BY <1>1, <2>1 DEF IdealInv, OneOfEach
  <2>3. PICK a : a = [key |-> r.key, c |-> r.c, ss |-> r.ss]
    OBVIOUS
  <2>4. Answers = {} /\ Answers' = {a}
    BY <2>1, <2>2, <2>3 DEF Answers
  <2>5. Answers' = Answers \cup {a} /\ a \in Answers'
    BY <2>4
  <2>6. \A b, d \in Answers' : Ideal!Consistent(b, d)
    BY <2>4 DEF Ideal!Consistent
  <2>7. QED
    BY <2>5, <2>6 DEF Ideal!Answer
<1>4. ASSUME NEW dk \in DecapsulationKeys, NEW e \in sessions, NEW c, Decapsulate(dk, c)
      PROVE  Ideal!Answer \/ Answers' = Answers
  <2>1. PICK d : /\ results = {} /\ results' = {d} /\ sessions' = sessions
                 /\ d = [dk |-> dk, c |-> c, ss |-> Decapsulated(dk, c)]
    BY <1>4 DEF Decapsulate
  <2>2. sessions = {e}
    BY <1>1, <1>4 DEF IdealInv, OneOfEach, AtMostOne
  <2>3. PICK a, b : /\ a = [key |-> e.key, c |-> e.c, ss |-> e.ss]
                    /\ b = [key |-> d.dk.s, c |-> d.c, ss |-> d.ss]
    OBVIOUS
  <2>4. Answers = {a}
    BY <2>1, <2>2, <2>3 DEF Answers
  <2>5. CASE Whole(dk)
    <3>1. Whole(d.dk)
      BY <2>1, <2>5
    <3>2. {x \in results' : Whole(x.dk)} = {d}
      BY <2>1, <3>1
    <3>3. Answers' = {a} \cup {b}
      BY <2>1, <2>2, <2>3, <3>2 DEF Answers
    <3>4. a.key = b.key => (a.c = b.c <=> a.ss = b.ss)
      <4>1. ASSUME a.key = b.key PROVE a.c = b.c <=> a.ss = b.ss
        <5>1. e \in sessions' /\ d \in results' /\ d.dk.s = e.key
          BY <1>1, <2>1, <2>2, <2>3, <4>1
        <5>2. e.c = d.c <=> e.ss = d.ss
          BY <1>1, <3>1, <5>1 DEF AnswersAgree
        <5>3. QED
          BY <2>3, <5>2
      <4>2. QED
        BY <4>1
    <3>5. \A p, q \in Answers' : Ideal!Consistent(p, q)
      BY <3>3, <3>4 DEF Ideal!Consistent
    <3>6. b \in Answers' /\ Answers' = Answers \cup {b}
      BY <2>4, <3>3
    <3>7. QED
      BY <3>5, <3>6 DEF Ideal!Answer
  <2>6. CASE ~Whole(dk)
    <3>1. {x \in results' : Whole(x.dk)} = {}
      BY <2>1, <2>6
    <3>2. Answers' = {a}
      BY <2>1, <2>2, <2>3, <3>1 DEF Answers
    <3>3. QED
      BY <2>4, <3>2
  <2>7. QED
    BY <2>5, <2>6
<1>5. QED
  BY <1>1, <1>2, <1>3, <1>4 DEF Next

\* Every mechanism gives back what was encrypted, for every modulus, length
\* and width, all keys whose inversions return and all noise that stays below
\* what rounding forgives; NTRU Prime whatever is drawn, since its modulus
\* leaves room for any.
THEOREM NoisyDecryptions ==
  ASSUME KeysInvert, NoiseFits
  PROVE  \A s \in Schemes : Returns(s)
BY MlAlwaysReturns, FrodoAlwaysReturns, HpsAlwaysReturns, HrssAlwaysReturns, PrimeAlwaysReturns, SchemesAssumption

\* Whoever holds whole key pairs sees the ideal table: both sides agree on a
\* ciphertext that arrives as it was sent and on no other, for every modulus,
\* length, width, noise and material for which keys invert and noise fits.
THEOREM ImplementsIdeal ==
  ASSUME KeysInvert, NoiseFits
  PROVE  Spec => ImplementsIdealKem
<1> \A s \in Schemes : Returns(s)
  BY NoisyDecryptions
<1>1. Init => Ideal!Init
  BY DEF Init, Ideal!Init, Answers
<1>2. Init => IdealInv
  BY IdealInvInit
<1>3. IdealInv /\ [Next]_vars => IdealInv'
  BY IdealInvNext
<1>4. IdealInv /\ AnswersAgree' /\ [Next]_vars => [Ideal!Answer]_Answers
  BY IdealStep
<1>5. IdealInv => AnswersAgree
  BY IdealConsistent
<1>6. QED
  BY <1>1, <1>2, <1>3, <1>4, <1>5, PTL DEF Spec, ImplementsIdealKem, Ideal!Spec
===============================================================================
