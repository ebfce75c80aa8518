---------------------------- MODULE SumcheckProofs ----------------------------
(***************************************************************************)
(* What is proved of the sum-check for every modulus, number of rounds,    *)
(* pool and batch.                                                         *)
(***************************************************************************)
EXTENDS Sumcheck, NumberLemmas

-----------------------------------------------------------------------------
(***************************************************************************)
(* Tables, their sums and their folds.                                     *)
(***************************************************************************)
LEMMA Pow ==
  /\ Pow2[0] = 1
  /\ \A n \in Nat : Pow2[n] \in Nat /\ Pow2[n] > 0 /\ Pow2[n + 1] = 2 * Pow2[n]
BY PowersOfTwo DEF Pow2

LEMMA PowPred ==
  \A n \in Nat : n > 0 => /\ n - 1 \in Nat /\ Pow2[n - 1] \in Nat /\ Pow2[n - 1] > 0
                          /\ Pow2[n] = 2 * Pow2[n - 1]
<1>1. SUFFICES ASSUME NEW n \in Nat, n > 0
               PROVE  /\ n - 1 \in Nat /\ Pow2[n - 1] \in Nat /\ Pow2[n - 1] > 0
                      /\ Pow2[n] = 2 * Pow2[n - 1]
  OBVIOUS
<1>2. n - 1 \in Nat /\ (n - 1) + 1 = n
  BY <1>1
<1>3. QED
  BY <1>2, Pow

LEMMA RingFacts ==
  /\ Q \in Nat /\ Q > 0 /\ 0 \in Ring /\ Ring \subseteq Int
  /\ \A x \in Int : x % Q \in Ring /\ Cong(Q, x % Q, x)
  /\ \A x \in Ring : x % Q = x
<1>1. Q \in Nat /\ Q > 0
  BY QAssumption
<1>2. \A x \in Int : x % Q \in Ring /\ Cong(Q, x % Q, x)
  BY <1>1, CongMod DEF Ring
<1>3. \A x \in Ring : x % Q = x
  BY <1>1 DEF Ring
<1>4. QED
  BY <1>1, <1>2, <1>3 DEF Ring

LEMMA SumOverType ==
  ASSUME NEW T, NEW S, IsFiniteSet(S), \A x \in S : T[x] \in Int
  PROVE  /\ SumFunctionOnSet(T, S) \in Int /\ SumOver(T, S) \in Ring
         /\ Cong(Q, SumOver(T, S), SumFunctionOnSet(T, S))
BY SumType, RingFacts DEF SumOver

LEMMA InterpolateType ==
  ASSUME NEW v0 \in Int, NEW v1 \in Int, NEW r \in Int
  PROVE  /\ Interpolate(v0, v1, r) \in Ring
         /\ Cong(Q, Interpolate(v0, v1, r), (1 - r) * v0 + r * v1)
<1>1. v0 + r * (v1 - v0) \in Int /\ v0 + r * (v1 - v0) = (1 - r) * v0 + r * v1
  OBVIOUS
<1>2. QED
  BY <1>1, RingFacts DEF Interpolate

LEMMA FoldAtType ==
  ASSUME NEW h \in Nat, NEW T, \A j \in 0 .. 2 * h - 1 : T[j] \in Int, NEW r \in Int
  PROVE  FoldAt(T, h, r) \in [0 .. h - 1 -> Ring]
<1>1. \A j \in 0 .. h - 1 : T[j] \in Int /\ T[j + h] \in Int
  OBVIOUS
<1>2. QED
  BY <1>1, InterpolateType DEF FoldAt

\* Folding a table folds the sums of its halves.
LEMMA FoldedSum ==
  ASSUME NEW h \in Nat, NEW T, \A j \in 0 .. 2 * h - 1 : T[j] \in Int, NEW r \in Int
  PROVE  SumOver(FoldAt(T, h, r), 0 .. h - 1)
           = Interpolate(SumOver(T, 0 .. h - 1), SumOver(T, h .. 2 * h - 1), r)
<1> DEFINE J == 0 .. h - 1
           F == FoldAt(T, h, r)
           up == [j \in J |-> T[j + h]]
           A == SumFunctionOnSet(T, J)
           B == SumFunctionOnSet(up, J)
<1>1. IsFiniteSet(J) /\ IsFiniteSet(h .. 2 * h - 1)
  BY FS_Interval
<1>2. \A j \in J : T[j] \in Int /\ T[j + h] \in Int /\ up[j] \in Int /\ up[j] = T[j + h]
  OBVIOUS
<1>3. SumFunctionOnSet(T, h .. 2 * h - 1) = B
  <2>1. PICK z \in Int, b \in Int : z = 0 /\ b = h - 1
    OBVIOUS
  <2>2. \A x \in z .. b : up[x] \in Int /\ T[x + h] = up[x]
    BY <1>2, <2>1
  <2> HIDE DEF up
  <2>3. SumFunctionOnSet(T, z + h .. b + h) = SumFunctionOnSet(up, z .. b)
    BY <2>2, SumShift
  <2>4. z + h = h /\ b + h = 2 * h - 1
    BY <2>1
  <2>5. QED
    BY <2>1, <2>3, <2>4
<1>4. \A j \in J : F[j] \in Int /\ Cong(Q, F[j], (1 - r) * T[j] + r * up[j])
  <2>1. SUFFICES ASSUME NEW j \in J PROVE F[j] \in Int /\ Cong(Q, F[j], (1 - r) * T[j] + r * up[j])
    OBVIOUS
  <2>2. F[j] = Interpolate(T[j], up[j], r)
    BY DEF FoldAt
  <2>3. PICK u \in Int, v \in Int : u = T[j] /\ v = up[j]
    BY <1>2
  <2>4. Interpolate(u, v, r) \in Ring /\ Cong(Q, Interpolate(u, v, r), (1 - r) * u + r * v)
    BY InterpolateType
  <2> HIDE DEF up, F
  <2>5. QED
    BY <2>2, <2>3, <2>4, RingFacts
<1> HIDE DEF F, up, J
<1>5. A \in Int /\ B \in Int /\ SumFunctionOnSet(F, J) \in Int
  BY <1>1, <1>2, <1>4, SumType
<1>6. Cong(Q, SumFunctionOnSet(F, J), (1 - r) * A + r * B)
  <2>1. 1 - r \in Int
    OBVIOUS
  <2>2. QED
    BY <1>1, <1>2, <1>4, <2>1, RingFacts, SumLinear
<1> HIDE DEF A, B
<1>7. Cong(Q, (1 - r) * (A % Q) + r * (B % Q), (1 - r) * A + r * B)
  <2>1. A % Q \in Int /\ B % Q \in Int /\ Cong(Q, A % Q, A) /\ Cong(Q, B % Q, B)
    BY <1>5, RingFacts
  <2>2. 1 - r \in Int
    OBVIOUS
  <2>3. Cong(Q, (1 - r) * (A % Q), (1 - r) * A) /\ Cong(Q, r * (B % Q), r * B)
    BY <1>5, <2>1, <2>2, RingFacts, CongScale
  <2>4. /\ (1 - r) * (A % Q) \in Int /\ (1 - r) * A \in Int
        /\ r * (B % Q) \in Int /\ r * B \in Int
    BY <1>5, <2>1
  <2>5. QED
    BY <2>3, <2>4, RingFacts, CongAdd
<1>8. /\ Interpolate(A % Q, B % Q, r) \in Ring
      /\ Cong(Q, Interpolate(A % Q, B % Q, r), (1 - r) * (A % Q) + r * (B % Q))
  BY <1>5, RingFacts, InterpolateType
<1>9. SumFunctionOnSet(F, J) % Q = Interpolate(A % Q, B % Q, r)
  <2>1. PICK x \in Int, y \in Int, z \in Int, u \in Int :
          /\ x = SumFunctionOnSet(F, J) /\ y = (1 - r) * A + r * B
          /\ z = (1 - r) * (A % Q) + r * (B % Q) /\ u = Interpolate(A % Q, B % Q, r)
    <3>1. (1 - r) * A + r * B \in Int
      BY <1>5
    <3>2. (1 - r) * (A % Q) + r * (B % Q) \in Int
      <4>1. A % Q \in Int /\ B % Q \in Int
        BY <1>5, RingFacts
      <4>2. QED
        BY <4>1
    <3>3. QED
      BY <1>5, <1>8, <3>1, <3>2, RingFacts
  <2>2. Cong(Q, x, y) /\ Cong(Q, z, y) /\ Cong(Q, u, z)
    BY <1>6, <1>7, <1>8, <2>1
  <2>3. Cong(Q, x, u)
    BY <2>2, RingFacts, CongSym, CongTrans
  <2>4. x % Q = u % Q
    BY <2>3, RingFacts, CongSame
  <2>5. QED
    BY <1>8, <2>1, <2>4, RingFacts
<1>10. QED
  BY <1>3, <1>9 DEF SumOver, A, B, F, J

-----------------------------------------------------------------------------
(***************************************************************************)
(* The polynomial eq and the evaluation of a table.                        *)
(***************************************************************************)
Factors(n, r, x) == [i \in 1 .. n |-> IF x[i] THEN r[i] ELSE (1 - r[i]) % Q]

LEMMA FactorsType ==
  ASSUME NEW n \in Nat, NEW r, \A i \in 1 .. n : r[i] \in Int, NEW x
  PROVE  IsFiniteSet(1 .. n) /\ \A i \in 1 .. n : Factors(n, r, x)[i] \in Int
<1>1. \A i \in 1 .. n : r[i] \in Int /\ (1 - r[i]) % Q \in Int
  BY RingFacts
<1>2. QED
  BY <1>1, FS_Interval DEF Factors

LEMMA EqTensorIsReduce ==
  ASSUME NEW n \in Nat, NEW r, DOMAIN r = 1 .. n, \A i \in 1 .. n : r[i] \in Int, NEW x
  PROVE  /\ EqTensor(r, x) = Reduce(TimesOp(Q), 1, Factors(n, r, x), 1 .. n)
         /\ EqTensor(r, x) \in Int
<1>1. PICK I, f : /\ I = 1 .. n /\ f = [i \in I |-> IF x[i] THEN r[i] ELSE (1 - r[i]) % Q]
  OBVIOUS
<1>2. f = Factors(n, r, x) /\ DOMAIN f = I /\ DOMAIN r = I
  BY <1>1 DEF Factors
<1>3. IsFiniteSet(I) /\ \A i \in I : f[i] \in Int
  BY <1>1, <1>2, FactorsType
<1>4. EqTensor(r, x) = FoldFunctionOnSet(LAMBDA a, b : (a * b) % Q, 1, f, I)
  BY <1>1, <1>2 DEF EqTensor, FoldFunction
<1>5. FoldFunctionOnSet(LAMBDA a, b : (a * b) % Q, 1, f, I) = Reduce(TimesOp(Q), 1, f, I)
  BY <1>3, RingFacts, ProductIsReduce
<1>6. Reduce(TimesOp(Q), 1, f, I) \in Int
  <2>1. TimesOp(Q) \in [Int \X Int -> Int] /\ 1 \in Int
    BY RingFacts, TimesCommutes DEF Commutes
  <2>2. QED
    BY <1>3, <2>1, ReduceType
<1>7. QED
  BY <1>1, <1>2, <1>4, <1>5, <1>6

-----------------------------------------------------------------------------
(***************************************************************************)
(* The inductive invariant of the prover on its pool.                      *)
(***************************************************************************)
Tables(n) == [0 .. Pow2[n] - 1 -> Ring]

\* The pieces cover lo .. hi and each knows its sum.
Pieces(lo, hi) ==
  /\ \A p \in parts : /\ p.from \in lo .. hi /\ p.to \in lo .. hi /\ p.from <= p.to
                      /\ p.sum = SumOver(cur, p.from .. p.to)
  /\ \A j \in lo .. hi : \E p \in parts : j \in p.from .. p.to

Holds(w, j) == held[w] # Idle /\ held[w][1] = j
Done(j) == j \notin todo /\ \A w \in Workers : ~Holds(w, j)

\* A fold is done, or a worker is about to store it, or it is to be taken: no
\* element has been overwritten that a worker may still have to read.
Folding ==
  /\ Len(sent) > 0
  /\ whole \in Tables(G - Len(sent) + 1) /\ cur \in Tables(G - Len(sent) + 1)
  /\ todo \subseteq 0 .. Folded - 1
  /\ held \in [Workers -> {Idle} \cup {<<j, whole[j], whole[j + Folded]>> : j \in 0 .. Folded - 1}]
  /\ \A w \in Workers : held[w] # Idle => held[w][1] \notin todo
  /\ \A w, v \in Workers : \A j \in 0 .. Folded - 1 : Holds(w, j) /\ Holds(v, j) => w = v
  /\ \A j \in 0 .. Folded - 1 :
       /\ cur[j + Folded] = whole[j + Folded]
       /\ cur[j] = IF Done(j) THEN Interpolate(whole[j], whole[j + Folded], points[Len(points)])
                   ELSE whole[j]

Summing ==
  /\ Len(sent) < G
  /\ stage = "sum0" => Pieces(0, Half - 1)
  /\ stage = "sum1" => Pieces(Half, 2 * Half - 1) /\ low = SumOver(cur, 0 .. Half - 1)

Pool ==
  /\ stage \in {"round", "sum0", "sum1", "fold"}
  /\ stage # "round" => final = <<>>
  /\ stage # "fold" => /\ cur \in Tables(G - Len(sent))
                       /\ held = [w \in Workers |-> Idle]
  /\ stage \in {"sum0", "sum1"} => Summing
  /\ stage = "fold" => Folding

Typing ==
  /\ table \in Tables(G)
  /\ sent \in Seq(Int \X Int) /\ points \in Seq(Ring)
  /\ Len(points) = Len(sent) /\ Len(sent) <= G
  /\ final = <<>> \/ \E v \in Ring : final = <<v>>
  /\ honest \in BOOLEAN
  /\ honest /\ final # <<>> => Len(sent) = G /\ stage = "round"
  /\ honest => Pool

LEMMA HalfFacts ==
  ASSUME Len(sent) \in Nat, Len(sent) < G
  PROVE  /\ Half \in Nat /\ Half > 0 /\ Pow2[G - Len(sent)] = 2 * Half
         /\ G - Len(sent) \in Nat /\ G - Len(sent) > 0
<1>1. G \in Nat
  BY PoolAssumption
<1>2. PICK n \in Nat : n = G - Len(sent) /\ n > 0
  BY <1>1
<1>3. n - 1 \in Nat /\ Pow2[n - 1] \in Nat /\ Pow2[n - 1] > 0 /\ Pow2[n] = 2 * Pow2[n - 1]
  BY <1>2, PowPred
<1>4. QED
  BY <1>2, <1>3 DEF Half

\* One element alone is a sum of the half.
LEMMA SinglePieces ==
  ASSUME NEW lo \in Int, NEW hi \in Int, \A j \in lo .. hi : cur[j] \in Ring,
         parts' = Single(lo .. hi), cur' = cur
  PROVE  Pieces(lo, hi)'
<1>1. ASSUME NEW j \in lo .. hi PROVE SumOver(cur, j .. j) = cur[j]
  <2>1. j .. j = {j}
    OBVIOUS
  <2>2. SumFunctionOnSet(cur, {j}) = cur[j]
    BY SumOne, RingFacts
  <2>3. QED
    BY <2>1, <2>2, RingFacts DEF SumOver
<1>2. \A p \in Single(lo .. hi) : /\ p.from \in lo .. hi /\ p.to = p.from
                                  /\ p.sum = SumOver(cur, p.from .. p.to)
  BY <1>1 DEF Single
<1>3. \A j \in lo .. hi : [from |-> j, to |-> j, sum |-> cur[j]] \in Single(lo .. hi)
  BY DEF Single
<1>4. ASSUME NEW j \in lo .. hi PROVE \E p \in Single(lo .. hi) : j \in p.from .. p.to
  <2>1. PICK p \in Single(lo .. hi) : p.from = j /\ p.to = j
    BY <1>3
  <2>2. QED
    BY <2>1
<1>5. QED
  BY <1>2, <1>4 DEF Pieces

\* Two neighbours become one piece.
LEMMA JoinPieces ==
  ASSUME NEW lo \in Int, NEW hi \in Int, \A j \in lo .. hi : cur[j] \in Ring,
         Pieces(lo, hi), Join
  PROVE  Pieces(lo, hi)'
<1>1. PICK a \in parts, b \in parts :
        /\ a.to + 1 = b.from
        /\ parts' = (parts \ {a, b})
                      \cup {[from |-> a.from, to |-> b.to, sum |-> (a.sum + b.sum) % Q]}
  BY DEF Join
<1>2. cur' = cur
  BY DEF Join
<1>3. PICK c : c = [from |-> a.from, to |-> b.to, sum |-> (a.sum + b.sum) % Q]
  OBVIOUS
<1>4. /\ a.from \in lo .. hi /\ a.to \in lo .. hi /\ a.from <= a.to
      /\ a.sum = SumOver(cur, a.from .. a.to)
      /\ b.from \in lo .. hi /\ b.to \in lo .. hi /\ b.from <= b.to
      /\ b.sum = SumOver(cur, b.from .. b.to)
  BY DEF Pieces
<1>5. SumOver(cur, a.from .. b.to) = (a.sum + b.sum) % Q
  <2>1. PICK x \in Int, m \in Int, y \in Int : /\ x = a.from /\ m = a.to /\ y = b.to
                                               /\ x <= m + 1 /\ m <= y /\ b.from = m + 1
    BY <1>1, <1>4
  <2>2. \A j \in x .. y : cur[j] \in Int
    <3>1. lo <= x /\ y <= hi
      BY <1>4, <2>1
    <3>2. \A j \in x .. y : j \in lo .. hi
      BY <3>1
    <3>3. QED
      BY <3>2, RingFacts
  <2>3. SumFunctionOnSet(cur, x .. y)
          = SumFunctionOnSet(cur, x .. m) + SumFunctionOnSet(cur, m + 1 .. y)
    BY <2>1, <2>2, SumSplit
  <2>4. PICK u \in Int, v \in Int : /\ u = SumFunctionOnSet(cur, x .. m)
                                    /\ v = SumFunctionOnSet(cur, m + 1 .. y)
    <3>1. IsFiniteSet(x .. m) /\ IsFiniteSet(m + 1 .. y)
      BY FS_Interval
    <3>2. (\A j \in x .. m : cur[j] \in Int) /\ \A j \in m + 1 .. y : cur[j] \in Int
      BY <2>1, <2>2
    <3>3. QED
      BY <3>1, <3>2, SumType
  <2>5. a.sum = u % Q /\ b.sum = v % Q
    BY <1>4, <2>1, <2>4 DEF SumOver
  <2>6. ((u % Q) + (v % Q)) % Q = (u + v) % Q
    BY RingFacts, ModSum
  <2>7. QED
    BY <2>1, <2>3, <2>4, <2>5, <2>6 DEF SumOver
<1>6. ASSUME NEW p \in parts'
      PROVE  /\ p.from \in lo .. hi /\ p.to \in lo .. hi /\ p.from <= p.to
             /\ p.sum = SumOver(cur, p.from .. p.to)
  <2>1. CASE p \in parts
    BY <2>1 DEF Pieces
  <2>2. CASE p = c
    BY <1>1, <1>3, <1>4, <1>5, <2>2
  <2>3. QED
    BY <1>1, <1>3, <2>1, <2>2
<1>7. ASSUME NEW j \in lo .. hi PROVE \E p \in parts' : j \in p.from .. p.to
  <2>1. PICK p \in parts : j \in p.from .. p.to
    BY DEF Pieces
  <2>2. CASE p \in {a, b}
    <3>1. c \in parts' /\ j \in c.from .. c.to
      BY <1>1, <1>3, <1>4, <2>1, <2>2
    <3>2. QED
      BY <3>1
  <2>3. CASE p \notin {a, b}
    BY <1>1, <2>1, <2>3
  <2>4. QED
    BY <2>2, <2>3
<1>8. QED
  BY <1>2, <1>6, <1>7 DEF Pieces

\* The last piece is the whole.
LEMMA LastPiece ==
  ASSUME NEW lo \in Int, NEW hi \in Int, lo <= hi, Pieces(lo, hi), NEW p, parts = {p}
  PROVE  p.sum = SumOver(cur, lo .. hi)
<1>1. /\ p.from \in lo .. hi /\ p.to \in lo .. hi /\ p.sum = SumOver(cur, p.from .. p.to)
      /\ lo \in p.from .. p.to /\ hi \in p.from .. p.to
  BY DEF Pieces
<1>2. p.from = lo /\ p.to = hi
  BY <1>1
<1>3. QED
  BY <1>1, <1>2

\* What the folding keeps when a worker takes an element.
LEMMA FetchFolding ==
  ASSUME Folding, G \in Nat, Len(sent) <= G, Len(sent) \in Nat,
         NEW w \in Workers, Fetch(w), UNCHANGED <<sent, points>>
  PROVE  Folding'
<1>1. PICK j \in todo :
        /\ todo' = todo \ {j}
        /\ held' = [held EXCEPT ![w] = <<j, cur[j], cur[j + Folded]>>]
  BY DEF Fetch
<1>2. /\ held[w] = Idle
      /\ sent' = sent /\ cur' = cur /\ whole' = whole /\ points' = points /\ Folded' = Folded
  BY DEF Fetch, Folded
<1>3. j \in 0 .. Folded - 1 /\ ~Done(j)
  BY DEF Folding, Done
<1>4. cur[j] = whole[j] /\ cur[j + Folded] = whole[j + Folded]
  BY <1>3 DEF Folding
<1>5. held' \in [Workers -> {Idle} \cup {<<k, whole[k], whole[k + Folded]>> : k \in 0 .. Folded - 1}]
  BY <1>1, <1>3, <1>4 DEF Folding
<1>6. \A v \in Workers : held'[v] = IF v = w THEN <<j, whole[j], whole[j + Folded]>> ELSE held[v]
  BY <1>1, <1>4 DEF Folding
<1>7. \A v \in Workers, k \in 0 .. Folded - 1 :
        Holds(v, k)' <=> (v = w /\ k = j) \/ (v # w /\ Holds(v, k))
  <2>1. held'[w] # Idle /\ held'[w][1] = j
    BY <1>6 DEF Idle
  <2>2. \A v \in Workers : v # w => held'[v] = held[v]
    BY <1>6
  <2>3. QED
    BY <2>1, <2>2 DEF Holds, Idle
<1>8. \A v \in Workers : ~Holds(v, j)
  BY DEF Folding, Holds
<1>9. \A v \in Workers : ~Holds(w, j) /\ \A k \in 0 .. Folded - 1 : ~Holds(w, k)
  BY <1>2 DEF Holds
<1>10. \A v \in Workers : held'[v] # Idle => held'[v][1] \notin todo'
  BY <1>1, <1>6 DEF Folding, Idle
<1>11. \A v, x \in Workers : \A k \in 0 .. Folded - 1 : Holds(v, k)' /\ Holds(x, k)' => v = x
  BY <1>7, <1>8 DEF Folding
<1>12. \A k \in 0 .. Folded - 1 : Done(k)' <=> Done(k)
  BY <1>1, <1>3, <1>7, <1>9 DEF Done
<1>13. \A k \in 0 .. Folded - 1 :
         /\ cur'[k + Folded] = whole[k + Folded]
         /\ cur'[k] = IF Done(k)' THEN Interpolate(whole[k], whole[k + Folded], points[Len(points)])
                      ELSE whole[k]
  BY <1>2, <1>12 DEF Folding
<1>14. todo' \subseteq 0 .. Folded - 1
  BY <1>1 DEF Folding
<1>15. QED
  BY <1>2, <1>5, <1>10, <1>11, <1>13, <1>14 DEF Folding, Tables, Idle

\* And when it stores one.
LEMMA StoreFolding ==
  ASSUME Folding, G \in Nat, Len(sent) <= G, Len(sent) \in Nat, points[Len(points)] \in Int,
         NEW w \in Workers, Store(w), UNCHANGED <<sent, points>>
  PROVE  Folding'
<1> DEFINE r == points[Len(points)]
<1>0. Folded \in Nat /\ Pow2[G - Len(sent) + 1] = 2 * Folded
  <2>1. PICK n \in Nat : n = G - Len(sent)
    OBVIOUS
  <2>2. Pow2[n] \in Nat /\ Pow2[n + 1] = 2 * Pow2[n]
    BY Pow
  <2>3. QED
    BY <2>1, <2>2 DEF Folded
<1>1. /\ held[w] # Idle /\ held' = [held EXCEPT ![w] = Idle]
      /\ cur' = [cur EXCEPT ![held[w][1]] = Interpolate(held[w][2], held[w][3], r)]
      /\ sent' = sent /\ whole' = whole /\ points' = points /\ Folded' = Folded /\ todo' = todo
  BY DEF Store, Folded
<1>2. PICK j \in 0 .. Folded - 1 : held[w] = <<j, whole[j], whole[j + Folded]>>
  BY <1>1 DEF Folding
<1>3. cur' = [cur EXCEPT ![j] = Interpolate(whole[j], whole[j + Folded], r)]
  BY <1>1, <1>2
<1>4. whole[j] \in Int /\ whole[j + Folded] \in Int /\ j \in 0 .. Pow2[G - Len(sent) + 1] - 1
  <2>1. j \in 0 .. 2 * Folded - 1 /\ j + Folded \in 0 .. 2 * Folded - 1
    BY <1>0
  <2>2. whole \in [0 .. 2 * Folded - 1 -> Ring]
    BY <1>0 DEF Folding, Tables
  <2>3. QED
    BY <1>0, <2>1, <2>2, RingFacts
<1>5. Interpolate(whole[j], whole[j + Folded], r) \in Ring
  BY <1>4, InterpolateType
<1>6. cur' \in Tables(G - Len(sent) + 1)
  BY <1>3, <1>5 DEF Folding, Tables
<1>7. \A v \in Workers : held'[v] = IF v = w THEN Idle ELSE held[v]
  BY <1>1 DEF Folding
<1>8. Holds(w, j)
  BY <1>1, <1>2 DEF Holds
<1>9. \A v \in Workers : \A k \in 0 .. Folded - 1 : Holds(v, k)' <=> v # w /\ Holds(v, k)
  BY <1>7 DEF Holds, Idle
<1>10. \A v \in Workers : v # w => ~Holds(v, j)
  BY <1>8 DEF Folding
<1>11. \A k \in 0 .. Folded - 1 : k # j => ~Holds(w, k)
  BY <1>2 DEF Holds
<1>12. Done(j)'
  <2>0. held[w][1] = j
    BY <1>2
  <2>1. j \notin todo
    BY <1>1, <2>0 DEF Folding
  <2>2. QED
    BY <1>1, <1>9, <1>10, <2>1 DEF Done
<1>13. \A k \in 0 .. Folded - 1 : k # j => (Done(k)' <=> Done(k))
  BY <1>1, <1>9, <1>11 DEF Done
<1>14. ASSUME NEW k \in 0 .. Folded - 1
       PROVE  /\ cur'[k + Folded] = whole[k + Folded]
              /\ cur'[k] = IF Done(k)' THEN Interpolate(whole[k], whole[k + Folded], r) ELSE whole[k]
  <2>1. k + Folded # j /\ k + Folded \in 0 .. Pow2[G - Len(sent) + 1] - 1
        /\ k \in 0 .. Pow2[G - Len(sent) + 1] - 1
    BY <1>0
  <2>2. cur'[k + Folded] = cur[k + Folded] /\ (k # j => cur'[k] = cur[k])
    BY <1>3, <2>1 DEF Folding, Tables
  <2>3. k = j => cur'[k] = Interpolate(whole[k], whole[k + Folded], r)
    BY <1>3, <2>1 DEF Folding, Tables
  <2>4. QED
    BY <1>12, <1>13, <2>2, <2>3 DEF Folding
<1>15. held' \in [Workers -> {Idle} \cup {<<k, whole[k], whole[k + Folded]>> : k \in 0 .. Folded - 1}]
  BY <1>1 DEF Folding
<1>16. \A v \in Workers : held'[v] # Idle => held'[v][1] \notin todo'
  BY <1>1, <1>7 DEF Folding, Idle
<1>17. \A v, x \in Workers : \A k \in 0 .. Folded - 1 : Holds(v, k)' /\ Holds(x, k)' => v = x
  BY <1>9 DEF Folding
<1>18. QED
  BY <1>1, <1>6, <1>14, <1>15, <1>16, <1>17 DEF Folding, Tables, Idle

LEMMA RoundTyping ==
  ASSUME Len(sent) \in Nat, Len(sent) < G, cur \in Tables(G - Len(sent)), NEW r \in Ring
  PROVE  /\ SumOver(cur, 0 .. Half - 1) \in Ring
         /\ SumOver(cur, Half .. 2 * Half - 1) \in Ring
         /\ Halves(cur, Half) \in Ring \X Ring
         /\ FoldAt(cur, Half, r) \in [0 .. Half - 1 -> Ring]
         /\ \A j \in 0 .. 2 * Half - 1 : cur[j] \in Ring
<1>1. Half \in Nat /\ Pow2[G - Len(sent)] = 2 * Half
  BY HalfFacts
<1>2. \A j \in 0 .. 2 * Half - 1 : cur[j] \in Ring
  BY <1>1 DEF Tables
<1>3. PICK h \in Nat : h = Half
  BY <1>1
<1>4. /\ \A j \in 0 .. 2 * h - 1 : cur[j] \in Int
      /\ \A j \in 0 .. h - 1 : cur[j] \in Int
      /\ \A j \in h .. 2 * h - 1 : cur[j] \in Int
  <2>1. \A j \in 0 .. 2 * h - 1 : cur[j] \in Int
    BY <1>2, <1>3, RingFacts
  <2>2. (\A j \in 0 .. h - 1 : j \in 0 .. 2 * h - 1) /\ \A j \in h .. 2 * h - 1 : j \in 0 .. 2 * h - 1
    OBVIOUS
  <2>3. QED
    BY <2>1, <2>2
<1>5. IsFiniteSet(0 .. h - 1) /\ IsFiniteSet(h .. 2 * h - 1)
  BY FS_Interval
<1>6. SumOver(cur, 0 .. h - 1) \in Ring /\ SumOver(cur, h .. 2 * h - 1) \in Ring
  BY <1>4, <1>5, SumOverType
<1>7. FoldAt(cur, h, r) \in [0 .. h - 1 -> Ring]
  BY <1>4, RingFacts, FoldAtType
<1>8. QED
  BY <1>2, <1>3, <1>6, <1>7 DEF Halves

LEMMA ProveTyping ==
  ASSUME Typing, honest, ProveStep, honest' = honest
  PROVE  Typing'
<1> DEFINE n == Len(sent)
<1>0. /\ G \in Nat /\ n \in Nat /\ n <= G /\ Len(points) = n /\ Pool /\ honest'
      /\ sent \in Seq(Int \X Int) /\ points \in Seq(Ring) /\ table \in Tables(G)
      /\ final = <<>> \/ \E v \in Ring : final = <<v>>
      /\ final # <<>> => n = G /\ stage = "round"
  BY PoolAssumption DEF Typing
<1>a. n \in Nat /\ G - n \in Nat
  BY <1>0
<1>1. CASE SequentialRound
  <2>1. PICK r \in Ring : /\ points' = Append(points, r) /\ cur' = FoldAt(cur, Half, r)
                          /\ sent' = Append(sent, Halves(cur, Half))
    BY <1>1 DEF SequentialRound
  <2>2. /\ stage = "round" /\ n < G /\ table' = table /\ final' = final /\ stage' = stage
        /\ held' = held
    BY <1>1 DEF SequentialRound, pool
  <2>3. cur \in Tables(G - n) /\ held = [w \in Workers |-> Idle] /\ final = <<>>
    BY <1>0, <2>2 DEF Pool
  <2>4. Halves(cur, Half) \in Ring \X Ring /\ FoldAt(cur, Half, r) \in [0 .. Half - 1 -> Ring]
    BY <1>0, <2>2, <2>3, RoundTyping
  <2>5. Halves(cur, Half) \in Int \X Int
    BY <2>4, RingFacts
  <2>6. /\ sent' \in Seq(Int \X Int) /\ points' \in Seq(Ring)
        /\ Len(sent') = n + 1 /\ Len(points') = n + 1
    BY <1>0, <2>1, <2>5
  <2>7. cur' \in Tables(G - Len(sent'))
    BY <1>0, <2>1, <2>4, <2>6 DEF Tables, Half
  <2>8. QED
    BY <1>0, <2>2, <2>3, <2>6, <2>7 DEF Typing, Pool, Tables, Idle
<1>2. CASE StartRound
  <2>1. /\ stage = "round" /\ n < G /\ stage' = "sum0" /\ parts' = Single(0 .. Half - 1)
        /\ UNCHANGED <<table, sent, points, final, cur, low, todo, held, whole>>
    BY <1>2 DEF StartRound, proof
  <2>2. cur \in Tables(G - n) /\ held = [w \in Workers |-> Idle] /\ final = <<>>
    BY <1>0, <2>1 DEF Pool
  <2>3. Half \in Nat /\ \A j \in 0 .. 2 * Half - 1 : cur[j] \in Ring
    BY <1>0, <2>1, <2>2, RingFacts, RoundTyping, HalfFacts
  <2>4. Pieces(0, Half - 1)'
    <3>1. PICK hi \in Int : hi = Half - 1
      BY <2>3
    <3>2. \A j \in 0 .. hi : cur[j] \in Ring
      BY <2>3, <3>1
    <3>3. Pieces(0, hi)'
      BY <2>1, <3>1, <3>2, SinglePieces
    <3>4. Half' = Half
      BY <2>1 DEF Half
    <3>5. QED
      BY <3>1, <3>3, <3>4 DEF Pieces
  <2>5. Summing'
    BY <2>1, <2>4 DEF Summing
  <2>6. QED
    BY <1>0, <2>1, <2>2, <2>5 DEF Typing, Pool, Tables, Idle
<1>3. CASE Join
  <2>1. stage \in {"sum0", "sum1"}
        /\ UNCHANGED <<table, sent, points, final, cur, stage, low, todo, held, whole>>
    BY <1>3 DEF Join, proof
  <2>2. cur \in Tables(G - n) /\ n < G /\ Summing
    BY <1>0, <2>1 DEF Pool, Summing
  <2>3. Half \in Nat /\ Half' = Half /\ \A j \in 0 .. 2 * Half - 1 : cur[j] \in Ring
    BY <1>0, <2>1, <2>2, RingFacts, RoundTyping, HalfFacts DEF Half
  <2>4. ASSUME stage = "sum0" PROVE Pieces(0, Half - 1)'
    <3>1. PICK hi \in Int : hi = Half - 1 /\ Pieces(0, hi)
      BY <2>2, <2>3, <2>4 DEF Summing
    <3>2. \A j \in 0 .. hi : cur[j] \in Ring
      BY <2>3, <3>1
    <3>3. Pieces(0, hi)'
      BY <1>3, <3>1, <3>2, JoinPieces
    <3>4. QED
      BY <2>3, <3>1, <3>3 DEF Pieces
  <2>5. ASSUME stage = "sum1" PROVE Pieces(Half, 2 * Half - 1)'
    <3>1. PICK lo \in Int, hi \in Int : lo = Half /\ hi = 2 * Half - 1 /\ Pieces(lo, hi)
      BY <2>2, <2>3, <2>5 DEF Summing
    <3>2. \A j \in lo .. hi : cur[j] \in Ring
      BY <2>3, <3>1
    <3>3. Pieces(lo, hi)'
      BY <1>3, <3>1, <3>2, JoinPieces
    <3>4. QED
      BY <2>3, <3>1, <3>3 DEF Pieces
  <2>6. Summing'
    BY <2>1, <2>2, <2>3, <2>4, <2>5 DEF Summing
  <2>7. QED
    BY <1>0, <2>1, <2>2, <2>6 DEF Typing, Pool, Tables, Idle
<1>4. CASE LowSummed
  <2>1. PICK p : parts = {p} /\ low' = p.sum
    BY <1>4 DEF LowSummed
  <2>2. /\ stage = "sum0" /\ stage' = "sum1" /\ parts' = Single(Half .. 2 * Half - 1)
        /\ UNCHANGED <<table, sent, points, final, cur, todo, held, whole>>
    BY <1>4 DEF LowSummed, proof
  <2>3. cur \in Tables(G - n) /\ n < G /\ Pieces(0, Half - 1)
    BY <1>0, <2>2 DEF Pool, Summing
  <2>4. Half \in Nat /\ Half > 0 /\ Half' = Half /\ \A j \in 0 .. 2 * Half - 1 : cur[j] \in Ring
    BY <1>0, <2>2, <2>3, RingFacts, RoundTyping, HalfFacts DEF Half
  <2>5. low' = SumOver(cur, 0 .. Half - 1)
    BY <2>1, <2>3, <2>4, LastPiece
  <2>6. Pieces(Half, 2 * Half - 1)'
    <3>1. PICK lo \in Int, hi \in Int : lo = Half /\ hi = 2 * Half - 1
      BY <2>4
    <3>2. \A j \in lo .. hi : cur[j] \in Ring
      BY <2>4, <3>1
    <3>3. Pieces(lo, hi)'
      BY <2>2, <3>1, <3>2, SinglePieces
    <3>4. QED
      BY <2>4, <3>1, <3>3 DEF Pieces
  <2>7. Summing'
    BY <2>2, <2>3, <2>4, <2>5, <2>6 DEF Summing
  <2>8. QED
    BY <1>0, <2>2, <2>3, <2>7 DEF Typing, Pool, Tables, Idle
<1>5. CASE HighSummed
  <2>1. PICK p \in parts, r \in Ring : parts = {p} /\ sent' = Append(sent, <<low, p.sum>>)
                             /\ points' = Append(points, r)
    BY <1>5 DEF HighSummed
  <2>2. /\ stage = "sum1" /\ stage' = "fold" /\ todo' = 0 .. Half - 1 /\ whole' = cur
        /\ UNCHANGED <<table, cur, final, low, held>>
    BY <1>5 DEF HighSummed
  <2>3. /\ cur \in Tables(G - n) /\ n < G /\ Pieces(Half, 2 * Half - 1) /\ final = <<>>
        /\ low = SumOver(cur, 0 .. Half - 1) /\ held = [w \in Workers |-> Idle]
    BY <1>0, <2>2 DEF Pool, Summing
  <2>4. /\ Half \in Nat /\ Half > 0 /\ Pow2[G - n] = 2 * Half /\ low \in Int
        /\ SumOver(cur, Half .. 2 * Half - 1) \in Int
    BY <1>0, <2>1, <2>3, RingFacts, RoundTyping, HalfFacts
  <2>5. p.sum = SumOver(cur, Half .. 2 * Half - 1)
    BY <2>1, <2>3, <2>4, LastPiece
  <2>6. /\ sent' \in Seq(Int \X Int) /\ points' \in Seq(Ring)
        /\ Len(sent') = n + 1 /\ Len(points') = n + 1
    BY <1>0, <2>1, <2>4, <2>5
  <2>7. Folded' = Half /\ G - Len(sent') + 1 = G - n
    BY <1>0, <2>6 DEF Folded, Half
  <2>8. \A j \in 0 .. Half - 1 : ~Done(j)'
    BY <2>2 DEF Done
  <2>9. Folding'
    <3>1. \A w \in Workers : held'[w] = Idle
      BY <2>2, <2>3
    <3>2. held' \in [Workers -> {Idle}]
      BY <2>2, <2>3
    <3>3. whole' \in Tables(G - n) /\ cur' \in Tables(G - n) /\ todo' \subseteq 0 .. Half - 1
      BY <2>2, <2>3
    <3>4. \A j \in 0 .. Half - 1 : cur'[j + Half] = whole'[j + Half] /\ cur'[j] = whole'[j]
      BY <2>2
    <3>5. \A w \in Workers : \A j \in 0 .. Half - 1 : ~Holds(w, j)'
      BY <3>1 DEF Holds, Idle
    <3>6. Len(sent') > 0
      BY <1>0, <2>6
    <3>7. QED
      BY <2>7, <2>8, <3>1, <3>2, <3>3, <3>4, <3>5, <3>6 DEF Folding, Tables, Idle
  <2>10. QED
    BY <1>0, <2>2, <2>3, <2>6, <2>9 DEF Typing, Pool, Tables
<1>6. CASE Truncate
  <2>1. /\ stage = "fold" /\ AllStored /\ cur' = [j \in 0 .. Folded - 1 |-> cur[j]]
        /\ stage' = "round" /\ UNCHANGED <<table, sent, points, final, todo, held>>
    BY <1>6 DEF Truncate, proof, pool
  <2>2. Folding /\ final = <<>>
    BY <1>0, <2>1 DEF Pool
  <2>3. PICK m \in Nat : m = G - n
    BY <1>a
  <2>4. Folded = Pow2[m] /\ Pow2[m] \in Nat /\ Pow2[m + 1] = 2 * Pow2[m]
    BY <2>3, Pow DEF Folded
  <2>5. cur \in [0 .. 2 * Folded - 1 -> Ring]
    BY <2>2, <2>3, <2>4 DEF Folding, Tables
  <2>6. \A j \in 0 .. Folded - 1 : j \in 0 .. 2 * Folded - 1
    BY <2>4
  <2>7. cur' \in Tables(G - n)
    BY <2>1, <2>3, <2>4, <2>5, <2>6 DEF Tables
  <2>8. held = [w \in Workers |-> Idle]
    BY <2>1, <2>2 DEF AllStored, Folding
  <2>9. QED
    BY <1>0, <2>1, <2>2, <2>7, <2>8 DEF Typing, Pool, Tables, Idle
<1>7. CASE Finish
  <2>1. /\ stage = "round" /\ n = G /\ final' = <<cur[0]>>
        /\ UNCHANGED <<table, cur, sent, points, stage, held>>
    BY <1>7 DEF Finish, pool
  <2>2. cur \in Tables(G - n) /\ held = [w \in Workers |-> Idle]
    BY <1>0, <2>1 DEF Pool
  <2>3. cur[0] \in Ring
    BY <1>0, <2>1, <2>2, Pow DEF Tables
  <2>4. QED
    BY <1>0, <2>1, <2>2, <2>3 DEF Typing, Pool, Tables, Idle
<1>8. ASSUME NEW w \in Workers, Fetch(w) \/ Store(w) PROVE Typing'
  <2>1. stage = "fold" /\ UNCHANGED <<table, sent, points, final, stage>>
    BY <1>8 DEF Fetch, Store, proof
  <2>2. Folding /\ final = <<>>
    BY <1>0, <2>1 DEF Pool
  <2>3. points[Len(points)] \in Int
    <3>1. n > 0 /\ Len(points) = n /\ points \in Seq(Ring)
      BY <1>0, <2>2 DEF Folding
    <3>2. points[n] \in Ring
      BY <1>a, <3>1
    <3>3. QED
      BY <3>1, <3>2, RingFacts
  <2>4. Folding'
    BY <1>0, <1>8, <2>1, <2>2, <2>3, FetchFolding, StoreFolding
  <2>5. QED
    BY <1>0, <2>1, <2>2, <2>4 DEF Typing, Pool, Tables
<1>9. QED
  BY <1>1, <1>2, <1>3, <1>4, <1>5, <1>6, <1>7, <1>8 DEF ProveStep

-----------------------------------------------------------------------------
(***************************************************************************)
(* Batches: the combined table and the combined claim are in the ring.     *)
(***************************************************************************)
\* Weights are the powers of gamma.
LEMMA Weights ==
  ASSUME NEW g \in Int
  PROVE  /\ Weight(g, 1) = 1
         /\ \A i \in Nat : i > 0 => Weight(g, i) \in Int /\ Weight(g, i + 1) = (Weight(g, i) * g) % Q
<1> DEFINE h == [p \in Nat \X Int |-> (p[2] * g) % Q]
           Weighs(w) == w = [k \in Nat |-> IF k = 0 THEN 1 ELSE (w[k - 1] * g) % Q]
<1>1. PICK w : Recursion(1, h, Nat, w)
  BY RecursionExists
<1>2. w[0] = 1 /\ \A k \in Nat : k # 0 => w[k] = h[<<k, w[k - 1]>>]
  BY <1>1 DEF Recursion
<1>3. \A v \in Int : (v * g) % Q \in Int
  <2>1. SUFFICES ASSUME NEW v \in Int PROVE (v * g) % Q \in Int
    OBVIOUS
  <2>2. PICK z \in Int : z = v * g
    OBVIOUS
  <2>3. QED
    BY <2>2, RingFacts
<1>4. \A k \in Nat : w[k] \in Int
  <2> DEFINE N == {m \in Nat : w[m] \in Int}
  <2>1. 0 \in N
    BY <1>2
  <2>2. ASSUME NEW n \in Nat, n \in N PROVE n + 1 \in N
    <3>1. n + 1 \in Nat /\ n + 1 # 0 /\ (n + 1) - 1 = n
      OBVIOUS
    <3>2. w[n + 1] = h[<<n + 1, w[n]>>]
      BY <1>2, <3>1
    <3>3. QED
      BY <1>3, <2>2, <3>1, <3>2
  <2>3. \A n \in Nat : n \in N
    <3> HIDE DEF N
    <3> QED BY <2>1, <2>2, NatSetInduction
  <2>4. QED
    BY <2>3
<1>5. Weighs(w)
  <2>1. \A k \in Nat : w[k] = IF k = 0 THEN 1 ELSE (w[k - 1] * g) % Q
    <3>1. SUFFICES ASSUME NEW k \in Nat, k # 0 PROVE w[k] = (w[k - 1] * g) % Q
      BY <1>2
    <3>2. k - 1 \in Nat
      BY <3>1
    <3>3. QED
      BY <1>2, <1>4, <3>1, <3>2
  <2>2. w = [k \in Nat |-> w[k]]
    BY <1>1 DEF Recursion
  <2> HIDE DEF h
  <2>3. QED
    BY <2>1, <2>2, Zenon
<1>6. PICK u : u = CHOOSE v : Weighs(v)
  OBVIOUS
<1>7. Weighs(u)
  BY <1>5, <1>6, Zenon
<1>8. \A i : Weight(g, i) = u[i - 1]
  BY <1>6 DEF Weight
<1>9. u[0] = 1 /\ \A k \in Nat : u[k + 1] = (u[k] * g) % Q
  <2>1. \A k \in Nat : u[k] = IF k = 0 THEN 1 ELSE (u[k - 1] * g) % Q
    BY <1>7
  <2>2. \A k \in Nat : k + 1 \in Nat /\ k + 1 # 0 /\ (k + 1) - 1 = k
    OBVIOUS
  <2>3. QED
    BY <2>1, <2>2
<1>10. \A k \in Nat : u[k] \in Int
  <2> DEFINE N == {m \in Nat : u[m] \in Int}
  <2>1. 0 \in N
    BY <1>9
  <2>2. ASSUME NEW n \in Nat, n \in N PROVE n + 1 \in N
    <3>1. PICK v \in Int : v = u[n]
      BY <2>2
    <3>2. u[n + 1] = (v * g) % Q
      BY <1>9, <3>1
    <3>3. (v * g) % Q \in Int
      BY <1>3
    <3>4. QED
      BY <3>2, <3>3
  <2>3. \A n \in Nat : n \in N
    <3> HIDE DEF N
    <3> QED BY <2>1, <2>2, NatSetInduction
  <2>4. QED
    BY <2>3
<1>11. Weight(g, 1) = 1
  BY <1>8, <1>9, 1 - 1 = 0
<1>12. ASSUME NEW i \in Nat, i > 0
       PROVE  Weight(g, i) \in Int /\ Weight(g, i + 1) = (Weight(g, i) * g) % Q
  <2>1. PICK k \in Nat : k = i - 1 /\ (i + 1) - 1 = k + 1
    BY <1>12
  <2>2. Weight(g, i) = u[k] /\ Weight(g, i + 1) = u[k + 1]
    BY <1>8, <2>1
  <2>3. QED
    BY <1>9, <1>10, <2>2
<1>13. QED
  BY <1>11, <1>12

LEMMA WeightType ==
  ASSUME NEW g \in Int, NEW i \in Nat, i > 0
  PROVE  Weight(g, i) \in Int
BY Weights

LEMMA BatchFacts ==
  ASSUME NEW b \in Batches
  PROVE  /\ Len(b) \in Nat /\ Len(b) > 0 /\ DOMAIN b = 1 .. Len(b) /\ IsFiniteSet(DOMAIN b)
         /\ \A i \in DOMAIN b : /\ b[i].table \in Tables(G) /\ b[i].claimed \in Ring
                                /\ b[i].eq = <<>> \/ b[i].eq \in [1 .. G -> Ring]
<1>1. Len(b) > 0 /\ b \in Seq([table : Tables(G), eq : {<<>>} \cup [1 .. G -> Ring], claimed : Ring])
  BY BatchesAssumption DEF Tables
<1>2. DOMAIN b = 1 .. Len(b) /\ Len(b) \in Nat
  BY <1>1
<1>3. PICK R : R = [table : Tables(G), eq : {<<>>} \cup [1 .. G -> Ring], claimed : Ring]
  OBVIOUS
<1>4. \A i \in DOMAIN b : b[i] \in R
  <2>1. b \in Seq(R)
    BY <1>1, <1>3
  <2>2. QED
    BY <1>2, <2>1
<1>5. \A c \in R : /\ c.table \in Tables(G) /\ c.claimed \in Ring
                   /\ c.eq = <<>> \/ c.eq \in [1 .. G -> Ring]
  BY <1>3
<1>6. IsFiniteSet(1 .. Len(b))
  BY <1>2, FS_Interval
<1>7. QED
  BY <1>1, <1>2, <1>4, <1>5, <1>6

LEMMA EqWeightType ==
  ASSUME NEW eq, eq = <<>> \/ eq \in [1 .. G -> Ring], NEW idx
  PROVE  EqWeight(eq, idx) \in Int
<1>1. CASE eq = <<>>
  BY <1>1 DEF EqWeight
<1>2. CASE eq \in [1 .. G -> Ring]
  <2>1. G \in Nat /\ DOMAIN eq = 1 .. G /\ \A i \in 1 .. G : eq[i] \in Int
    BY <1>2, PoolAssumption, RingFacts
  <2>2. EqTensor(eq, Bits(idx)) \in Int
    BY <2>1, EqTensorIsReduce
  <2>3. QED
    BY <2>2 DEF EqWeight
<1>3. QED
  BY <1>1, <1>2

LEMMA CombinedTyping ==
  ASSUME NEW b \in Batches, NEW g \in Ring
  PROVE  CombinedTable(b, g) \in Tables(G) /\ CombinedClaim(b, g) \in Ring
<1>1. PICK D : /\ D = DOMAIN b /\ IsFiniteSet(D)
               /\ \A i \in D : /\ i \in Nat /\ i > 0
                               /\ b[i].table \in Tables(G) /\ b[i].claimed \in Ring
                               /\ b[i].eq = <<>> \/ b[i].eq \in [1 .. G -> Ring]
  BY BatchFacts
<1>2. \A i \in D : Weight(g, i) \in Int
  BY <1>1, WeightType, RingFacts
<1>3. ASSUME NEW idx \in 0 .. Pow2[G] - 1
      PROVE  SumOver([i \in D |-> Weight(g, i) * EqWeight(b[i].eq, idx) * b[i].table[idx]], D) \in Ring
  <2> DEFINE f == [i \in D |-> Weight(g, i) * EqWeight(b[i].eq, idx) * b[i].table[idx]]
  <2>1. ASSUME NEW i \in D PROVE f[i] \in Int
    <3>1. PICK x \in Int, y \in Int, z \in Int :
            x = Weight(g, i) /\ y = EqWeight(b[i].eq, idx) /\ z = b[i].table[idx]
      BY <1>1, <1>2, EqWeightType, RingFacts DEF Tables
    <3>2. QED
      BY <3>1
  <2> HIDE DEF f
  <2>2. SumOver(f, D) \in Ring
    BY <1>1, <2>1, SumOverType
  <2>3. QED
    BY <2>2 DEF f
<1>4. SumOver([i \in D |-> Weight(g, i) * b[i].claimed], D) \in Ring
  <2> DEFINE f == [i \in D |-> Weight(g, i) * b[i].claimed]
  <2>1. ASSUME NEW i \in D PROVE f[i] \in Int
    <3>1. PICK x \in Int, y \in Int : x = Weight(g, i) /\ y = b[i].claimed
      BY <1>1, <1>2, RingFacts
    <3>2. QED
      BY <3>1
  <2> HIDE DEF f
  <2>2. SumOver(f, D) \in Ring
    BY <1>1, <2>1, SumOverType
  <2>3. QED
    BY <2>2 DEF f
<1>5. QED
  BY <1>1, <1>3, <1>4 DEF CombinedTable, CombinedClaim, Tables

-----------------------------------------------------------------------------
LEMMA InitTyping == BatchInit => Typing
<1>1. SUFFICES ASSUME BatchInit PROVE Typing
  OBVIOUS
<1>2. /\ batch \in Batches /\ gamma \in Ring /\ table = CombinedTable(batch, gamma)
      /\ cur = table /\ sent = <<>> /\ points = <<>> /\ final = <<>> /\ stage = "round"
      /\ held = [w \in Workers |-> Idle] /\ honest \in BOOLEAN
  BY <1>1 DEF BatchInit, Init, ProveInit
<1>3. table \in Tables(G)
  BY <1>2, CombinedTyping
<1>4. G \in Nat /\ Len(sent) = 0 /\ Len(points) = 0 /\ G - Len(sent) = G
  BY <1>2, PoolAssumption
<1>5. sent \in Seq(Int \X Int) /\ points \in Seq(Ring)
  BY <1>2
<1>6. Pool
  BY <1>2, <1>3, <1>4 DEF Pool
<1>7. QED
  BY <1>2, <1>3, <1>4, <1>5, <1>6 DEF Typing

LEMMA StepTyping == Typing /\ [Next /\ UNCHANGED <<batch, gamma>>]_vars => Typing'
<1>1. SUFFICES ASSUME Typing, [Next /\ UNCHANGED <<batch, gamma>>]_vars PROVE Typing'
  OBVIOUS
<1>2. ASSUME UNCHANGED <<proverVars, honest>> PROVE Typing'
  <2>1. UNCHANGED <<table, cur, sent, points, final, stage, parts, low, todo, held, whole, honest>>
    BY <1>2 DEF proverVars, proof, pool
  <2>2. Pool' <=> Pool
    BY <2>1 DEF Pool, Folding, Summing, Pieces, Holds, Done, Tables, Half, Folded, Idle
  <2>3. QED
    BY <1>1, <2>1, <2>2 DEF Typing, Tables
<1>3. CASE Prove
  BY <1>1, <1>3, ProveTyping DEF Prove
<1>4. CASE Forge
  <2>1. ~honest /\ ~honest' /\ table' = table /\ honest' \in BOOLEAN
    BY <1>1, <1>4 DEF Forge, Typing
  <2>2. /\ final' = final
        /\ \E m \in Forgeries, r \in Ring : sent' = Append(sent, m) /\ points' = Append(points, r)
        /\ Len(sent) < G
       => Typing'
    <3>1. SUFFICES ASSUME final' = final, Len(sent) < G, NEW m \in Forgeries, NEW r \in Ring,
                          sent' = Append(sent, m), points' = Append(points, r)
                   PROVE  Typing'
      OBVIOUS
    <3>2. m \in Int \X Int
      BY ForgeryAssumption, RingFacts
    <3>3. /\ sent' \in Seq(Int \X Int) /\ points' \in Seq(Ring)
          /\ Len(sent') = Len(sent) + 1 /\ Len(points') = Len(points) + 1
      BY <1>1, <3>1, <3>2 DEF Typing
    <3>4. Len(sent') <= G
      BY <1>1, <3>1, <3>3, PoolAssumption DEF Typing
    <3>5. QED
      BY <1>1, <2>1, <3>1, <3>3, <3>4 DEF Typing, Tables
  <2>3. (\E v \in Ring : final' = <<v>>) /\ UNCHANGED <<sent, points>> => Typing'
    BY <1>1, <2>1 DEF Typing, Tables
  <2>4. QED
    BY <1>4, <2>2, <2>3 DEF Forge
<1>5. CASE CheckRound \/ Accept \/ Reject
  BY <1>2, <1>5 DEF CheckRound, Accept, Reject
<1>6. CASE UNCHANGED vars
  BY <1>2, <1>6 DEF vars
<1>7. QED
  BY <1>1, <1>3, <1>4, <1>5, <1>6 DEF Next

\* Every value has its type, and the pool what it needs, in every reachable
\* state.
THEOREM SumcheckTyping == Spec => []Typing
<1>1. QED
  BY InitTyping, StepTyping, PTL DEF Spec

\* The round of the pool is the round of the sequential prover.
LEMMA StepImplements ==
  ASSUME Typing, honest, ProveStep
  PROVE  \/ Sequential!Round \/ Sequential!Finish
         \/ UNCHANGED <<table, FoldedTable, sent, points, final>>
<1> DEFINE n == Len(sent)
<1>0. /\ G \in Nat /\ n \in Nat /\ n <= G /\ Len(points) = n /\ Pool
      /\ sent \in Seq(Int \X Int) /\ points \in Seq(Ring)
      /\ final # <<>> => n = G /\ stage = "round"
  BY PoolAssumption DEF Typing
<1>a. n \in Nat /\ G - n \in Nat
  BY <1>0
<1>1. ASSUME NEW r \in Ring, n < G, final = <<>>, FoldedTable = cur,
             sent' = Append(sent, Halves(cur, Half)), points' = Append(points, r),
             FoldedTable' = FoldAt(cur, Half, r), UNCHANGED <<table, final>>
      PROVE  Sequential!Round
  <2>1. Sequential!Half = Half
    BY DEF Sequential!Half, Half, Sequential!Pow2, Pow2
  <2>2. Sequential!Halves(cur, Half) = Halves(cur, Half)
    BY Zenon DEF Sequential!Halves, Halves, Sequential!SumOver, SumOver,
                 Sequential!SumFunctionOnSet, SumFunctionOnSet, Sequential!FoldFunctionOnSet,
                 FoldFunctionOnSet, Sequential!MapThenFoldSet, MapThenFoldSet
  <2>3. Sequential!FoldAt(cur, Half, r) = FoldAt(cur, Half, r)
    BY DEF Sequential!FoldAt, FoldAt, Sequential!Interpolate, Interpolate
  <2>4. Sequential!Ring = Ring
    BY DEF Sequential!Ring, Ring
  <2>5. QED
    BY <1>1, <2>1, <2>2, <2>3, <2>4 DEF Sequential!Round
<1>2. CASE SequentialRound
  <2>1. PICK r \in Ring : /\ points' = Append(points, r) /\ cur' = FoldAt(cur, Half, r)
                          /\ sent' = Append(sent, Halves(cur, Half))
    BY <1>2 DEF SequentialRound
  <2>2. stage = "round" /\ n < G /\ stage' = "round" /\ UNCHANGED <<table, final>>
    BY <1>2 DEF SequentialRound
  <2>3. final = <<>> /\ FoldedTable = cur /\ FoldedTable' = cur'
    BY <1>0, <2>2 DEF FoldedTable
  <2>4. QED
    BY <1>1, <2>1, <2>2, <2>3
<1>3. CASE StartRound \/ Join \/ LowSummed
  <2>1. UNCHANGED <<table, sent, points, final, cur>> /\ stage # "fold" /\ stage' # "fold"
    BY <1>3 DEF StartRound, Join, LowSummed, proof
  <2>2. QED
    BY <2>1 DEF FoldedTable
<1>4. CASE HighSummed
  <2>1. PICK p \in parts, r \in Ring : parts = {p} /\ sent' = Append(sent, <<low, p.sum>>)
                             /\ points' = Append(points, r)
    BY <1>4 DEF HighSummed
  <2>2. stage = "sum1" /\ stage' = "fold" /\ whole' = cur /\ UNCHANGED <<table, cur, final>>
    BY <1>4 DEF HighSummed
  <2>3. /\ n < G /\ Pieces(Half, 2 * Half - 1) /\ final = <<>> /\ low = SumOver(cur, 0 .. Half - 1)
    BY <1>0, <2>2 DEF Pool, Summing
  <2>4. Half \in Nat /\ Half > 0
    BY <1>0, <2>3, HalfFacts
  <2>5. <<low, p.sum>> = Halves(cur, Half)
    <3>1. p.sum = SumOver(cur, Half .. 2 * Half - 1)
      BY <2>1, <2>3, <2>4, LastPiece
    <3>2. QED
      BY <2>3, <3>1 DEF Halves
  <2>6. /\ Len(sent') = n + 1 /\ Len(points') = n + 1 /\ points'[n + 1] = r
    BY <1>0, <2>1
  <2>7. Folded' = Half
    BY <1>0, <2>6 DEF Folded, Half
  <2>8. FoldedTable = cur /\ FoldedTable' = FoldAt(cur, Half, r)
    BY <2>2, <2>6, <2>7 DEF FoldedTable
  <2>9. QED
    BY <1>1, <2>1, <2>2, <2>3, <2>5, <2>8
<1>5. CASE Truncate
  <2>1. /\ stage = "fold" /\ AllStored /\ cur' = [j \in 0 .. Folded - 1 |-> cur[j]]
        /\ stage' = "round" /\ UNCHANGED <<table, sent, points, final>>
    BY <1>5 DEF Truncate, proof
  <2>2. Folding
    BY <1>0, <2>1 DEF Pool
  <2>3. \A j \in 0 .. Folded - 1 : Done(j)
    BY <2>1 DEF AllStored, Done, Holds
  <2>4. \A j \in 0 .. Folded - 1 : cur[j] = Interpolate(whole[j], whole[j + Folded], points[Len(points)])
    BY <2>2, <2>3 DEF Folding
  <2>5. FoldedTable = cur'
    BY <2>1, <2>4 DEF FoldedTable, FoldAt
  <2>6. FoldedTable' = cur'
    BY <2>1 DEF FoldedTable
  <2>7. QED
    BY <2>1, <2>5, <2>6
<1>6. CASE Finish
  <2>1. /\ stage = "round" /\ final = <<>> /\ n = G /\ final' = <<cur[0]>>
        /\ UNCHANGED <<table, cur, sent, points, stage>>
    BY <1>6 DEF Finish
  <2>2. FoldedTable = cur /\ FoldedTable' = cur
    BY <2>1 DEF FoldedTable
  <2>3. QED
    BY <2>1, <2>2 DEF Sequential!Finish
<1>7. ASSUME NEW w \in Workers, Fetch(w) \/ Store(w)
      PROVE  UNCHANGED <<table, FoldedTable, sent, points, final>>
  <2>1. stage = "fold" /\ UNCHANGED <<table, sent, points, final, stage, whole>>
    BY <1>7 DEF Fetch, Store, proof
  <2>2. Folded' = Folded
    BY <2>1 DEF Folded
  <2>3. QED
    BY <2>1, <2>2 DEF FoldedTable
<1>8. QED
  BY <1>2, <1>3, <1>4, <1>5, <1>6, <1>7 DEF ProveStep

\* The proof of the rayon prover is the proof of the sequential prover, however
\* its pool splits the sums, orders the joins and interleaves the folds in
\* place, for every number of workers and every threshold (sumcheck/mod.rs:
\* 140-143).
THEOREM PoolImplementsSequential == Spec => ImplementsSequential
<1>1. ASSUME Typing, [Next /\ UNCHANGED <<batch, gamma>>]_vars
      PROVE  [honest => Sequential!Round \/ Sequential!Finish]_<<table, FoldedTable, sent, points, final>>
  <2>1. ASSUME UNCHANGED proverVars
        PROVE  UNCHANGED <<table, FoldedTable, sent, points, final>>
    <3>1. UNCHANGED <<table, sent, points, final, cur, stage, whole>>
      BY <2>1 DEF proverVars, proof, pool
    <3>2. Folded' = Folded
      BY <3>1 DEF Folded
    <3>3. QED
      BY <3>1, <3>2 DEF FoldedTable
  <2>2. CASE Prove
    BY <1>1, <2>2, StepImplements DEF Prove
  <2>3. CASE Forge
    BY <2>3 DEF Forge
  <2>4. CASE CheckRound \/ Accept \/ Reject
    BY <2>1, <2>4 DEF CheckRound, Accept, Reject
  <2>5. CASE UNCHANGED vars
    BY <2>1, <2>5 DEF vars
  <2>6. QED
    BY <1>1, <2>2, <2>3, <2>4, <2>5 DEF Next
<1>2. QED
  BY <1>1, SumcheckTyping, PTL DEF Spec, ImplementsSequential

-----------------------------------------------------------------------------
(***************************************************************************)
(* The table folded at the challenges, and the messages of an honest run.  *)
(***************************************************************************)
ContractionOf(t, p) ==
  CHOOSE g : g = [n \in 0 .. Len(p) |->
                    IF n = 0 THEN t ELSE FoldAt(g[n - 1], Pow2[G - n], p[n])]

LEMMA Contraction ==
  ASSUME NEW t \in Tables(G), NEW p \in Seq(Ring), Len(p) <= G
  PROVE  /\ ContractionOf(t, p)[0] = t
         /\ \A n \in 1 .. Len(p) :
              ContractionOf(t, p)[n] = FoldAt(ContractionOf(t, p)[n - 1], Pow2[G - n], p[n])
         /\ \A n \in 0 .. Len(p) : ContractionOf(t, p)[n] \in Tables(G - n)
<1> DEFINE D == 0 .. Len(p)
           V == UNION {Tables(k) : k \in 0 .. G}
           h == [q \in D \X V |-> FoldAt(q[2], Pow2[G - q[1]], p[q[1]])]
           Folds(g) == g = [n \in D |-> IF n = 0 THEN t ELSE FoldAt(g[n - 1], Pow2[G - n], p[n])]
<1>0. G \in Nat /\ Len(p) \in Nat
  BY PoolAssumption
<1>1. PICK k : Recursion(t, h, D, k)
  BY <1>0, RecursionUpto
<1>2. k[0] = t /\ \A n \in D : n # 0 => k[n] = h[<<n, k[n - 1]>>]
  <2>1. 0 \in D
    BY <1>0
  <2> HIDE DEF h, D
  <2>2. \A n \in D : k[n] = IF n = 0 THEN t ELSE h[<<n, k[n - 1]>>]
    BY <1>1 DEF Recursion
  <2>3. QED
    BY <2>1, <2>2
<1>3. ASSUME NEW n \in Nat, n < Len(p), NEW T \in Tables(G - n)
      PROVE  FoldAt(T, Pow2[G - (n + 1)], p[n + 1]) \in Tables(G - (n + 1))
  <2>1. PICK m \in Nat : m = G - (n + 1) /\ G - n = m + 1
    BY <1>0, <1>3
  <2>2. Pow2[m] \in Nat /\ Pow2[m + 1] = 2 * Pow2[m]
    BY Pow
  <2>3. p[n + 1] \in Int
    <3>1. n + 1 \in 1 .. Len(p)
      BY <1>0, <1>3
    <3>2. p[n + 1] \in Ring
      BY <3>1
    <3>3. QED
      BY <3>2, RingFacts
  <2>4. \A j \in 0 .. 2 * Pow2[m] - 1 : T[j] \in Int
    BY <2>1, <2>2, RingFacts DEF Tables
  <2>5. PICK a \in Nat : a = Pow2[m]
    BY <2>2
  <2>6. FoldAt(T, a, p[n + 1]) \in [0 .. a - 1 -> Ring]
    BY <2>3, <2>4, <2>5, FoldAtType
  <2>7. QED
    BY <2>1, <2>5, <2>6 DEF Tables
<1>4. \A n \in D : k[n] \in Tables(G - n)
  <2> DEFINE N == {n \in Nat : n <= Len(p) => k[n] \in Tables(G - n)}
  <2>1. 0 \in N
    BY <1>0, <1>2
  <2>2. ASSUME NEW n \in Nat, n \in N PROVE n + 1 \in N
    <3>1. SUFFICES ASSUME n + 1 <= Len(p) PROVE k[n + 1] \in Tables(G - (n + 1))
      OBVIOUS
    <3>2. n \in D /\ n + 1 \in D /\ n + 1 # 0 /\ (n + 1) - 1 = n /\ n < Len(p) /\ G - n \in 0 .. G
      BY <1>0, <3>1
    <3>3. k[n] \in Tables(G - n) /\ k[n] \in V
      BY <2>2, <3>2
    <3>4. k[n + 1] = h[<<n + 1, k[n]>>]
      BY <1>2, <3>2
    <3>5. k[n + 1] = FoldAt(k[n], Pow2[G - (n + 1)], p[n + 1])
      BY <3>2, <3>3, <3>4
    <3>6. QED
      BY <1>3, <3>2, <3>3, <3>5
  <2>3. \A n \in Nat : n \in N
    <3> HIDE DEF N
    <3> QED BY <2>1, <2>2, NatSetInduction
  <2>4. QED
    BY <1>0, <2>3
<1>5. Folds(k)
  <2>1. ASSUME NEW n \in D PROVE k[n] = IF n = 0 THEN t ELSE FoldAt(k[n - 1], Pow2[G - n], p[n])
    <3>1. SUFFICES ASSUME n # 0 PROVE k[n] = FoldAt(k[n - 1], Pow2[G - n], p[n])
      BY <1>2
    <3>2. n - 1 \in D /\ G - (n - 1) \in 0 .. G
      BY <1>0, <3>1
    <3>3. k[n - 1] \in V
      BY <1>4, <3>2
    <3>4. k[n] = h[<<n, k[n - 1]>>]
      BY <1>2, <3>1
    <3>5. QED
      BY <3>3, <3>4
  <2>2. k = [n \in D |-> k[n]]
    BY <1>1 DEF Recursion
  <2> HIDE DEF h, D
  <2>3. QED
    BY <2>1, <2>2, Zenon
<1>6. PICK u : u = CHOOSE v : Folds(v)
  OBVIOUS
<1>7. Folds(u)
  BY <1>5, <1>6, Zenon
<1>8. u = ContractionOf(t, p)
  BY <1>6 DEF ContractionOf
<1>9. u[0] = t /\ \A n \in 1 .. Len(p) : u[n] = FoldAt(u[n - 1], Pow2[G - n], p[n])
  BY <1>0, <1>7
<1>10. \A n \in D : u[n] \in Tables(G - n)
  <2> DEFINE N == {n \in Nat : n <= Len(p) => u[n] \in Tables(G - n)}
  <2>1. 0 \in N
    BY <1>0, <1>9
  <2>2. ASSUME NEW n \in Nat, n \in N PROVE n + 1 \in N
    <3>1. SUFFICES ASSUME n + 1 <= Len(p) PROVE u[n + 1] \in Tables(G - (n + 1))
      OBVIOUS
    <3>2. n + 1 \in 1 .. Len(p) /\ (n + 1) - 1 = n /\ n < Len(p)
      BY <1>0, <3>1
    <3>3. u[n] \in Tables(G - n)
      BY <2>2, <3>2
    <3>4. u[n + 1] = FoldAt(u[n], Pow2[G - (n + 1)], p[n + 1])
      BY <1>9, <3>2
    <3>5. QED
      BY <1>3, <3>2, <3>3, <3>4
  <2>3. \A n \in Nat : n \in N
    <3> HIDE DEF N
    <3> QED BY <2>1, <2>2, NatSetInduction
  <2>4. QED
    BY <1>0, <2>3
<1>11. QED
  BY <1>8, <1>9, <1>10

\* One more challenge leaves the tables so far as they were.
LEMMA ContractionAppend ==
  ASSUME NEW t \in Tables(G), NEW p \in Seq(Ring), NEW r \in Ring, Len(p) < G
  PROVE  \A n \in 0 .. Len(p) : ContractionOf(t, Append(p, r))[n] = ContractionOf(t, p)[n]
<1> DEFINE q == Append(p, r)
           A == ContractionOf(t, p)
           B == ContractionOf(t, q)
           N == {n \in Nat : n <= Len(p) => B[n] = A[n]}
<1>0. G \in Nat /\ Len(p) \in Nat /\ q \in Seq(Ring) /\ Len(q) = Len(p) + 1
      /\ \A n \in 1 .. Len(p) : q[n] = p[n]
  BY PoolAssumption
<1>1. A[0] = t /\ \A n \in 1 .. Len(p) : A[n] = FoldAt(A[n - 1], Pow2[G - n], p[n])
  BY <1>0, Contraction
<1>2. B[0] = t /\ \A n \in 1 .. Len(p) : B[n] = FoldAt(B[n - 1], Pow2[G - n], p[n])
  <2>1. Len(q) <= G
    BY <1>0
  <2>2. B[0] = t /\ \A n \in 1 .. Len(q) : B[n] = FoldAt(B[n - 1], Pow2[G - n], q[n])
    BY <1>0, <2>1, Contraction
  <2>3. \A n \in 1 .. Len(p) : n \in 1 .. Len(q) /\ q[n] = p[n]
    BY <1>0
  <2> HIDE DEF B, q
  <2>4. QED
    BY <2>2, <2>3
<1> HIDE DEF A, B
<1>3. 0 \in N
  BY <1>1, <1>2
<1>4. ASSUME NEW n \in Nat, n \in N PROVE n + 1 \in N
  <2>1. SUFFICES ASSUME n + 1 <= Len(p) PROVE B[n + 1] = A[n + 1]
    OBVIOUS
  <2>2. n + 1 \in 1 .. Len(p) /\ (n + 1) - 1 = n /\ n <= Len(p)
    BY <1>0, <2>1
  <2>3. QED
    BY <1>1, <1>2, <1>4, <2>2
<1>5. \A n \in Nat : n \in N
  <2> HIDE DEF N
  <2> QED BY <1>3, <1>4, NatSetInduction
<1>6. QED
  BY <1>0, <1>5 DEF A, B

LEMMA ContractedIs == Contracted = ContractionOf(table, points)
BY DEF Contracted, ContractionOf

Messages ==
  honest =>
    /\ FoldedTable = Contracted[Len(sent)]
    /\ \A n \in 1 .. Len(sent) : sent[n] = Halves(Contracted[n - 1], Pow2[G - n])
    /\ final # <<>> => final = <<Contracted[G][0]>>

LEMMA StepMessages ==
  ASSUME Typing, Messages, honest, honest',
         \/ Sequential!Round \/ Sequential!Finish
         \/ UNCHANGED <<table, FoldedTable, sent, points, final>>
  PROVE  Messages'
<1> DEFINE n == Len(sent)
<1>0. /\ G \in Nat /\ n \in Nat /\ Len(points) = n /\ table \in Tables(G)
      /\ sent \in Seq(Int \X Int) /\ points \in Seq(Ring) /\ n <= G
      /\ FoldedTable = Contracted[n]
      /\ \A k \in 1 .. n : sent[k] = Halves(Contracted[k - 1], Pow2[G - k])
      /\ final # <<>> => final = <<Contracted[G][0]>>
  BY PoolAssumption DEF Typing, Messages
<1>1. CASE Sequential!Round
  <2>1. PICK r \in Ring : points' = Append(points, r) /\ FoldedTable' = FoldAt(FoldedTable, Half, r)
    <3>1. Sequential!Half = Half
      BY DEF Sequential!Half, Half, Sequential!Pow2, Pow2
    <3>2. \A r : Sequential!FoldAt(FoldedTable, Half, r) = FoldAt(FoldedTable, Half, r)
      BY DEF Sequential!FoldAt, FoldAt, Sequential!Interpolate, Interpolate
    <3>3. Sequential!Ring = Ring
      BY DEF Sequential!Ring, Ring
    <3>4. QED
      BY <1>1, <3>1, <3>2, <3>3 DEF Sequential!Round
  <2>2. /\ n < G /\ sent' = Append(sent, Halves(FoldedTable, Half))
        /\ UNCHANGED <<table, final>> /\ final = <<>>
    <3>1. Sequential!Half = Half
      BY DEF Sequential!Half, Half, Sequential!Pow2, Pow2
    <3>2. Sequential!Halves(FoldedTable, Half) = Halves(FoldedTable, Half)
      BY Zenon DEF Sequential!Halves, Halves, Sequential!SumOver, SumOver,
                   Sequential!SumFunctionOnSet, SumFunctionOnSet, Sequential!FoldFunctionOnSet,
                   FoldFunctionOnSet, Sequential!MapThenFoldSet, MapThenFoldSet
    <3>3. QED
      BY <1>1, <3>1, <3>2 DEF Sequential!Round
  <2>3. Contracted' = ContractionOf(table, Append(points, r))
    BY <2>1, <2>2 DEF Contracted, ContractionOf
  <2>4. \A k \in 0 .. n : Contracted'[k] = Contracted[k]
    BY <1>0, <2>2, <2>3, ContractedIs, ContractionAppend
  <2>5. /\ Len(sent') = n + 1 /\ Len(points') = n + 1 /\ points'[n + 1] = r
        /\ sent'[n + 1] = Halves(FoldedTable, Half)
        /\ \A k \in 1 .. n : sent'[k] = sent[k]
    BY <1>0, <2>1, <2>2
  <2>6. Contracted'[n + 1] = FoldAt(Contracted[n], Half, r)
    <3>1. PICK q : q = Append(points, r)
      OBVIOUS
    <3>2. q \in Seq(Ring) /\ Len(q) = n + 1 /\ q[n + 1] = r /\ Len(q) <= G
      BY <1>0, <2>2, <3>1
    <3>3. \A k \in 1 .. Len(q) :
            ContractionOf(table, q)[k] = FoldAt(ContractionOf(table, q)[k - 1], Pow2[G - k], q[k])
      BY <1>0, <3>2, Contraction
    <3>4. n + 1 \in 1 .. Len(q) /\ (n + 1) - 1 = n /\ G - (n + 1) = G - n - 1
      BY <1>0, <3>2
    <3>5. ContractionOf(table, q)[n + 1] = FoldAt(ContractionOf(table, q)[n], Pow2[G - n - 1], r)
      BY <3>2, <3>3, <3>4
    <3>6. QED
      BY <1>0, <2>3, <2>4, <3>1, <3>5 DEF Half
  <2>7. FoldedTable' = Contracted'[Len(sent')]
    BY <1>0, <2>1, <2>5, <2>6
  <2>8. ASSUME NEW k \in 1 .. Len(sent')
        PROVE  sent'[k] = Halves(Contracted'[k - 1], Pow2[G - k])
    <3>1. CASE k \in 1 .. n
      <4>1. k - 1 \in 0 .. n
        BY <1>0, <3>1
      <4>2. QED
        BY <1>0, <2>4, <2>5, <3>1, <4>1
    <3>2. CASE k = n + 1
      <4>1. k - 1 = n /\ Pow2[G - k] = Half
        BY <1>0, <3>2 DEF Half
      <4>2. QED
        BY <1>0, <2>4, <2>5, <3>2, <4>1
    <3>3. QED
      BY <1>0, <2>5, <3>1, <3>2
  <2>9. QED
    BY <2>2, <2>7, <2>8 DEF Messages
<1>2. CASE Sequential!Finish
  <2>1. /\ n = G /\ final' = <<FoldedTable[0]>>
        /\ UNCHANGED <<table, FoldedTable, sent, points>>
    BY <1>2 DEF Sequential!Finish
  <2>2. Contracted' = Contracted
    BY <2>1 DEF Contracted
  <2>3. QED
    BY <1>0, <2>1, <2>2 DEF Messages
<1>3. CASE UNCHANGED <<table, FoldedTable, sent, points, final>>
  <2>1. Contracted' = Contracted
    BY <1>3 DEF Contracted
  <2>2. QED
    BY <1>0, <1>3, <2>1 DEF Messages
<1>4. QED
  BY <1>1, <1>2, <1>3

LEMMA ProverDone ==
  ASSUME Typing, Prove \/ Forge
  PROVE  final = <<>>
<1>1. CASE Forge
  BY <1>1 DEF Forge
<1>2. CASE Prove
  <2>1. SUFFICES ASSUME final # <<>> PROVE FALSE
    OBVIOUS
  <2>2. honest /\ ProveStep /\ Len(sent) = G /\ stage = "round" /\ G \in Nat
    BY <1>2, <2>1, PoolAssumption DEF Prove, Typing
  <2>3. QED
    BY <2>1, <2>2 DEF ProveStep, SequentialRound, StartRound, Join, LowSummed, HighSummed,
                      Truncate, Finish, Fetch, Store
<1>3. QED
  BY <1>1, <1>2

LEMMA InitMessages == BatchInit => Messages
<1>1. SUFFICES ASSUME BatchInit, honest PROVE Messages
  BY DEF Messages
<1>2. /\ table \in Tables(G) /\ sent = <<>> /\ points = <<>> /\ final = <<>> /\ Len(sent) = 0
      /\ FoldedTable = table
  BY <1>1, InitTyping DEF BatchInit, Init, ProveInit, Typing, FoldedTable
<1>3. points \in Seq(Ring) /\ Len(points) <= G
  BY <1>2, PoolAssumption
<1>4. Contracted[0] = table
  BY <1>2, <1>3, ContractedIs, Contraction
<1>5. QED
  BY <1>2, <1>4 DEF Messages

LEMMA KeepMessages == Typing /\ Messages /\ [Next /\ UNCHANGED <<batch, gamma>>]_vars => Messages'
<1>1. SUFFICES ASSUME Typing, Messages, [Next /\ UNCHANGED <<batch, gamma>>]_vars PROVE Messages'
  OBVIOUS
<1>2. CASE Prove
  BY <1>1, <1>2, StepImplements, StepMessages DEF Prove
<1>3. CASE Forge
  BY <1>3 DEF Forge, Messages
<1>4. ASSUME UNCHANGED <<proverVars, honest>> PROVE Messages'
  <2>1. UNCHANGED <<table, sent, points, final, cur, stage, whole, honest>>
    BY <1>4 DEF proverVars, proof, pool
  <2>2. UNCHANGED <<table, FoldedTable, sent, points, final>>
    <3>1. Folded' = Folded
      BY <2>1 DEF Folded
    <3>2. QED
      BY <2>1, <3>1 DEF FoldedTable
  <2>3. CASE honest
    BY <1>1, <2>1, <2>2, <2>3, StepMessages
  <2>4. CASE ~honest
    BY <2>1, <2>4 DEF Messages
  <2>5. QED
    BY <2>3, <2>4
<1>5. CASE CheckRound \/ Accept \/ Reject
  BY <1>4, <1>5 DEF CheckRound, Accept, Reject
<1>6. CASE UNCHANGED vars
  BY <1>4, <1>6 DEF vars
<1>7. QED
  BY <1>1, <1>2, <1>3, <1>5, <1>6 DEF Next

\* The verifier's progress: every round it has gone through was consistent, and
\* its claim is the one after them.
Verified ==
  /\ checked \in 0 .. Len(sent) /\ claim = ClaimAfter(checked)
  /\ checked > 0 \/ verdict # "none" => final # <<>>
  /\ \A n \in 1 .. checked : Consistent(sent[n], ClaimAfter(n - 1))
  /\ verdict \in {"none", "accept", "reject"}
  /\ verdict = "accept" => RightLength /\ checked = Len(sent) /\ FinalMatches(final[1], claim)
  /\ verdict = "reject" =>
       \/ ~RightLength
       \/ checked < Len(sent) /\ ~Consistent(sent[checked + 1], claim)
       \/ checked = Len(sent) /\ ~FinalMatches(final[1], claim)

\* And what it was called on.
Called ==
  /\ batch \in Batches /\ gamma \in Ring
  /\ table = CombinedTable(batch, gamma) /\ claimed = CombinedClaim(batch, gamma)
  /\ claimed \in Ring

LEMMA InitVerified == BatchInit => Verified /\ Called
<1>1. SUFFICES ASSUME BatchInit PROVE Verified /\ Called
  OBVIOUS
<1>2. /\ sent = <<>> /\ Len(sent) = 0 /\ checked = 0 /\ claim = claimed /\ verdict = "none"
  BY <1>1 DEF BatchInit, Init, ProveInit
<1>3. Called
  BY <1>1, CombinedTyping DEF BatchInit, Called
<1>4. QED
  BY <1>2, <1>3 DEF Verified, ClaimAfter

LEMMA KeepVerified ==
  Typing /\ Verified /\ Called /\ [Next /\ UNCHANGED <<batch, gamma>>]_vars => Verified' /\ Called'
<1>1. SUFFICES ASSUME Typing, Verified, Called, [Next /\ UNCHANGED <<batch, gamma>>]_vars
               PROVE  Verified' /\ Called'
  OBVIOUS
<1>0. Len(sent) \in Nat /\ Len(sent) <= G /\ G \in Nat
  BY <1>1, PoolAssumption DEF Typing
<1>2. UNCHANGED <<table, claimed, batch, gamma>>
  <2>1. CASE Prove
    BY <2>1, <1>1 DEF Prove, verifierVars, vars, ProveStep, SequentialRound, StartRound, Join, LowSummed,
             HighSummed, Truncate, Finish, Fetch, Store, proof
  <2>2. CASE Forge
    BY <1>1, <2>2 DEF Forge, verifierVars, vars
  <2>3. CASE CheckRound \/ Accept \/ Reject
    BY <1>1, <2>3 DEF CheckRound, Accept, Reject, proverVars, proof, vars
  <2>4. CASE UNCHANGED vars
    BY <2>4 DEF vars, proverVars, proof, verifierVars
  <2>5. QED
    BY <1>1, <2>1, <2>2, <2>3, <2>4 DEF Next
<1>3. Called'
  BY <1>1, <1>2 DEF Called
<1>4. CASE Prove \/ Forge
  <2>1. final = <<>>
    BY <1>1, <1>4, ProverDone
  <2>2. checked = 0 /\ verdict = "none" /\ claim = claimed
    BY <1>0, <1>1, <2>1 DEF Verified, ClaimAfter
  <2>3. checked' = 0 /\ verdict' = "none" /\ claim' = claimed'
    BY <1>4, <2>2 DEF Prove, Forge, verifierVars
  <2>4. Len(sent') \in Nat
    <3>1. Typing'
      BY <1>1, StepTyping
    <3>2. sent' \in Seq(Int \X Int)
      BY <3>1 DEF Typing
    <3>3. QED
      BY <3>2
  <2>5. QED
    BY <1>3, <2>3, <2>4 DEF Verified, ClaimAfter
<1>5. ASSUME UNCHANGED <<proverVars, honest, claimed>>
      PROVE  /\ UNCHANGED <<sent, points, final>> /\ RightLength' = RightLength
             /\ \A n : ClaimAfter(n)' = ClaimAfter(n)
  BY <1>5 DEF proverVars, proof, ClaimAfter, RightLength
<1>6. CASE CheckRound
  <2>1. /\ final # <<>> /\ verdict = "none" /\ checked < Len(sent) /\ checked' = checked + 1
        /\ Consistent(sent[checked + 1], claim)
        /\ claim' = Interpolate(sent[checked + 1][1], sent[checked + 1][2], points[checked + 1])
        /\ UNCHANGED <<proverVars, honest, claimed, verdict>>
    BY <1>6 DEF CheckRound, Reading
  <2>2. checked \in Nat /\ claim = ClaimAfter(checked)
    BY <1>0, <1>1 DEF Verified
  <2>3. checked + 1 # 0 /\ checked' \in 0 .. Len(sent) /\ (checked + 1) - 1 = checked
    BY <1>0, <2>1, <2>2
  <2>4. claim' = ClaimAfter(checked + 1)
    BY <2>1, <2>3 DEF ClaimAfter
  <2>5. \A n \in 1 .. checked' : Consistent(sent[n], ClaimAfter(n - 1))
    <3>1. \A n \in 1 .. checked' : n \in 1 .. checked \/ n = checked + 1
      BY <2>1, <2>2
    <3>2. QED
      BY <1>1, <2>1, <2>2, <2>3, <3>1 DEF Verified
  <2>6. QED
    BY <1>3, <1>5, <2>1, <2>2, <2>3, <2>4, <2>5 DEF Verified, Consistent
<1>7. CASE Accept
  <2>1. /\ final # <<>> /\ RightLength /\ checked = Len(sent) /\ FinalMatches(final[1], claim)
        /\ verdict' = "accept" /\ UNCHANGED <<proverVars, honest, claimed, checked, claim>>
    BY <1>7 DEF Accept, Reading
  <2>2. QED
    BY <1>1, <1>3, <1>5, <2>1 DEF Verified, Consistent, FinalMatches
<1>8. CASE Reject
  <2>1. /\ final # <<>>
        /\ \/ ~RightLength
           \/ checked < Len(sent) /\ ~Consistent(sent[checked + 1], claim)
           \/ checked = Len(sent) /\ ~FinalMatches(final[1], claim)
        /\ verdict' = "reject" /\ UNCHANGED <<proverVars, honest, claimed, checked, claim>>
    BY <1>8 DEF Reject, Reading
  <2>2. QED
    BY <1>1, <1>3, <1>5, <2>1 DEF Verified, Consistent, FinalMatches
<1>9. CASE UNCHANGED vars
  <2>1. UNCHANGED <<proverVars, honest, claimed, checked, claim, verdict>>
    BY <1>9 DEF vars, verifierVars
  <2>2. QED
    BY <1>1, <1>3, <1>5, <2>1 DEF Verified, Consistent, FinalMatches
<1>10. QED
  BY <1>1, <1>4, <1>6, <1>7, <1>8, <1>9 DEF Next

LEMMA Invariants == Spec => [](Typing /\ Messages /\ Verified /\ Called)
<1>1. QED
  BY InitTyping, InitMessages, InitVerified, StepTyping, KeepMessages, KeepVerified, PTL DEF Spec

\* The tables the challenges fold the first one to, round by round.
LEMMA FoldedTables ==
  ASSUME Typing
  PROVE  /\ Contracted[0] = table
         /\ \A n \in 1 .. Len(sent) : /\ n - 1 \in 0 .. Len(sent) /\ G - n \in Nat
                                      /\ points[n] \in Ring
                                      /\ Pow2[G - n] \in Nat /\ Pow2[G - n] > 0
                                      /\ Pow2[G - (n - 1)] = 2 * Pow2[G - n]
                                      /\ Contracted[n - 1] \in [0 .. 2 * Pow2[G - n] - 1 -> Ring]
                                      /\ Contracted[n] = FoldAt(Contracted[n - 1], Pow2[G - n], points[n])
         /\ \A n \in 0 .. Len(sent) : Contracted[n] \in Tables(G - n)
<1>0. /\ G \in Nat /\ Len(sent) \in Nat /\ Len(points) = Len(sent) /\ table \in Tables(G)
      /\ points \in Seq(Ring) /\ Len(sent) <= G
  BY PoolAssumption DEF Typing
<1>1. /\ Contracted[0] = table
      /\ \A n \in 1 .. Len(sent) : Contracted[n] = FoldAt(Contracted[n - 1], Pow2[G - n], points[n])
      /\ \A n \in 0 .. Len(sent) : Contracted[n] \in Tables(G - n)
  BY <1>0, ContractedIs, Contraction
<1>2. ASSUME NEW n \in 1 .. Len(sent)
      PROVE  /\ n - 1 \in 0 .. Len(sent) /\ G - n \in Nat /\ points[n] \in Ring
             /\ Pow2[G - n] \in Nat /\ Pow2[G - n] > 0 /\ Pow2[G - (n - 1)] = 2 * Pow2[G - n]
             /\ Contracted[n - 1] \in [0 .. 2 * Pow2[G - n] - 1 -> Ring]
  <2>1. PICK m \in Nat : m = G - n /\ m + 1 = G - (n - 1)
    BY <1>0
  <2>2. Pow2[m] \in Nat /\ Pow2[m] > 0 /\ Pow2[m + 1] = 2 * Pow2[m]
    BY Pow
  <2>3. n - 1 \in 0 .. Len(sent) /\ points[n] \in Ring
    BY <1>0
  <2>4. Contracted[n - 1] \in Tables(G - (n - 1))
    BY <1>1, <2>3
  <2>5. QED
    BY <2>1, <2>2, <2>3, <2>4 DEF Tables
<1>3. QED
  BY <1>1, <1>2

\* The halves of a table add up to it.
LEMMA HalvesSum ==
  ASSUME NEW T, NEW h \in Nat, \A j \in 0 .. 2 * h - 1 : T[j] \in Int
  PROVE  (SumOver(T, 0 .. h - 1) + SumOver(T, h .. 2 * h - 1)) % Q = SumOver(T, 0 .. 2 * h - 1)
<1>1. PICK z \in Int, m \in Int, e \in Int : z = 0 /\ m = h - 1 /\ e = 2 * h - 1 /\ m + 1 = h
                                             /\ z <= m + 1 /\ m <= e
  <2>1. /\ 0 \in Int /\ h - 1 \in Int /\ 2 * h - 1 \in Int /\ (h - 1) + 1 = h
        /\ 0 <= (h - 1) + 1 /\ h - 1 <= 2 * h - 1
    OBVIOUS
  <2>2. QED
    BY <2>1, Zenon
<1>2. \A j \in z .. e : T[j] \in Int
  BY <1>1
<1>3. SumFunctionOnSet(T, z .. e) = SumFunctionOnSet(T, z .. m) + SumFunctionOnSet(T, m + 1 .. e)
  BY <1>1, <1>2, SumSplit
<1>4. PICK u \in Int, v \in Int : u = SumFunctionOnSet(T, z .. m) /\ v = SumFunctionOnSet(T, m + 1 .. e)
  <2>1. IsFiniteSet(z .. m) /\ IsFiniteSet(m + 1 .. e)
    BY FS_Interval
  <2>2. (\A j \in z .. m : T[j] \in Int) /\ \A j \in m + 1 .. e : T[j] \in Int
    BY <1>1, <1>2
  <2>3. QED
    BY <2>1, <2>2, SumType
<1>5. ((u % Q) + (v % Q)) % Q = (u + v) % Q
  BY RingFacts, ModSum
<1>6. QED
  BY <1>1, <1>3, <1>4, <1>5 DEF SumOver

\* A message of an honest round adds up to the sum of its table, and its line
\* runs through the sum of the folded one.
LEMMA HonestRound ==
  ASSUME Typing, Messages, honest, NEW n \in 1 .. Len(sent)
  PROVE  /\ (sent[n][1] + sent[n][2]) % Q = Truth(n - 1)
         /\ ClaimAfter(n) = Truth(n)
<1>a. /\ points[n] \in Int /\ Pow2[G - n] \in Nat /\ Pow2[G - n] > 0
      /\ Pow2[G - (n - 1)] = 2 * Pow2[G - n]
      /\ Contracted[n - 1] \in [0 .. 2 * Pow2[G - n] - 1 -> Ring]
      /\ Contracted[n] = FoldAt(Contracted[n - 1], Pow2[G - n], points[n])
  BY FoldedTables, RingFacts
<1>b. PICK T : T = Contracted[n - 1]
  OBVIOUS
<1>c. PICK h \in Nat : h = Pow2[G - n]
  BY <1>a
<1>d. PICK r \in Int : r = points[n]
  BY <1>a
<1>1. /\ T = Contracted[n - 1] /\ h = Pow2[G - n] /\ r = points[n] /\ h > 0
      /\ T \in [0 .. 2 * h - 1 -> Ring]
      /\ Pow2[G - (n - 1)] = 2 * h
      /\ Contracted[n] = FoldAt(T, h, r)
  BY <1>a, <1>b, <1>c, <1>d
<1>2. sent[n] = <<SumOver(T, 0 .. h - 1), SumOver(T, h .. 2 * h - 1)>>
  BY <1>1 DEF Messages, Halves
<1>3. \A j \in 0 .. 2 * h - 1 : T[j] \in Int
  BY <1>1, RingFacts
<1>4. Truth(n) = Interpolate(SumOver(T, 0 .. h - 1), SumOver(T, h .. 2 * h - 1), r)
  <2>1. SumOver(FoldAt(T, h, r), 0 .. h - 1)
          = Interpolate(SumOver(T, 0 .. h - 1), SumOver(T, h .. 2 * h - 1), r)
    BY <1>3, FoldedSum
  <2>2. QED
    BY <1>1, <2>1, Zenon DEF Truth
<1>5. (SumOver(T, 0 .. h - 1) + SumOver(T, h .. 2 * h - 1)) % Q = SumOver(T, 0 .. 2 * h - 1)
  BY <1>1, <1>3, HalvesSum
<1>6. n # 0 /\ n \in Int /\ 2 * h - 1 = Pow2[G - (n - 1)] - 1
  BY <1>1
<1>7. ClaimAfter(n) = Truth(n)
  BY <1>1, <1>2, <1>4, <1>6 DEF ClaimAfter
<1>8. Truth(n - 1) = SumOver(T, 0 .. 2 * h - 1)
  BY <1>1 DEF Truth
<1>9. QED
  BY <1>2, <1>5, <1>7, <1>8

\* Whatever n, the last table is its own sum.
LEMMA LastTruth ==
  ASSUME Typing, Len(sent) = G
  PROVE  Truth(G) = Contracted[G][0] /\ Contracted[G][0] \in Ring
<1>1. G \in Nat /\ Contracted[G] \in Tables(G - G) /\ G - G = 0
  BY FoldedTables, PoolAssumption
<1>2. Contracted[G] \in [0 .. 0 -> Ring] /\ Pow2[G - G] - 1 = 0
  <2>1. Pow2[G - G] = 1 /\ 1 - 1 = 0
    BY <1>1, Pow
  <2>2. Contracted[G] \in [0 .. Pow2[G - G] - 1 -> Ring]
    BY <1>1 DEF Tables
  <2>3. QED
    BY <2>1, <2>2
<1>3. 0 .. 0 = {0} /\ Contracted[G][0] \in Ring
  BY <1>2
<1>4. SumFunctionOnSet(Contracted[G], {0}) = Contracted[G][0]
  BY <1>3, SumOne, RingFacts
<1>5. SumOver(Contracted[G], 0 .. 0) = Contracted[G][0]
  BY <1>3, <1>4, RingFacts DEF SumOver
<1>6. QED
  BY <1>2, <1>3, <1>5, Zenon DEF Truth

LEMMA HonestAccepted ==
  ASSUME Typing, Messages, Verified, Called
  PROVE  HonestSumAccepted
<1>1. SUFFICES ASSUME honest, verdict # "none"
               PROVE  verdict = "accept" <=> claimed = Truth(0)
  BY DEF HonestSumAccepted
<1>2. /\ final # <<>> /\ Len(sent) = G /\ G \in Nat /\ RightLength
      /\ checked \in 0 .. G /\ claim = ClaimAfter(checked)
  BY <1>1, PoolAssumption DEF Verified, Typing, RightLength
<1>3. final[1] = Truth(G) /\ G \in 0 .. G
  BY <1>1, <1>2, LastTruth DEF Messages
<1>4. \A n \in 1 .. G : (sent[n][1] + sent[n][2]) % Q = Truth(n - 1) /\ ClaimAfter(n) = Truth(n)
  BY <1>1, <1>2, HonestRound
<1>5. ClaimAfter(0) = claimed
  BY DEF ClaimAfter
<1>6. ASSUME claimed = Truth(0) PROVE verdict # "reject"
  <2>1. \A n \in 0 .. G : ClaimAfter(n) = Truth(n)
    BY <1>4, <1>5, <1>6
  <2>2. claim = Truth(checked)
    BY <1>2, <2>1
  <2>3. ASSUME checked < G PROVE Consistent(sent[checked + 1], claim)
    <3>1. checked + 1 \in 1 .. G /\ (checked + 1) - 1 = checked
      BY <1>2, <2>3
    <3>2. QED
      BY <1>4, <2>2, <3>1 DEF Consistent
  <2>4. checked = G => FinalMatches(final[1], claim)
    BY <1>3, <2>2 DEF FinalMatches
  <2>5. QED
    BY <1>2, <2>3, <2>4 DEF Verified
<1>7. ASSUME verdict = "accept" PROVE claimed = Truth(0)
  <2>1. checked = G /\ final[1] = claim /\ \A n \in 1 .. checked : Consistent(sent[n], ClaimAfter(n - 1))
    BY <1>2, <1>7 DEF Verified, FinalMatches
  <2>2. CASE G = 0
    BY <1>2, <1>3, <1>5, <2>1, <2>2
  <2>3. CASE G > 0
    <3>1. 1 \in 1 .. G /\ 1 - 1 = 0
      BY <1>2, <2>3
    <3>2. Consistent(sent[1], ClaimAfter(0)) /\ (sent[1][1] + sent[1][2]) % Q = Truth(0)
      BY <1>4, <2>1, <3>1
    <3>3. QED
      BY <1>5, <3>2 DEF Consistent
  <2>4. QED
    BY <1>2, <2>2, <2>3
<1>8. verdict \in {"accept", "reject"}
  BY <1>1 DEF Verified
<1>9. QED
  BY <1>6, <1>7, <1>8

\* A power of two is an even multiple of every smaller one.
LEMMA PowMultiple ==
  ASSUME NEW m \in Nat
  PROVE  \A i \in Nat : i > 0 => \E e \in Nat : Pow2[m + i] = Pow2[m] * (2 * e)
<1> DEFINE N == {i \in Nat : \E e \in Nat : Pow2[m + (i + 1)] = Pow2[m] * (2 * e)}
<1>1. 0 \in N
  <2>1. Pow2[m] \in Nat /\ Pow2[m + (0 + 1)] = Pow2[m] * (2 * 1)
    BY Pow
  <2>2. QED
    BY <2>1
<1>2. ASSUME NEW i \in Nat, i \in N PROVE i + 1 \in N
  <2>1. PICK e \in Nat : Pow2[m + (i + 1)] = Pow2[m] * (2 * e)
    BY <1>2
  <2>2. PICK k \in Nat : k = m + (i + 1) /\ k + 1 = m + ((i + 1) + 1)
    OBVIOUS
  <2>3. PICK p \in Nat : p = Pow2[m]
    BY Pow
  <2>4. Pow2[k + 1] = 2 * Pow2[k]
    BY Pow
  <2>5. Pow2[m + ((i + 1) + 1)] = 2 * (p * (2 * e))
    BY <2>1, <2>2, <2>3, <2>4
  <2>6. 2 * (p * (2 * e)) = p * (2 * (2 * e)) /\ 2 * e \in Nat
    OBVIOUS
  <2>7. PICK d \in Nat : d = 2 * e
    BY <2>6
  <2>8. Pow2[m + ((i + 1) + 1)] = Pow2[m] * (2 * d)
    BY <2>3, <2>5, <2>6, <2>7
  <2>9. QED
    BY <2>8
<1>3. \A i \in Nat : i \in N
  <2> HIDE DEF N
  <2> QED BY <1>1, <1>2, NatSetInduction
<1>4. SUFFICES ASSUME NEW i \in Nat, i > 0 PROVE \E e \in Nat : Pow2[m + i] = Pow2[m] * (2 * e)
  OBVIOUS
<1>5. PICK j \in Nat : j + 1 = i
  <2>1. i - 1 \in Nat /\ (i - 1) + 1 = i
    BY <1>4
  <2>2. QED
    BY <2>1
<1>6. QED
  BY <1>3, <1>5

LEMMA DivMultiple ==
  ASSUME NEW a \in Nat, NEW p \in Nat, p > 0, NEW e \in Nat
  PROVE  ((a + p * (2 * e)) \div p) % 2 = (a \div p) % 2
<1>1. PICK k \in Int, s \in Int : k = a \div p /\ s = a % p /\ 0 <= s /\ s < p /\ a = p * k + s
  BY DivMod
<1>2. PICK x \in Int : x = a + p * (2 * e)
  OBVIOUS
<1>3. PICK j \in Int : j = k + 2 * e
  OBVIOUS
<1>4. x = p * j + s
  BY <1>1, <1>2, <1>3
<1>5. x \div p = j
  BY <1>1, <1>4, DivModUnique
<1>6. j % 2 = k % 2
  BY <1>3
<1>7. QED
  BY <1>1, <1>2, <1>5, <1>6

\* The corners of the two halves: they differ in the first bit alone.
LEMMA CornerHalves ==
  ASSUME NEW n \in Nat, NEW j \in 0 .. Pow2[n] - 1
  PROVE  /\ ~Corner(j, n + 1)[1] /\ Corner(j + Pow2[n], n + 1)[1]
         /\ \A i \in 1 .. n : /\ Corner(j, n + 1)[i + 1] = Corner(j, n)[i]
                              /\ Corner(j + Pow2[n], n + 1)[i + 1] = Corner(j, n)[i]
<1>1. PICK p \in Nat : p = Pow2[n] /\ p > 0
  BY Pow
<1>2. j \in Nat /\ j < p
  BY <1>1
<1>3. 1 \in 1 .. n + 1 /\ (n + 1) - 1 = n
  OBVIOUS
<1>4. j \div p = 0 /\ (j + p) \div p = 1
  <2>1. 0 \in Int /\ 1 \in Int /\ j = p * 0 + j /\ j + p = p * 1 + j
    BY <1>2
  <2>2. PICK x \in Int : x = j + p
    OBVIOUS
  <2>3. PICK z \in Int, o \in Int : z = 0 /\ o = 1
    OBVIOUS
  <2>4. /\ j \in Int /\ 0 <= j /\ p > 0 /\ j = p * z + j /\ x = p * o + j
    BY <1>1, <1>2, <2>1, <2>2, <2>3
  <2>a. j \div p = z /\ x \div p = o
    BY <1>2, <2>4, DivModUnique
  <2>5. QED
    BY <2>2, <2>3, <2>a
<1>5. ~Corner(j, n + 1)[1] /\ Corner(j + Pow2[n], n + 1)[1]
  <2>1. /\ Corner(j, n + 1)[1] <=> (j \div p) % 2 = 1
        /\ Corner(j + Pow2[n], n + 1)[1] <=> ((j + p) \div p) % 2 = 1
    BY <1>1, <1>3 DEF Corner
  <2>2. (j \div p) % 2 = 0 /\ ((j + p) \div p) % 2 = 1
    BY <1>4
  <2>3. QED
    BY <2>1, <2>2
<1>6. ASSUME NEW i \in 1 .. n
      PROVE  /\ Corner(j, n + 1)[i + 1] = Corner(j, n)[i]
             /\ Corner(j + Pow2[n], n + 1)[i + 1] = Corner(j, n)[i]
  <2>1. PICK m \in Nat : m = n - i /\ n + 1 - (i + 1) = m /\ m + i = n
    <3>1. n - i \in Nat /\ n + 1 - (i + 1) = n - i /\ (n - i) + i = n
      OBVIOUS
    <3>2. QED
      BY <3>1
  <2>2. PICK q \in Nat : q = Pow2[m] /\ q > 0
    BY Pow
  <2>3. i \in Nat /\ i > 0 /\ i + 1 \in 1 .. n + 1
    OBVIOUS
  <2>4. PICK e \in Nat : p = q * (2 * e)
    BY <1>1, <2>1, <2>2, <2>3, PowMultiple
  <2>5. ((j + p) \div q) % 2 = (j \div q) % 2
    <3>1. ((j + q * (2 * e)) \div q) % 2 = (j \div q) % 2
      BY <1>2, <2>2, DivMultiple
    <3>2. QED
      BY <2>4, <3>1
  <2>6. /\ Corner(j, n + 1)[i + 1] = ((j \div q) % 2 = 1)
        /\ Corner(j + Pow2[n], n + 1)[i + 1] = (((j + p) \div q) % 2 = 1)
        /\ Corner(j, n)[i] = ((j \div q) % 2 = 1)
    BY <1>1, <2>1, <2>2, <2>3 DEF Corner
  <2>7. QED
    BY <2>5, <2>6
<1>7. QED
  BY <1>5, <1>6

Point(n, r) == DOMAIN r = 1 .. n /\ \A i \in 1 .. n : r[i] \in Int
Rest(n, r, s) == \A i \in 1 .. n : s[i] = r[i + 1]

\* The first coordinate of eq, taken out.
LEMMA EqTensorHead ==
  ASSUME NEW n \in Nat, NEW r, Point(n + 1, r), NEW x, NEW s, Point(n, s), NEW y,
         Rest(n, r, s), Rest(n, x, y)
  PROVE  EqTensor(r, x) = ((IF x[1] THEN r[1] ELSE (1 - r[1]) % Q) * EqTensor(s, y)) % Q
<1> DEFINE f == Factors(n + 1, r, x)
           g == Factors(n, s, y)
           T == 2 .. n + 1
<1>1. PICK k \in Nat : k = n + 1
  OBVIOUS
<1>a. PICK op, b : op = TimesOp(Q) /\ b = 1
  OBVIOUS
<1>b. PICK V : V = Int
  OBVIOUS
<1>e. Commutes(op, V) /\ b \in V
  BY <1>a, <1>b, RingFacts, TimesCommutes
<1>2. PICK S : S = 1 .. n /\ IsFiniteSet(S)
  BY FS_Interval
<1>3. PICK U : U = 1 .. k /\ IsFiniteSet(U) /\ 1 \in U /\ U \ {1} = T
  <2>1. IsFiniteSet(1 .. k)
    BY 1 \in Int /\ k \in Int, FS_Interval
  <2>2. 1 \in 1 .. k /\ (1 .. k) \ {1} = T
    BY <1>1
  <2>3. QED
    BY <2>1, <2>2
<1>c. IsFiniteSet(S)
  BY <1>2
<1>4. \A i \in S : s[i] \in Int /\ i + 1 \in U
  BY <1>1, <1>2, <1>3 DEF Point
<1>5. /\ EqTensor(r, x) = Reduce(op, b, f, U)
      /\ \A i \in U : f[i] \in Int
  <2>1. DOMAIN r = 1 .. k /\ \A i \in 1 .. k : r[i] \in Int
    BY <1>1 DEF Point
  <2>2. /\ EqTensor(r, x) = Reduce(op, b, Factors(k, r, x), 1 .. k)
        /\ \A i \in 1 .. k : Factors(k, r, x)[i] \in Int
    BY <1>a, <2>1, EqTensorIsReduce, FactorsType
  <2>3. QED
    BY <1>1, <1>3, <1>a, <2>2
<1>6. /\ EqTensor(s, y) = Reduce(op, b, g, S)
      /\ \A i \in S : g[i] \in Int
  <2>1. DOMAIN s = 1 .. n /\ \A i \in 1 .. n : s[i] \in Int
    BY DEF Point
  <2>2. QED
    BY <1>2, <1>a, <2>1, EqTensorIsReduce, FactorsType
<1>7. \A i \in S : f[i + 1] = g[i]
  BY <1>1, <1>2, <1>3, <1>4 DEF Factors, Rest
<1>8. f[1] = IF x[1] THEN r[1] ELSE (1 - r[1]) % Q
  BY DEF Factors
<1> HIDE DEF f, g
<1>9. Reduce(op, b, f, T) = Reduce(op, b, g, S)
  <2>1. PICK m : m = [i \in S |-> i + 1]
    OBVIOUS
  <2>2. /\ m \in [S -> T] /\ \A i, j \in S : m[i] = m[j] => i = j
        /\ \A j \in T : \E i \in S : m[i] = j
    <3>1. ASSUME NEW j \in T PROVE \E i \in S : m[i] = j
      <4>1. j - 1 \in S /\ (j - 1) + 1 = j
        BY <1>2
      <4>2. QED
        BY <2>1, <4>1
    <3>2. QED
      BY <1>2, <2>1, <3>1
  <2>3. \A i \in S : g[i] \in V /\ f[m[i]] = g[i]
    BY <1>6, <1>7, <1>b, <2>1
  <2>4. IsFiniteSet(T)
    <3>1. IsFiniteSet(U \ {1})
      <4>1. PICK o : o = 1
        OBVIOUS
      <4>2. IsFiniteSet(U \ {o})
        BY <1>3, FS_RemoveElement
      <4>3. QED
        BY <4>1, <4>2
    <3>2. QED
      BY <1>3, <3>1, Zenon
  <2> HIDE DEF T
  <2>5. QED
    BY <1>e, <1>c, <2>2, <2>3, <2>4, ReduceReindex
<1>10. Reduce(op, b, f, U) = op[<<f[1], Reduce(op, b, f, U \ {1})>>]
  <2>1. IsFiniteSet(U) /\ 1 \in U /\ \A i \in U : f[i] \in V
    BY <1>3, <1>5, <1>b
  <2>2. \A i \in U : Reduce(op, b, f, U) = op[<<f[i], Reduce(op, b, f, U \ {i})>>]
    BY <1>e, <2>1, ReduceRemove
  <2>3. QED
    BY <2>1, <2>2
<1>11. op[<<f[1], EqTensor(s, y)>>] = (f[1] * EqTensor(s, y)) % Q
  <2>1. f[1] \in Int /\ EqTensor(s, y) \in Int
    <3>1. DOMAIN s = 1 .. n /\ \A i \in 1 .. n : s[i] \in Int
      BY DEF Point
    <3>2. QED
      BY <1>3, <1>5, <3>1, EqTensorIsReduce
  <2>2. QED
    BY <1>a, <2>1, RingFacts, TimesCommutes
<1>12. QED
  BY <1>3, <1>5, <1>6, <1>8, <1>9, <1>10, <1>11

\* One term of the folded table is the sum of the two it was folded from.
LEMMA FoldedTerm ==
  ASSUME NEW u \in Int, NEW v \in Int, NEW c \in Int, NEW e \in Int
  PROVE  Cong(Q, Interpolate(u, v, c) * e, 1 * (u * ((((1 - c) % Q) * e) % Q)) + 1 * (v * ((c * e) % Q)))
<1>1. PICK d \in Int, f \in Int, a \in Int, b \in Int :
        /\ d = (1 - c) % Q /\ Cong(Q, d, 1 - c) /\ f = Interpolate(u, v, c)
        /\ Cong(Q, f, (1 - c) * u + c * v)
        /\ a = (d * e) % Q /\ Cong(Q, a, d * e) /\ b = (c * e) % Q /\ Cong(Q, b, c * e)
  <2>1. PICK d \in Int : d = (1 - c) % Q /\ Cong(Q, d, 1 - c)
    BY RingFacts
  <2>2. PICK f \in Int : f = Interpolate(u, v, c) /\ Cong(Q, f, (1 - c) * u + c * v)
    BY InterpolateType, RingFacts
  <2>3. PICK x \in Int, y \in Int : x = d * e /\ y = c * e
    OBVIOUS
  <2>4. PICK a \in Int, b \in Int : a = x % Q /\ Cong(Q, a, x) /\ b = y % Q /\ Cong(Q, b, y)
    BY RingFacts
  <2>5. QED
    BY <2>1, <2>2, <2>3, <2>4
<1>2. PICK k1 \in Int, k2 \in Int, k3 \in Int, k4 \in Int :
        /\ d = (1 - c) + Q * k1 /\ f = ((1 - c) * u + c * v) + Q * k2
        /\ a = d * e + Q * k3 /\ b = c * e + Q * k4
  BY <1>1 DEF Cong
<1>3. f * e = (1 * (u * a) + 1 * (v * b)) + Q * (k2 * e - u * (k1 * e) - u * k3 - v * k4)
  <2>0. Q \in Int
    BY RingFacts
  <2>1. f * e = ((1 - c) * u + c * v) * e + Q * (k2 * e)
    BY <1>2, <2>0
  <2>2. u * a = u * (((1 - c) + Q * k1) * e + Q * k3)
    BY <1>2
  <2>3. u * (((1 - c) + Q * k1) * e + Q * k3) = ((1 - c) * u) * e + Q * (u * (k1 * e)) + Q * (u * k3)
    BY <2>0
  <2>4. v * b = (c * v) * e + Q * (v * k4)
    BY <1>2, <2>0
  <2>5. QED
    BY <2>0, <2>1, <2>2, <2>3, <2>4
<1>4. k2 * e - u * (k1 * e) - u * k3 - v * k4 \in Int
  OBVIOUS
<1>5. QED
  BY <1>1, <1>3, <1>4 DEF Cong

Terms(n, T, r) == [idx \in 0 .. Pow2[n] - 1 |-> T[idx] * EqTensor(r, Corner(idx, n))]

LEMMA TermsType ==
  ASSUME NEW n \in Nat, NEW T \in Tables(n), NEW r, Point(n, r)
  PROVE  /\ IsFiniteSet(0 .. Pow2[n] - 1)
         /\ \A idx \in 0 .. Pow2[n] - 1 : /\ T[idx] \in Int
                                          /\ EqTensor(r, Corner(idx, n)) \in Int
                                          /\ Terms(n, T, r)[idx] \in Int
<1>1. PICK h \in Nat : h = Pow2[n]
  BY Pow
<1>2. IsFiniteSet(0 .. h - 1)
  BY FS_Interval
<1>3. ASSUME NEW idx \in 0 .. h - 1
      PROVE  T[idx] \in Int /\ EqTensor(r, Corner(idx, n)) \in Int /\ Terms(n, T, r)[idx] \in Int
  <2>1. PICK t \in Int, e \in Int : t = T[idx] /\ e = EqTensor(r, Corner(idx, n))
    BY <1>1, EqTensorIsReduce, RingFacts DEF Tables, Point
  <2>2. Terms(n, T, r)[idx] = t * e
    BY <1>1, <2>1 DEF Terms
  <2>3. QED
    BY <2>1, <2>2
<1>4. QED
  BY <1>1, <1>2, <1>3

\* Folding a table at the first coordinate of a point and evaluating it at the
\* others evaluates it at the point.
LEMMA FoldEvaluates ==
  ASSUME NEW n \in Nat, NEW T \in Tables(n + 1),
         NEW r, Point(n + 1, r), NEW s, Point(n, s), Rest(n, r, s)
  PROVE  SumOver(Terms(n + 1, T, r), 0 .. Pow2[n + 1] - 1)
           = SumOver(Terms(n, FoldAt(T, Pow2[n], r[1]), s), 0 .. Pow2[n] - 1)
<1>1. PICK h \in Nat : h = Pow2[n] /\ h > 0 /\ Pow2[n + 1] = 2 * h
  BY Pow
<1>2. PICK c \in Int : c = r[1]
  BY 1 \in 1 .. n + 1 DEF Point
<1>3. PICK F : F = FoldAt(T, h, c) /\ F \in Tables(n)
  <2>1. \A j \in 0 .. 2 * h - 1 : T[j] \in Int
    BY <1>1, RingFacts DEF Tables
  <2>2. FoldAt(T, h, c) \in [0 .. h - 1 -> Ring]
    BY <2>1, FoldAtType
  <2>3. QED
    BY <1>1, <2>2 DEF Tables
<1>4. PICK m \in Nat : m = n + 1
  OBVIOUS
<1>5. PICK big, fold : big = Terms(m, T, r) /\ fold = Terms(n, F, s)
  OBVIOUS
<1>7. /\ \A idx \in 0 .. 2 * h - 1 : big[idx] \in Int /\ T[idx] \in Int
      /\ \A j \in 0 .. h - 1 : EqTensor(s, Corner(j, n)) \in Int /\ fold[j] \in Int
  <2>1. T \in Tables(m) /\ Point(m, r) /\ Pow2[m] = 2 * h
    BY <1>1, <1>4
  <2>2. \A idx \in 0 .. Pow2[m] - 1 : T[idx] \in Int /\ Terms(m, T, r)[idx] \in Int
    BY <2>1, TermsType
  <2>3. \A j \in 0 .. Pow2[n] - 1 : EqTensor(s, Corner(j, n)) \in Int /\ Terms(n, F, s)[j] \in Int
    BY <1>3, TermsType
  <2>4. QED
    BY <1>1, <1>5, <2>1, <2>2, <2>3
<1>8. PICK up : up = [j \in 0 .. h - 1 |-> big[j + h]]
  OBVIOUS
<1>9. ASSUME NEW j \in 0 .. h - 1
      PROVE  /\ fold[j] \in Int /\ big[j] \in Int /\ up[j] \in Int /\ big[j + h] = up[j]
             /\ Cong(Q, fold[j], 1 * big[j] + 1 * up[j])
  <2>1. j \in 0 .. 2 * h - 1 /\ j + h \in 0 .. 2 * h - 1
    BY <1>1
  <2>2. PICK u \in Int, v \in Int, e \in Int : u = T[j] /\ v = T[j + h] /\ e = EqTensor(s, Corner(j, n))
    BY <1>7, <2>1
  <2>3. /\ ~Corner(j, n + 1)[1] /\ Corner(j + h, n + 1)[1]
        /\ \A i \in 1 .. n : /\ Corner(j, n)[i] = Corner(j, n + 1)[i + 1]
                             /\ Corner(j, n)[i] = Corner(j + h, n + 1)[i + 1]
    BY <1>1, CornerHalves
  <2>4. EqTensor(r, Corner(j, n + 1)) = (((1 - c) % Q) * e) % Q
    <3>1. PICK x, y : x = Corner(j, n + 1) /\ y = Corner(j, n)
      OBVIOUS
    <3>2. ~x[1] /\ Rest(n, x, y)
      BY <2>3, <3>1 DEF Rest
    <3>3. EqTensor(r, x) = ((IF x[1] THEN r[1] ELSE (1 - r[1]) % Q) * EqTensor(s, y)) % Q
      BY <3>2, EqTensorHead
    <3>4. QED
      BY <1>2, <2>2, <3>1, <3>2, <3>3
  <2>5. EqTensor(r, Corner(j + h, n + 1)) = (c * e) % Q
    <3>1. PICK x, y : x = Corner(j + h, n + 1) /\ y = Corner(j, n)
      OBVIOUS
    <3>2. x[1] /\ Rest(n, x, y)
      BY <2>3, <3>1 DEF Rest
    <3>3. EqTensor(r, x) = ((IF x[1] THEN r[1] ELSE (1 - r[1]) % Q) * EqTensor(s, y)) % Q
      BY <3>2, EqTensorHead
    <3>4. QED
      BY <1>2, <2>2, <3>1, <3>2, <3>3
  <2>6. big[j] = u * ((((1 - c) % Q) * e) % Q) /\ big[j + h] = v * ((c * e) % Q)
    BY <1>1, <1>4, <1>5, <2>1, <2>2, <2>4, <2>5 DEF Terms
  <2>7. fold[j] = Interpolate(u, v, c) * e
    BY <1>1, <1>3, <1>5, <2>2 DEF Terms, FoldAt
  <2>8. up[j] = big[j + h]
    BY <1>8
  <2>9. Cong(Q, Interpolate(u, v, c) * e,
             1 * (u * ((((1 - c) % Q) * e) % Q)) + 1 * (v * ((c * e) % Q)))
    BY FoldedTerm
  <2>10. QED
    BY <1>7, <2>1, <2>6, <2>7, <2>8, <2>9
<1>10. PICK J : J = 0 .. h - 1 /\ IsFiniteSet(J)
  BY FS_Interval
<1>11. PICK x \in Int, y \in Int, z \in Int : /\ x = SumFunctionOnSet(big, J) /\ y = SumFunctionOnSet(up, J)
                                              /\ z = SumFunctionOnSet(fold, J)
  <2>1. IsFiniteSet(J) /\ \A j \in J : big[j] \in Int /\ up[j] \in Int /\ fold[j] \in Int
    BY <1>9, <1>10
  <2>2. QED
    BY <2>1, SumType
<1>12. Cong(Q, z, 1 * x + 1 * y)
  <2>1. /\ IsFiniteSet(J)
        /\ \A j \in J : /\ big[j] \in Int /\ up[j] \in Int /\ fold[j] \in Int
                        /\ Cong(Q, fold[j], 1 * big[j] + 1 * up[j])
    BY <1>9, <1>10
  <2>2. PICK o \in Int : o = 1
    OBVIOUS
  <2>3. Cong(Q, SumFunctionOnSet(fold, J), o * SumFunctionOnSet(big, J) + o * SumFunctionOnSet(up, J))
    BY <2>1, <2>2, RingFacts, SumLinear
  <2>4. QED
    BY <1>11, <2>2, <2>3
<1>13. SumFunctionOnSet(big, 0 .. 2 * h - 1) = x + y
  <2>1. PICK a \in Int, b \in Int, e \in Int : a = 0 /\ b = h - 1 /\ e = 2 * h - 1
    <3>1. 0 \in Int /\ h - 1 \in Int /\ 2 * h - 1 \in Int
      OBVIOUS
    <3>2. QED
      BY <3>1, Zenon
  <2>2. a <= b + 1 /\ b <= e /\ \A i \in a .. e : big[i] \in Int
    BY <1>1, <1>7, <2>1
  <2>3. SumFunctionOnSet(big, a .. e) = SumFunctionOnSet(big, a .. b) + SumFunctionOnSet(big, b + 1 .. e)
    BY <2>2, SumSplit
  <2>4. \A i \in a .. b : up[i] \in Int /\ big[i + h] = up[i]
    BY <1>9, <2>1
  <2>5. SumFunctionOnSet(big, a + h .. b + h) = SumFunctionOnSet(up, a .. b)
    BY <2>4, SumShift
  <2>6. a + h = b + 1 /\ b + h = e /\ a .. b = J
    BY <1>10, <2>1
  <2>7. QED
    BY <1>11, <2>1, <2>3, <2>5, <2>6
<1>14. (x + y) % Q = z % Q
  <2>1. Cong(Q, z, x + y) /\ x + y \in Int
    BY <1>12
  <2>2. QED
    BY <2>1, RingFacts, CongSame
<1>15. QED
  BY <1>1, <1>2, <1>3, <1>4, <1>5, <1>10, <1>11, <1>13, <1>14 DEF SumOver

LEMMA MleIsTerms ==
  ASSUME NEW T, T \in Tables(G), NEW r, DOMAIN r = 1 .. G, Len(r) = G
  PROVE  MleAt(T, r) = SumOver(Terms(G, T, r), 0 .. Pow2[G] - 1)
<1>1. PICK D : D = 0 .. Pow2[G] - 1
  OBVIOUS
<1>2. DOMAIN T = D
  BY <1>1 DEF Tables
<1>3. MleAt(T, r) = SumOver([idx \in D |-> T[idx] * EqTensor(r, Corner(idx, G))], D)
  BY <1>2, Zenon DEF MleAt
<1>4. Terms(G, T, r) = [idx \in D |-> T[idx] * EqTensor(r, Corner(idx, G))]
  BY <1>1, Zenon DEF Terms
<1>5. QED
  BY <1>1, <1>3, <1>4, Zenon

\* A table of one entry evaluates to it.
LEMMA LastTerm ==
  ASSUME NEW T \in Tables(0), NEW r, Point(0, r)
  PROVE  SumOver(Terms(0, T, r), 0 .. Pow2[0] - 1) = T[0]
<1>1. Pow2[0] = 1 /\ 0 .. Pow2[0] - 1 = {0} /\ 0 .. 0 = {0}
  <2>1. Pow2[0] = 1 /\ 1 - 1 = 0
    BY Pow
  <2>2. 0 .. Pow2[0] - 1 = 0 .. 0
    BY <2>1
  <2>3. QED
    BY <2>1, <2>2
<1>2. T[0] \in Ring
  BY <1>1 DEF Tables
<1>3. EqTensor(r, Corner(0, 0)) = 1
  <2>a. PICK z \in Nat : z = 0
    OBVIOUS
  <2>b. PICK x : x = Corner(0, 0)
    OBVIOUS
  <2>1. z = 0 /\ x = Corner(0, 0)
    BY <2>a, <2>b
  <2>2. DOMAIN r = 1 .. z /\ \A i \in 1 .. z : r[i] \in Int
    BY <2>1 DEF Point
  <2>3. EqTensor(r, x) = Reduce(TimesOp(Q), 1, Factors(z, r, x), 1 .. z)
    BY <2>2, EqTensorIsReduce
  <2>4. 1 .. z = {}
    BY <2>1
  <2>5. \A f : Reduce(TimesOp(Q), 1, f, {}) = 1
    BY ReduceStep, FS_EmptySet
  <2>6. QED
    BY <2>1, <2>3, <2>4, <2>5
<1>4. Terms(0, T, r)[0] = T[0]
  <2>1. 0 \in 0 .. Pow2[0] - 1
    BY <1>1
  <2>2. Terms(0, T, r)[0] = T[0] * EqTensor(r, Corner(0, 0))
    BY <2>1 DEF Terms
  <2>3. T[0] \in Int
    BY <1>2, RingFacts
  <2>4. QED
    BY <1>3, <2>2, <2>3
<1>5. SumFunctionOnSet(Terms(0, T, r), {0}) = T[0]
  <2>1. PICK f, z : f = Terms(0, T, r) /\ z = 0
    OBVIOUS
  <2>2. f[z] \in Int
    BY <1>2, <1>4, <2>1, RingFacts
  <2>3. SumFunctionOnSet(f, {z}) = f[z]
    BY <2>2, SumOne
  <2>4. QED
    BY <1>4, <2>1, <2>3
<1>6. QED
  BY <1>1, <1>2, <1>5, RingFacts DEF SumOver

Suffix(k) == [i \in 1 .. G - k |-> points[i + k]]

LEMMA SuffixFacts ==
  ASSUME Typing, Len(sent) = G, NEW k \in 0 .. G
  PROVE  /\ Point(G - k, Suffix(k))
         /\ k < G => Rest(G - (k + 1), Suffix(k), Suffix(k + 1)) /\ Suffix(k)[1] = points[k + 1]
<1>1. G \in Nat /\ points \in Seq(Ring) /\ Len(points) = G
  BY PoolAssumption DEF Typing
<1>2. \A i \in 1 .. G : points[i] \in Int
  <2>1. \A i \in 1 .. G : points[i] \in Ring
    BY <1>1
  <2>2. QED
    BY <2>1, RingFacts
<1>3. \A i \in 1 .. G - k : i + k \in 1 .. G /\ Suffix(k)[i] = points[i + k]
  BY <1>1 DEF Suffix
<1>4. Point(G - k, Suffix(k))
  BY <1>2, <1>3 DEF Point, Suffix
<1>5. ASSUME k < G
      PROVE  Rest(G - (k + 1), Suffix(k), Suffix(k + 1)) /\ Suffix(k)[1] = points[k + 1]
  <2>1. \A i \in 1 .. G - (k + 1) : i + 1 \in 1 .. G - k /\ (i + 1) + k = i + (k + 1)
    BY <1>1
  <2>2. \A i \in 1 .. G - (k + 1) : Suffix(k + 1)[i] = points[i + (k + 1)]
    BY DEF Suffix
  <2>3. 1 \in 1 .. G - k
    BY <1>1, <1>5
  <2>4. Suffix(k)[1] = points[1 + k] /\ 1 + k = k + 1
    BY <1>3, <2>3
  <2>5. QED
    BY <1>3, <2>1, <2>2, <2>4 DEF Rest
<1>6. QED
  BY <1>4, <1>5

LEMMA ContractedEvaluates ==
  ASSUME Typing, Len(sent) = G
  PROVE  Contracted[G][0] = MleAt(table, points)
<1> DEFINE E(k) == SumOver(Terms(G - k, Contracted[k], Suffix(k)), 0 .. Pow2[G - k] - 1)
           N == {k \in Nat : k <= G => E(k) = E(0)}
<1>0. G \in Nat /\ points \in Seq(Ring) /\ Len(points) = G /\ table \in Tables(G)
  BY PoolAssumption DEF Typing
<1>1. 0 \in N
  OBVIOUS
<1>2. ASSUME NEW k \in Nat, k \in N PROVE k + 1 \in N
  <2>1. SUFFICES ASSUME k + 1 <= G PROVE E(k + 1) = E(k)
    BY <1>0, <1>2
  <2>2. k \in 0 .. G /\ k < G /\ k + 1 \in 0 .. G /\ k + 1 \in 1 .. Len(sent)
    BY <1>0, <2>1
  <2>3. PICK n \in Nat : n = G - (k + 1) /\ n + 1 = G - k
    BY <1>0, <2>1
  <2>4. PICK T, r, s : T = Contracted[k] /\ r = Suffix(k) /\ s = Suffix(k + 1)
    OBVIOUS
  <2>5. Point(n + 1, r) /\ Point(n, s) /\ Rest(n, r, s) /\ r[1] = points[k + 1]
    BY <2>2, <2>3, <2>4, SuffixFacts
  <2>6. T \in Tables(n + 1)
    <3>1. Contracted[k] \in Tables(G - k)
      BY <1>0, <2>2, FoldedTables
    <3>2. QED
      BY <2>3, <2>4, <3>1
  <2>7. Contracted[k + 1] = FoldAt(T, Pow2[n], r[1])
    <3>1. (k + 1) - 1 = k
      OBVIOUS
    <3>2. Contracted[k + 1] = FoldAt(Contracted[(k + 1) - 1], Pow2[G - (k + 1)], points[k + 1])
      BY <2>2, FoldedTables
    <3>3. QED
      BY <2>3, <2>4, <2>5, <3>1, <3>2
  <2>8. SumOver(Terms(n + 1, T, r), 0 .. Pow2[n + 1] - 1)
          = SumOver(Terms(n, FoldAt(T, Pow2[n], r[1]), s), 0 .. Pow2[n] - 1)
    BY <2>5, <2>6, FoldEvaluates
  <2>9. QED
    BY <2>3, <2>4, <2>7, <2>8, Zenon
<1>3. \A k \in Nat : k \in N
  <2> HIDE DEF N
  <2> QED BY <1>1, <1>2, NatSetInduction
<1>4. E(0) = MleAt(table, points)
  <2>1. G - 0 = G /\ DOMAIN points = 1 .. G /\ Contracted[0] = table
    BY <1>0, FoldedTables
  <2>2. Suffix(0) = points
    <3>1. \A i \in 1 .. G : i + 0 = i
      BY <1>0
    <3>2. points = [i \in 1 .. G |-> points[i]]
      BY <1>0
    <3>3. QED
      BY <2>1, <3>1, <3>2 DEF Suffix
  <2>3. MleAt(table, points) = SumOver(Terms(G, table, points), 0 .. Pow2[G] - 1)
    BY <1>0, <2>1, MleIsTerms
  <2>4. QED
    BY <2>1, <2>2, <2>3
<1>5. E(G) = Contracted[G][0]
  <2>1. G - G = 0 /\ G \in 0 .. G
    BY <1>0
  <2>2. Contracted[G] \in Tables(0) /\ Point(0, Suffix(G))
    <3>1. Contracted[G] \in Tables(G - G) /\ Point(G - G, Suffix(G))
      BY <1>0, <2>1, FoldedTables, SuffixFacts
    <3>2. QED
      BY <2>1, <3>1
  <2>3. SumOver(Terms(0, Contracted[G], Suffix(G)), 0 .. Pow2[0] - 1) = Contracted[G][0]
    BY <2>2, LastTerm
  <2>4. QED
    BY <2>1, <2>3
<1>6. E(G) = E(0)
  BY <1>0, <1>3
<1>7. QED
  BY <1>4, <1>5, <1>6

LEMMA HonestEvaluates ==
  ASSUME Typing, Messages
  PROVE  FinalIsEvaluation
<1>1. SUFFICES ASSUME honest, final # <<>> PROVE final[1] = MleAt(table, points)
  BY DEF FinalIsEvaluation
<1>2. final = <<Contracted[G][0]>> /\ Len(sent) = G
  BY <1>1 DEF Messages, Typing
<1>3. QED
  BY <1>2, ContractedEvaluates

\* The last round reads an index's lowest bit and eq_weights reads it first.
LEMMA MirroredWeight ==
  ASSUME NEW eq \in [1 .. G -> Ring], NEW mirror, mirror = [j \in 1 .. G |-> eq[G + 1 - j]], NEW idx
  PROVE  EqTensor(mirror, Corner(idx, G)) = EqTensor(eq, Bits(idx))
<1>0. G \in Nat
  BY PoolAssumption
<1>1. PICK V, op, b : V = Int /\ op = TimesOp(Q) /\ b = 1
  OBVIOUS
<1>2. Commutes(op, V) /\ b \in V
  BY <1>1, RingFacts, TimesCommutes
<1>3. PICK x, y : x = Corner(idx, G) /\ y = Bits(idx)
  OBVIOUS
<1>4. PICK S : S = 1 .. G /\ IsFiniteSet(S)
  BY <1>0, 1 \in Int, FS_Interval
<1>5. PICK f, g : f = Factors(G, eq, y) /\ g = Factors(G, mirror, x)
  OBVIOUS
<1>6. /\ \A i \in S : G + 1 - i \in S /\ G + 1 - (G + 1 - i) = i /\ G - i = (G + 1 - i) - 1
  BY <1>0, <1>4
<1>7. /\ DOMAIN eq = 1 .. G /\ \A i \in 1 .. G : eq[i] \in Int
      /\ DOMAIN mirror = 1 .. G /\ \A i \in 1 .. G : mirror[i] \in Int
  <2>1. \A i \in S : eq[i] \in Int /\ mirror[i] = eq[G + 1 - i]
    BY <1>4, RingFacts
  <2>2. \A i \in S : mirror[i] \in Int
    BY <1>6, <2>1
  <2>3. QED
    BY <1>4, <2>1, <2>2
<1>8. \A i \in S : x[G + 1 - i] = y[i]
  <2>1. SUFFICES ASSUME NEW i \in S PROVE x[G + 1 - i] = y[i]
    OBVIOUS
  <2>2. PICK j : j = G + 1 - i /\ j \in S /\ G - j = i - 1
    BY <1>0, <1>4, <1>6
  <2>3. x[j] = ((idx \div Pow2[G - j]) % 2 = 1) /\ y[i] = ((idx \div Pow2[i - 1]) % 2 = 1)
    BY <1>3, <1>4, <2>2 DEF Corner, Bits
  <2>4. QED
    BY <2>2, <2>3
<1>9. PICK m : m = [i \in S |-> G + 1 - i]
  OBVIOUS
<1>10. ASSUME NEW i \in S PROVE f[i] \in V /\ g[m[i]] = f[i]
  <2>1. m[i] = G + 1 - i /\ m[i] \in S /\ mirror[m[i]] = eq[i] /\ x[m[i]] = y[i]
    BY <1>4, <1>6, <1>8, <1>9
  <2>2. f[i] = IF y[i] THEN eq[i] ELSE (1 - eq[i]) % Q
    BY <1>4, <1>5 DEF Factors
  <2>3. g[m[i]] = IF x[m[i]] THEN mirror[m[i]] ELSE (1 - mirror[m[i]]) % Q
    BY <1>4, <1>5, <2>1 DEF Factors
  <2>4. f[i] \in Int
    BY <1>0, <1>4, <1>5, <1>7, FactorsType
  <2>5. QED
    BY <1>1, <2>1, <2>2, <2>3, <2>4
<1>11. /\ m \in [S -> S] /\ \A i, j \in S : m[i] = m[j] => i = j
       /\ \A j \in S : \E i \in S : m[i] = j
  <2>1. m \in [S -> S]
    BY <1>6, <1>9
  <2>2. \A i \in S : m[m[i]] = i
    BY <1>6, <1>9
  <2>3. QED
    BY <2>1, <2>2
<1>12. IsFiniteSet(S)
  BY <1>4
<1>13. Reduce(op, b, g, S) = Reduce(op, b, f, S)
  BY <1>2, <1>10, <1>11, <1>12, ReduceReindex
<1>14. EqTensor(eq, y) = Reduce(TimesOp(Q), 1, f, 1 .. G) /\ EqTensor(mirror, x) = Reduce(TimesOp(Q), 1, g, 1 .. G)
  BY <1>0, <1>5, <1>7, EqTensorIsReduce
<1>15. QED
  BY <1>1, <1>3, <1>4, <1>13, <1>14

LEMMA ClaimsMirrored ==
  ASSUME Called
  PROVE  EqClaimsEvaluateMirrored
<1>1. SUFFICES ASSUME NEW i \in DOMAIN batch, batch[i].eq # <<>>
               PROVE  ClaimTruth(batch[i])
                        = MleAt(batch[i].table, [j \in 1 .. G |-> batch[i].eq[G + 1 - j]])
  BY DEF EqClaimsEvaluateMirrored
<1>2. PICK eq, T : eq = batch[i].eq /\ T = batch[i].table
  OBVIOUS
<1>3. eq \in [1 .. G -> Ring] /\ T \in Tables(G) /\ eq # <<>>
  BY <1>1, <1>2, BatchFacts DEF Called
<1>4. PICK mirror : mirror = [j \in 1 .. G |-> eq[G + 1 - j]]
  OBVIOUS
<1>5. DOMAIN mirror = 1 .. G /\ Len(mirror) = G
  BY <1>4, PoolAssumption
<1>6. MleAt(T, mirror) = SumOver(Terms(G, T, mirror), 0 .. Pow2[G] - 1)
  BY <1>3, <1>5, MleIsTerms
<1>7. PICK D : D = 0 .. Pow2[G] - 1
  OBVIOUS
<1>8. PICK f, g : f = [idx \in D |-> EqWeight(eq, idx) * T[idx]] /\ g = Terms(G, T, mirror)
  OBVIOUS
<1>9. f = g
  <2>1. ASSUME NEW idx \in D PROVE EqWeight(eq, idx) * T[idx] = T[idx] * EqTensor(mirror, Corner(idx, G))
    <3>1. EqWeight(eq, idx) = EqTensor(eq, Bits(idx))
      BY <1>3 DEF EqWeight
    <3>2. EqTensor(mirror, Corner(idx, G)) = EqTensor(eq, Bits(idx))
      BY <1>3, <1>4, MirroredWeight
    <3>3. EqWeight(eq, idx) \in Int
      BY <1>3, EqWeightType
    <3>4. T[idx] \in Int
      BY <1>3, <1>7, RingFacts DEF Tables
    <3>5. PICK u \in Int, v \in Int : u = EqWeight(eq, idx) /\ v = T[idx]
      BY <3>3, <3>4
    <3>6. u * v = v * u
      OBVIOUS
    <3>7. QED
      BY <3>1, <3>2, <3>5, <3>6
  <2>2. g = [idx \in D |-> T[idx] * EqTensor(mirror, Corner(idx, G))]
    BY <1>7, <1>8, Zenon DEF Terms
  <2>3. QED
    BY <1>8, <2>1, <2>2, Zenon
<1>10. ClaimTruth(batch[i]) = SumOver(f, D)
  BY <1>2, <1>7, <1>8, Zenon DEF ClaimTruth
<1>11. QED
  BY <1>2, <1>4, <1>6, <1>7, <1>8, <1>9, <1>10, Zenon

\* The sum of the combined table is the combination of the sums.
LEMMA CombinedSum ==
  ASSUME NEW b \in Batches, NEW g \in Ring
  PROVE  SumOver(CombinedTable(b, g), 0 .. Pow2[G] - 1)
           = SumOver([i \in DOMAIN b |-> Weight(g, i) * ClaimTruth(b[i])], DOMAIN b)
<1>1. PICK D : /\ D = DOMAIN b /\ IsFiniteSet(D)
               /\ \A i \in D : /\ i \in Nat /\ i > 0
                               /\ b[i].table \in Tables(G)
                               /\ b[i].eq = <<>> \/ b[i].eq \in [1 .. G -> Ring]
  BY BatchFacts
<1>2. PICK I : I = 0 .. Pow2[G] - 1 /\ IsFiniteSet(I)
  <2>1. PICK h \in Nat : h = Pow2[G]
    BY Pow, PoolAssumption
  <2>2. IsFiniteSet(0 .. h - 1)
    BY FS_Interval
  <2>3. QED
    BY <2>1, <2>2
<1>3. PICK w : w = [i \in D |-> Weight(g, i)]
  OBVIOUS
<1>4. PICK t : t = [i \in D |-> [idx \in I |-> EqWeight(b[i].eq, idx) * b[i].table[idx]]]
  OBVIOUS
<1>5. PICK f : f = [i \in D |-> [idx \in I |-> w[i] * EqWeight(b[i].eq, idx) * b[i].table[idx]]]
  OBVIOUS
<1>6. ASSUME NEW i \in D PROVE w[i] \in Int
  BY <1>1, <1>3, WeightType, RingFacts
<1>7. ASSUME NEW i \in D, NEW idx \in I
      PROVE  t[i][idx] \in Int /\ f[i][idx] \in Int /\ f[i][idx] = w[i] * t[i][idx]
  <2>1. PICK x \in Int, y \in Int, z \in Int :
          x = w[i] /\ y = EqWeight(b[i].eq, idx) /\ z = b[i].table[idx]
    BY <1>1, <1>2, <1>6, EqWeightType, RingFacts DEF Tables
  <2>2. t[i][idx] = y * z /\ f[i][idx] = x * y * z
    BY <1>4, <1>5, <2>1
  <2>3. y * z \in Int /\ x * y * z \in Int /\ x * y * z = x * (y * z)
    OBVIOUS
  <2>4. QED
    BY <2>1, <2>2, <2>3
<1>8. PICK rows, cols : /\ rows = [i \in D |-> SumFunctionOnSet(f[i], I)]
                        /\ cols = [idx \in I |-> SumFunctionOnSet([i \in D |-> f[i][idx]], D)]
  OBVIOUS
<1>9. SumFunctionOnSet(rows, D) = SumFunctionOnSet(cols, I)
  <2>1. IsFiniteSet(D) /\ IsFiniteSet(I) /\ \A i \in D, idx \in I : f[i][idx] \in Int
    BY <1>1, <1>2, <1>7
  <2>2. SumFunctionOnSet([i \in D |-> SumFunctionOnSet(f[i], I)], D)
          = SumFunctionOnSet([idx \in I |-> SumFunctionOnSet([i \in D |-> f[i][idx]], D)], I)
    BY <2>1, SumExchange
  <2>3. QED
    BY <1>8, <2>2
<1>10. PICK T : T = CombinedTable(b, g)
  OBVIOUS
<1>11. ASSUME NEW idx \in I
       PROVE  cols[idx] \in Int /\ T[idx] \in Int /\ Cong(Q, T[idx], cols[idx])
  <2>1. PICK c : c = [i \in D |-> f[i][idx]]
    OBVIOUS
  <2>2. \A i \in D : c[i] \in Int
    BY <1>7, <2>1
  <2>3. SumFunctionOnSet(c, D) \in Int /\ SumOver(c, D) \in Ring /\ Cong(Q, SumOver(c, D), SumFunctionOnSet(c, D))
    BY <1>1, <2>2, SumOverType
  <2>4. T[idx] = SumOver([i \in D |-> Weight(g, i) * EqWeight(b[i].eq, idx) * b[i].table[idx]], D)
    BY <1>1, <1>2, <1>10 DEF CombinedTable
  <2>5. c = [i \in D |-> Weight(g, i) * EqWeight(b[i].eq, idx) * b[i].table[idx]]
    BY <1>3, <1>5, <2>1
  <2>6. cols[idx] = SumFunctionOnSet(c, D)
    BY <1>8, <2>1
  <2>7. QED
    BY <2>3, <2>4, <2>5, <2>6, RingFacts
<1>12. PICK v : v = [i \in D |-> Weight(g, i) * ClaimTruth(b[i])]
  OBVIOUS
<1>13. ASSUME NEW i \in D
       PROVE  rows[i] \in Int /\ v[i] \in Int /\ Cong(Q, v[i], rows[i])
  <2>1. PICK ti, fi : ti = t[i] /\ fi = f[i]
    OBVIOUS
  <2>2. w[i] \in Int /\ \A idx \in I : ti[idx] \in Int /\ fi[idx] \in Int /\ fi[idx] = w[i] * ti[idx]
    BY <1>6, <1>7, <2>1
  <2>3. PICK a \in Int : a = w[i]
    BY <2>2
  <2>4. PICK s \in Int : s = SumFunctionOnSet(ti, I)
    BY <1>2, <2>2, SumType
  <2>5. SumFunctionOnSet(fi, I) \in Int
    BY <1>2, <2>2, SumType
  <2>6. \A idx \in I : ti[idx] \in Int /\ fi[idx] \in Int /\ Cong(Q, fi[idx], a * ti[idx])
    <3>1. \A idx \in I : ti[idx] \in Int /\ fi[idx] \in Int /\ fi[idx] = a * ti[idx]
      BY <2>2, <2>3
    <3>2. QED
      BY <3>1, RingFacts, CongRefl
  <2>7. IsFiniteSet(I)
    BY <1>2
  <2>8. Cong(Q, SumFunctionOnSet(fi, I), a * s)
    BY <2>4, <2>6, <2>7, RingFacts, SumScaled
  <2>9. Cong(Q, ClaimTruth(b[i]), s) /\ ClaimTruth(b[i]) \in Ring
    <3>1. ClaimTruth(b[i]) = SumOver(ti, I)
      BY <1>2, <1>4, <2>1, Zenon DEF ClaimTruth
    <3>2. SumOver(ti, I) \in Ring /\ Cong(Q, SumOver(ti, I), SumFunctionOnSet(ti, I))
      BY <2>2, <2>7, SumOverType
    <3>3. QED
      BY <2>4, <3>1, <3>2
  <2>10. PICK c \in Int : c = ClaimTruth(b[i])
    BY <2>9, RingFacts
  <2>11. Cong(Q, a * c, a * s)
    BY <2>9, <2>10, RingFacts, CongScale
  <2>12. rows[i] = SumFunctionOnSet(fi, I) /\ v[i] = a * c
    BY <1>3, <1>8, <1>12, <2>1, <2>3, <2>10
  <2>13. PICK x \in Int, y \in Int, z \in Int : x = a * c /\ y = a * s /\ z = rows[i]
    BY <2>5, <2>12
  <2>14. Cong(Q, z, y) /\ Cong(Q, x, y)
    BY <2>8, <2>11, <2>12, <2>13
  <2>15. Cong(Q, x, z)
    BY <2>14, RingFacts, CongSym, CongTrans
  <2>16. QED
    BY <2>12, <2>13, <2>15
<1>14. IsFiniteSet(D) /\ IsFiniteSet(I)
  BY <1>1, <1>2
<1>15. PICK x \in Int, y \in Int, z \in Int :
         x = SumFunctionOnSet(T, I) /\ y = SumFunctionOnSet(cols, I) /\ z = SumFunctionOnSet(v, D)
  BY <1>11, <1>13, <1>14, SumType
<1>16. Cong(Q, x, y)
  BY <1>11, <1>14, <1>15, RingFacts, SumCong
<1>17. Cong(Q, z, y)
  BY <1>9, <1>13, <1>14, <1>15, RingFacts, SumCong
<1>18. x % Q = z % Q
  BY <1>16, <1>17, RingFacts, CongSym, CongTrans, CongSame
<1>19. QED
  BY <1>1, <1>2, <1>10, <1>12, <1>15, <1>18 DEF SumOver

\* The combination of the errors is what a weight has to hide.
LEMMA RightHides ==
  ASSUME NEW b \in Batches, NEW g \in Ring, Wrong(b) = {}
  PROVE  Hides(b, g)
<1>1. PICK D : D = DOMAIN b
  OBVIOUS
<1>2. \A i \in D : b[i].claimed = ClaimTruth(b[i])
  BY <1>1 DEF Wrong
<1>3. PICK f, h : /\ f = [i \in D |-> Weight(g, i) * b[i].claimed]
                  /\ h = [i \in D |-> Weight(g, i) * ClaimTruth(b[i])]
  OBVIOUS
<1>4. f = h
  BY <1>2, <1>3
<1>5. CombinedClaim(b, g) = SumOver(f, D)
  BY <1>1, <1>3 DEF CombinedClaim
<1>6. QED
  BY <1>1, <1>3, <1>4, <1>5, CombinedSum DEF Hides

LEMMA BatchVerifies ==
  ASSUME Typing, Messages, Verified, Called
  PROVE  HonestBatchVerifies
<1>1. HonestSumAccepted /\ FinalIsEvaluation /\ EqClaimsEvaluateMirrored
  BY HonestAccepted, HonestEvaluates, ClaimsMirrored
<1>2. ASSUME honest, verdict # "none"
      PROVE  /\ Wrong(batch) = {} => verdict = "accept"
             /\ verdict = "accept" => Hides(batch, gamma)
  <2>1. verdict = "accept" <=> claimed = Truth(0)
    BY <1>1, <1>2 DEF HonestSumAccepted
  <2>2. Truth(0) = SumOver(CombinedTable(batch, gamma), 0 .. Pow2[G] - 1)
    <3>1. G - 0 = G /\ Contracted[0] = table
      BY FoldedTables, PoolAssumption
    <3>2. QED
      BY <3>1 DEF Truth, Called
  <2>3. verdict = "accept" <=> Hides(batch, gamma)
    BY <2>1, <2>2 DEF Hides, Called
  <2>4. QED
    BY <2>3, RightHides DEF Called
<1>3. QED
  BY <1>1, <1>2 DEF HonestBatchVerifies

\* An honest batch: right claims are accepted with any weight and wrong ones only
\* with one that cancels the errors; what the rounds end on is the combined
\* polynomial at the challenges, and a claim under eq is about its table at the
\* mirrored point, for every modulus, number of rounds and batch
\* (sumcheck/mod.rs:268-271, 300-301; sumcheck/batch.rs).
THEOREM BatchesVerify == Spec => []HonestBatchVerifies
<1>1. QED
  BY Invariants, BatchVerifies, PTL

\* The two lines of a round with a wrong claim never meet at two challenges in
\* a row.
LEMMA LinesCross ==
  ASSUME NEW m0 \in Int, NEW m1 \in Int, NEW s0 \in Int, NEW s1 \in Int,
         (m0 + m1) % Q # (s0 + s1) % Q,
         NEW r \in Ring, Interpolate(m0, m1, r) = Interpolate(s0, s1, r)
  PROVE  (r + 1) % Q \in Ring /\ Interpolate(m0, m1, (r + 1) % Q) # Interpolate(s0, s1, (r + 1) % Q)
<1>0. r \in Int /\ Q \in Int
  BY RingFacts
<1>1. PICK t \in Int : t = (r + 1) % Q /\ t \in Ring /\ Cong(Q, t, r + 1)
  BY <1>0, RingFacts
<1>2. PICK k \in Int : t = (r + 1) + Q * k
  BY <1>1 DEF Cong
<1>3. SUFFICES ASSUME Interpolate(m0, m1, t) = Interpolate(s0, s1, t) PROVE FALSE
  BY <1>1
<1>4. \A u \in Int : u \in {r, t} => Cong(Q, m0 + u * (m1 - m0), s0 + u * (s1 - s0))
  <2>1. SUFFICES ASSUME NEW u \in Int, u \in {r, t}
                 PROVE  Cong(Q, m0 + u * (m1 - m0), s0 + u * (s1 - s0))
    OBVIOUS
  <2>2. PICK x \in Int, y \in Int : x = m0 + u * (m1 - m0) /\ y = s0 + u * (s1 - s0)
    OBVIOUS
  <2>3. x % Q = y % Q
    BY <1>3, <2>1, <2>2 DEF Interpolate
  <2>4. x % Q \in Int /\ Cong(Q, x % Q, x) /\ Cong(Q, y % Q, y)
    BY RingFacts
  <2>5. Cong(Q, x, y)
    BY <2>3, <2>4, RingFacts, CongSym, CongTrans
  <2>6. QED
    BY <2>2, <2>5
<1>5. PICK a \in Int : m0 + r * (m1 - m0) = (s0 + r * (s1 - s0)) + Q * a
  BY <1>0, <1>4 DEF Cong
<1>6. PICK b \in Int : m0 + t * (m1 - m0) = (s0 + t * (s1 - s0)) + Q * b
  BY <1>4 DEF Cong
<1>7. PICK d \in Int, e \in Int : d = m0 - s0 /\ e = (m1 - m0) - (s1 - s0)
  OBVIOUS
<1>8. d + r * e = Q * a /\ d + t * e = Q * b
  <2>1. r * e = r * (m1 - m0) - r * (s1 - s0) /\ t * e = t * (m1 - m0) - t * (s1 - s0)
    BY <1>0, <1>7
  <2>2. QED
    BY <1>0, <1>5, <1>6, <1>7, <2>1
<1>9. PICK f \in Int : e = Q * f
  <2>1. t * e = r * e + e + Q * (k * e)
    BY <1>0, <1>2
  <2>2. e = Q * b - Q * a - Q * (k * e)
    BY <1>0, <1>8, <2>1
  <2>3. e = Q * (b - a - k * e) /\ b - a - k * e \in Int
    BY <1>0, <2>2
  <2>4. QED
    BY <2>3
<1>10. d = Q * a - Q * (r * f)
  BY <1>0, <1>8, <1>9
<1>11. m0 + m1 = (s0 + s1) + Q * (2 * (a - r * f) + f)
  <2>1. (m0 + m1) - (s0 + s1) = 2 * d + e
    BY <1>7
  <2>2. 2 * d + e = Q * (2 * (a - r * f) + f)
    BY <1>0, <1>9, <1>10
  <2>3. QED
    BY <1>0, <2>1, <2>2
<1>12. Cong(Q, m0 + m1, s0 + s1)
  <2>1. 2 * (a - r * f) + f \in Int
    BY <1>0
  <2>2. QED
    BY <1>11, <2>1 DEF Cong
<1>13. (m0 + m1) % Q = (s0 + s1) % Q
  <2>1. PICK x \in Int, y \in Int : x = m0 + m1 /\ y = s0 + s1
    OBVIOUS
  <2>2. x % Q = y % Q
    BY <1>12, <2>1, RingFacts, CongSame
  <2>3. QED
    BY <2>1, <2>2
<1>14. QED
  BY <1>13

\* What the lines may share.
LEMMA HalfTheRing ==
  ASSUME NEW S \in SUBSET Ring, \A r \in S : (r + 1) % Q \in Ring \ S
  PROVE  2 * Cardinality(S) <= Q
<1>0. Q \in Nat /\ Q > 0
  BY RingFacts
<1>1. IsFiniteSet(Ring) /\ Cardinality(Ring) = Q
  BY <1>0, FS_Interval DEF Ring
<1>2. PICK T : T = Ring \ S
  OBVIOUS
<1>3. IsFiniteSet(S) /\ Cardinality(S) \in Nat
  BY <1>1, FS_Subset, FS_CardinalityType
<1>4. IsFiniteSet(T) /\ Cardinality(T) = Q - Cardinality(S)
  <2>1. Ring \cap S = S
    OBVIOUS
  <2>2. QED
    BY <1>1, <1>2, <2>1, FS_Difference
<1>5. SUFFICES ASSUME Cardinality(T) < Cardinality(S) PROVE FALSE
  BY <1>0, <1>3, <1>4
<1>6. PICK f : f = [r \in S |-> (r + 1) % Q]
  OBVIOUS
<1>7. f \in [S -> T]
  BY <1>2, <1>6
<1>8. PICK x \in S, y \in S : x # y /\ f[x] = f[y]
  BY <1>3, <1>4, <1>5, <1>7, FS_PigeonHole
<1>9. (x + 1) % Q = (y + 1) % Q /\ x \in 0 .. Q - 1 /\ y \in 0 .. Q - 1
  BY <1>6, <1>8 DEF Ring
<1>10. \A z \in 0 .. Q - 1 : (z + 1) % Q = IF z = Q - 1 THEN 0 ELSE z + 1
  <2>1. SUFFICES ASSUME NEW z \in 0 .. Q - 1 PROVE (z + 1) % Q = IF z = Q - 1 THEN 0 ELSE z + 1
    OBVIOUS
  <2>2. PICK u \in Int, o \in Int, n \in Int : u = z + 1 /\ o = 1 /\ n = 0
    OBVIOUS
  <2>3. CASE z = Q - 1
    <3>1. u = Q * o + n /\ 0 <= n /\ n < Q
      BY <1>0, <2>2, <2>3
    <3>2. u % Q = n
      BY <1>0, <3>1, DivModUnique
    <3>3. QED
      BY <2>2, <2>3, <3>2
  <2>4. CASE z # Q - 1
    <3>1. u = Q * n + u /\ 0 <= u /\ u < Q
      BY <1>0, <2>2, <2>4
    <3>2. u % Q = u
      BY <1>0, <3>1, DivModUnique
    <3>3. QED
      BY <2>2, <2>4, <3>2
  <2>5. QED
    BY <2>3, <2>4
<1>11. QED
  BY <1>0, <1>8, <1>9, <1>10

LEMMA RareChallenges ==
  ASSUME Typing, Verified
  PROVE  LuckyChallengesAreRare
<1>1. SUFFICES ASSUME NEW n \in 1 .. checked, ClaimAfter(n - 1) # Truth(n - 1),
                      NEW turned,
                      turned = {r \in Ring : Interpolate(sent[n][1], sent[n][2], r)
                                 = SumOver(FoldAt(Contracted[n - 1], Pow2[G - n], r), 0 .. Pow2[G - n] - 1)}
               PROVE  2 * Cardinality(turned) <= Q
  BY Zenon DEF LuckyChallengesAreRare
<1>2. n \in 1 .. Len(sent) /\ Consistent(sent[n], ClaimAfter(n - 1))
  BY <1>1 DEF Verified, Typing
<1>3. PICK T : T = Contracted[n - 1]
  OBVIOUS
<1>4. PICK h \in Nat : h = Pow2[G - n]
  BY <1>2, FoldedTables
<1>5. h > 0 /\ (\A j \in 0 .. 2 * h - 1 : T[j] \in Int) /\ Pow2[G - (n - 1)] = 2 * h
  BY <1>2, <1>3, <1>4, FoldedTables, RingFacts
<1>6. PICK m0 \in Int, m1 \in Int : m0 = sent[n][1] /\ m1 = sent[n][2]
  BY <1>2 DEF Typing
<1>7. SumOver(T, 0 .. h - 1) \in Int /\ SumOver(T, h .. 2 * h - 1) \in Int
  <2>1. PICK A, B : A = 0 .. h - 1 /\ B = h .. 2 * h - 1
    OBVIOUS
  <2>2. IsFiniteSet(A) /\ IsFiniteSet(B)
    <3>1. 0 \in Int /\ h - 1 \in Int /\ h \in Int /\ 2 * h - 1 \in Int
      OBVIOUS
    <3>2. IsFiniteSet(0 .. h - 1) /\ IsFiniteSet(h .. 2 * h - 1)
      BY <3>1, FS_Interval
    <3>3. QED
      BY <2>1, <3>2
  <2>3. (\A j \in A : T[j] \in Int) /\ \A j \in B : T[j] \in Int
    BY <1>5, <2>1
  <2>4. SumOver(T, A) \in Ring /\ SumOver(T, B) \in Ring
    BY <2>2, <2>3, SumOverType
  <2>5. QED
    BY <2>1, <2>4, RingFacts
<1>8. PICK s0 \in Int, s1 \in Int : s0 = SumOver(T, 0 .. h - 1) /\ s1 = SumOver(T, h .. 2 * h - 1)
  BY <1>7
<1>9. (s0 + s1) % Q = Truth(n - 1)
  <2>1. (SumOver(T, 0 .. h - 1) + SumOver(T, h .. 2 * h - 1)) % Q = SumOver(T, 0 .. 2 * h - 1)
    BY <1>5, HalvesSum
  <2>2. Truth(n - 1) = SumOver(T, 0 .. 2 * h - 1)
    BY <1>3, <1>5 DEF Truth
  <2>3. QED
    BY <1>8, <2>1, <2>2
<1>10. (m0 + m1) % Q # (s0 + s1) % Q
  BY <1>1, <1>2, <1>6, <1>9 DEF Consistent
<1>11. \A r \in Ring : r \in turned <=> Interpolate(m0, m1, r) = Interpolate(s0, s1, r)
  <2>1. SUFFICES ASSUME NEW r \in Ring
                 PROVE  r \in turned <=> Interpolate(m0, m1, r) = Interpolate(s0, s1, r)
    OBVIOUS
  <2>2. r \in Int
    BY RingFacts
  <2>3. SumOver(FoldAt(T, h, r), 0 .. h - 1) = Interpolate(s0, s1, r)
    BY <1>5, <1>8, <2>2, FoldedSum
  <2>4. QED
    BY <1>1, <1>3, <1>4, <1>6, <2>3
<1>12. \A r \in turned : (r + 1) % Q \in Ring \ turned
  <2>1. SUFFICES ASSUME NEW r \in turned PROVE (r + 1) % Q \in Ring \ turned
    OBVIOUS
  <2>2. r \in Ring /\ Interpolate(m0, m1, r) = Interpolate(s0, s1, r)
    BY <1>1, <1>11
  <2>3. (r + 1) % Q \in Ring /\ Interpolate(m0, m1, (r + 1) % Q) # Interpolate(s0, s1, (r + 1) % Q)
    BY <1>10, <2>2, LinesCross
  <2>4. QED
    BY <1>11, <2>3
<1>13. turned \in SUBSET Ring
  BY <1>1
<1>14. QED
  BY <1>12, <1>13, HalfTheRing

\* A wrong claim that ends on the truth turned right in some round.
LEMMA AcceptedByLuck ==
  ASSUME Typing, Verified, Called, verdict = "accept", final[1] = MleAt(CombinedTable(batch, gamma), points)
  PROVE  Hides(batch, gamma) \/ \E n \in 1 .. G : Lucky(n)
<1>0. G \in Nat /\ Len(sent) = G /\ final[1] = claim /\ claim = ClaimAfter(G)
  BY PoolAssumption DEF Verified, RightLength, FinalMatches
<1>1. ClaimAfter(G) = Truth(G)
  BY <1>0, ContractedEvaluates, LastTruth DEF Called
<1>2. SUFFICES ASSUME ~Hides(batch, gamma), \A n \in 1 .. G : ~Lucky(n) PROVE FALSE
  OBVIOUS
<1>3. ClaimAfter(0) # Truth(0)
  <2>1. Truth(0) = SumOver(CombinedTable(batch, gamma), 0 .. Pow2[G] - 1)
    <3>1. G - 0 = G /\ Contracted[0] = table
      BY FoldedTables, PoolAssumption
    <3>2. QED
      BY <3>1 DEF Truth, Called
  <2>2. QED
    BY <1>2, <2>1 DEF Hides, Called, ClaimAfter
<1> DEFINE N == {n \in Nat : n <= G => ClaimAfter(n) # Truth(n)}
<1>4. 0 \in N
  BY <1>3
<1>5. ASSUME NEW n \in Nat, n \in N PROVE n + 1 \in N
  <2>1. SUFFICES ASSUME n + 1 <= G PROVE ClaimAfter(n + 1) # Truth(n + 1)
    OBVIOUS
  <2>2. n + 1 \in 1 .. G /\ (n + 1) - 1 = n /\ n <= G
    BY <1>0, <2>1
  <2>3. ClaimAfter(n) # Truth(n) /\ ~Lucky(n + 1)
    BY <1>2, <1>5, <2>2
  <2>4. QED
    BY <2>2, <2>3 DEF Lucky
<1>6. \A n \in Nat : n \in N
  <2> HIDE DEF N
  <2> QED BY <1>4, <1>5, NatSetInduction
<1>7. QED
  BY <1>0, <1>1, <1>6

-----------------------------------------------------------------------------
LEMMA LeastPrimeFacts ==
  ASSUME Q > 1
  PROVE  LeastPrime \in 2 .. Q /\ Q % LeastPrime = 0 /\ \A n \in 2 .. LeastPrime - 1 : Q % n # 0
<1>1. \E p \in 2 .. Q : Q % p = 0 /\ \A e \in 2 .. p - 1 : Q % e # 0
  BY RingFacts, LeastDivisor
<1>2. QED
  BY <1>1, Zenon DEF LeastPrime

\* The errors of a batch, the coefficients of a polynomial in the weight.
Errors(b) == [i \in Nat |-> IF i \in DOMAIN b THEN b[i].claimed - ClaimTruth(b[i]) ELSE 0]
WeightsOf == [g \in Ring |-> [i \in Nat |-> IF i = 0 THEN 0 ELSE Weight(g, i)]]

LEMMA ClaimTruthType ==
  ASSUME NEW b \in Batches, NEW i \in DOMAIN b
  PROVE  ClaimTruth(b[i]) \in Ring
<1>1. PICK T, eq : T = b[i].table /\ eq = b[i].eq
  OBVIOUS
<1>2. T \in Tables(G) /\ (eq = <<>> \/ eq \in [1 .. G -> Ring])
  BY <1>1, BatchFacts
<1>3. PICK I : I = 0 .. Pow2[G] - 1 /\ IsFiniteSet(I)
  <2>1. PICK h \in Nat : h = Pow2[G]
    BY Pow, PoolAssumption
  <2>2. IsFiniteSet(0 .. h - 1)
    BY FS_Interval
  <2>3. QED
    BY <2>1, <2>2
<1>4. PICK f : f = [idx \in I |-> EqWeight(eq, idx) * T[idx]]
  OBVIOUS
<1>5. \A idx \in I : f[idx] \in Int
  <2>1. SUFFICES ASSUME NEW idx \in I PROVE f[idx] \in Int
    OBVIOUS
  <2>2. PICK x \in Int, y \in Int : x = EqWeight(eq, idx) /\ y = T[idx]
    BY <1>2, <1>3, EqWeightType, RingFacts DEF Tables
  <2>3. QED
    BY <1>4, <2>2
<1>6. IsFiniteSet(I)
  BY <1>3
<1>7. SumOver(f, I) \in Ring
  BY <1>5, <1>6, SumOverType
<1>8. QED
  BY <1>1, <1>3, <1>4, <1>7, Zenon DEF ClaimTruth

LEMMA ErrorsType ==
  ASSUME NEW b \in Batches
  PROVE  /\ Errors(b) \in [Nat -> Int]
         /\ \A i \in Wrong(b) : ~Cong(Q, Errors(b)[i], 0)
<1>1. DOMAIN b = 1 .. Len(b) /\ \A i \in DOMAIN b : b[i].claimed \in Ring /\ ClaimTruth(b[i]) \in Ring
  BY BatchFacts, ClaimTruthType
<1>2. ASSUME NEW i \in Nat PROVE Errors(b)[i] \in Int
  <2>1. CASE i \in DOMAIN b
    <3>1. PICK x \in Int, y \in Int : x = b[i].claimed /\ y = ClaimTruth(b[i])
      BY <1>1, <2>1, RingFacts
    <3>2. QED
      BY <2>1, <3>1 DEF Errors
  <2>2. CASE i \notin DOMAIN b
    BY <2>2 DEF Errors
  <2>3. QED
    BY <2>1, <2>2
<1>3. ASSUME NEW i \in Wrong(b), Cong(Q, Errors(b)[i], 0) PROVE FALSE
  <2>1. i \in DOMAIN b /\ i \in Nat /\ b[i].claimed # ClaimTruth(b[i])
    BY <1>1 DEF Wrong
  <2>2. PICK x \in Int, y \in Int : x = b[i].claimed /\ y = ClaimTruth(b[i])
    BY <1>1, <2>1, RingFacts
  <2>3. x \in Ring /\ y \in Ring /\ x # y /\ Errors(b)[i] = x - y
    BY <1>1, <2>1, <2>2 DEF Errors
  <2>4. PICK k \in Int : x - y = 0 + Q * k
    BY <1>3, <2>3 DEF Cong
  <2>5. Cong(Q, x, y)
    <3>1. x = y + Q * k
      BY <2>4, RingFacts
    <3>2. QED
      BY <3>1 DEF Cong
  <2>6. x % Q = y % Q
    BY <2>5, RingFacts, CongSame
  <2>7. QED
    BY <2>3, <2>6, RingFacts
<1>4. QED
  BY <1>2, <1>3 DEF Errors

LEMMA WeightPowers ==
  ASSUME NEW g \in Ring
  PROVE  Powers(Q, g, WeightsOf[g])
<1>1. PICK w : w = WeightsOf[g]
  OBVIOUS
<1>2. g \in Int
  BY RingFacts
<1>3. w = [i \in Nat |-> IF i = 0 THEN 0 ELSE Weight(g, i)]
  BY <1>1 DEF WeightsOf
<1>4. Weight(g, 1) = 1 /\ \A i \in Nat : i > 0 => Weight(g, i) \in Int /\ Weight(g, i + 1) = (Weight(g, i) * g) % Q
  BY <1>2, Weights
<1>5. w \in [Nat -> Int] /\ w[1] = 1
  BY <1>3, <1>4
<1>6. ASSUME NEW i \in Nat, i > 0 PROVE Cong(Q, w[i + 1], g * w[i])
  <2>1. PICK v \in Int : v = w[i] /\ w[i] = Weight(g, i) /\ w[i + 1] = Weight(g, i + 1)
    BY <1>3, <1>4, <1>6
  <2>2. w[i + 1] = (v * g) % Q
    BY <1>4, <1>6, <2>1
  <2>3. PICK z \in Int : z = v * g
    BY <1>2
  <2>4. Cong(Q, z % Q, z)
    BY RingFacts
  <2>5. g * v = z
    BY <1>2, <2>3
  <2>6. QED
    BY <2>1, <2>2, <2>3, <2>4, <2>5
<1>7. QED
  BY <1>1, <1>5, <1>6 DEF Powers

\* A weight that hides the errors is a root of their polynomial.
LEMMA HidingIsRoot ==
  ASSUME NEW b \in Batches, NEW g \in Ring, Hides(b, g)
  PROVE  Cong(Q, Value(WeightsOf[g], Errors(b), Len(b)), 0)
<1>1. PICK D : /\ D = DOMAIN b /\ D = 1 .. Len(b) /\ IsFiniteSet(D)
               /\ \A i \in D : i \in Nat /\ i > 0 /\ b[i].claimed \in Ring
  BY BatchFacts
<1>2. PICK w, c : w = WeightsOf[g] /\ c = Errors(b)
  OBVIOUS
<1>3. w \in [Nat -> Int] /\ c \in [Nat -> Int] /\ \A i \in D : w[i] = Weight(g, i)
  <2>1. Powers(Q, g, w)
    BY <1>2, WeightPowers
  <2>2. \A i \in D : w[i] = Weight(g, i)
    BY <1>1, <1>2 DEF WeightsOf
  <2>3. QED
    BY <1>2, <2>1, <2>2, ErrorsType DEF Powers
<1>4. PICK f, h, e : /\ f = [i \in D |-> Weight(g, i) * b[i].claimed]
                     /\ h = [i \in D |-> Weight(g, i) * ClaimTruth(b[i])]
                     /\ e = [i \in Nat |-> w[i] * c[i]]
  OBVIOUS
<1>5. SumOver(f, D) = SumOver(h, D)
  BY <1>1, <1>4, CombinedSum DEF Hides, CombinedClaim
<1>6. ASSUME NEW i \in D
      PROVE  f[i] \in Int /\ h[i] \in Int /\ e[i] \in Int /\ e[i] = f[i] - h[i]
  <2>1. PICK x \in Int, u \in Int, v \in Int :
          x = Weight(g, i) /\ u = b[i].claimed /\ v = ClaimTruth(b[i])
    BY <1>1, <1>3, ClaimTruthType, RingFacts
  <2>2. c[i] = u - v /\ w[i] = x
    BY <1>1, <1>2, <1>3, <2>1 DEF Errors
  <2>3. f[i] = x * u /\ h[i] = x * v
    BY <1>4, <2>1
  <2>4. e[i] = x * (u - v)
    BY <1>1, <1>4, <2>2
  <2>5. x * (u - v) = x * u - x * v /\ x * u \in Int /\ x * v \in Int
    OBVIOUS
  <2>6. QED
    BY <2>3, <2>4, <2>5
<1>7. IsFiniteSet(D)
  BY <1>1
<1>8. PICK x \in Int, y \in Int, z \in Int :
        x = SumFunctionOnSet(f, D) /\ y = SumFunctionOnSet(h, D) /\ z = SumFunctionOnSet(e, D)
  BY <1>6, <1>7, SumType
<1>9. Cong(Q, z, x - y)
  <2>1. PICK o \in Int, m \in Int : o = 1 /\ m = -1
    OBVIOUS
  <2>2. \A u, v \in Int : o * u + m * v = u - v
    BY <2>1
  <2>3. ASSUME NEW i \in D
        PROVE  f[i] \in Int /\ h[i] \in Int /\ e[i] \in Int /\ Cong(Q, e[i], o * f[i] + m * h[i])
    <3>1. e[i] = o * f[i] + m * h[i]
      BY <1>6, <2>2
    <3>2. QED
      BY <1>6, <3>1, RingFacts, CongRefl
  <2>4. Cong(Q, SumFunctionOnSet(e, D), o * SumFunctionOnSet(f, D) + m * SumFunctionOnSet(h, D))
    BY <1>7, <2>3, RingFacts, SumLinear
  <2>5. QED
    BY <1>8, <2>2, <2>4
<1>10. x % Q = y % Q
  BY <1>5, <1>8 DEF SumOver
<1>11. Cong(Q, x, y)
  <2>1. x % Q \in Int /\ Cong(Q, x % Q, x) /\ Cong(Q, y % Q, y)
    BY RingFacts
  <2>2. QED
    BY <1>10, <2>1, RingFacts, CongSym, CongTrans
<1>12. Cong(Q, z, 0)
  <2>1. PICK k1 \in Int, k2 \in Int : z = (x - y) + Q * k1 /\ x = y + Q * k2
    BY <1>9, <1>11 DEF Cong
  <2>2. z = 0 + Q * (k1 + k2) /\ k1 + k2 \in Int
    BY <2>1, RingFacts
  <2>3. QED
    BY <2>2 DEF Cong
<1>13. QED
  BY <1>1, <1>2, <1>4, <1>8, <1>12 DEF Value

LEMMA RareWeights ==
  ASSUME Called
  PROVE  HidingWeightsAreRare
<1>1. SUFFICES ASSUME Wrong(batch) # {},
                      NEW H, H = {g \in Ring : Hides(batch, g)}
               PROVE  LeastPrime * Cardinality(H) <= (Len(batch) - 1) * Q
  BY DEF HidingWeightsAreRare
<1>2. batch \in Batches /\ Len(batch) \in Nat /\ Len(batch) > 0
  BY BatchFacts DEF Called
<1>3. PICK c : c = Errors(batch)
  OBVIOUS
<1>4. PICK i \in 1 .. Len(batch) : ~Cong(Q, c[i], 0)
  BY <1>1, <1>2, <1>3, BatchFacts, ErrorsType DEF Wrong
<1>5. Q > 1
  <2>1. SUFFICES ASSUME Q = 1 PROVE FALSE
    BY RingFacts
  <2>2. c[i] \in Int
    BY <1>2, <1>3, ErrorsType
  <2>3. c[i] = 0 + Q * c[i]
    BY <2>1, <2>2
  <2>4. QED
    BY <1>4, <2>2, <2>3 DEF Cong
<1>6. PICK p \in Nat : p = LeastPrime /\ p \in 2 .. Q /\ Q % p = 0 /\ \A n \in 2 .. p - 1 : Q % n # 0
  BY <1>5, LeastPrimeFacts
<1>7. \A d \in 1 .. p - 1 : Cancels(Q, d)
  BY <1>6, RingFacts, SmallCancels
<1>8. PICK m \in Nat : Q = m * p
  <2>1. PICK a \in Int : a = Q
    BY RingFacts
  <2>2. p > 0 /\ a % p = 0
    BY <1>6, <2>1
  <2>3. PICK k \in Int : a = p * k + (a % p)
    BY <2>2, DivMod
  <2>4. Q = k * p
    BY <2>1, <2>2, <2>3
  <2>5. k >= 0
    BY <1>5, <1>6, <2>4
  <2>6. QED
    BY <2>4, <2>5
<1>9. PICK e \in Nat : e = Len(batch) - 1
  <2>1. PICK n \in Nat : n = Len(batch) /\ n > 0
    BY <1>2
  <2>2. n - 1 \in Nat
    BY <2>1
  <2>3. QED
    BY <2>1, <2>2
<1>10. ASSUME NEW j \in 0 .. m - 1
       PROVE  Cardinality(H \cap (j * p .. j * p + p - 1)) <= e
  <2>1. PICK a \in Nat : a = j * p
    OBVIOUS
  <2>2. PICK X : X = H \cap (a .. a + p - 1)
    OBVIOUS
  <2>3. IsFiniteSet(X) /\ X \in SUBSET Int /\ Cardinality(X) \in Nat
    <3>1. IsFiniteSet(a .. a + p - 1)
      BY a + p - 1 \in Int, FS_Interval
    <3>2. PICK I : I = a .. a + p - 1
      OBVIOUS
    <3>3. IsFiniteSet(I) /\ X \in SUBSET I
      BY <2>2, <3>1, <3>2
    <3>4. IsFiniteSet(X) /\ Cardinality(X) \in Nat
      BY <3>3, FS_Subset, FS_CardinalityType
    <3>5. QED
      BY <2>2, <3>4
  <2>4. SUFFICES ASSUME Cardinality(X) >= Len(batch) PROVE FALSE
    BY <1>2, <1>9, <2>1, <2>2, <2>3
  <2>5. \A x \in X : Powers(Q, x, WeightsOf[x]) /\ Cong(Q, Value(WeightsOf[x], c, Len(batch)), 0)
    BY <1>1, <1>2, <1>3, <2>2, WeightPowers, HidingIsRoot
  <2>6. ASSUME NEW x \in X, NEW y \in X, x # y PROVE Cancels(Q, x - y)
    <3>1. x \in Int /\ y \in Int /\ x - y < p /\ y - x < p
      BY <2>2
    <3>2. CASE x > y
      <4>1. x - y \in 1 .. p - 1
        BY <3>1, <3>2
      <4>2. QED
        BY <1>7, <4>1
    <3>3. CASE x < y
      <4>1. PICK d \in Int : d = y - x /\ d \in 1 .. p - 1
        BY <3>1, <3>3
      <4>2. Cancels(Q, -d)
        BY <1>7, <4>1, RingFacts, Opposite
      <4>3. -d = x - y
        BY <3>1, <4>1
      <4>4. QED
        BY <4>2, <4>3
    <3>4. QED
      BY <2>6, <3>1, <3>2, <3>3
  <2>7. c \in [Nat -> Int]
    BY <1>2, <1>3, ErrorsType
  <2>8. \A n \in 1 .. Len(batch) : Cong(Q, c[n], 0)
    BY <1>2, <2>3, <2>4, <2>5, <2>6, <2>7, RingFacts, FewRoots
  <2>9. QED
    BY <1>4, <2>8
<1>11. H \in SUBSET Nat /\ H \cap (0 .. m * p - 1) = H
  BY <1>1, <1>8, RingFacts DEF Ring
<1>12. Cardinality(H \cap (0 .. m * p - 1)) <= e * m
  BY <1>10, <1>11, BlockCounts
<1>13. Cardinality(H) \in Nat
  <2>1. IsFiniteSet(0 .. Q - 1)
    BY RingFacts, Q - 1 \in Int, FS_Interval
  <2>2. IsFiniteSet(Ring) /\ H \in SUBSET Ring
    BY <1>1, <2>1 DEF Ring
  <2>3. QED
    BY <2>2, FS_Subset, FS_CardinalityType
<1>14. p * Cardinality(H) <= p * (e * m)
  <2>1. PICK x \in Nat, y \in Nat : x = Cardinality(H) /\ y = e * m
    BY <1>13
  <2>2. x <= y
    BY <1>11, <1>12, <2>1
  <2>3. p * x <= p * y
    BY <2>2
  <2>4. QED
    BY <2>1, <2>3
<1>15. p * (e * m) = e * Q
  BY <1>8
<1>16. QED
  BY <1>6, <1>9, <1>14, <1>15

LEMMA BatchLuck ==
  ASSUME Typing, Verified, Called
  PROVE  WrongBatchNeedsLuck
BY RareChallenges, RareWeights, AcceptedByLuck DEF WrongBatchNeedsLuck

\* A wrong batch that is accepted although it ends on the combined polynomial
\* needed luck in its weight or in a challenge, and of any ring at most half
\* the challenges of a round and (K - 1) / p of the weights are lucky, p being
\* the least prime of the modulus (sumcheck/mod.rs:20-27, batch.rs:16-23).
THEOREM WrongBatchesNeedLuck == Spec => []WrongBatchNeedsLuck
<1>1. QED
  BY Invariants, BatchLuck, PTL
===============================================================================
