--------------------------------- MODULE Kem ---------------------------------
(***************************************************************************)
(* The key encapsulation mechanisms of pqc/src: ML-KEM, FrodoKEM, NTRU in  *)
(* its two families, and Streamlined NTRU Prime.  One of them is in use;   *)
(* its key pairs are generated, messages are encapsulated, and ciphertexts *)
(* cross a network that loses, repeats, reorders and alters them before    *)
(* they are decapsulated, under keys that may have been put together from  *)
(* the parts of two.  The coins a scheme derives by hashing a message are  *)
(* any noise, fixed for each message and key.                              *)
(***************************************************************************)
EXTENDS Integers, FiniteSets, TLC

CONSTANTS Keys,      \* names of key pairs
          Schemes,   \* the schemes a run may use
          Material,  \* by scheme: what the key pairs are generated from
          Inputs,    \* by scheme: what is encapsulated
          CoinTables \* by scheme: what hashing an input and a key derives

CONSTANTS KemQ, KemDu, KemDv, FrodoN, FrodoNbar, FrodoLogQ, FrodoBits, FrodoWord,
          NtruN, HpsLogQ, HrssLogQ, PrimeP, PrimeQ, PrimeW

Ml    == INSTANCE MlKem WITH Q <- KemQ, Du <- KemDu, Dv <- KemDv
Fro   == INSTANCE Frodo WITH N <- FrodoN, Nbar <- FrodoNbar, LogQ <- FrodoLogQ,
                             ExtractedBits <- FrodoBits, WordBits <- FrodoWord
Hps   == INSTANCE Ntru WITH N <- NtruN, LogQ <- HpsLogQ, FixedWeight <- TRUE
Hrss  == INSTANCE Ntru WITH N <- NtruN, LogQ <- HrssLogQ, FixedWeight <- FALSE
Prime == INSTANCE NtruPrime WITH P <- PrimeP, Q <- PrimeQ, W <- PrimeW

\* The number of coefficients of NTRU is odd, so it has an inverse modulo q,
\* and the trits are three residues; HRSS divides by it modulo 3 as well.
NtruAssumption(q) ==
  /\ NtruN \in Nat /\ NtruN > 2
  /\ q \in Nat /\ q > 3 /\ \E u \in 0 .. q - 1 : (NtruN * u) % q = 1
ASSUME HpsAssumption ==
  "HPS" \in Schemes =>
    /\ NtruAssumption(Hps!Q) /\ Inputs["HPS"] \subseteq Hps!Pairs
    /\ \A x \in Material["HPS"], k \in Keys : x[k].f \in Hps!Ternary /\ x[k].g \in Hps!FixedType
ASSUME HrssAssumption ==
  "HRSS" \in Schemes =>
    /\ NtruAssumption(Hrss!Q) /\ NtruN % 3 # 0 /\ Inputs["HRSS"] \subseteq Hrss!Pairs
    /\ \A x \in Material["HRSS"], k \in Keys : x[k].f \in Hrss!Ternary /\ x[k].g \in Hrss!Ternary
ASSUME SchemesAssumption == Schemes \subseteq {"ML-KEM", "Frodo", "HPS", "HRSS", "Prime"}

\* ML-KEM's modulus is odd and its noise is integers.
ASSUME MlAssumption ==
  "ML-KEM" \in Schemes =>
    /\ KemQ \in Nat /\ KemQ % 2 = 1 /\ KemDu \in Nat /\ KemDv \in Nat
    /\ Inputs["ML-KEM"] \subseteq {0, 1}
    /\ \A x \in Material["ML-KEM"], k \in Keys : x[k] \in [a : Int, s : Int, e : Int]
    /\ \A cs \in CoinTables["ML-KEM"], y \in Inputs["ML-KEM"], k \in Keys :
         cs[y, k] \in [y : Int, e1 : Int, e2 : Int]

\* Frodo's arrays have the sizes of their shapes, a chunk leaves room for the
\* bit that rounds, and the modulus divides the word.
ASSUME FrodoAssumption ==
  "Frodo" \in Schemes =>
    /\ FrodoN \in Nat \ {0} /\ FrodoNbar \in Nat \ {0} /\ FrodoBits \in Nat
    /\ FrodoLogQ \in Nat /\ FrodoWord \in Nat /\ FrodoBits < FrodoLogQ /\ FrodoLogQ <= FrodoWord
    /\ Inputs["Frodo"] \subseteq [Fro!Block -> 0 .. Fro!Pow2[FrodoBits] - 1]
    /\ \A x \in Material["Frodo"], k \in Keys :
         x[k] \in [a : [0 .. FrodoN * FrodoN - 1 -> Int], s : [Fro!Rows -> Int], e : [Fro!Rows -> Int]]
    /\ \A cs \in CoinTables["Frodo"], y \in Inputs["Frodo"], k \in Keys :
         cs[y, k] \in [s : [Fro!Rows -> Int], e : [Fro!Rows -> Int], f : [Fro!Block -> Int]]

\* NTRU Prime's polynomials are small and short, and the modulus leaves room
\* for r g + 3 f e, as in every set of parameters (sntrup/params.rs).
ASSUME PrimeAssumption ==
  "Prime" \in Schemes =>
    /\ PrimeP \in Nat /\ PrimeP > 1 /\ PrimeQ \in Nat /\ PrimeW \in Nat /\ 16 * PrimeW < PrimeQ
    /\ Inputs["Prime"] \subseteq Prime!Short
    /\ \A x \in Material["Prime"], k \in Keys : x[k].f \in Prime!Short /\ x[k].g \in Prime!Small

VARIABLES scheme,
          keys,     \* the generated key pairs
          coins,    \* what the hashes derive
          sessions, \* [key, c, ss] of every encapsulation
          results   \* [dk, c, ss] of every decapsulation

vars == <<scheme, keys, coins, sessions, results>>

KeyPair(s, x) ==
  CASE s = "ML-KEM" -> Ml!KeyPair(x)
    [] s = "Frodo"  -> Fro!KeyPair(x)
    [] s = "HPS"    -> Hps!KeyPair(x.f, x.g)
    [] s = "HRSS"   -> Hrss!KeyPair(x.f, x.g)
    [] s = "Prime"  -> Prime!KeyPair(x.f, x.g)

Encapsulated(k, x) ==
  CASE scheme = "ML-KEM" -> Ml!Encapsulate(keys[k], k, x, coins[x, k])
    [] scheme = "Frodo"  -> Fro!Encapsulate(keys[k], k, x, coins[x, k])
    [] scheme = "HPS"    -> Hps!Encapsulate(keys[k], x)
    [] scheme = "HRSS"   -> Hrss!Encapsulate(keys[k], x)
    [] scheme = "Prime"  -> Prime!Encapsulate(keys[k], k, x)

\* An inversion that key generation runs on a polynomial it has drawn returns
\* the inverse.
KeysInvert ==
  /\ "HPS" \in Schemes =>
       \A x \in Material["HPS"], k \in Keys : Hps!InversionsReturn(x[k].f, x[k].g)
  /\ "HRSS" \in Schemes =>
       \A x \in Material["HRSS"], k \in Keys : Hrss!InversionsReturn(x[k].f, x[k].g)
  /\ "Prime" \in Schemes =>
       \A x \in Material["Prime"], k \in Keys : Prime!InversionsReturn(x[k].f, x[k].g)

\* What was encrypted under a key pair comes out of its decryption.
DecryptionReturns(s, kp, y, r) ==
  CASE s = "ML-KEM" -> Ml!KpkeDecrypt(kp, Ml!KpkeEncrypt(kp, y, r)) = y
    [] s = "Frodo"  -> Fro!Decrypt(kp, Fro!Encrypt(kp, y, r)) = y
    [] s = "HPS"    -> Hps!Decrypt(kp, Hps!Encrypt(kp, y)) = [ok |-> TRUE, x |-> y]
    [] s = "HRSS"   -> Hrss!Decrypt(kp, Hrss!Encrypt(kp, y)) = [ok |-> TRUE, x |-> y]
    [] s = "Prime"  -> Prime!Decrypt(kp, Prime!Encrypt(y, kp.h)) = y

\* What was encrypted under the key pairs of a scheme comes out again, for
\* the material and the coins of a run.
Returns(s) ==
  \A x \in Material[s], k \in Keys : \E kp \in {KeyPair(s, x[k])} :
    \A y \in Inputs[s], cs \in CoinTables[s] : DecryptionReturns(s, kp, y, cs[y, k])

\* Noise stays below what rounding forgives.
NoiseFits ==
  /\ "ML-KEM" \in Schemes =>
       \A x \in Material["ML-KEM"], cs \in CoinTables["ML-KEM"], y \in Inputs["ML-KEM"], k \in Keys :
         Ml!NoiseFits(x[k], cs[y, k])
  /\ "Frodo" \in Schemes =>
       \A x \in Material["Frodo"], cs \in CoinTables["Frodo"], y \in Inputs["Frodo"], k \in Keys :
         Fro!NoiseFits(x[k], cs[y, k])
  /\ "HPS" \in Schemes =>
       \A x \in Material["HPS"], y \in Inputs["HPS"], k \in Keys : Hps!NoiseFits(x[k].f, x[k].g, y)
  /\ "HRSS" \in Schemes =>
       \A x \in Material["HRSS"], y \in Inputs["HRSS"], k \in Keys : Hrss!NoiseFits(x[k].f, x[k].g, y)

\* A decapsulation key: whose secret part, whose public key, the hash of
\* whose, and whose seed for rejections.
Decapsulated(dk, c) ==
  CASE scheme = "ML-KEM" -> Ml!Decapsulate(keys[dk.s], keys[dk.ek], dk.h, dk.z, c, coins)
    [] scheme = "Frodo"  -> Fro!Decapsulate(keys[dk.s], keys[dk.ek], dk.h, dk.z, c, coins)
    [] scheme = "HPS"    -> Hps!Decapsulate(keys[dk.s], dk.z, c)
    [] scheme = "HRSS"   -> Hrss!Decapsulate(keys[dk.s], dk.z, c)
    [] scheme = "Prime"  -> Prime!Decapsulate(keys[dk.s], keys[dk.ek], dk.h, dk.z, c)

\* What an import accepts: ML-KEM compares the hash with the key, the others
\* look at the length alone; NTRU stores nothing but its secret part and seed.
Imported(dk) ==
  /\ scheme = "ML-KEM" => dk.h = dk.ek
  /\ scheme \in {"HPS", "HRSS"} => dk.ek = dk.s /\ dk.h = dk.s
DecapsulationKeys == {dk \in [s : Keys, ek : Keys, h : Keys, z : Keys] : Imported(dk)}
Whole(dk) == dk.ek = dk.s /\ dk.h = dk.s /\ dk.z = dk.s

\* A table or a record off by d in one place.
Off(f, m, D) == {[f EXCEPT ![i] = (@ + d) % m] : i \in DOMAIN f, d \in D}

\* What may arrive in place of a ciphertext: of ML-KEM any, of the others the
\* ciphertext itself, one with a coefficient, the confirmation or the unused
\* bits changed.
Altered(c) ==
  CASE scheme = "ML-KEM" -> Ml!Ciphertexts
    [] scheme = "Frodo"  -> {[c EXCEPT !.c1 = a] : a \in Off(c.c1, Fro!Q, {1, -1})} \cup
                            {[c EXCEPT !.c2 = a] : a \in Off(c.c2, Fro!Q, {1, -1, Fro!Q \div 2})}
    [] scheme = "HPS"    -> {[c EXCEPT !.core = a] : a \in Off(c.core, Hps!Q, {1, -1})} \cup
                            {[c EXCEPT !.pad = p] : p \in 1 .. 2^Hps!PadBits - 1}
    [] scheme = "HRSS"   -> {[c EXCEPT !.core = a] : a \in Off(c.core, Hrss!Q, {1, -1})} \cup
                            {[c EXCEPT !.pad = p] : p \in 1 .. 2^Hrss!PadBits - 1}
    [] scheme = "Prime"  -> {[c EXCEPT !.core = [@ EXCEPT ![i] = Prime!Centre(@ + d, PrimeQ)]] :
                               i \in Prime!Exps, d \in {3, -3}} \cup
                            {[c EXCEPT !.pad = 1], [c EXCEPT !.confirm = <<>>]}

-----------------------------------------------------------------------------
Init ==
  /\ scheme \in Schemes
  /\ \E x \in Material[scheme] : keys = [k \in Keys |-> KeyPair(scheme, x[k])]
  /\ coins \in CoinTables[scheme]
  /\ sessions = {} /\ results = {}

\* One encapsulation and one decapsulation: the properties relate one of each.
Encapsulate(k, x) ==
  /\ sessions = {}
  /\ \E e \in {Encapsulated(k, x)} : sessions' = {[key |-> k, c |-> e.c, ss |-> e.ss]}
  /\ UNCHANGED <<scheme, keys, coins, results>>

Decapsulate(dk, c) ==
  /\ results = {}
  /\ results' = {[dk |-> dk, c |-> c, ss |-> Decapsulated(dk, c)]}
  /\ UNCHANGED <<scheme, keys, coins, sessions>>

Next ==
  \/ \E k \in Keys, x \in Inputs[scheme] : Encapsulate(k, x)
  \/ \E dk \in DecapsulationKeys, e \in sessions :
       \/ Decapsulate(dk, e.c)
       \/ \E c \in Altered(e.c) : Decapsulate(dk, c)

Spec == Init /\ [][Next]_vars

-----------------------------------------------------------------------------
Answers == {[key |-> e.key, c |-> e.c, ss |-> e.ss] : e \in sessions} \cup
           {[key |-> d.dk.s, c |-> d.c, ss |-> d.ss] : d \in {x \in results : Whole(x.dk)}}

Ideal == INSTANCE IdealKem WITH table <- Answers

\* To the holders of whole key pairs every scheme is the ideal table: the two
\* sides agree on a ciphertext that arrives as it was sent, whatever the
\* noise, and on no other, whether its check encrypts again (ML-KEM, Frodo,
\* NTRU Prime) or looks at what it decrypted (NTRU, ntru/mod.rs:236-268).
ImplementsIdealKem == Ideal!Spec

\* The secret of an encapsulation comes out of no other ciphertext, whoever's
\* parts the decapsulation key was put together from, nor with the hash of
\* another public key: what is compared, hashed or decoded leaves no two
\* ciphertexts for it.  NTRU hashes no key; there it holds of the secret part
\* that belongs to the ciphertext, whosever the seed.
SecretsBindCiphertexts ==
  \A e \in sessions, d \in results :
    d.ss = e.ss =>
      IF scheme \in {"HPS", "HRSS"}
      THEN d.dk.s = e.key => d.c = e.c
      ELSE /\ d.c = e.c /\ d.dk.h = e.key
           /\ scheme = "ML-KEM" => d.dk.ek = e.key
=============================================================================
