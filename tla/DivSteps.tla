------------------------------ MODULE DivSteps ------------------------------
(***************************************************************************)
(* Inversion of polynomials by division steps, as the NTRU schemes do it   *)
(* (pqc/src/ntru/poly.rs, pqc/src/sntrup/poly.rs): the modulus and the     *)
(* reversed input are shifted and combined a fixed number of times,        *)
(* whatever they hold, and v collects the inverse.  A polynomial is a      *)
(* function of the exponents 0 .. D.                                       *)
(***************************************************************************)
EXTENDS Integers, Functions

CONSTANTS M,   \* coefficients are residues modulo M, a prime
          D,   \* the highest exponent a table holds
          F    \* the modulus, reversed

Zero == [i \in 0 .. D |-> 0]
Times(s, a) == [i \in 0 .. D |-> (s * a[i]) % M]

\* What both tables become: the reference subtracts g0/f0 times the first
\* from the second, f0 being 1 or -1 in the two smallest fields, and clears
\* the denominator in a larger one (ntru 131, 201-206; sntrup/poly.rs:251-256).
Eliminate(f0, g0, a, b) ==
  IF M <= 3 THEN [i \in 0 .. D |-> (b[i] - f0 * g0 * a[i]) % M]
            ELSE [i \in 0 .. D |-> (f0 * b[i] - g0 * a[i]) % M]

Up(a)   == [i \in 0 .. D |-> IF i = 0 THEN 0 ELSE a[i - 1]]
Down(a) == [i \in 0 .. D |-> IF i = D THEN 0 ELSE a[i + 1]]

\* Slip: the tables exchanged whenever the degrees allow it, a zero included.
SwapsAlways(s) == s.delta > 0
Swaps(s) == s.delta > 0 /\ s.g[0] # 0

Step(s) ==
  LET t == IF Swaps(s)
           THEN [delta |-> -s.delta, f |-> s.g, g |-> s.f, v |-> s.r, r |-> Up(s.v)]
           ELSE [s EXCEPT !.v = Up(s.v)]
  IN  [t EXCEPT !.delta = @ + 1,
                !.g = Down(Eliminate(t.f[0], t.g[0], t.f, t.g)),
                !.r = Eliminate(t.f[0], t.g[0], t.v, t.r)]

\* The state after a number of steps from the reversed input g, the cofactor
\* of which starts at r0.
Steps(g, r0, count) ==
  LET at[i \in 0 .. count] ==
        IF i = 0 THEN [delta |-> 1, f |-> F, g |-> g, v |-> Zero, r |-> [Zero EXCEPT ![0] = r0]]
                 ELSE Step(at[i - 1])
  IN  at[count]

\* Fermat's inverse of one residue, by q - 3 multiplications.
Recip(a) == LET power[i \in 1 .. M] == IF i = 1 THEN a ELSE (a * power[i - 1]) % M
            IN  power[IF M = 2 THEN 1 ELSE M - 2]
=============================================================================
