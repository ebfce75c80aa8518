------------------------------ MODULE Projection ------------------------------
(***************************************************************************)
(* The projection argument of zk/src/shortness/balanced.rs: the digits of   *)
(* v = w - zeta * t leave the prover, and bound v.  Vectors are single     *)
(* elements of Z_(2^W) and the key is a scalar; an even one has short       *)
(* kernel vectors, an odd one has none.                                    *)
(***************************************************************************)
EXTENDS Integers

CONSTANTS W,       \* width of a coefficient
          Keys,    \* commitment keys
          Targets, \* values of t
          Zetas,   \* challenges
          Bounds   \* on the high digit

\* 1 << n
Pow2[n \in Nat] == IF n = 0 THEN 1 ELSE 2 * Pow2[n - 1]

ASSUME ProjectionAssumption ==
  /\ W \in Nat /\ W > 1
  /\ Keys \subseteq 0 .. Pow2[W] - 1 /\ Targets \subseteq 0 .. Pow2[W] - 1 /\ Zetas \subseteq 0 .. Pow2[W] - 1
  /\ Bounds \subseteq 0 .. Pow2[W - 1]

Word == 0 .. Pow2[W] - 1
Abs(x) == IF x < 0 THEN -x ELSE x
Centered(x) == IF x > Pow2[W - 1] THEN x - Pow2[W] ELSE x
Norm(x) == Abs(Centered(x))

VARIABLES key, w, t, zeta,
          gamma,      \* digit width the verifier is told
          highBound,  \* and the bound B_h
          honest,
          sent,       \* the proof, as a sequence of at most one
          verdict

projectionVars == <<key, w, t, zeta, gamma, highBound, honest, sent, verdict>>

V == (w - zeta * t) % Pow2[W]
Commitment == (key * w) % Pow2[W]

\* Slip: the low digit not centred before the high one is taken.
SplitFloor(x, g) ==
  LET c == Centered(x)
      m == c % Pow2[g]
  IN  [high |-> (c \div Pow2[g]) % Pow2[W], low |-> (IF m > Pow2[g - 1] THEN m - Pow2[g] ELSE m) % Pow2[W]]
SplitBalanced(x, g) ==
  LET c == Centered(x)
      m == c % Pow2[g]
      low == IF m > Pow2[g - 1] THEN m - Pow2[g] ELSE m
  IN  [high |-> ((c - low) \div Pow2[g]) % Pow2[W], low |-> low % Pow2[W]]

Recombined(p, g) == (Pow2[g] * p.high + p.low) % Pow2[W]

CertifiedBound(g, bound) == Pow2[g] * bound + Pow2[g - 1]

ProjectionInit ==
  /\ key \in Keys /\ w \in Word /\ t \in Targets /\ zeta \in Zetas
  /\ gamma \in 0 .. W + 1 /\ highBound \in Bounds
  /\ honest \in BOOLEAN /\ sent = <<>> /\ verdict = "none"

Prove ==
  /\ honest /\ sent = <<>> /\ gamma \in 1 .. W - 1
  /\ sent' = <<SplitBalanced(V, gamma)>>
  /\ UNCHANGED <<key, w, t, zeta, gamma, highBound, honest, verdict>>

\* External: any two digits.
Forge ==
  /\ ~honest /\ sent = <<>>
  /\ sent' \in {<<p>> : p \in [high : Word, low : Word]}
  /\ UNCHANGED <<key, w, t, zeta, gamma, highBound, honest, verdict>>

\* Slip: a gate left out.
HighUngated(p) == Norm(p.low) <= Pow2[gamma - 1]
DigitsShort(p) == Norm(p.low) <= Pow2[gamma - 1] /\ Norm(p.high) <= highBound

Linked(p) == (key * Recombined(p, gamma)) % Pow2[W] = (Commitment - zeta * key * t) % Pow2[W]

Verify ==
  /\ sent # <<>> /\ verdict = "none"
  /\ verdict' = IF gamma \in 1 .. W - 1 /\ DigitsShort(sent[1]) /\ Linked(sent[1])
                THEN "accept" ELSE "reject"
  /\ UNCHANGED <<key, w, t, zeta, gamma, highBound, honest, sent>>

ProjectionNext == Prove \/ Forge \/ Verify

ProjectionSpec == ProjectionInit /\ [][ProjectionNext]_projectionVars

-----------------------------------------------------------------------------
\* prove_projection convinces the verifier whenever the bound is the norm of
\* its high digit or more: the split is exact, so the link holds without
\* slack (balanced.rs:29-30, 82-86).
HonestProjectionVerifies ==
  sent # <<>> /\ honest /\ verdict # "none" =>
    (verdict = "accept" <=> Norm(sent[1].high) <= highBound)

\* An accepted proof bounds v, or its digits recombine to another opening of
\* the same commitment: a kernel vector of the key (balanced.rs:33-38).
AcceptedIsBounded ==
  sent # <<>> /\ verdict = "accept" =>
    \/ Norm(V) <= CertifiedBound(gamma, highBound)
    \/ LET k == (Recombined(sent[1], gamma) - V) % Pow2[W]
       IN  k # 0 /\ (key * k) % Pow2[W] = 0

-----------------------------------------------------------------------------
(***************************************************************************)
(* The slack flavour of shortness over Z_(2^W), one coefficient:           *)
(* gadget_split, gadget_join and approx_linear_check of                    *)
(* zk/src/shortness/gadget.rs, and ipa_gadget_open of zk/src/sumcheck/     *)
(* ipa.rs, which sends the digits without the slack.  Arithmetic on u32    *)
(* wraps, as in a build without overflow checks; d is the number of digits *)
(* dropped and n the coefficients of a commitment, N * D.                  *)
(***************************************************************************)
Drops == 1 .. W - 1

\* Slip: half rounded the other way.
CenteredEarly(low, d) == IF low >= Pow2[d - 1] THEN low - Pow2[d] ELSE low
\* low re-centred into (-2^(d-1), 2^(d-1)].
CenteredLow(low, d) == IF low > Pow2[d - 1] THEN low - Pow2[d] ELSE low

Split(x, d) ==
  LET low == x % Pow2[d]
      centred == CenteredLow(low, d)
  IN  [high |-> x \div Pow2[d], low |-> centred, slack |-> low - centred]

Join(high, d, low, slack) == ((high * Pow2[d]) % Pow2[W]) + ((low + slack) % Pow2[d])

\* What ipa_gadget_open reveals of one coefficient.
IpaOpen(x, d) == [high |-> Split(x, d).high, low |-> Split(x, d).low]

SlackBound(n, d) == (n * Pow2[d - 1]) % Pow2[W]

\* Slip: the difference not centred on the modulus.
DifferenceBare(a, b) == a - b
Difference(a, b) == LET diff == (a - b) % Pow2[W]
                    IN  IF diff > Pow2[W - 1] THEN diff - Pow2[W] ELSE diff

\* approx_linear_check on a vector whose other coefficients agree.
ApproxCheck(a, b, n, d) == Abs(Difference(a, b)) <= SlackBound(n, d)

AtStart == sent = <<>> /\ gamma \in Drops

\* The split is exact with its slack, and the digit it leaves is centred.  The
\* slack is all or nothing, so an opening that leaves it out, as
\* ipa_gadget_open does, is 2^drop too low when the remainder is above half.
SplitIsExact ==
  AtStart =>
    LET s == Split(w, gamma)
        o == IpaOpen(w, gamma)
    IN  /\ Join(s.high, gamma, s.low, s.slack) = w
        /\ s.low \in -Pow2[gamma - 1] + 1 .. Pow2[gamma - 1]
        /\ s.slack \in {0, Pow2[gamma]}
        /\ o.high * Pow2[gamma] + o.low
             = IF w % Pow2[gamma] > Pow2[gamma - 1] THEN w - Pow2[gamma] ELSE w

\* While the bound itself does not wrap, the check accepts what lies within it
\* around the ring and nothing else, so every opening that drops its slack,
\* from two coefficients on.
CheckIsDistance ==
  AtStart =>
    \A n \in 1 .. 4 :
      n * Pow2[gamma - 1] < Pow2[W] =>
        /\ \A seen \in Word :
             ApproxCheck(w, seen, n, gamma) <=>
               \E e \in -(n * Pow2[gamma - 1]) .. n * Pow2[gamma - 1] : (w + e) % Pow2[W] = seen
        /\ n > 1 =>
             LET s == Split(w, gamma)
             IN  ApproxCheck(w, (s.high * Pow2[gamma] + s.low) % Pow2[W], n, gamma)

\* Both flavours: an accepted proof bounds its vector (balanced.rs:33-38), and
\* the split of the slack flavour and its check agree on what the slack is
\* (gadget.rs:19-65).
AcceptedProjectionIsBounded == AcceptedIsBounded /\ SplitIsExact /\ CheckIsDistance
=============================================================================
