# TLA+ models of lattice-algebra-rs

This directory holds the formal models of the workspace: what its protocols,
schemes, samplers and arithmetic do, which properties make them correct, the TLC
configurations that check those properties on small instances, and TLAPS proofs
of the ones that matter most for every value of the parameters.

Paths below are relative to `src/crates/` unless they begin with `src/`.

1. [The system](#1-the-system)
2. [Modules and the code](#2-modules-and-the-code)
3. [Runs](#3-runs)
4. [Fairness](#4-fairness)
5. [Proofs](#5-proofs)
6. [Where code and documents disagree](#6-where-code-and-documents-disagree)
7. [Not modelled](#7-not-modelled)
8. [Plan](#8-plan)

To run one model or check one module's proofs, in this directory:

    tlc -workers 2 -config Signatures.cfg MCSignatures
    tlapm MlDsaProofs.tla

## 1. The system

The workspace is three crates. `algebra` is arithmetic: residues modulo q,
quotient rings, number-theoretic transforms, vectors, rounding, and the streams
and samplers that feed them. `pqc` builds signature and key-encapsulation schemes
on it. `zk` builds proofs of knowledge: commitments, Sigma protocols, sum-checks,
norm proofs, folding and polynomial commitments.

Almost everything runs on the calling thread. The exceptions are the kernels
behind the `parallel` feature, which hand work to a rayon pool. Nothing is
persisted, there is no clock, and the library opens no connection: messages are
values a caller carries from one party to the other, so a verifier may see a
value that was changed, repeated or made by someone else.

### Components

| component | state it keeps | operations | what makes it correct |
|---|---|---|---|
| XOF (`algebra/src/crypto/xof.rs`) | hasher, cached reader | new, absorb, squeeze, clone, absorb_labeled | the cache never shows: bytes are those of the input absorbed so far |
| Transcript (`transcript.rs`) | one XOF | new, absorb, challenge_bytes | a challenge is bound to everything before it; no output is handed out twice |
| Samplers (`algebra/.../sampling.rs`, `zk/.../foundation/sampling.rs`) | position in a stream, a vector being filled | uniform and bounded coefficients, SampleInBall, fixed-weight signs, three parity challenges | every value equally often; promised parity and weight |
| Residues (`zq.rs`, `reduction/barrett.rs`) | none; the inverse is a loop | add, sub, mul, reduce, neg, centred, inverse | exact at every modulus of a word; the loop ends and finds every inverse |
| Rounding (`module/rounding.rs`) | none | power2round, decompose, hints | halves recombine; a hint recovers the high part |
| Rings, matrices, NTT, SIMD, extensions, polynomials | none | pure functions | equal to their definitions |
| ML-DSA (`pqc/src/mldsa`) | the signing loop: nonce, mask, challenge | keygen, sign, sign_hash, verify, encodings | signatures verify, bind one message, tell nothing of the key; masks are fresh |
| ML-KEM (`pqc/src/mlkem`) | none between calls | keygen, encaps, decaps, imports | both sides agree; altered ciphertexts are rejected implicitly |
| Falcon (`pqc/src/falcon`) | the signing loop and its generator of random bytes | keygen with the NTRU solver, sign, verify, encodings | keys solve f G - g F = q; signatures are short vectors of the message's coset |
| FrodoKEM, NTRU, sntrup | none between calls | like ML-KEM | like ML-KEM; NTRU does not encrypt again |
| Sigma protocols (`zk/src/sigma`) | the proving loop | fs_prove, fs_verify, extract, for Z1 and Z2 | complete, sound by extraction, responses independent of the witness |
| Sum-check (`zk/src/sumcheck/mod.rs`, `batch.rs`) | the shrinking table; running claim of the verifier | prove (sequential, rayon), verify, prove_batched, verify_batched | right sums pass; wrong ones only by a rare challenge |
| Range claims, IPA, fused, circuit, alphabet (`zk/src/sumcheck`) | as the sum-check | gates and claims over it | a gate vanishes exactly on its range |
| Shortness (`zk/src/shortness`) | a proof in flight | projection, gadget split, norm proofs | an accepted vector is short, or its key has a short kernel vector |
| Nova folding (`zk/src/folding/nova.rs`) | relaxed instances | commit, fold, verify_folded | chains of folds verify; nothing wrong is folded away |
| LatticeFold (`folding/latticefold.rs`) | a proof in flight | fold, decompose, query, answer, verify | honest folds pass; two answers open the fold |
| Ajtai commitments (`zk/src/commitment`) | a key | setup, commit, mul_vec | linear map; binding is an assumption |
| Openings, QRP, Regev encoding | none | pure protocols | linear identities, a noise budget |
| Polynomial commitments (`zk/src/pcs`, 32 files) | levels of a recursion | commit, open, verify, digit gadget, principal relation, trees | evaluations are bound to commitments; norms stay in budget |

### How they interact

- A protocol holds a **transcript**; the transcript holds an **XOF**; seeds and
  challenges squeezed from it feed the **samplers**. Prover and verifier never
  share a transcript: each replays the same calls on its own, so agreement is a
  property of two sequences of calls.
- **ML-DSA** calls the samplers with a nonce that counts mask streams, uses
  rounding for w1 and the hint, and packs the result. Verification is the only
  reader of that packing.
- **ML-KEM** encrypts with compression inside; decapsulation encrypts again and
  compares.
- The **batched sum-check** combines claims and then is a sum-check; the
  **projection**, **IPA** and pcs arguments call sum-checks, splits and gates.
- **LatticeFold** uses the split of `balanced.rs` once per digit;
  **Nova folding** uses the residual map of `opening` and the gates of `instance`.
- The **digit gadget** of pcs is the low-level step of every pcs commitment.

### What is hard about it

- *Order.* Fiat-Shamir soundness is the order of absorbs and challenges. A rayon
  prover overwrites in place what other workers still read.
- *Stale state.* A cached reader; an error vector carried through folds and never
  recomputed; an imported key that carries a copy of another one and its hash.
- *Retries.* Rejection loops in ML-DSA and in the Sigma protocols must not reuse
  a mask, and every gate must be passed by the one attempt that is published.
- *Altered messages.* Ciphertexts, signatures, hints and digit vectors come from
  anyone.
- *Boundaries.* The carry of a 64-bit sum, the half-way residue of an even
  modulus, the last rounding cell, the asymmetric digits of an even base, the
  compression bucket that wraps to zero.

`PROJECT.json` lists forty such hazards with their lines and the properties that
would catch each of them going wrong.

## 2. Modules and the code

A module's header says which files it models; `PROJECT.json` maps every
definition to its lines. Three conventions hold everywhere.

- **Hashes are ideal.** An output is named by the input that was hashed, so equal
  outputs mean equal inputs. Challenges and coins drawn from a hash are any value
  of their range, fixed once they are drawn.
- **Rings shrink to what the property distinguishes.** Where the ring structure
  does not matter a polynomial has one coefficient, and a challenge is the integer
  that multiplies it, with the bound the source computes for that product. Where it
  does (parity challenges, LatticeFold, NTRU, the commitments) the product is the
  negacyclic or cyclic one, of degree two to five.
- **Definitions marked `Slip`** are what the code would be after a plausible
  mistake. No specification uses them; they are the mutants in `PROJECT.json`, each
  of which some run rejects, so that no property is true of everything.

### Streams, samplers, arithmetic

| module | models | state and actions |
|---|---|---|
| `Xof` | `xof.rs`, as a data type and in use | `xof`, `bytes` (the last block returned); one action each for new, absorb, squeeze, clone; a length field and a payload byte are both numbers and look alike |
| `Sponge` | what an XOF promises | `message`, `drawn`; every squeeze is answered from the whole message |
| `FiatShamir` | `transcript.rs` in use | `trail` (the prover's transcript before and after each step), the verifier's, what both returned, which payloads changed on the way |
| `Samplers` | both sampling files | `draws` is the stream read so far; one action per draw and per return |
| `Residues` | `barrett.rs`, `zq.rs` | operators with the width of the word (`Word`); one action per turn of the Euclid loop of `Zq::inverse`, one for its return |
| `DigitPlanes` | `pcs/gadget.rs`, `sumcheck/range.rs` | operators on one coefficient and a shape [q, base, digits]; the range gates |
| `Floats` | `falcon/fpr.rs` | the emulated floating point, operators with `P` bits of mantissa |

### Signatures and key encapsulation

| module | models | state and actions |
|---|---|---|
| `MlDsa` | `mldsa`, `module/rounding.rs`, the hint of `mldsa/encoding.rs` | `Sign`, `Attempt`, `Emit`, `Retry`, `Verify`: the frame, the four gates, hint, packing, nonce. A packed hint is told by the place of each bit (`SetBits`, `Upto`), which is the order the encoder writes them in |
| `FalconKeys` | `falcon/keygen.rs`, `mq.rs` | the solver of the NTRU equation: residues modulo primes of a word, integers in limbs, descent, Bezout relation, way back with reduction; the transforms modulo q |
| `Falcon` | the rest of `falcon` | `Keygen`, `Sign`, `Receive`: keys, tree, sampler, signing loop, codecs, verification |
| `MlKem`, `Frodo`, `Ntru`, `NtruPrime` | `mlkem`, `frodo`, `ntru`, `sntrup` | operators: key generation, encapsulation, decapsulation, codings, sorting networks |
| `DivSteps` | the inversions of `ntru/poly.rs` and `sntrup/poly.rs` | operators on [delta, f, g, v, r] |
| `IdealKem` | what a mechanism promises | `table` of answers, in which a ciphertext has one secret and a secret one ciphertext |
| `Kem` | the four of them between two parties and a network | `Encapsulate`, `Decapsulate` of the ciphertext or of an altered one, under any mixture of stored key parts an import accepts |

### Proofs of knowledge and commitments

| module | models | state and actions |
|---|---|---|
| `Sigma` | `sigma/mod.rs`, `sigma/z2.rs` | `Start`, `Answer`, `Retry`, `GiveUp`, `Forge`, `Check`, `Rewind`; three constants tell Z1 and Z2 apart |
| `Multilinear` | shared algebra of `sumcheck` | halves, interpolation, fold, eq tensor |
| `SumcheckProver` | the sequential `prove` | `Round`, `Finish`: the abstract prover |
| `Sumcheck` | `prove_rayon`, `verify`, `batch.rs` | the reductions split and joined in any order, `Fetch` and `Store` per worker, the barrier, the truncation; `Forge`, `CheckRound`, `Accept`, `Reject`; the weights and the combined claim |
| `Projection` | `shortness/balanced.rs`, `gadget.rs`, the opening of `ipa.rs` | `Prove`, `Forge`, `Verify`; the gadget split with its `2^W` wrap-around |
| `Folding` | `folding/nova.rs` | `Commit`, `FoldInto`, `Damage` |
| `LatticeFold` | `folding/latticefold.rs` | `FoldChallenge`, `CommitDigits`, `ForgeDigits`, `SplittingChallenge`, `Answer`, `ForgeAnswer`, `VerifyFold`, `Rewind` |
| `QuotientRing`, `Gadgets` | rings, packing and tensors as `zk/src/pcs` uses them | operators |
| `Norms` | `shortness/committed_norm.rs`, `self_ip.rs`, `exact_l2.rs`, `tensor_fold.rs`, `pcs/leveled.rs` | `Prove`, `Refuse`, `Forge`: one message and the challenges after it per step |
| `Greyhound` | `pcs/greyhound.rs`, `batched.rs` | operators: the moves of prover and forger, and the verifier |
| `DotProduct` | `pcs/dotproduct.rs` | the same, with norm bounds, decompositions, the next level and the composed proof |
| `Mle` | `pcs/mle.rs` | the tall key, and the two compressed levels |
| `Tree` | `pcs/tree_commit.rs`, `tree_eval.rs`, `tree_fold.rs`, `tree_fin.rs` | one cycle of the hash tree and its reduction |
| `Structured` | `pcs/powers_srs.rs`, `prisis.rs`, `trapdoor.rs`, `slap_tree.rs` | references of powers, trapdoored bases, and the foldings on them |
| `Pcs` | all of these in use | `Prove`, `GiveUp`, `Reroll`, `Forge`: one message and the challenges after it per step; after the last the verifier decides |

`MC*` modules give values to constants, compose what a run looks at together and
compare operators with their reference definitions. `*Proofs` and `NumberLemmas`
hold theorems and the lemmas they rest on.

Composition: `FiatShamir` extends `Xof`; `MCTranscripts` extends `FiatShamir` and
`Samplers`; `MCArithmetic` extends `Residues` and `DigitPlanes` and
instances `Floats`; `Falcon` extends `FalconKeys`; `MCSignatures` extends `MlDsa` and
instances `Falcon`; `Kem` instances the schemes (NTRU twice, once for each family),
and those instance `DivSteps`; `Sumcheck` extends `Multilinear`; `LatticeFold` extends
`Projection`, of which it takes the split; `MCFolding` extends `Folding` and
`LatticeFold` and instances `Norms`; `Pcs` instances `Greyhound`, `DotProduct`, `Mle`
(twice), `Tree` and `Structured`, most of which extend `QuotientRing` through
`Gadgets`.

Three abstract specifications are implemented by detailed ones:

- `Sponge` by `Xof`, under `message = hasher`, `drawn = position of the reader`. A
  sponge keeps no reader, so the cache is unobservable.
- `SumcheckProver` by the pool of `Sumcheck`, under a table that is folded at the
  moment its challenge is drawn. The pool may split, order and interleave as it
  likes; the proof it returns is the sequential one.
- `IdealKem` by `Kem`, under the table of what encapsulations and decapsulations
  under whole key pairs have answered. All five mechanisms implement the same table,
  whether they check a ciphertext by encrypting again or by looking at what they
  decrypted.

## 3. Runs

Eight runs pass and four find a violation. Bounds are the constants in the cfg and
the sets in the module that the run checks; every guard that only bounds the state
space says so in its module. Several of them put components side by side, one of
which is in use in a behaviour while the others rest.

**Arithmetic** (10,216 states). Is the arithmetic under everything exact? For a word of
64 values, every modulus from 2 to 63 and every element: `InverseDecides` (the Euclid
walk inverts units and refuses the others), `InverseReturns` (it ends), `OpsAreExact`:
sums above half the word carry, products at a power of two wrap, q/2 is centred
upwards; for moduli up to 31 the range gates accept their range and nothing else at
every prime, digit planes recombine, are short and are refused only where no digits
exist (section 6 has one exception); and Falcon's emulated floats round to nearest and
even, for all pairs of mantissas of four bits at every distance of exponents at which
something is left to round. Moduli above and below half a word, powers of two, odd and
even, prime and composite all occur, and so do bases of both parities, a base that is
no positional system, and every number of planes from none to more than needed.

**Transcripts** (302,308). Does a value ever answer from an input that has been
extended since, and which challenges still agree when a payload was changed on the
way? `ImplementsSponge`: every sequence of new, absorb, squeeze and clone returns what
the replaying sponge returns; two values, domains of which one is a prefix of the
other, chunks of no byte and one, four cells and three bytes read, which hold several
turns of squeeze, absorb, squeeze. `ChallengeBindsPrefix`: exactly the challenges before
a change agree, and no later one shares a byte with any challenge of the prover;
`ChallengesAreFresh`: no output is handed out twice. Payloads of no to three bytes
whose bytes equal the length fields of the others, labels that are suffixes of each
other, three steps: the shortest schedules in which one payload could slide into
another's place. `SamplesAreUniform` counts, for eight moduli and eight bounds (those
of FIPS 204 among them), how many words lead to each coefficient, and does so for
SampleInBall and the fixed-weight sampler, with the rejection limit of each position;
three signs in four slots are enough for a sign to be moved twice.
`ParitiesDecideUnits`: an element of Z_4[X]/(X^4 + 1) is a unit exactly when its
coefficients have an odd sum, and which draws leave each of the three parity challenges
with the wrong parity.

**Signatures** (482,243). ML-DSA: does what the loop emits verify, for one message
only, and say nothing of the key? `SignatureVerifies`, `HintRecoversW1`,
`SignatureBindsMessage` (no other split of the same bytes into mode, context and
message verifies), `FreshMasks` (no attempt rereads a stream),
`PublishedFitsEverySecret` (every other secret of the same bound could have produced
what was published), `TypeOK` (every packed chunk fits). q = 41 has five rounding cells
of width eight, the last one wrapping; secrets in -1 .. 1, every mask, both signs of
the challenge, two matrices whose t reaches every t0. Contexts and messages of up to
two equal bytes collide in every way a frame allows, and a context one longer than the
length field can hold is in the set. The nonce field holds six, three attempts;
rejections by each of the four gates occur. Falcon: `FalconSignsShortVectors`: key
generation gives keys that solve the NTRU equation or starts over, the leaves of the
tree carry the norm of their basis, what is signed verifies and what verifies is a
short vector of the message's coset. The floating-point numbers are residues modulo
8191 (a prime that is 3 modulo 4, in which sums, products and quotients are exact), the
sampler returns any small integers; q = 17, degree four. `PartsAreExact`: the hint
codec of ML-DSA on every hint and every byte string, rounding on every coefficient, and
Falcon's parts on their own: transforms against products, codecs on every string,
big-integer operations of the solver in words of 7 and 15 bits, the solver at degrees
four and eight.

**Folding** (694,177). `FoldedInstancesVerify`: chains of Nova folds of any shape
verify. `FoldCarriesGaps`: a fold adds the gap of the right instance, times r or r^2,
to that of the left one. Two holders, three folds (so that an accumulator is folded
into an accumulator), every challenge of Z_4, one damaged field at a time.
LatticeFold: `HonestFoldVerifies`: what `prove_fold_decompose` sends passes all four
checks; `ForksOpenTheFold`: two answers to the same digit commitments give
(zeta - zeta') c' = A e with e of bounded norm, so digits cannot be chosen after the
query. Two coefficients of four bits and two digits, fold challenges of norm one and
splitting challenges of norm two, a unit key and one with a kernel, forged digit
commitments that recompose and some that do not. Projection:
`HonestProjectionVerifies` (exactly when the bound is that of its high digit),
`AcceptedProjectionIsBounded` (or its digits are another opening of the commitment,
that is, a kernel vector of the key; and the gadget split is exact with its slack).
Ring of four bits, every witness, every digit width, the illegal ones too, every pair
of digits a forger may send, a key with kernel vectors and one without. Norms:
`HonestNormsVerify`, `AcceptedNormsHold`, `TampersAreReported` for the committed norm,
the self inner product and the exact norm by every route: modulus 19, two coefficients,
challenges from a pool of monomials, up to eight blocks (two rounds of folding and the
last message), digit planes within their bounds and next to them, tail gates at 64 and
320, which some statements pass and some do not. `TampersAreReported` is about a
finished honest proof with one place of one message changed and nothing else: the
verifier draws every challenge from that round on anew, for messages that were made for
other ones. Named are the one check that reads the place in its own round (none for a
cross product), and then all of every later round: commitments, linear and bilinear
claims, of the witness and of the repetition, the exact sets that
`a_later_round_forgery_is_caught_by_the_recursion` asserts. A lane is missing from
them exactly where the new challenge happens to fold it to what the old one did, which
at most half of the small pool do. 56 places, nine challenges in each round after.
That a commitment binds its witness is assumed: a forger may send anything but commits
once.

**Sigma** (95,577). Is Z1 complete, extractable, and are its responses independent of
the witness? `ProofVerifies`; `ProofBindsStatement` (accepted for no other target);
`ResponseHidesWitness` (every other short witness has a mask that gives the same
response); `ExtractorRecovers` (two accepted answers solve the relaxed relation within
twice the bound); `CallsReturn`. Modulus 17, masks up to 5, 1-norm 2, two attempts, a
matrix with short kernel vectors so that different short responses answer the same
challenge, all responses up to one beyond the bound. Z2 is the same module with other
constants (`MaskTop = YBound - 1`, no witness check, no hash sent).

**Sumcheck** (327,348). Is a batch of claims accepted only if right, or by rare luck?
`ImplementsSequential`: the pool returns the proof of the sequential prover.
`HonestBatchVerifies`, and the rounds end on the evaluation at the challenges, of a
claim under eq at the mirrored point. `WrongBatchNeedsLuck`: an accepted wrong batch
had a weight that cancelled its errors or a challenge that hid one; per round at most
half the ring, per batch at most (K - 1) / p of the weights. The ring is Z_9, for its
zero divisors; three claims of two rounds, one under eq; five patterns of errors, of
which some cancel at many weights, few, or none. The first round has halves of two
elements and runs on two workers, who can then hold both elements at once; the second
runs in sequence.

**Kem** (310,911). Do the two sides agree, and who else can get the secret?
`ImplementsIdealKem`: to holders of whole key pairs every mechanism is the ideal table,
under all noise and whatever the network did. `SecretsBindCiphertexts`: the
encapsulated secret comes out of no other ciphertext and under no other key, whatever
mixture of secret part, public key, hash and rejection seed an import accepted.
`RoundingLeavesRoom`: at q = 3329 and every width in use, compression loses at most
half a step and rounding is never half-way; Frodo's key coding survives any error below
its bound. `CodingsAndStepsAreExact`: packings and mixed-radix codings invert each
other, sorting networks sort, division steps invert after the fixed number of turns
whatever they hold. One encapsulation and one decapsulation are enough because both
properties relate one of each. ML-KEM on one residue modulo 193 with widths 3 and 2,
all 32 ciphertexts; Frodo with 2 by 2 matrices modulo 32; NTRU of degree 5 modulo 32
and 64; NTRU Prime of degree 5 modulo 79: the smallest rings in which keys can be
inverted and all the noise decrypts.

**Pcs** (170,762). For Greyhound on ring elements, on packed scalars and in batches,
the dot-product argument with one level of its recursion and its retries, tall-key and
levelled commitments, one cycle of the hash tree with its reduction, the references of
powers and the trapdoored bases: `HonestProofsVerify` (who follows the code and does not
give up is never rejected), `AcceptedClaimsHold` (an accepted claim holds of what was
committed, or the challenges cancelled exactly what was wrong, and few of all do),
`TargetsRestateOpenings` (what a level hands to the next holds exactly when it would
have accepted the opening). Rings of degree two; two slots and trees of height two for
what forgers claim; at two slots the bound that the code certifies for an opening comes
out at 194, and statements on both sides of it occur. The weights of the slap folding
alternate between two units, which bounds the run. A false claim in a batch is accepted
when its own challenge, or the weights of the batch, cancel what is missing, one in nine
at most; batches of one claim and of two are forged.

**The violations.** `SmallChallenge` (Samplers), `EvenBase` and `FreeMaskValue` (Pcs)
and `ShortHalf` (MCSignatures) each check one sentence of the documentation that the
code does not keep; section 6 says which.

Every property has at least one mutant of the code, a `Slip` of the module, that the
same run rejects.

`CHECK_DEADLOCK FALSE` stands where a call returns and there is nothing more to do.

## 4. Fairness

Two specifications state fairness, both for a loop of one calling thread, which the
operating system keeps running: `WF_vars(Next)` in `Residues` (the turns of the Euclid
loop) and `WF_vars(Prove)` in `Sigma` (the attempts of `fs_prove`). Nothing is assumed
about verifiers, forgers or extractors, which need never be called. The signing loops
of ML-DSA and Falcon have no cap and end only with probability one, so no liveness is
claimed for them. No fairness is assumed between workers of the pool:
`ImplementsSequential` is a safety property, and the barrier waits for every element it
handed out.

## 5. Proofs

`tlapm` proves the following for every value of the constants that the named
assumptions of the modules allow. None of the properties is inductive as it stands;
the invariant that is, and the argument, come first in each item.

- **`XofProofs`**. `XofImplementsSponge`, `ReadersAreCurrent`: a live reader was
  finalised from what its hasher holds now; without that a squeeze need not be a squeeze
  of the sponge. `Binding` (`ChallengeBindsPrefix`) and `Freshness`: an absorb writes a
  frame that no other payload can write, so after a changed payload the two inputs
  contradict each other in a cell both have, and extending either never removes that
  cell (`Detached`). `IInv` ties every transcript of the trail to the one before and
  says of the verifier that it is either where the prover was or detached from every
  point of the trail. The assumption used is that labels and payloads are shorter than
  their length fields can say.
  `SamplesUniform`, `ParitiesDecide` for module `Samplers`: `SamplerInv` says that the
  draws are a stream of the sampler's kind and that what is returned was made of a whole
  one. The words a rejection leaves are a multiple of the range, and so are those of each
  position. A vector of m signs is undone by taking back the last draw: one way at each
  filled slot, after which a vector of m - 1 signs and a stream of m - 1 draws remain, so
  m! streams lead to it (`BallCount`, `FixedCount`). For the parities, modulo 2 the sum
  of a_i a_j b_(x - si - sj) over all i and j keeps only its diagonal, so products of
  b by a with steps of s that are all even give even ones with steps of 2 s; log2(N)
  times that, b comes back to its own place and is multiplied by the sum of a
  (`KeyParity`). Hence an odd element sends no difference to zero modulo any power of two
  (`OddCancels`), multiplication by it is one to one on a finite set, and 1 is reached;
  conversely the sum of a product is the product of the sums modulo 2. The ring is any
  Z_(2^k)[X]/(X^N + 1) with N a power of two, as in every use of the challenges.
- **`ResidueProofs`**. `ModAddExact`, `ModSubExact`, `ModMulExact` at every modulus of
  every word; `DecidesInverses` and `WalkNeverWraps` for the Euclid walk. The invariant
  is Bezout's: each remainder is its coefficient times v modulo q, a common divisor of
  the remainders divides q and v, and what is returned is the state at the end.
- **`MlDsaProofs`**. `DecomposeRecombines`, `HintsRecoverBoth`: a coefficient sits at
  exactly one offset in exactly one cell; a displacement of at most gamma2 leads to the
  same or a neighbouring cell, on the side the offset leans to. `Typing`, `HintReaches`,
  `MasksAreFresh`, `GatesHideSecrets`: `IInv` records which streams were read and that a
  published z, w1 and hint passed their gates in the attempt that made them; the
  verifier's value is congruent to w - c s2 + c t0, and w - c s2 sits so deep in its cell
  that no c s2 within beta moves it out. `HintsReadBack`: each set bit is written at its
  own place, the bits of a row between the counters of its neighbours. `SignaturesVerify`
  puts these together (`SentInv`: what was emitted is the packing of what passed the
  gates); `SignaturesBind`: a frame can be read back, since its length field says where the
  context ends.
- **`SigmaProofs`**. `HonestProofsVerify`, `ProofsNameTheirStatement`,
  `ForksGiveTheWitness`, and `ResponsesHideTheWitness` under the condition that masks
  reach the bound the response bound is computed from, which Z1 satisfies and Z2 misses
  by one.
- **`SumcheckProofs`**. `SumcheckTyping`, `PoolImplementsSequential`: each element of the
  lower half is either unfolded and in `todo`, held by one worker with the values it had,
  or folded, and the pieces of a reduction add up to the half, for any pool and size.
  `BatchesVerify`: the verifier has checked what the prover sent and was in no round told
  anything but the halves of the table folded so far; the folds end on the evaluation at
  the challenges, with the combined sum taken in the other order for the claims under eq.
  `WrongBatchesNeedLuck`: where the sent line and the true one differ they meet at no two
  points of which one follows the other, which leaves half the ring; weights that hide an
  error are roots of its polynomial, and among p consecutive ones few are
  (`NumberLemmas.FewRoots`, by division with remainder), for the least prime p of Q.
- **`FoldingProofs`**. `ChainsVerify`, `FoldsCarryGaps`, `FoldingTyping` over every ring
  Z_M, gate system and key. Everything follows from one identity, that of the gaps.
  `HonestProjections`, `AcceptedProjections`: the residue of an
  integer stands for the shortest one of its class (`Nearest`), which carries the bound on
  two digits to the vector; the slack check is proved on any number of coefficients.
  `HonestFolds`, `ForksOpen`: the laws of Z_(2^W)[X]/(X^D + 1) are proved from the
  coefficients up, by exchanging sums; then a key goes through Horner's rule, the digits
  recompose since the last carry is a multiple of 2^W, and the norm of their combination
  grows at each step of the rule as the bound does. `FoldInv` says what an honest prover
  has sent and that a verdict is the verifier's.
- **`KemProofs`**. `SecretsBind`: `BindInv` says that what was sent and what came out is
  what the scheme computes from generated keys, and that a decapsulated ciphertext of NTRU
  has reduced coefficients. ML-KEM, Frodo and NTRU Prime then follow from what is hashed
  and compared. NTRU looks at the pair [r, m] it decrypted instead, so there the proof is
  algebra: cyclic convolution commutes and associates (`ConvAssociates`); the halves of a
  key are inverse modulo q and 1 + x + .. + x^(n-1) alone, which gives a polynomial back
  but for one constant (`HalvesUndo`); the constant is zero because the sums of the
  coefficients of ciphertext, key and lifted message are zero (`BalancedTotal`,
  `DifferenceTotal`) and n has an inverse modulo q (`AlikeSame`), which it has as an odd
  number where q is a power of two. The theorem's hypothesis `KeysInvert` says that the
  inversions key generation runs on what it has drawn return inverses (that the halves of
  a key are inverse then follows, `NtruHalves`); the run checks it of its material and, in
  `InversionsInvert`, of every polynomial of the smallest rings.
  `NoisyDecryptions`: what was encrypted comes out again. Its hypothesis `NoiseFits` is a
  budget on the secrets and coins alone, written without encryption or decryption. ML-KEM:
  Compress and Decompress move a residue by half a step (`RoundTrip`), so what is left
  before the last rounding is the bit, the noise and two such losses. Frodo: S'AS is the
  same number in both orders (`BothSidesAgree`), the noise is what remains, and it rounds away.
  NTRU: c f is r g + m f, whose lift does not wrap, so reduction modulo 3 sees integers;
  f inverse modulo 3 then leaves m, and the inverse of h leaves r. For HRSS the lift is the
  quotient times x - 1, which gives m back modulo 3 since 3 does not divide n
  (`HrssDivides`). NTRU Prime multiplies modulo x^p - x - 1, where turning the places does
  not give the ring's laws. Weighed by any numbers for the places, a product is a form in
  its two factors whose matrix depends on the sum of its indices alone, so it is symmetric
  (`WeighedProduct`, `FormSymmetric`); weighing by one place gives `TriCommutes`, and doing
  it twice `TriAssociates`. Then 3 f c is r g + 3 f e with e the error of rounding. Each
  coefficient of a product with a polynomial of weight w and coefficients -1, 0, 1 is at most
  2 w (`TriBound`), and 16 w < q in every set of parameters, so nothing wraps (`PrimeFits`)
  and NTRU Prime needs no budget: no honest decryption fails.
  The run checks the budgets of its material and coins, which reach them.
  `RoundsWithRoom`: the constants of the source, 3329 and the moduli of Frodo, leave the
  room; 3329 has no tie because it is odd.
  `ImplementsIdeal`: the refinement of `IdealKem`. `IdealInv` adds that the record holds one
  encapsulation and at most one decapsulation of it or of what it became. A decapsulation
  under a whole key adds an answer to the table, any other a stutter; that two secrets agree
  only where the ciphertexts do is `SecretsBind`, and that they agree where the ciphertexts
  do is `WholeReturns`, mechanism by mechanism, from `NoisyDecryptions`.
- **`NumberLemmas`**: division with remainder, congruences, induction over numbers and
  finite sets, sums and products over finite sets in any order, polynomials and their
  roots; used by all the others.

What is only model-checked, and why:

- *Liveness and `ENABLED`*: `InverseReturns`, `CallsReturn`. The prover has no rule for
  fairness in these forms.
- *What RECURSIVE operators compute*: a module that declares one loses the SMT backend,
  and so do those that reach it. `Norms`, the modules of `Pcs` and `Falcon` are written
  with them, since the code recurses on sequences there, so `HonestNormsVerify`,
  `AcceptedNormsHold`, `TampersAreReported`, `HonestProofsVerify` and `AcceptedClaimsHold`
  of Pcs, `TargetsRestateOpenings`, `FalconSignsShortVectors` and `PartsAreExact` stay
  with TLC. Induction over data is done where the recursion is a recursive function, over
  the set of the numbers for which the claim holds.
- *Codings, sorting networks and division steps*: `CodingsAndStepsAreExact` holds no
  variable, TLC runs through all its inputs, and what the recursions compute for every
  input is induction over data. That inversions return (`KeysInvert`) rests on them.
- *Comparison with a reference over all inputs*: `OpsAreExact` (its first part is proved
  as the theorems of `ResidueProofs`; gates, digit planes and the rounding of Falcon's
  numbers are not).

## 6. Where code and documents disagree

**The small challenge may be a unit** (`zk/src/foundation/sampling.rs:279`; run
`SmallChallenge`). The comments at 241 and 247-248 say that a weight made even keeps
the challenge non-invertible. An odd weight is repaired by setting the constant
coefficient to zero; if that coefficient is zero already, the odd weight stays and the
element is a unit.

**An even base passes validation and then panics** (`zk/src/pcs/dotproduct.rs:492`; run
`EvenBase`). `covers_every_residue` compares the largest magnitude with the span on the
positive side alone; the digits of an even base reach one less below zero. `validate`
accepts a base of 4, which `NormBounds::derive` itself chooses, and `split` panics on a
residue near -q/2, which the comment at 530 says `validate` rules out.

**A value claimed under a tall key is not bound** (`zk/src/pcs/mle.rs:404`; run
`FreeMaskValue`). The value t of the mask is neither absorbed before the challenge nor
tied to the mask, so any claimed y passes with t = <w, z> - x y. Line 17 says the claim
verification is exact.

**An overflow that is not tracked** (`pqc/src/falcon/common.rs:87`; run `ShortHalf`).
`is_short_half` keeps the overflow flag of the first half as it was, though the comment
at 85-86 says that an overflow of the running sum forces a huge value. At the real sizes
the squares of a sampled half do not reach 2^32.

What else the models showed, kept as exact statements in the properties:

- `odd_sum_poly` (305; documented at 284-285) has the same flaw: an even sum is mended by
  setting the last bit of the constant term, which may be set already.
  `ParitiesDecideUnits` says exactly when.
- `digit_expansion_is_exact` (`pcs/gadget.rs:253`; documented at 220) is wrong at one
  residue: the half-way residue of an even modulus under an odd base whose span just
  reaches the ceiling. `ExactnessDecides` excludes exactly that residue.
- The slack of the gadget split is 0 or 2^drop, where `shortness/gadget.rs:21` speaks of
  2^(drop - 1); `SplitIsExact` states the former. `ipa_gadget_open`
  (`sumcheck/ipa.rs:167`; 39-40) reveals the digits without the slack and is then 2^drop
  too low on half of the coefficients. `slack_bound` is a 32-bit product and wraps
  once n * 2^(drop - 1) reaches 2^32, n being the number of coefficients (46);
  `CheckIsDistance` is stated below that.
- Z2 draws masks up to B_Y - 1 (`sigma/z2.rs:121`) and computes the response bound from
  B_Y (11-13, 48-50): a response at the bound rules out some witnesses. With
  `MaskTop = YBound - 1` TLC finds it, and the theorem needs the condition.
- The bound K / |R| for batched sum-checks (`sumcheck/batch.rs:18-19`) holds over fields;
  with zero divisors it is (K - 1) / p for the least prime p, which is what
  `HidingWeightsAreRare` states. `verify_batched` does not look at the weight in the proof
  (169), though 48 says it does; it derives its own, so nothing depends on it.
- The hint decoder of ML-DSA accepts packings that the encoder never writes
  (`mldsa/encoding.rs:110-112`): positions out of order, padding that is not zero. They
  decode to hints that fit, which is what `AcceptedHintsFit` states.
- A claim under eq is about the mirrored point (`sumcheck/batch.rs:67`):
  `EqClaimsEvaluateMirrored`.
- `splitting_challenge` (`folding/latticefold.rs:167-182`) does not absorb the key seed
  that `fold_challenge` absorbs. With L = 32 / b digits every vector decomposes, so the
  proof ties digits to the fold and does not by itself bound the folded witness.
- `sample_uniform_coeff` at a modulus above 2^63 shifts by the width of the word
  (`algebra/src/crypto/sampling.rs:104`); no parameter set has such a modulus.
- sntrup's documentation says a rejection is `HashSession(2, rho, ct)`
  (`sntrup/mod.rs:385-389`); the code hashes with byte 0 (416-424), as the reference does.
- The inverses of NTRU are documented as modulo (q, x^n - 1); they are modulo Phi_n. The
  mask of `check_ciphertext` looks at the unused bits of the last byte with a formula that
  is right because those are 0 or 4 in every parameter set. The comment on `short_fromlist`
  maps a value 3 that never occurs.
- `greyhound.rs` says that digits must be binary; its gate on the norm admits -1. Its
  domain labels are prefixes of each other (112), which the frames make harmless.
- `prove_core` of `dotproduct.rs` documents a `restart_limit` the function does not have
  and a restart of the projection draw where it returns an error (1814-1835);
  `target_statement` recombines with the base of the bounds, where a decomposition carries
  its own.
- `mle.rs:223-224` says that `solve` returns None for an inconsistent system; it does so
  for a missing pivot only.
- In the structured references `failing_inner_product` has no gate on the norm of its
  first part though `powers_srs.rs:729` says so; `failing_aggregated` gates neither values
  nor proofs of knowledge; `from_parts` does not look at the norms of preimages; and
  `PrisisTree::failing_levels` compares the length of the root only. `bound_of_matrix`
  (`trapdoor.rs:838-848`) adds up 1-norms where it documents infinity norms: a wider bound.
- Falcon: `zint_bezout` says u x + v y = gcd (`keygen.rs:501-504`) and computes
  u x - v y = 1; `zint_mod_small_unsigned` says big-endian and Montgomery (279-280) and is
  little-endian and plain; the table of thresholds is said to decrease (1716) and its first
  two entries do not; `modp_norm` keeps (p + 1) / 2 positive; `fpr_floor` of -0 is -1;
  `get_u64` refills also when exactly nine bytes remain (`prng.rs:103-105`).

## 7. Not modelled

- **NTT, SIMD, matrices, polynomials, extensions, number theory**: pure functions whose
  value is a product or a sum; models that multiply use the product itself. Falcon's two
  transforms are compared with the product.
- **Constant-time helpers**: their point is timing, which a model does not see.
- **Precision**: Falcon's scheme runs on exact numbers and its floats on their own, so
  that the loss of digits over a whole signature is not shown. Nor are the tables of
  constants.
- **Random distributions** beyond uniform counts: no discrete Gaussians, no trapdoor
  sampling.
- **Openings, QRP, Regev encoding, circuit and fused sum-checks, range proofs by
  projection, the compositions and hiding front ends of pcs**: what they call is modelled.
- **Serialisation of keys and proofs**, except the hint, the z packing, the transcript
  frames, the codings of the mechanisms and Falcon's codecs.
- **Hash functions, binding and hardness**: ideal hashes; properties that would need
  binding say "or a kernel vector of the key", or commit a forger once.
- **The other rayon kernels** (`mul_vec`, the gates of R1CS, digit commitments, batches):
  maps over independent elements, without the in-place overwrite that makes
  `prove_rayon` worth a model.

Memory safety is left to the compiler, the workspace having no `unsafe`; the in-place
fold of `prove_rayon` is modelled as the reads and writes of each task.

## 8. Plan

What protocols rest on came first, then protocols, then what is built of them. To come:

1. **The masked and hiding front ends of pcs** (`masking.rs`, `hiding.rs`,
   `powers_zk.rs`) over the arguments of `Pcs`, and the routes between norms
   (`norm_route.rs`).
2. **Openings, QRP and Regev encoding**: noise budget of a sum of encodings; linear
   queries.
3. **The inner-product argument** (`ipa.rs:79-155`) and the fused and circuit
   sum-checks, as compositions of `SumcheckProver` and the gates.
4. **Number theory and the NTT** against the schoolbook product, into Arithmetic.
5. **Proofs**: Greyhound's completeness for any size once `QuotientRing` is written
   without RECURSIVE, on the ring laws of `FoldingProofs`; the exactness of the digit
   gadget at every shape.
