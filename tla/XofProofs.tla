------------------------------ MODULE XofProofs ------------------------------
(***************************************************************************)
(* The values of module Xof implement the sponge of module Sponge, for     *)
(* every set of values, domains, inputs and lengths; and the transcripts   *)
(* of module FiatShamir bind their challenges, for every domain, label     *)
(* set, payload set and schedule; and no sampler of module Samplers        *)
(* prefers an outcome to another, while parities decide which challenges   *)
(* are units.                                                              *)
(*                                                                         *)
(* For the values the strengthening is ReaderIsCurrent: the cached reader  *)
(* was finalised from what the hasher holds now.  Without it a squeeze     *)
(* could answer from an input that has since been extended.                *)
(*                                                                         *)
(* For the transcripts: an absorb writes a frame that no other payload can *)
(* write (AbsorbsDiffer), so from the first changed payload on the         *)
(* verifier's input carries a cell that contradicts the prover's           *)
(* (Detached), and extending either input never removes that cell.         *)
(*                                                                         *)
(* For the samplers: a rejected word leaves a multiple of the range, so    *)
(* every value has equally many words; a vector with m signs is undone one *)
(* draw at a time, m ways at the last, hence m! streams; and modulo 2 the  *)
(* products by an element squared log2(N) times are products by its sum.   *)
(***************************************************************************)
EXTENDS FiatShamir, Samplers, SequenceTheorems, NumberLemmas, TLAPS

Inv == HandlesTypeOK /\ ReaderIsCurrent

-----------------------------------------------------------------------------
LEMMA NewFacts ==
  ASSUME NEW domain \in Cells
  PROVE  /\ NewXof(domain) \in Xofs
         /\ NewXof(domain).hasher = domain
         /\ NewXof(domain).reader.live = FALSE /\ NewXof(domain).reader.pos = 0
BY DEF NewXof, NoReader, Xofs, Readers, Cells

LEMMA AbsorbFacts ==
  ASSUME NEW x \in Xofs, NEW data \in Cells
  PROVE  /\ AbsorbInto(x, data) \in Xofs
         /\ AbsorbInto(x, data).hasher = x.hasher \o data
         /\ AbsorbInto(x, data).reader.live = FALSE
         /\ AbsorbInto(x, data).reader.pos = 0
BY DEF AbsorbInto, NoReader, Xofs, Readers, Cells

\* A squeeze of a value whose reader is current continues that reader, or
\* starts the one it stands for.
LEMMA SqueezeFacts ==
  ASSUME NEW x \in Xofs, NEW n \in Nat,
         IF x.reader.live THEN x.reader.of = x.hasher ELSE x.reader.pos = 0
  PROVE  /\ AfterSqueeze(x, n) \in Xofs /\ Squeezed(x, n) \in Blocks
         /\ Squeezed(x, n) = [of |-> x.hasher, from |-> x.reader.pos, len |-> n]
         /\ AfterSqueeze(x, n).hasher = x.hasher
         /\ AfterSqueeze(x, n).reader.live
         /\ AfterSqueeze(x, n).reader.of = x.hasher
         /\ AfterSqueeze(x, n).reader.pos = x.reader.pos + n
<1>1. /\ x.hasher \in Cells /\ x.reader \in Readers /\ x.reader.pos \in Nat
  BY DEF Xofs, Readers
<1>2. Stream(x) = [live |-> TRUE, of |-> x.hasher, pos |-> x.reader.pos]
  BY <1>1 DEF Stream, Readers
<1>3. /\ AfterSqueeze(x, n).hasher = x.hasher
      /\ AfterSqueeze(x, n).reader \in Readers
      /\ AfterSqueeze(x, n).reader.live
      /\ AfterSqueeze(x, n).reader.of = x.hasher
      /\ AfterSqueeze(x, n).reader.pos = x.reader.pos + n
      /\ AfterSqueeze(x, n) \in Xofs
  <2>1. PICK s \in Readers : /\ s = Stream(x) /\ s.live = TRUE
                             /\ s.of = x.hasher /\ s.pos = x.reader.pos
    <3>1. Stream(x) \in Readers
      BY <1>1, <1>2, TRUE \in BOOLEAN DEF Readers
    <3>2. /\ Stream(x).live = TRUE /\ Stream(x).of = x.hasher
          /\ Stream(x).pos = x.reader.pos
      BY <1>2
    <3>3. QED
      BY <3>1, <3>2
  <2>2. PICK t : t = [s EXCEPT !.pos = @ + n]
    OBVIOUS
  <2>3. /\ t \in Readers /\ t.live = TRUE /\ t.of = x.hasher
        /\ t.pos = x.reader.pos + n
    BY <2>1, <2>2 DEF Readers
  <2>4. AfterSqueeze(x, n) = [hasher |-> x.hasher, reader |-> t]
    BY <2>1, <2>2 DEF AfterSqueeze
  <2>5. QED
    BY <1>1, <2>3, <2>4 DEF Xofs
<1>4. Squeezed(x, n) = [of |-> x.hasher, from |-> x.reader.pos, len |-> n]
  BY <1>2 DEF Squeezed
<1>5. QED
  BY <1>1, <1>3, <1>4 DEF Blocks

-----------------------------------------------------------------------------
LEMMA InitInv == HandlesInit => Inv /\ Abstract!Init
<1>1. SUFFICES ASSUME HandlesInit PROVE Inv /\ Abstract!Init
  OBVIOUS
<1>2. PICK domain \in [Handles -> Domains] : xof = [h \in Handles |-> NewXof(domain[h])]
  BY <1>1 DEF HandlesInit
<1>3. \A h \in Handles :
        /\ xof[h] \in Xofs /\ xof[h].hasher = domain[h]
        /\ xof[h].reader.live = FALSE /\ xof[h].reader.pos = 0
  <2>1. \A h \in Handles : domain[h] \in Cells
    BY InputAssumption
  <2>2. QED
    BY <1>2, <2>1, NewFacts
<1>4. bytes = NoBlock /\ NoBlock \in Blocks
  BY <1>1 DEF HandlesInit, NoBlock, Blocks, Cells
<1>5. Inv
  BY <1>2, <1>3, <1>4 DEF Inv, HandlesTypeOK, ReaderIsCurrent
<1>6. Abstract!Init
  <2>1. [h \in Handles |-> xof[h].hasher] = domain
    BY <1>3
  <2>2. [h \in Handles |-> xof[h].reader.pos] = [h \in Handles |-> 0]
    BY <1>3
  <2>3. bytes = Abstract!NoBlock
    BY <1>4 DEF NoBlock, Abstract!NoBlock
  <2>4. QED
    BY <2>1, <2>2, <2>3 DEF Abstract!Init
<1>7. QED
  BY <1>5, <1>6

\* Every operation keeps the invariant and is the sponge's operation.
LEMMA NewStep ==
  ASSUME Inv, NEW h \in Handles, NEW domain \in Domains, New(h, domain)
  PROVE  Inv' /\ Abstract!New(h, domain)
<1>1. /\ NewXof(domain) \in Xofs /\ NewXof(domain).hasher = domain
      /\ NewXof(domain).reader.live = FALSE /\ NewXof(domain).reader.pos = 0
  BY InputAssumption, NewFacts
<1>2. xof \in [Handles -> Xofs] /\ xof' = [xof EXCEPT ![h] = NewXof(domain)] /\ bytes' = bytes
  BY DEF Inv, HandlesTypeOK, New
<1>3. Inv'
  BY <1>1, <1>2 DEF Inv, HandlesTypeOK, ReaderIsCurrent
<1>4. QED
  BY <1>1, <1>2, <1>3 DEF Abstract!New

LEMMA AbsorbImplements ==
  ASSUME Inv, NEW h \in Handles, NEW data \in Chunks, Absorb(h, data)
  PROVE  Inv' /\ Abstract!Absorb(h, data)
<1> DEFINE x == AbsorbInto(xof[h], data)
<1>1. /\ x \in Xofs /\ x.hasher = xof[h].hasher \o data
      /\ x.reader.live = FALSE /\ x.reader.pos = 0
  BY InputAssumption, AbsorbFacts DEF Inv, HandlesTypeOK
<1>2. xof \in [Handles -> Xofs] /\ xof' = [xof EXCEPT ![h] = x] /\ bytes' = bytes
  BY DEF Inv, HandlesTypeOK, Absorb
<1> HIDE DEF x
<1>3. Inv'
  BY <1>1, <1>2 DEF Inv, HandlesTypeOK, ReaderIsCurrent
<1>4. QED
  BY <1>1, <1>2, <1>3 DEF Abstract!Absorb

LEMMA SqueezeImplements ==
  ASSUME Inv, NEW h \in Handles, NEW n \in Reads, Squeeze(h, n)
  PROVE  Inv' /\ Abstract!Squeeze(h, n)
<1> DEFINE x == AfterSqueeze(xof[h], n)
<1>1. /\ x \in Xofs /\ Squeezed(xof[h], n) \in Blocks
      /\ Squeezed(xof[h], n)
           = [of |-> xof[h].hasher, from |-> xof[h].reader.pos, len |-> n]
      /\ x.hasher = xof[h].hasher /\ x.reader.live
      /\ x.reader.of = xof[h].hasher /\ x.reader.pos = xof[h].reader.pos + n
  <2>1. /\ xof[h] \in Xofs /\ n \in Nat
        /\ IF xof[h].reader.live THEN xof[h].reader.of = xof[h].hasher
                                 ELSE xof[h].reader.pos = 0
    BY InputAssumption DEF Inv, HandlesTypeOK, ReaderIsCurrent
  <2>2. QED
    BY <2>1, SqueezeFacts
<1>2. /\ xof \in [Handles -> Xofs] /\ xof' = [xof EXCEPT ![h] = x]
      /\ bytes' = Squeezed(xof[h], n)
  BY DEF Inv, HandlesTypeOK, Squeeze
<1> HIDE DEF x
<1>3. Inv'
  BY <1>1, <1>2 DEF Inv, HandlesTypeOK, ReaderIsCurrent
<1>4. QED
  BY <1>1, <1>2, <1>3 DEF Abstract!Squeeze

LEMMA CloneStep ==
  ASSUME Inv, NEW h \in Handles, NEW g \in Handles, CloneTo(h, g)
  PROVE  Inv' /\ Abstract!CloneTo(h, g)
<1>1. xof \in [Handles -> Xofs] /\ xof' = [xof EXCEPT ![g] = xof[h]] /\ bytes' = bytes
  BY DEF Inv, HandlesTypeOK, CloneTo
<1>2. Inv'
  BY <1>1 DEF Inv, HandlesTypeOK, ReaderIsCurrent
<1>3. QED
  BY <1>1, <1>2 DEF Abstract!CloneTo

LEMMA StepInv == Inv /\ [HandlesNext]_handleVars => Inv' /\ [Abstract!Next]_(Abstract!vars)
<1>1. SUFFICES ASSUME Inv, [HandlesNext]_handleVars PROVE Inv' /\ [Abstract!Next]_(Abstract!vars)
  OBVIOUS
<1>2. CASE UNCHANGED handleVars
  BY <1>1, <1>2 DEF Inv, HandlesTypeOK, ReaderIsCurrent, handleVars, Abstract!vars
<1>3. CASE HandlesNext
  <2>1. CASE \E h \in Handles, domain \in Domains : New(h, domain)
    BY <1>1, <2>1, NewStep DEF Abstract!Next
  <2>2. CASE \E h \in Handles, data \in Chunks : Absorb(h, data)
    BY <1>1, <2>2, AbsorbImplements DEF Abstract!Next
  <2>3. CASE \E h \in Handles, n \in Reads : Squeeze(h, n)
    BY <1>1, <2>3, SqueezeImplements DEF Abstract!Next
  <2>4. CASE \E h \in Handles, g \in Handles : CloneTo(h, g)
    BY <1>1, <2>4, CloneStep DEF Abstract!Next
  <2>5. QED
    BY <1>3, <2>1, <2>2, <2>3, <2>4 DEF HandlesNext
<1>4. QED
  BY <1>1, <1>2, <1>3

-----------------------------------------------------------------------------
\* No absorb leaves a reader of the shorter input behind (xof.rs:77-80).
THEOREM ReadersAreCurrent == HandlesSpec => []ReaderIsCurrent
<1>1. Inv => ReaderIsCurrent
  BY DEF Inv
<1>2. QED
  BY InitInv, StepInv, <1>1, PTL DEF HandlesSpec

\* The cached reader is unobservable: whatever sequence of new, absorb,
\* squeeze and clone is applied to whatever values, the bytes are those of
\* the sponge that replays the whole input at every squeeze (xof.rs:53-57).
THEOREM XofImplementsSponge == HandlesSpec => ImplementsSponge
BY InitInv, StepInv, PTL DEF HandlesSpec, ImplementsSponge, Abstract!Spec

-----------------------------------------------------------------------------
\* Two inputs that contradict each other in a cell both of them have.
Differ(s, t) == \E i \in 1..Len(s) : i <= Len(t) /\ s[i] # t[i]

Extends(s, t) == /\ Len(s) <= Len(t)
                 /\ \A i \in 1..Len(s) : t[i] = s[i]

AbsorbWrites(x, l, d, y) ==
  /\ y \in Xofs
  /\ y.reader = NoReader
  /\ Len(y.hasher) = Len(x.hasher) + Len(l) + Len(d) + 2
  /\ \A i \in 1..Len(x.hasher) : y.hasher[i] = x.hasher[i]
  /\ y.hasher[Len(x.hasher) + Len(l) + 2] = Len(d) % DataField
  /\ \A i \in 1..Len(d) : y.hasher[Len(x.hasher) + Len(l) + 2 + i] = d[i]

\* An absorb appends label length, label, payload length and payload, in
\* this order, and drops the reader.
LEMMA AbsorbShape ==
  ASSUME NEW x \in Xofs, NEW l \in Cells, NEW d \in Cells
  PROVE  AbsorbWrites(x, l, d, AbsorbLabeled(x, l, d))
<1> DEFINE a == <<Len(l) % LabelField>>
           b == <<Len(d) % DataField>>
           h1 == x.hasher \o a
           h2 == h1 \o l
           h3 == h2 \o b
           h4 == h3 \o d
           y == AbsorbLabeled(x, l, d)
<1>1. x.hasher \in Seq(Nat) /\ l \in Seq(Nat) /\ d \in Seq(Nat)
  BY DEF Xofs, Cells
<1>2. Len(l) % LabelField \in Nat /\ Len(d) % DataField \in Nat
  BY <1>1, LenProperties, FieldAssumption
<1>3. a \in Seq(Nat) /\ b \in Seq(Nat) /\ Len(a) = 1 /\ Len(b) = 1
      /\ b[1] = Len(d) % DataField
  BY <1>2
<1>4. y = [hasher |-> h4, reader |-> NoReader]
  BY DEF AbsorbLabeled, AbsorbInto
<1>5. h1 \in Seq(Nat) /\ Len(h1) = Len(x.hasher) + 1
      /\ \A i \in 1..Len(x.hasher) : h1[i] = x.hasher[i]
  BY <1>1, <1>3, ConcatProperties
<1>6. h2 \in Seq(Nat) /\ Len(h2) = Len(h1) + Len(l)
      /\ \A i \in 1..Len(h1) : h2[i] = h1[i]
  BY <1>1, <1>5, ConcatProperties
<1>7. h3 \in Seq(Nat) /\ Len(h3) = Len(h2) + 1
      /\ (\A i \in 1..Len(h2) : h3[i] = h2[i])
      /\ h3[Len(h2) + 1] = Len(d) % DataField
  BY <1>3, <1>6, ConcatProperties, LenProperties
<1>8. h4 \in Seq(Nat) /\ Len(h4) = Len(h3) + Len(d)
      /\ (\A i \in 1..Len(h3) : h4[i] = h3[i])
      /\ (\A i \in 1..Len(d) : h4[Len(h3) + i] = d[i])
  BY <1>1, <1>7, ConcatProperties, LenProperties
<1>9. Len(x.hasher) \in Nat /\ Len(l) \in Nat /\ Len(d) \in Nat
  BY <1>1, LenProperties
<1>10. y \in Xofs
  BY <1>4, <1>8, EmptySeq DEF Xofs, Readers, NoReader, Cells
<1>11. \A i \in 1..Len(x.hasher) : h4[i] = x.hasher[i]
  BY <1>5, <1>6, <1>7, <1>8, <1>9
<1>12. h4[Len(x.hasher) + Len(l) + 2] = Len(d) % DataField
  BY <1>5, <1>6, <1>7, <1>8, <1>9
<1>13. Len(h3) = Len(x.hasher) + Len(l) + 2
  BY <1>5, <1>6, <1>7, <1>9
<1>14. \A i \in 1..Len(d) : h4[Len(x.hasher) + Len(l) + 2 + i] = d[i]
  BY <1>8, <1>13
<1>15. Len(h4) = Len(x.hasher) + Len(l) + Len(d) + 2
  BY <1>8, <1>9, <1>13
<1>16. y.hasher = h4 /\ y.reader = NoReader
  BY <1>4
<1> HIDE DEF h4, y
<1>17. QED
  BY <1>10, <1>11, <1>12, <1>14, <1>15, <1>16 DEF AbsorbWrites, y

\* Two payloads absorbed under one label into one input contradict each
\* other: in the length field when the lengths differ, in a payload cell
\* otherwise.
LEMMA AbsorbsDiffer ==
  ASSUME NEW x \in Xofs, NEW l \in Labels, NEW d \in Data, NEW e \in Data,
         d # e
  PROVE  Differ(AbsorbLabeled(x, l, d).hasher, AbsorbLabeled(x, l, e).hasher)
<1> DEFINE p == AbsorbLabeled(x, l, d).hasher
           q == AbsorbLabeled(x, l, e).hasher
           h == Len(x.hasher) + Len(l) + 2
<1> SUFFICES Differ(p, q)
  OBVIOUS
<1>1. l \in Cells /\ d \in Cells /\ e \in Cells
  BY TranscriptAssumption
<1>2. Len(d) < DataField /\ Len(e) < DataField
  BY TranscriptAssumption
<1>3. Len(x.hasher) \in Nat /\ Len(l) \in Nat /\ Len(d) \in Nat
      /\ Len(e) \in Nat
  BY <1>1, LenProperties DEF Xofs, Cells
<1>4. Len(p) = h + Len(d) /\ p[h] = Len(d) % DataField
      /\ \A i \in 1..Len(d) : p[h + i] = d[i]
  <2>1. AbsorbWrites(x, l, d, AbsorbLabeled(x, l, d))
    BY <1>1, AbsorbShape
  <2>2. PICK y : y = AbsorbLabeled(x, l, d)
    OBVIOUS
  <2>3. AbsorbWrites(x, l, d, y) /\ p = y.hasher
    BY <2>1, <2>2
  <2> HIDE DEF p
  <2>4. /\ Len(p) = Len(x.hasher) + Len(l) + Len(d) + 2
        /\ p[h] = Len(d) % DataField
        /\ \A i \in 1..Len(d) : p[h + i] = d[i]
    BY <2>3 DEF AbsorbWrites
  <2>5. QED
    BY <1>3, <2>4
<1>5. Len(q) = h + Len(e) /\ q[h] = Len(e) % DataField
      /\ \A i \in 1..Len(e) : q[h + i] = e[i]
  <2>1. AbsorbWrites(x, l, e, AbsorbLabeled(x, l, e))
    BY <1>1, AbsorbShape
  <2>2. PICK y : y = AbsorbLabeled(x, l, e)
    OBVIOUS
  <2>3. AbsorbWrites(x, l, e, y) /\ q = y.hasher
    BY <2>1, <2>2
  <2> HIDE DEF q
  <2>4. /\ Len(q) = Len(x.hasher) + Len(l) + Len(e) + 2
        /\ q[h] = Len(e) % DataField
        /\ \A i \in 1..Len(e) : q[h + i] = e[i]
    BY <2>3 DEF AbsorbWrites
  <2>5. QED
    BY <1>3, <2>4
<1> HIDE DEF p, q
<1>6. CASE Len(d) # Len(e)
  <2>1. Len(d) % DataField = Len(d) /\ Len(e) % DataField = Len(e)
    BY <1>2, <1>3, FieldAssumption
  <2>2. h \in 1..Len(p) /\ h <= Len(q) /\ p[h] # q[h]
    BY <2>1, <1>4, <1>5, <1>3, <1>6
  <2>3. QED
    BY <2>2 DEF Differ
<1>7. CASE Len(d) = Len(e)
  <2>1. PICK i \in 1..Len(d) : d[i] # e[i]
    BY <1>1, <1>7, SeqEqual DEF Cells
  <2>2. h + i \in 1..Len(p) /\ h + i <= Len(q) /\ p[h + i] # q[h + i]
    BY <2>1, <1>4, <1>5, <1>3, <1>7
  <2>3. QED
    BY <2>2 DEF Differ
<1>8. QED
  BY <1>6, <1>7

\* Whatever is absorbed or squeezed later, an input only grows at its end.
LEMMA AfterExtends ==
  ASSUME NEW x \in Xofs, NEW step \in Steps
  PROVE  /\ After(x, step) \in Xofs
         /\ Result(x, step) \in Blocks
         /\ Extends(x.hasher, After(x, step).hasher)
         /\ step.op = "absorb"
              => Len(x.hasher) < Len(After(x, step).hasher)
<1>0. x.hasher \in Seq(Nat) /\ Len(x.hasher) \in Nat
  BY LenProperties DEF Xofs, Cells
<1>1. ASSUME NEW l \in Labels, NEW d \in Data, step = AbsorbStep(l, d)
      PROVE  /\ After(x, step) \in Xofs
             /\ Result(x, step) \in Blocks
             /\ Extends(x.hasher, After(x, step).hasher)
             /\ Len(x.hasher) < Len(After(x, step).hasher)
  <2>1. After(x, step) = AbsorbLabeled(x, l, d) /\ Result(x, step) = Nothing
    BY <1>1 DEF After, Result, AbsorbStep
  <2>2. l \in Cells /\ d \in Cells
    BY TranscriptAssumption
  <2>3. AbsorbWrites(x, l, d, AbsorbLabeled(x, l, d))
    BY <2>2, AbsorbShape
  <2>4. Len(l) \in Nat /\ Len(d) \in Nat
    BY <2>2, LenProperties DEF Cells
  <2>5. Nothing \in Blocks
    BY EmptySeq DEF Nothing, Blocks, Cells
  <2>6. QED
    BY <1>0, <2>1, <2>3, <2>4, <2>5 DEF AbsorbWrites, Extends
<1>2. ASSUME NEW n \in Lengths, step = ChallengeStep(n)
      PROVE  /\ After(x, step) \in Xofs
             /\ Result(x, step) \in Blocks
             /\ After(x, step).hasher = x.hasher
  <2>1. After(x, step) = AfterSqueeze(x, n) /\ Result(x, step) = Squeezed(x, n)
    BY <1>2 DEF After, Result, ChallengeStep
  <2>2. Stream(x) \in Readers
    BY DEF Stream, Xofs, Readers
  <2>3. n \in Nat
    BY TranscriptAssumption
  <2>4. QED
    BY <2>1, <2>2, <2>3 DEF AfterSqueeze, Squeezed, Blocks, Xofs, Readers
<1>3. QED
  BY <1>0, <1>1, <1>2 DEF Steps, Extends, ChallengeStep

LEMMA DifferKept ==
  ASSUME NEW s \in Cells, NEW t \in Cells, NEW u \in Cells, Differ(s, t)
  PROVE  /\ Extends(s, u) => Differ(u, t)
         /\ Extends(t, u) => Differ(s, u)
<1>1. Len(s) \in Nat /\ Len(t) \in Nat /\ Len(u) \in Nat
  BY LenProperties DEF Cells
<1>2. QED
  BY <1>1 DEF Differ, Extends

-----------------------------------------------------------------------------
\* An input that contradicts the prover's history tr from step f on, and that
\* is longer than anything the prover had absorbed up to step f.
Detached(m, tr) ==
  \E f \in 1..(Len(tr) - 1) :
    /\ \A j \in (f + 1)..Len(tr) : Differ(m, tr[j].hasher)
    /\ \A j \in 1..f : Len(tr[j].hasher) < Len(m)

\* The prover's history is what its steps make it.
TrailInv ==
  /\ trail[1] = NewXof(Domain)
  /\ \A j \in 1..Len(schedule) :
       /\ trail[j + 1] = After(trail[j], schedule[j])
       /\ proverOut[j] = Result(trail[j], schedule[j])

\* The prover's inputs extend one another.
GrowInv == \A i, j \in 1..Len(trail) :
             i <= j => Extends(trail[i].hasher, trail[j].hasher)

\* A reader in use was finalised from the current input.
Current(x) == x.reader.live => x.reader.of = x.hasher

ReaderInv ==
  /\ \A j \in 1..Len(trail) : Current(trail[j])
  /\ Current(transcript)

\* In step while nothing was changed, detached for good afterwards.
ReplayInv ==
  IF forged = {}
  THEN transcript = trail[Len(verifierOut) + 1]
  ELSE Detached(transcript.hasher, trail)

\* The same for every challenge already drawn.
OutInv ==
  \A i \in Challenges :
    IF forged \cap 1..i = {}
    THEN verifierOut[i] = proverOut[i]
    ELSE Detached(verifierOut[i].of, trail)

IInv == TypeOK /\ TrailInv /\ GrowInv /\ ReaderInv /\ ReplayInv /\ OutInv

\* The prover moving on does not bring its history back to a detached input.
LEMMA DetachedKept ==
  ASSUME NEW tr \in Seq(Xofs), NEW y \in Xofs, NEW m \in Cells,
         Len(tr) > 0, Extends(tr[Len(tr)].hasher, y.hasher), Detached(m, tr)
  PROVE  Detached(m, Append(tr, y))
<1>1. PICK f \in 1..(Len(tr) - 1) :
        /\ \A j \in (f + 1)..Len(tr) : Differ(m, tr[j].hasher)
        /\ \A j \in 1..f : Len(tr[j].hasher) < Len(m)
  BY DEF Detached
<1>2. Len(tr) \in Nat
  BY LenProperties
<1>3. Len(Append(tr, y)) = Len(tr) + 1
      /\ (\A j \in 1..Len(tr) : Append(tr, y)[j] = tr[j])
      /\ Append(tr, y)[Len(tr) + 1] = y
  BY AppendProperties
<1>4. Differ(m, tr[Len(tr)].hasher)
  BY <1>1, <1>2
<1>5. tr[Len(tr)] \in Xofs
  BY <1>2, ElementOfSeq
<1>6. tr[Len(tr)].hasher \in Cells /\ y.hasher \in Cells
  BY <1>5 DEF Xofs
<1>7. Differ(m, y.hasher)
  BY <1>4, <1>6, DifferKept
<1> DEFINE ts == Append(tr, y)
<1>8. Len(ts) = Len(tr) + 1 /\ \A j \in 1..Len(tr) : ts[j] = tr[j]
  BY <1>3
<1>9. ts[Len(tr) + 1] = y
  BY <1>3
<1> SUFFICES Detached(m, ts)
  OBVIOUS
<1> HIDE DEF ts
<1>10. \A j \in (f + 1)..Len(ts) : Differ(m, ts[j].hasher)
  BY <1>1, <1>2, <1>7, <1>8, <1>9
<1>11. \A j \in 1..f : Len(ts[j].hasher) < Len(m)
  BY <1>1, <1>2, <1>8
<1>12. f \in 1..(Len(ts) - 1)
  BY <1>2, <1>8
<1>13. QED
  BY <1>10, <1>11, <1>12 DEF Detached

\* An input that was detached stays so when it grows.
LEMMA DetachedGrows ==
  ASSUME NEW tr \in Seq(Xofs), NEW m \in Cells, NEW u \in Cells,
         Extends(m, u), Detached(m, tr)
  PROVE  Detached(u, tr)
<1>1. PICK f \in 1..(Len(tr) - 1) :
        /\ \A j \in (f + 1)..Len(tr) : Differ(m, tr[j].hasher)
        /\ \A j \in 1..f : Len(tr[j].hasher) < Len(m)
  BY DEF Detached
<1>2. Len(tr) \in Nat /\ Len(m) \in Nat /\ Len(u) \in Nat /\ Len(m) <= Len(u)
  BY LenProperties DEF Cells, Extends
<1>3. ASSUME NEW j \in 1..Len(tr)
      PROVE  tr[j].hasher \in Cells /\ Len(tr[j].hasher) \in Nat
  <2>1. tr[j] \in Xofs
    BY <1>2, ElementOfSeq
  <2>2. QED
    BY <2>1, LenProperties DEF Xofs, Cells
<1>4. \A j \in (f + 1)..Len(tr) : Differ(u, tr[j].hasher)
  BY <1>1, <1>2, <1>3, DifferKept
<1>5. \A j \in 1..f : Len(tr[j].hasher) < Len(u)
  BY <1>1, <1>2, <1>3
<1>6. QED
  BY <1>4, <1>5 DEF Detached

LEMMA ExtendsTransitive ==
  ASSUME NEW s \in Cells, NEW t \in Cells, NEW u \in Cells,
         Extends(s, t), Extends(t, u)
  PROVE  Extends(s, u)
<1>1. Len(s) \in Nat /\ Len(t) \in Nat /\ Len(u) \in Nat
  BY LenProperties DEF Cells
<1>2. QED
  BY <1>1 DEF Extends

-----------------------------------------------------------------------------
LEMMA CurrentAfter ==
  ASSUME NEW x \in Xofs, NEW step \in Steps, Current(x)
  PROVE  Current(After(x, step))
<1>1. ASSUME NEW l \in Labels, NEW d \in Data, step = AbsorbStep(l, d)
      PROVE  After(x, step).reader.live = FALSE
  BY <1>1 DEF After, AbsorbStep, AbsorbLabeled, AbsorbInto, NoReader
<1>2. ASSUME NEW n \in Lengths, step = ChallengeStep(n)
      PROVE  After(x, step).reader.of = x.hasher
             /\ After(x, step).hasher = x.hasher
  BY <1>2 DEF After, ChallengeStep, AfterSqueeze, Stream, Current, Xofs, Readers
<1>3. QED
  BY <1>1, <1>2 DEF Steps, Current

LEMMA InitIInv == Init => IInv
<1> SUFFICES ASSUME Init PROVE IInv
  OBVIOUS
<1>1. NewXof(Domain) \in Xofs
  BY TranscriptAssumption, EmptySeq
  DEF NewXof, Xofs, Readers, NoReader, Cells
<1>2. TypeOK
  BY <1>1, EmptySeq, TranscriptAssumption DEF Init, TypeOK
<1>3. TrailInv /\ ReplayInv /\ OutInv
  BY DEF Init, TrailInv, ReplayInv, OutInv, Challenges
<1>6. GrowInv
  BY DEF Init, GrowInv, Extends
<1>4. ReaderInv
  BY DEF Init, ReaderInv, Current, NewXof, NoReader
<1>5. QED
  BY <1>2, <1>3, <1>4, <1>6 DEF IInv

LEMMA ProverKeepsIInv ==
  ASSUME IInv, NEW step \in Steps, ProverStep(step)
  PROVE  IInv'
<1> DEFINE n == Len(schedule)
           x == trail[n + 1]
           y == After(x, step)
<1> USE DEF IInv
<1>1. n \in Nat /\ Len(trail) = n + 1 /\ Len(verifierOut) \in Nat
      /\ Len(proverOut) = n /\ Len(verifierOut) <= n
      /\ trail \in Seq(Xofs) /\ schedule \in Seq(Steps) /\ proverOut \in Seq(Blocks)
  BY LenProperties DEF TypeOK
<1>2. x \in Xofs /\ trail[Len(trail)] = x
  BY <1>1, ElementOfSeq
<1>3. y \in Xofs /\ Result(x, step) \in Blocks /\ Extends(x.hasher, y.hasher)
  BY <1>2, AfterExtends
<1>4. /\ schedule' = Append(schedule, step)
      /\ trail' = Append(trail, y)
      /\ proverOut' = Append(proverOut, Result(x, step))
      /\ n < MaxSteps
      /\ UNCHANGED <<transcript, verifierOut, forged>>
  BY <1>2 DEF ProverStep
<1>5. /\ schedule' \in Seq(Steps) /\ Len(schedule') = n + 1
      /\ \A j \in 1..n : schedule'[j] = schedule[j]
      /\ schedule'[n + 1] = step
  BY <1>1, <1>4, AppendProperties
<1>6. /\ trail' \in Seq(Xofs) /\ Len(trail') = n + 2
      /\ \A j \in 1..(n + 1) : trail'[j] = trail[j]
      /\ trail'[n + 2] = y
  BY <1>1, <1>3, <1>4, AppendProperties
<1>7. /\ proverOut' \in Seq(Blocks) /\ Len(proverOut') = n + 1
      /\ \A j \in 1..n : proverOut'[j] = proverOut[j]
      /\ proverOut'[n + 1] = Result(x, step)
  BY <1>1, <1>3, <1>4, AppendProperties
<1> HIDE DEF y
<1>8. TypeOK'
  BY <1>1, <1>4, <1>5, <1>6, <1>7, TranscriptAssumption DEF TypeOK
<1>9. TrailInv'
  <2>1. trail'[1] = NewXof(Domain)
    BY <1>1, <1>6 DEF TrailInv
  <2>2. ASSUME NEW j \in 1..n
        PROVE  /\ trail'[j + 1] = After(trail'[j], schedule'[j])
               /\ proverOut'[j] = Result(trail'[j], schedule'[j])
    BY <1>1, <1>5, <1>6, <1>7 DEF TrailInv
  <2>3. /\ trail'[n + 2] = After(trail'[n + 1], schedule'[n + 1])
        /\ proverOut'[n + 1] = Result(trail'[n + 1], schedule'[n + 1])
    BY <1>1, <1>5, <1>6, <1>7 DEF y
  <2>4. ASSUME NEW j \in 1..Len(schedule')
        PROVE  /\ trail'[j + 1] = After(trail'[j], schedule'[j])
               /\ proverOut'[j] = Result(trail'[j], schedule'[j])
    <3>1. j \in 1..n \/ (j = n + 1 /\ j + 1 = n + 2)
      BY <1>1, <1>5
    <3>2. QED
      BY <2>2, <2>3, <3>1
  <2>5. QED
    BY <2>1, <2>4 DEF TrailInv
<1>10. ReaderInv'
  <2>1. Current(y)
    BY <1>1, <1>2, CurrentAfter DEF ReaderInv, y
  <2>2. \A j \in 1..(n + 2) : Current(trail'[j])
    BY <2>1, <1>1, <1>6 DEF ReaderInv
  <2>3. QED
    BY <2>2, <1>4, <1>6 DEF ReaderInv, Current
<1>11. ASSUME NEW m \in Cells, Detached(m, trail)
       PROVE  Detached(m, trail')
  <2>1. Len(trail) > 0 /\ Extends(trail[Len(trail)].hasher, y.hasher)
    BY <1>1, <1>2, <1>3
  <2>2. Detached(m, Append(trail, y))
    BY <2>1, <1>1, <1>3, <1>11, DetachedKept
  <2>3. QED
    BY <2>2, <1>4
<1>12. ReplayInv'
  <2>1. transcript.hasher \in Cells
    BY DEF TypeOK, Xofs
  <2>2. QED
    BY <2>1, <1>1, <1>4, <1>6, <1>11 DEF ReplayInv
<1>13. OutInv'
  <2>1. Challenges' = Challenges
    BY <1>1, <1>4, <1>5 DEF Challenges
  <2>2. ASSUME NEW i \in Challenges
        PROVE  IF forged \cap 1..i = {}
               THEN verifierOut[i] = proverOut'[i]
               ELSE Detached(verifierOut[i].of, trail')
    <3>1. i \in 1..n /\ i \in 1..Len(verifierOut)
      BY <1>1 DEF Challenges
    <3>2. verifierOut[i] \in Blocks
      BY <3>1, ElementOfSeq DEF TypeOK
    <3>3. verifierOut[i].of \in Cells
      BY <3>2 DEF Blocks
    <3>4. QED
      BY <3>1, <3>3, <1>7, <1>11 DEF OutInv
  <2>3. QED
    BY <2>1, <2>2, <1>4 DEF OutInv
<1>14. GrowInv'
  <2>1. ASSUME NEW i \in 1..(n + 1)
        PROVE  Extends(trail[i].hasher, y.hasher)
    <3>1. trail[i] \in Xofs
      BY <1>1, <2>1, ElementOfSeq
    <3>2. Extends(trail[i].hasher, x.hasher)
      BY <1>1 DEF GrowInv
    <3>3. trail[i].hasher \in Cells /\ x.hasher \in Cells /\ y.hasher \in Cells
      BY <1>2, <1>3, <3>1 DEF Xofs
    <3>4. QED
      BY <1>3, <3>2, <3>3, ExtendsTransitive
  <2>2. Extends(y.hasher, y.hasher)
    BY <1>3, LenProperties DEF Xofs, Cells, Extends
  <2>3. ASSUME NEW i \in 1..(n + 2), NEW j \in 1..(n + 2), i <= j
        PROVE  Extends(trail'[i].hasher, trail'[j].hasher)
    <3>1. CASE j \in 1..(n + 1)
      BY <1>1, <1>6, <2>3, <3>1 DEF GrowInv
    <3>2. CASE j = n + 2 /\ i \in 1..(n + 1)
      BY <1>6, <2>1, <3>2
    <3>3. CASE j = n + 2 /\ i = n + 2
      BY <1>6, <2>2, <3>3
    <3>4. QED
      BY <1>1, <3>1, <3>2, <3>3
  <2>4. QED
    BY <1>6, <2>3 DEF GrowInv
<1>15. QED
  BY <1>8, <1>9, <1>10, <1>12, <1>13, <1>14

\* What the verifier may replay in place of the prover's step s.
LEMMA ReplayedStep ==
  ASSUME NEW s \in Steps, NEW step,
         \/ /\ s.op = "absorb"
            /\ \E received \in Data : step = AbsorbStep(s.label, received)
         \/ step = s
  PROVE  /\ step \in Steps
         /\ step # s => \E l \in Labels : \E d, e \in Data :
                          d # e /\ s = AbsorbStep(l, d) /\ step = AbsorbStep(l, e)
BY DEF Steps, AbsorbStep, ChallengeStep

LEMMA VerifierKeepsIInv ==
  ASSUME IInv, VerifierStep
  PROVE  IInv'
<1> DEFINE n == Len(schedule)
           k == Len(verifierOut) + 1
           s == schedule[k]
<1> USE DEF IInv
<1>1. n \in Nat /\ Len(trail) = n + 1 /\ Len(verifierOut) \in Nat
      /\ k \in 1..n /\ verifierOut \in Seq(Blocks)
      /\ trail \in Seq(Xofs) /\ schedule \in Seq(Steps) /\ proverOut \in Seq(Blocks)
  BY LenProperties DEF TypeOK, VerifierStep
<1>2. s \in Steps /\ trail[k] \in Xofs /\ trail[k + 1] \in Xofs
  BY <1>1, ElementOfSeq
<1>3. PICK step : /\ Replay(k, step)
                  /\ \/ /\ s.op = "absorb"
                        /\ \E received \in Data :
                             step = AbsorbStep(s.label, received)
                     \/ step = s
  BY DEF VerifierStep
<1>4. /\ step \in Steps
      /\ step # s => \E l \in Labels : \E d, e \in Data :
                       d # e /\ s = AbsorbStep(l, d) /\ step = AbsorbStep(l, e)
  BY <1>2, <1>3, ReplayedStep
<1> DEFINE z == After(transcript, step)
           r == Result(transcript, step)
<1>5. /\ transcript' = z
      /\ verifierOut' = Append(verifierOut, r)
      /\ forged' = forged \cup (IF step = s THEN {} ELSE {k})
      /\ UNCHANGED <<schedule, trail, proverOut>>
  BY <1>3 DEF Replay
<1>6. /\ z \in Xofs /\ r \in Blocks
      /\ Extends(transcript.hasher, z.hasher)
      /\ step.op = "absorb" => Len(transcript.hasher) < Len(z.hasher)
  BY <1>4, AfterExtends DEF TypeOK
<1>7. transcript.hasher \in Cells /\ z.hasher \in Cells
  BY <1>6 DEF TypeOK, Xofs
<1>8. /\ verifierOut' \in Seq(Blocks) /\ Len(verifierOut') = k
      /\ \A i \in 1..(k - 1) : verifierOut'[i] = verifierOut[i]
      /\ verifierOut'[k] = r
  BY <1>1, <1>5, <1>6, AppendProperties
<1>9. forged \subseteq 1..(k - 1)
  BY <1>1 DEF TypeOK
<1> HIDE DEF z, r
<1>10. TypeOK'
  <2>1. 1..(k - 1) \subseteq 1..k /\ k \in 1..k
    BY <1>1
  <2>2. forged' \subseteq 1..k
    BY <1>5, <1>9, <2>1
  <2>3. QED
    BY <1>1, <1>5, <1>6, <1>8, <2>2 DEF TypeOK
<1>11. TrailInv' /\ GrowInv'
  BY <1>5 DEF TrailInv, GrowInv, Extends
<1>12. ReaderInv'
  <2>1. Current(z)
    BY <1>4, CurrentAfter DEF ReaderInv, z, TypeOK
  <2>2. QED
    BY <2>1, <1>5 DEF ReaderInv, Current
<1>13. ReplayInv'
  <2>1. CASE forged = {} /\ step = s
    <3>1. transcript = trail[k] /\ trail[k + 1] = After(trail[k], s)
      BY <1>1, <2>1 DEF ReplayInv, TrailInv
    <3>2. transcript' = trail'[Len(verifierOut') + 1]
      BY <1>5, <1>8, <2>1, <3>1 DEF z
    <3>3. QED
      BY <1>5, <2>1, <3>2 DEF ReplayInv
  <2>2. CASE forged = {} /\ step # s
    <3>1. transcript = trail[k] /\ trail[k + 1] = After(trail[k], s)
      BY <1>1, <2>2 DEF ReplayInv, TrailInv
    <3>2. PICK l \in Labels, d \in Data, e \in Data :
            d # e /\ s = AbsorbStep(l, d) /\ step = AbsorbStep(l, e)
      BY <1>4, <2>2
    <3>3. /\ z = AbsorbLabeled(trail[k], l, e)
          /\ trail[k + 1] = AbsorbLabeled(trail[k], l, d)
          /\ step.op = "absorb"
      BY <3>1, <3>2 DEF z, After, AbsorbStep
    <3>4. Differ(z.hasher, trail[k + 1].hasher)
      BY <1>2, <3>2, <3>3, AbsorbsDiffer
    <3>5. ASSUME NEW j \in (k + 1)..Len(trail)
          PROVE  Differ(z.hasher, trail[j].hasher)
      <4>1. trail[j] \in Xofs
        BY <1>1, ElementOfSeq
      <4>2. trail[j].hasher \in Cells /\ trail[k + 1].hasher \in Cells
        BY <1>2, <4>1 DEF Xofs
      <4>3. Extends(trail[k + 1].hasher, trail[j].hasher)
        BY <1>1 DEF GrowInv
      <4>4. QED
        BY <1>7, <3>4, <4>2, <4>3, DifferKept
    <3>6. ASSUME NEW j \in 1..k
          PROVE  Len(trail[j].hasher) < Len(z.hasher)
      <4>1. trail[j] \in Xofs
        BY <1>1, ElementOfSeq
      <4>2. Len(trail[j].hasher) \in Nat /\ Len(transcript.hasher) \in Nat
            /\ Len(z.hasher) \in Nat
        BY <1>7, <4>1, LenProperties DEF Xofs, Cells
      <4>3. Len(trail[j].hasher) <= Len(trail[k].hasher)
        <5>1. j \in 1..Len(trail) /\ k \in 1..Len(trail) /\ j <= k
          BY <1>1
        <5>2. Extends(trail[j].hasher, trail[k].hasher)
          BY <5>1 DEF GrowInv
        <5>3. QED
          BY <5>2 DEF Extends
      <4>4. QED
        BY <1>6, <3>1, <3>3, <4>2, <4>3
    <3>7. Detached(z.hasher, trail)
      BY <1>1, <3>5, <3>6 DEF Detached
    <3>8. QED
      BY <1>5, <2>2, <3>7 DEF ReplayInv
  <2>3. CASE forged # {}
    <3>1. Detached(z.hasher, trail)
      BY <1>1, <1>6, <1>7, <2>3, DetachedGrows DEF ReplayInv
    <3>2. QED
      BY <1>5, <2>3, <3>1 DEF ReplayInv
  <2>4. QED
    BY <2>1, <2>2, <2>3
<1>14. OutInv'
  <2>1. ASSUME NEW i \in 1..(k - 1)
        PROVE  forged' \cap 1..i = forged \cap 1..i
    BY <1>1, <1>5
  <2>2. ASSUME NEW i \in 1..(k - 1), schedule[i].op = "challenge"
        PROVE  IF forged' \cap 1..i = {}
               THEN verifierOut'[i] = proverOut[i]
               ELSE Detached(verifierOut'[i].of, trail)
    <3>1. i \in Challenges
      BY <1>1, <2>2 DEF Challenges
    <3>2. verifierOut'[i] = verifierOut[i]
      BY <1>8
    <3>3. QED
      BY <2>1, <3>1, <3>2 DEF OutInv
  <2>3. ASSUME s.op = "challenge"
        PROVE  IF forged' \cap 1..k = {}
               THEN verifierOut'[k] = proverOut[k]
               ELSE Detached(verifierOut'[k].of, trail)
    <3>1. step = s
      BY <1>3, <2>3
    <3>2. forged' = forged /\ forged \cap 1..k = forged
      <4>1. forged' = forged
        BY <1>5, <3>1
      <4>2. 1..(k - 1) \subseteq 1..k
        BY <1>1
      <4>3. QED
        BY <1>9, <4>1, <4>2
    <3>3. CASE forged = {}
      BY <1>1, <1>8, <3>1, <3>2, <3>3 DEF ReplayInv, TrailInv, r
    <3>4. CASE forged # {}
      <4>1. r.of = transcript.hasher
        BY <2>3, <3>1 DEF r, Result, Squeezed, Stream, ReaderInv, Current
      <4>2. QED
        BY <1>8, <3>2, <3>4, <4>1 DEF ReplayInv
    <3>5. QED
      BY <3>3, <3>4
  <2>4. ASSUME NEW i \in Challenges'
        PROVE  i \in 1..k /\ schedule[i].op = "challenge"
    BY <1>5, <1>8 DEF Challenges
  <2>5. QED
    <3>1. ASSUME NEW i \in Challenges'
          PROVE  IF forged' \cap 1..i = {}
                 THEN verifierOut'[i] = proverOut[i]
                 ELSE Detached(verifierOut'[i].of, trail)
      <4>1. i \in 1..(k - 1) \/ i = k
        BY <1>1, <2>4
      <4>2. QED
        BY <2>2, <2>3, <2>4, <4>1
    <3>2. QED
      BY <1>5, <3>1 DEF OutInv
<1>15. QED
  BY <1>10, <1>11, <1>12, <1>13, <1>14

-----------------------------------------------------------------------------
\* The inductive invariant holds in every reachable state.
THEOREM Inductive == Spec => []IInv
<1>1. ASSUME IInv, [Next]_vars
      PROVE  IInv'
  <2>1. CASE Next
    BY <1>1, <2>1, ProverKeepsIInv, VerifierKeepsIInv DEF Next
  <2>2. CASE UNCHANGED vars
    <3> USE <1>1, <2>2 DEF vars, IInv
    <3>1. TypeOK'
      BY DEF TypeOK
    <3>2. TrailInv' /\ GrowInv'
      BY DEF TrailInv, GrowInv
    <3>3. ReaderInv'
      BY DEF ReaderInv, Current
    <3>4. ReplayInv'
      BY DEF ReplayInv
    <3>5. Challenges' = Challenges
      BY DEF Challenges
    <3>6. OutInv'
      BY <3>5 DEF OutInv
    <3>7. QED
      BY <3>1, <3>2, <3>3, <3>4, <3>6
  <2>3. QED
    BY <1>1, <2>1, <2>2
<1>2. QED
  BY <1>1, InitIInv, PTL DEF Spec

\* What a detached input means for a step of the prover.
LEMMA DetachedIsOther ==
  ASSUME IInv, NEW m \in Cells, Detached(m, trail), NEW j \in 1..Len(trail)
  PROVE  m # trail[j].hasher
<1>1. Len(trail) \in Nat /\ Len(m) \in Nat
  BY LenProperties DEF IInv, TypeOK, Cells
<1>2. PICK f \in 1..(Len(trail) - 1) :
        /\ \A i \in (f + 1)..Len(trail) : Differ(m, trail[i].hasher)
        /\ \A i \in 1..f : Len(trail[i].hasher) < Len(m)
  BY DEF Detached
<1>3. j \in (f + 1)..Len(trail) \/ j \in 1..f
  BY <1>1
<1>4. QED
  BY <1>1, <1>2, <1>3 DEF Differ

\* The block of a prover's challenge names the input of its step.
LEMMA ProverBlock ==
  ASSUME IInv, NEW j \in 1..Len(schedule), schedule[j].op = "challenge"
  PROVE  /\ j \in 1..Len(trail)
         /\ proverOut[j] = Squeezed(trail[j], schedule[j].n)
         /\ proverOut[j].of = trail[j].hasher
<1>1. j \in 1..Len(trail)
  BY LenProperties DEF IInv, TypeOK
<1>2. proverOut[j] = Squeezed(trail[j], schedule[j].n)
  BY DEF IInv, TrailInv, Result
<1>3. QED
  BY <1>1, <1>2 DEF Squeezed, Stream, IInv, ReaderInv, Current

\* ChallengeBindsPrefix: a verifier draws the
\* prover's challenge exactly when nothing was changed, and a changed payload
\* separates the two transcripts for good.
THEOREM Binding == Spec => []ChallengeBindsPrefix
<1>1. ASSUME IInv
      PROVE  ChallengeBindsPrefix
  <2>1. ASSUME NEW i \in Challenges, forged \cap 1..i # {},
               NEW j \in 1..Len(proverOut), schedule[j].op = "challenge"
        PROVE  verifierOut[i].of # proverOut[j].of
    <3>1. j \in 1..Len(schedule) /\ i \in 1..Len(verifierOut)
      BY <1>1 DEF IInv, TypeOK, Challenges
    <3>2. verifierOut[i] \in Blocks
      BY <1>1, <3>1, ElementOfSeq DEF IInv, TypeOK
    <3>3. verifierOut[i].of \in Cells /\ Detached(verifierOut[i].of, trail)
      BY <1>1, <2>1, <3>2 DEF IInv, OutInv, Blocks
    <3>4. QED
      BY <1>1, <2>1, <3>1, <3>3, ProverBlock, DetachedIsOther
  <2>2. ForgeryNeverRejoins
    BY <2>1 DEF ForgeryNeverRejoins, Overlap
  <2>3. ASSUME NEW i \in Challenges
        PROVE  i \in 1..Len(proverOut) /\ schedule[i].op = "challenge"
    BY <1>1, LenProperties DEF IInv, TypeOK, Challenges
  <2>4. ChallengesTellPrefixes
    BY <1>1, <2>1, <2>3 DEF ChallengesTellPrefixes, IInv, OutInv
  <2>5. QED
    BY <2>2, <2>4 DEF ChallengeBindsPrefix
<1>2. QED
  BY <1>1, Inductive, PTL

-----------------------------------------------------------------------------
\* Output already handed out lies behind the transcript: it came from a
\* shorter input, or from an earlier part of the live stream.
Behind(b, x) == \/ Len(b.of) < Len(x.hasher)
                \/ /\ b.of = x.hasher
                   /\ x.reader.live
                   /\ b.from + b.len <= x.reader.pos

FreshInv == \A i, j \in 1..Len(trail) :
              (i < j /\ schedule[i].op = "challenge")
                => Behind(proverOut[i], trail[j])

\* One step leaves everything behind the transcript behind it, and a
\* challenge behind the transcript it advanced.
LEMMA StepLeavesBehind ==
  ASSUME NEW x \in Xofs, NEW step \in Steps, Current(x)
  PROVE  /\ \A b \in Blocks : Behind(b, x) => Behind(b, After(x, step))
         /\ step.op = "challenge" => Behind(Result(x, step), After(x, step))
<1>1. ASSUME NEW l \in Labels, NEW d \in Data, step = AbsorbStep(l, d),
             NEW b \in Blocks, Behind(b, x)
      PROVE  Behind(b, After(x, step))
  <2>1. Len(x.hasher) < Len(After(x, step).hasher)
    BY <1>1, AfterExtends DEF AbsorbStep
  <2>2. After(x, step) \in Xofs
    BY AfterExtends
  <2>3. Len(x.hasher) \in Nat /\ Len(b.of) \in Nat
        /\ Len(After(x, step).hasher) \in Nat
    BY <2>2, LenProperties DEF Xofs, Blocks, Cells
  <2>4. QED
    BY <1>1, <2>1, <2>3 DEF Behind
<1>2. ASSUME NEW n \in Lengths, step = ChallengeStep(n)
      PROVE  /\ \A b \in Blocks : Behind(b, x) => Behind(b, After(x, step))
             /\ Behind(Result(x, step), After(x, step))
  <2>1. After(x, step) = AfterSqueeze(x, n) /\ Result(x, step) = Squeezed(x, n)
    BY <1>2 DEF After, Result, ChallengeStep
  <2>2. n \in Nat
    BY TranscriptAssumption
  <2>3. /\ Stream(x) \in Readers /\ Stream(x).live
        /\ Stream(x).of = x.hasher
        /\ x.reader.live => Stream(x).pos = x.reader.pos
    BY DEF Stream, Current, Xofs, Readers
  <2>4. /\ AfterSqueeze(x, n).hasher = x.hasher
        /\ AfterSqueeze(x, n).reader.live
        /\ AfterSqueeze(x, n).reader.pos = Stream(x).pos + n
    BY <2>3 DEF AfterSqueeze, Readers
  <2>5. Stream(x).pos \in Nat
    BY <2>3 DEF Readers
  <2>6. Behind(Squeezed(x, n), AfterSqueeze(x, n))
    BY <2>2, <2>3, <2>4, <2>5 DEF Behind, Squeezed
  <2>7. ASSUME NEW b \in Blocks, Behind(b, x)
        PROVE  Behind(b, AfterSqueeze(x, n))
    BY <2>2, <2>3, <2>4, <2>5, <2>7 DEF Behind, Blocks
  <2>8. QED
    BY <2>1, <2>6, <2>7
<1>3. QED
  BY <1>1, <1>2 DEF Steps, AbsorbStep, ChallengeStep

LEMMA ProverKeepsFresh ==
  ASSUME IInv, IInv', FreshInv, NEW step \in Steps, ProverStep(step)
  PROVE  FreshInv'
<1> DEFINE n == Len(schedule)
           x == trail[n + 1]
<1>1. n \in Nat /\ Len(trail) = n + 1 /\ Len(proverOut) = n
      /\ trail \in Seq(Xofs) /\ schedule \in Seq(Steps) /\ proverOut \in Seq(Blocks)
  BY LenProperties DEF IInv, TypeOK
<1>2. x \in Xofs /\ trail[Len(trail)] = x /\ Current(x)
  BY <1>1, ElementOfSeq DEF IInv, ReaderInv
<1>3. After(x, step) \in Xofs /\ Result(x, step) \in Blocks
  BY <1>2, AfterExtends
<1>4. /\ schedule' = Append(schedule, step)
      /\ trail' = Append(trail, After(x, step))
      /\ proverOut' = Append(proverOut, Result(x, step))
  BY <1>2 DEF ProverStep
<1>5. /\ \A j \in 1..n : schedule'[j] = schedule[j]
      /\ schedule'[n + 1] = step
  BY <1>1, <1>4, AppendProperties
<1>6. /\ Len(trail') = n + 2
      /\ \A j \in 1..(n + 1) : trail'[j] = trail[j]
      /\ trail'[n + 2] = After(x, step)
  BY <1>1, <1>3, <1>4, AppendProperties
<1>7. /\ \A j \in 1..n : proverOut'[j] = proverOut[j] /\ proverOut[j] \in Blocks
      /\ proverOut'[n + 1] = Result(x, step)
  BY <1>1, <1>3, <1>4, AppendProperties, ElementOfSeq
<1>8. ASSUME NEW i \in 1..(n + 2), NEW j \in 1..(n + 2), i < j,
             schedule'[i].op = "challenge"
      PROVE  Behind(proverOut'[i], trail'[j])
  <2>1. CASE j \in 1..(n + 1)
    BY <1>1, <1>5, <1>6, <1>7, <1>8, <2>1 DEF FreshInv
  <2>2. CASE j = n + 2 /\ i \in 1..n
    <3>1. Behind(proverOut[i], x)
      BY <1>1, <1>5, <1>8, <2>2 DEF FreshInv
    <3>2. QED
      BY <1>2, <1>6, <1>7, <2>2, <3>1, StepLeavesBehind
  <2>3. CASE j = n + 2 /\ i = n + 1
    BY <1>2, <1>5, <1>6, <1>7, <1>8, <2>3, StepLeavesBehind
  <2>4. QED
    BY <1>1, <1>8, <2>1, <2>2, <2>3
<1>9. QED
  BY <1>6, <1>8 DEF FreshInv

\* ChallengesAreFresh: no two challenges of a transcript share output.
THEOREM Freshness == Spec => []ChallengesAreFresh
<1>1. Init => FreshInv
  BY DEF Init, FreshInv
<1>2. ASSUME IInv, IInv', FreshInv, [Next]_vars
      PROVE  FreshInv'
  <2>1. CASE VerifierStep
    BY <1>2, <2>1 DEF VerifierStep, Replay, FreshInv, Behind
  <2>2. CASE UNCHANGED vars
    BY <1>2, <2>2 DEF vars, FreshInv, Behind
  <2>3. QED
    BY <1>2, <2>1, <2>2, ProverKeepsFresh DEF Next
<1>3. ASSUME IInv, FreshInv
      PROVE  ChallengesAreFresh
  <2>1. ASSUME NEW i \in 1..Len(proverOut), NEW j \in 1..Len(proverOut), i < j,
               schedule[i].op = "challenge", schedule[j].op = "challenge"
        PROVE  ~Overlap(proverOut[i], proverOut[j])
               /\ ~Overlap(proverOut[j], proverOut[i])
    <3>1. Len(schedule) \in Nat /\ Len(proverOut) = Len(schedule)
          /\ Len(trail) = Len(schedule) + 1
      BY <1>3, LenProperties DEF IInv, TypeOK
    <3>2. Behind(proverOut[i], trail[j])
      BY <1>3, <2>1, <3>1 DEF FreshInv
    <3>3. proverOut[j] = Squeezed(trail[j], schedule[j].n)
          /\ proverOut[j].of = trail[j].hasher
      BY <1>3, <2>1, <3>1, ProverBlock
    <3>4. trail[j].reader.live => proverOut[j].from = trail[j].reader.pos
      BY <3>3 DEF Squeezed, Stream
    <3>5. proverOut[i] \in Blocks /\ proverOut[j] \in Blocks
      BY <1>3, <2>1, ElementOfSeq DEF IInv, TypeOK
    <3>6. Len(proverOut[i].of) \in Nat
      BY <3>5, LenProperties DEF Blocks, Cells
    <3>7. QED
      BY <3>2, <3>3, <3>4, <3>5, <3>6 DEF Behind, Overlap, Blocks
  <2>2. Len(proverOut) \in Nat
    BY <1>3, LenProperties DEF IInv, TypeOK
  <2>3. QED
    BY <2>1, <2>2 DEF ChallengesAreFresh
<1>4. QED
  BY <1>1, <1>2, <1>3, Inductive, PTL DEF Spec

-----------------------------------------------------------------------------
(***************************************************************************)
(* Counting.                                                               *)
(***************************************************************************)
\* Sets matched one to one have the same size.
LEMMA SameCount ==
  ASSUME NEW S, IsFiniteSet(S), NEW T, NEW m \in [S -> T],
         \A x, y \in S : m[x] = m[y] => x = y, \A y \in T : \E x \in S : m[x] = y
  PROVE  IsFiniteSet(T) /\ Cardinality(T) = Cardinality(S)
<1>1. m \in Bijection(S, T)
  BY DEF Bijection, Injection, Surjection, IsInjective
<1>2. ExistsBijection(S, T)
  BY <1>1 DEF ExistsBijection
<1>3. QED
  BY <1>2, FS_Bijection

Fibre(D, f, x) == {w \in D : f[w] = x}
EvenParts(D, S, f, c) ==
  /\ IsFiniteSet(S) /\ c \in Nat /\ \A w \in D : f[w] \in S
  /\ \A x \in S : IsFiniteSet(Fibre(D, f, x)) /\ Cardinality(Fibre(D, f, x)) = c

\* A set cut into as many parts as S has elements, each of c elements.
LEMMA EqualFibres ==
  ASSUME NEW D, NEW S, NEW f, NEW c, EvenParts(D, S, f, c)
  PROVE  IsFiniteSet(D) /\ Cardinality(D) = c * Cardinality(S)
<1>0. /\ IsFiniteSet(S) /\ c \in Nat /\ \A w \in D : f[w] \in S
      /\ \A x \in S : IsFiniteSet(Fibre(D, f, x)) /\ Cardinality(Fibre(D, f, x)) = c
  BY DEF EvenParts
<1> DEFINE On(s) == {w \in D : f[w] \in s}
           W == {s \in SUBSET S : IsFiniteSet(On(s)) /\ Cardinality(On(s)) = c * Cardinality(s)}
<1>1. \A s \in SUBSET S : IsFiniteSet(s) /\ Cardinality(s) \in Nat
  BY <1>0, FS_Subset, FS_CardinalityType
<1>2. {} \in W
  <2>1. On({}) = {}
    OBVIOUS
  <2> HIDE DEF On
  <2>2. QED
    BY <1>0, <2>1, FS_EmptySet
<1>3. ASSUME NEW s \in SUBSET S, s # {}, \A x \in s : s \ {x} \in W PROVE s \in W
  <2>1. PICK x : x \in s
    BY <1>3
  <2>2. PICK A, B : A = On(s \ {x}) /\ B = {w \in D : f[w] = x}
    OBVIOUS
  <2>3. On(s) = A \cup B /\ A \cap B = {}
    BY <2>1, <2>2
  <2>4. IsFiniteSet(A) /\ Cardinality(A) = c * Cardinality(s \ {x})
    BY <1>3, <2>1, <2>2
  <2>5. IsFiniteSet(B) /\ Cardinality(B) = c
    BY <1>0, <2>1, <2>2 DEF Fibre
  <2>6. Cardinality(s \ {x}) = Cardinality(s) - 1 /\ Cardinality(s) \in Nat
    BY <1>1, <2>1, FS_RemoveElement
  <2>7. Cardinality(A) \in Nat /\ Cardinality(B) \in Nat
    BY <2>4, <2>5, FS_CardinalityType
  <2>8. IsFiniteSet(A \cup B) /\ Cardinality(A \cup B) = Cardinality(A) + Cardinality(B)
    <3>1. Cardinality(A \cap B) = 0
      BY <2>3, FS_EmptySet
    <3>2. /\ IsFiniteSet(A \cup B)
          /\ Cardinality(A \cup B) = Cardinality(A) + Cardinality(B) - Cardinality(A \cap B)
      BY <2>4, <2>5, FS_Union
    <3>3. QED
      BY <2>7, <3>1, <3>2
  <2>9. PICK n \in Nat : n = Cardinality(s)
    BY <2>6
  <2>10. c * (n - 1) + c = c * n
    BY <1>0
  <2>11. QED
    BY <1>0, <2>3, <2>4, <2>5, <2>6, <2>8, <2>9, <2>10
<1>4. S \in W
  <2> HIDE DEF W
  <2>1. QED
    BY <1>0, <1>2, <1>3, SetInduction
<1>5. On(S) = D
  BY <1>0
<1> HIDE DEF On
<1>6. QED
  BY <1>4, <1>5

LEMMA EvenFibres ==
  ASSUME NEW S, IsFiniteSet(S), NEW f, IsFiniteSet(DOMAIN f), DOMAIN f # {},
         \A w \in DOMAIN f : f[w] \in S, NEW c \in Nat,
         \A x \in S : Cardinality({w \in DOMAIN f : f[w] = x}) = c
  PROVE  EquallyOften(S, f)
<1>1. \A x \in S : {w \in DOMAIN f : f[w] = x} \in SUBSET DOMAIN f
  OBVIOUS
<1>2. \A x \in S : IsFiniteSet({w \in DOMAIN f : f[w] = x})
  BY <1>1, FS_Subset
<1>5. EvenParts(DOMAIN f, S, f, c)
  BY <1>2 DEF EvenParts, Fibre
<1>3. Cardinality(DOMAIN f) = c * Cardinality(S)
  BY <1>5, EqualFibres
<1>4. QED
  BY <1>3 DEF EquallyOften

\* Each residue modulo n is met c times below c * n.
LEMMA ResidueFibre ==
  ASSUME NEW n \in Nat, n > 0, NEW c \in Nat, NEW x \in 0 .. n - 1
  PROVE  Cardinality({w \in 0 .. c * n - 1 : w % n = x}) = c
<1> DEFINE m == [j \in 0 .. c - 1 |-> x + n * j]
           T == {w \in 0 .. c * n - 1 : w % n = x}
<1>1. IsFiniteSet(0 .. c - 1) /\ Cardinality(0 .. c - 1) = c
  BY FS_Interval
<1>2. ASSUME NEW j \in 0 .. c - 1 PROVE m[j] \in T
  <2>1. x + n * j \in Int /\ (x + n * j) % n = x
    <3>1. n * j \in Int
      OBVIOUS
    <3>2. PICK a \in Int : a = n * j + x
      BY <3>1
    <3>3. a % n = x
      BY <3>2, DivModUnique
    <3>4. QED
      BY <3>2, <3>3
  <2>2. 0 <= n * j /\ n * j <= n * (c - 1)
    <3>1. n * (c - 1 - j) >= 0 /\ n * (c - 1 - j) = n * (c - 1) - n * j
      OBVIOUS
    <3>2. QED
      BY <3>1
  <2>3. n * (c - 1) = c * n - n
    OBVIOUS
  <2>4. QED
    BY <2>1, <2>2, <2>3
<1>3. \A i, j \in 0 .. c - 1 : m[i] = m[j] => i = j
  <2>1. ASSUME NEW i \in 0 .. c - 1, NEW j \in 0 .. c - 1, m[i] = m[j] PROVE i = j
    <3>1. n * (i - j) = 0
      BY <2>1
    <3>2. QED
      BY <3>1
  <2>2. QED
    BY <2>1
<1>4. ASSUME NEW w \in T PROVE \E j \in 0 .. c - 1 : m[j] = w
  <2>1. PICK k \in Int : k = w \div n /\ w = n * k + x
    BY DivMod
  <2>2. k >= 0
    <3>1. SUFFICES ASSUME k <= -1 PROVE FALSE
      BY <2>1
    <3>2. n * k <= -n
      <4>1. n * (-1 - k) >= 0 /\ n * (-1 - k) = -n - n * k
        BY <3>1
      <4>2. QED
        BY <4>1
    <3>3. QED
      BY <2>1, <3>2
  <2>3. k <= c - 1
    <3>1. SUFFICES ASSUME k >= c PROVE FALSE
      BY <2>1
    <3>2. n * k >= n * c
      <4>1. n * (k - c) >= 0 /\ n * (k - c) = n * k - n * c
        BY <3>1
      <4>2. QED
        BY <4>1
    <3>3. QED
      BY <2>1, <3>2
  <2>4. QED
    BY <2>1, <2>2, <2>3
<1>5. m \in [0 .. c - 1 -> T]
  BY <1>2
<1> HIDE DEF m, T
<1>6. Cardinality(T) = Cardinality(0 .. c - 1)
  BY <1>1, <1>3, <1>4, <1>5, SameCount
<1>7. QED
  BY <1>1, <1>6 DEF T

-----------------------------------------------------------------------------
(***************************************************************************)
(* Coefficients.                                                           *)
(***************************************************************************)
LEMMA Pow2Facts ==
  /\ Pow2[0] = 1
  /\ \A n \in Nat : Pow2[n] \in Nat /\ Pow2[n] > 0 /\ Pow2[n + 1] = 2 * Pow2[n]
<1>1. PICK P : P = Pow2
  OBVIOUS
<1>2. P = CHOOSE g : g = [n \in Nat |-> IF n = 0 THEN 1 ELSE 2 * g[n - 1]]
  BY <1>1 DEF Pow2
<1>3. QED
  BY <1>1, <1>2, PowersOfTwo

LEMMA Pow2Sum == \A m, n \in Nat : Pow2[m + n] = Pow2[m] * Pow2[n]
<1>1. SUFFICES ASSUME NEW m \in Nat PROVE \A n \in Nat : Pow2[m + n] = Pow2[m] * Pow2[n]
  OBVIOUS
<1> DEFINE W == {n \in Nat : Pow2[m + n] = Pow2[m] * Pow2[n]}
<1>2. 0 \in W
  BY Pow2Facts
<1>3. ASSUME NEW n \in Nat, n \in W PROVE n + 1 \in W
  <2>1. m + (n + 1) = (m + n) + 1 /\ m + n \in Nat
    OBVIOUS
  <2>2. Pow2[m + (n + 1)] = 2 * Pow2[m + n] /\ Pow2[n + 1] = 2 * Pow2[n]
    BY <2>1, Pow2Facts
  <2>3. PICK a \in Int, b \in Int : a = Pow2[m] /\ b = Pow2[n]
    BY Pow2Facts
  <2>4. 2 * (a * b) = a * (2 * b)
    OBVIOUS
  <2>5. QED
    BY <1>3, <2>2, <2>3, <2>4
<1>4. \A n \in Nat : n \in W
  <2> HIDE DEF W
  <2>1. QED
    BY <1>2, <1>3, NatSetInduction
<1>5. QED
  BY <1>4

LEMMA Pow2Grows == \A m, n \in Nat : m <= n => Pow2[m] <= Pow2[n]
<1>1. SUFFICES ASSUME NEW m \in Nat, NEW n \in Nat, m <= n PROVE Pow2[m] <= Pow2[n]
  OBVIOUS
<1>2. n - m \in Nat /\ m + (n - m) = n
  BY <1>1
<1>3. Pow2[n] = Pow2[m] * Pow2[n - m]
  BY <1>2, Pow2Sum
<1>4. PICK a \in Nat, b \in Nat : a = Pow2[m] /\ b = Pow2[n - m] /\ b > 0
  BY <1>2, Pow2Facts
<1>5. a * b >= a
  <2>1. a * (b - 1) >= 0 /\ a * (b - 1) = a * b - a
    BY <1>4
  <2>2. QED
    BY <2>1
<1>6. QED
  BY <1>3, <1>4, <1>5

\* The length is the number of bits: it leaves no value out and no bit unused.
LEMMA BitLenFacts ==
  ASSUME NEW x \in Nat, x < Pow2[Bits]
  PROVE  /\ BitLen(x) \in 1 .. Bits /\ x < Pow2[BitLen(x)]
         /\ BitLen(x) = 1 \/ Pow2[BitLen(x) - 1] <= x
<1>1. Bits \in Nat /\ Bits > 2
  BY SamplersAssumption
<1> DEFINE T == {n \in 1 .. Bits : Pow2[n] > x}
<1>2. T \in SUBSET Nat /\ T # {}
  BY <1>1
<1>3. PICK n \in T : \A k \in T : n <= k
  <2> HIDE DEF T
  <2>1. QED
    BY <1>2, LeastOf
<1>4. n = 1 \/ Pow2[n - 1] <= x
  <2>1. SUFFICES ASSUME n # 1 PROVE Pow2[n - 1] <= x
    OBVIOUS
  <2>2. n - 1 \in 1 .. Bits /\ n - 1 \notin T
    BY <1>1, <1>3, <2>1
  <2>3. n - 1 \in Nat
    BY <2>2
  <2>4. Pow2[n - 1] \in Nat
    BY <2>3, Pow2Facts
  <2>5. QED
    BY <2>2, <2>4
<1>5. \E k \in 1 .. Bits : Pow2[k] > x /\ (k = 1 \/ Pow2[k - 1] <= x)
  BY <1>4
<1>6. QED
  BY <1>5 DEF BitLen

\* The mask keeps exactly the bits of the largest coefficient.
LEMMA CoefficientsUniform ==
  ASSUME NEW q \in Moduli
  PROVE  EquallyOften(0 .. q - 1, [w \in {v \in Words : CoeffTaken(q, v)} |-> Coeff(q, w)])
<1>1. /\ Bits \in Nat /\ Bits > 2 /\ Bits - 1 \in Nat /\ (Bits - 1) + 1 = Bits
      /\ q \in 2 .. Pow2[Bits - 1]
  BY SamplersAssumption
<1>2. Pow2[Bits - 1] \in Nat /\ Pow2[Bits] = 2 * Pow2[Bits - 1]
  BY <1>1, Pow2Facts
<1>3. PICK l \in Nat : /\ l = BitLen(q - 1) /\ l >= 1 /\ l <= Bits /\ q - 1 < Pow2[l]
                       /\ l = 1 \/ Pow2[l - 1] <= q - 1
  <2>1. q - 1 \in Nat /\ q - 1 < Pow2[Bits]
    BY <1>1, <1>2
  <2>2. QED
    BY <1>1, <2>1, BitLenFacts
<1>4. l < Bits
  <2>1. SUFFICES ASSUME l = Bits PROVE FALSE
    BY <1>1, <1>3
  <2>2. QED
    BY <1>1, <1>2, <1>3, <2>1
<1>5. l % Bits = l
  <2>1. PICK z \in Int : z = 0
    OBVIOUS
  <2>2. l = Bits * z + l
    BY <1>1, <2>1
  <2>3. QED
    BY <1>1, <1>3, <1>4, <2>1, <2>2, DivModUnique
<1>6. PICK n \in Nat : n = Pow2[l] /\ n > 0 /\ q <= n
  BY <1>1, <1>3, Pow2Facts
<1>7. \A w : Coeff(q, w) = w % n
  BY <1>3, <1>5, <1>6 DEF Coeff, Mask
<1>8. PICK c \in Nat : c = Pow2[Bits - l] /\ c > 0 /\ Pow2[Bits] = c * n
  <2>1. Bits - l \in Nat /\ (Bits - l) + l = Bits
    BY <1>1, <1>4
  <2>2. Pow2[Bits] = Pow2[Bits - l] * Pow2[l]
    BY <2>1, <1>3, Pow2Sum
  <2>3. QED
    BY <1>6, <2>1, <2>2, Pow2Facts
<1> DEFINE f == [w \in {v \in Words : CoeffTaken(q, v)} |-> Coeff(q, w)]
<1>9. DOMAIN f = {w \in 0 .. c * n - 1 : w % n < q} /\ \A w \in DOMAIN f : f[w] = w % n
  BY <1>7, <1>8 DEF Words, CoeffTaken
<1> HIDE DEF f
<1>10. IsFiniteSet(DOMAIN f)
  <2>1. c * n \in Int
    BY <1>8
  <2>2. IsFiniteSet(0 .. c * n - 1)
    BY <2>1, FS_Interval
  <2>3. DOMAIN f \in SUBSET (0 .. c * n - 1)
    BY <1>9
  <2>4. QED
    BY <2>2, <2>3, FS_Subset
<1>11. DOMAIN f # {}
  <2>1. c * n >= 1
    <3>1. c * n >= n
      <4>1. (c - 1) * n >= 0 /\ (c - 1) * n = c * n - n
        BY <1>6, <1>8
      <4>2. QED
        BY <4>1
    <3>2. QED
      BY <1>6, <3>1
  <2>2. 0 % n = 0
    <3>1. PICK z \in Int : z = 0 /\ z = n * z + z
      OBVIOUS
    <3>2. z % n = z
      BY <1>6, <3>1, DivModUnique
    <3>3. QED
      BY <3>1, <3>2
  <2>3. 0 \in DOMAIN f
    BY <1>1, <1>9, <2>1, <2>2
  <2>4. QED
    BY <2>3
<1>12. \A w \in DOMAIN f : f[w] \in 0 .. q - 1
  <2>1. ASSUME NEW w \in DOMAIN f PROVE f[w] \in 0 .. q - 1
    <3>1. w \in Int /\ w % n < q /\ f[w] = w % n
      BY <1>8, <1>9
    <3>2. w % n \in 0 .. n - 1
      BY <1>6, <3>1, DivMod
    <3>3. QED
      BY <1>1, <3>1, <3>2
  <2>2. QED
    BY <2>1
<1>13. ASSUME NEW x \in 0 .. q - 1 PROVE Cardinality({w \in DOMAIN f : f[w] = x}) = c
  <2>1. {w \in DOMAIN f : f[w] = x} = {w \in 0 .. c * n - 1 : w % n = x}
    BY <1>1, <1>9
  <2>2. x \in 0 .. n - 1
    BY <1>1, <1>6
  <2>3. QED
    BY <1>6, <2>1, <2>2, ResidueFibre
<1>14. IsFiniteSet(0 .. q - 1)
  BY <1>1, FS_Interval
<1>15. EquallyOften(0 .. q - 1, f)
  <2>1. PICK S : S = 0 .. q - 1
    OBVIOUS
  <2>2. /\ IsFiniteSet(S) /\ c \in Nat /\ \A w \in DOMAIN f : f[w] \in S
        /\ \A x \in S : Cardinality({w \in DOMAIN f : f[w] = x}) = c
    BY <2>1, <1>8, <1>12, <1>13, <1>14
  <2>3. EquallyOften(S, f)
    BY <1>10, <1>11, <2>2, EvenFibres
  <2>4. QED
    BY <2>1, <2>3
<1>16. QED
  BY <1>15 DEF f

LEMMA SmallPowers == Pow2[1] = 2 /\ Pow2[2] = 4 /\ Pow2[3] = 8 /\ Pow2[4] = 16
<1>1. Pow2[0 + 1] = 2 * Pow2[0] /\ Pow2[1 + 1] = 2 * Pow2[1]
      /\ Pow2[2 + 1] = 2 * Pow2[2] /\ Pow2[3 + 1] = 2 * Pow2[3]
  BY Pow2Facts
<1>2. QED
  BY <1>1, Pow2Facts

\* Reading t modulo 5 with a product and a shift.
LEMMA FifthsAreExact ==
  \A t \in 0 .. 14 : t - ((t * 205) \div 1024) * 5
                       = IF t < 5 THEN t ELSE IF t < 10 THEN t - 5 ELSE t - 10
<1>1. SUFFICES ASSUME NEW t \in 0 .. 14
               PROVE  (t * 205) \div 1024 = IF t < 5 THEN 0 ELSE IF t < 10 THEN 1 ELSE 2
  BY <1>1
<1>2. QED
  OBVIOUS

\* Three nibbles, one nibble or one group of bits for every coefficient.
LEMMA BoundedUniform ==
  ASSUME NEW eta \in Bounds
  PROVE  EquallyOften(-eta .. eta,
                      [w \in {t \in BitGroups(eta) : BoundedTaken(eta, t)} |-> Bounded(eta, w)])
<1>1. eta \in Nat /\ eta > 0 /\ 2 * eta \in Nat /\ 2 * eta < Pow2[Bits]
  <2>1. Bits - 1 \in Nat /\ (Bits - 1) + 1 = Bits /\ eta \in 1 .. Pow2[Bits - 1] - 1
    BY SamplersAssumption
  <2>2. Pow2[Bits - 1] \in Nat /\ Pow2[Bits] = 2 * Pow2[Bits - 1]
    BY <2>1, Pow2Facts
  <2>3. QED
    BY <2>1, <2>2
<1> DEFINE f == [w \in {t \in BitGroups(eta) : BoundedTaken(eta, t)} |-> Bounded(eta, w)]
<1>2. PICK S : S = -eta .. eta
  OBVIOUS
<1>3. IsFiniteSet(S) /\ 0 \in S
  <2>1. -eta \in Int /\ eta \in Int
    BY <1>1
  <2>2. QED
    BY <1>1, <1>2, <2>1, FS_Interval
<1>4. CASE eta = 2
  <2>1. BitGroups(eta) = 0 .. 15 /\ \A t : BoundedTaken(eta, t) <=> t < 15
    BY <1>4, SmallPowers DEF BitGroups, BoundedBits, BoundedTaken
  <2>2. \A t : Bounded(eta, t) = 2 - (t - ((t * 205) \div 1024) * 5)
    BY <1>4 DEF Bounded
  <2>3. DOMAIN f = 0 .. 14
    BY <2>1
  <2>4. \A t \in 0 .. 14 : f[t] = IF t < 5 THEN 2 - t ELSE IF t < 10 THEN 7 - t ELSE 12 - t
    BY <2>2, <2>3, FifthsAreExact
  <2> HIDE DEF f
  <2>5. IsFiniteSet(DOMAIN f) /\ DOMAIN f # {}
    <3>1. PICK z \in Int, e \in Int : z = 0 /\ e = 14
      OBVIOUS
    <3>2. IsFiniteSet(z .. e)
      BY FS_Interval
    <3>3. QED
      BY <2>3, <3>1, <3>2
  <2>6. \A w \in DOMAIN f : f[w] \in S
    BY <1>2, <1>4, <2>3, <2>4
  <2>7. \A x \in S : Cardinality({w \in DOMAIN f : f[w] = x}) = 3
    <3>1. SUFFICES ASSUME NEW x \in S PROVE Cardinality({w \in DOMAIN f : f[w] = x}) = 3
      OBVIOUS
    <3>2. x \in -2 .. 2
      BY <1>2, <1>4
    <3>3. PICK a, b, c : a = 2 - x /\ b = 7 - x /\ c = 12 - x
      OBVIOUS
    <3>4. a # b /\ a # c /\ b # c
      BY <3>2, <3>3
    <3>5. {w \in DOMAIN f : f[w] = x} = {a} \cup {b} \cup {c}
      BY <2>3, <2>4, <3>2, <3>3
    <3>6. PICK A, B : A = {a} /\ B = A \cup {b}
      OBVIOUS
    <3>9. IsFiniteSet(A) /\ Cardinality(A) = 1 /\ b \notin A /\ c \notin B
      BY <3>4, <3>6, FS_Singleton
    <3>10. IsFiniteSet(B) /\ Cardinality(B) = 2
      BY <3>6, <3>9, FS_AddElement
    <3>7. Cardinality({a} \cup {b} \cup {c}) = 3
      <4>1. Cardinality(B \cup {c}) = 2 + 1
        BY <3>9, <3>10, FS_AddElement
      <4>2. QED
        BY <3>6, <4>1
    <3>8. QED
      BY <3>5, <3>7
  <2>8. 3 \in Nat
    OBVIOUS
  <2>9. EquallyOften(S, f)
    BY <1>3, <2>5, <2>6, <2>7, <2>8, EvenFibres
  <2>10. QED
    BY <1>2, <2>9 DEF f
<1>5. CASE eta # 2
  <2>1. PICK lo \in Int, s \in Int :
          /\ s = 1 \/ s = -1
          /\ DOMAIN f = 0 .. 2 * eta
          /\ \A t \in 0 .. 2 * eta : f[t] = s * t + lo
          /\ lo + s * eta = 0
    <3>1. CASE eta = 4
      <4>1. BitGroups(eta) = 0 .. 15 /\ \A t : BoundedTaken(eta, t) <=> t < 9
        BY <3>1, SmallPowers DEF BitGroups, BoundedBits, BoundedTaken
      <4>2. \A t : Bounded(eta, t) = 4 - t
        BY <3>1 DEF Bounded
      <4>3. DOMAIN f = 0 .. 8
        BY <4>1
      <4>4. \A t \in 0 .. 8 : f[t] = (-1) * t + 4
        BY <4>2, <4>3
      <4>5. PICK s \in Int, lo \in Int : s = -1 /\ lo = 4
        OBVIOUS
      <4>6. \A t \in 0 .. 8 : f[t] = s * t + lo
        BY <4>4, <4>5
      <4>7. lo + s * eta = 0 /\ DOMAIN f = 0 .. 2 * eta /\ 2 * eta = 8
        BY <3>1, <4>3, <4>5
      <4>8. QED
        BY <4>5, <4>6, <4>7
    <3>2. CASE eta # 4
      <4>1. PICK l \in Nat : l = BitLen(2 * eta) /\ 2 * eta < Pow2[l]
        BY <1>1, BitLenFacts
      <4>2. BitGroups(eta) = 0 .. Pow2[l] - 1 /\ \A t : BoundedTaken(eta, t) <=> t <= 2 * eta
        BY <1>5, <3>2, <4>1 DEF BitGroups, BoundedBits, BoundedTaken
      <4>3. \A t : Bounded(eta, t) = t - eta
        BY <1>5, <3>2 DEF Bounded
      <4>4. Pow2[l] \in Nat
        BY Pow2Facts
      <4>5. DOMAIN f = 0 .. 2 * eta
        BY <1>1, <4>1, <4>2, <4>4
      <4>6. \A t \in 0 .. 2 * eta : f[t] = 1 * t + (-eta)
        BY <1>1, <4>3, <4>5
      <4>7. PICK s \in Int, lo \in Int : s = 1 /\ lo = -eta
        BY <1>1
      <4>8. \A t \in 0 .. 2 * eta : f[t] = s * t + lo
        BY <4>6, <4>7
      <4>9. lo + s * eta = 0
        BY <1>1, <4>7
      <4>10. QED
        BY <4>5, <4>7, <4>8, <4>9
    <3>3. QED
      BY <3>1, <3>2
  <2> HIDE DEF f
  <2>2. IsFiniteSet(DOMAIN f) /\ DOMAIN f # {}
    <3>1. IsFiniteSet(0 .. 2 * eta) /\ 0 \in 0 .. 2 * eta
      BY <1>1, FS_Interval
    <3>2. QED
      BY <2>1, <3>1
  <2>3. \A w \in DOMAIN f : f[w] \in S
    BY <1>1, <1>2, <2>1
  <2>4. \A x \in S : Cardinality({w \in DOMAIN f : f[w] = x}) = 1
    <3>1. SUFFICES ASSUME NEW x \in S PROVE Cardinality({w \in DOMAIN f : f[w] = x}) = 1
      OBVIOUS
    <3>2. x \in Int /\ -eta <= x /\ x <= eta
      BY <1>1, <1>2
    <3>3. PICK a \in Int : a = s * x + eta
      BY <1>1, <3>2
    <3>4. {w \in DOMAIN f : f[w] = x} = {a}
      BY <1>1, <2>1, <3>2, <3>3
    <3>5. QED
      BY <3>4, FS_Singleton
  <2>5. 1 \in Nat
    OBVIOUS
  <2>6. EquallyOften(S, f)
    BY <1>3, <2>2, <2>3, <2>4, <2>5, EvenFibres
  <2>7. QED
    BY <1>2, <2>6 DEF f
<1>6. QED
  BY <1>4, <1>5

\* The words below the limit are as many for every position.
LEMMA PositionsUniform ==
  ASSUME NEW k \in 1 .. Tau
  PROVE  EquallyOften(FixedPositions(k), [w \in 0 .. Limit(k) - 1 |-> Position(k, w)])
<1>1. /\ N \in Nat /\ k \in Int /\ k >= 1 /\ k < N
      /\ Pow2[Bits \div 2] \in Int /\ N < Pow2[Bits \div 2]
  <2>1. N \in Nat /\ Tau \in 1 .. N - 1
    BY SamplersAssumption, Pow2Facts
  <2>2. Bits \div 2 \in Nat /\ N < Pow2[Bits \div 2]
    BY SamplersAssumption
  <2>3. QED
    BY <2>1, <2>2, Pow2Facts
<1>2. PICK n \in Nat, l \in Nat : n = Span(k) /\ n > 0 /\ l = Pow2[Bits \div 2] - 1 /\ l >= n
  <2>1. PICK h \in Int : h = Pow2[Bits \div 2]
    BY <1>1
  <2>2. N - k + 1 \in Nat /\ N - k + 1 > 0 /\ h - 1 \in Nat /\ h - 1 >= N - k + 1
    BY <1>1, <2>1
  <2>3. QED
    BY <2>1, <2>2 DEF Span
<1>3. PICK c \in Nat : c > 0 /\ Limit(k) = c * n
  <2>1. PICK c \in Int, r \in Int : r = l % n /\ 0 <= r /\ r < n /\ l = n * c + r
    <3>1. l \in Int /\ n \in Nat /\ n > 0
      BY <1>2
    <3>2. l \div n \in Int /\ l % n \in 0 .. n - 1 /\ l = n * (l \div n) + (l % n)
      BY <3>1, DivMod
    <3>3. QED
      BY <3>2
  <2>2. Limit(k) = c * n
    BY <1>2, <2>1 DEF Limit
  <2>3. c > 0
    <3>1. SUFFICES ASSUME c <= 0 PROVE FALSE
      BY <2>1
    <3>2. n * (0 - c) >= 0 /\ n * (0 - c) = 0 - n * c
      BY <3>1
    <3>3. QED
      BY <1>2, <2>1, <3>2
  <2>4. QED
    BY <2>1, <2>2, <2>3
<1> DEFINE f == [w \in 0 .. Limit(k) - 1 |-> Position(k, w)]
<1>4. DOMAIN f = 0 .. c * n - 1 /\ \A w \in DOMAIN f : f[w] = k + (w % n)
  BY <1>2, <1>3 DEF Position
<1> HIDE DEF f
<1>5. c * n \in Int /\ c * n >= 1
  <2>1. (c - 1) * n >= 0 /\ (c - 1) * n = c * n - n
    BY <1>2, <1>3
  <2>2. QED
    BY <1>2, <2>1
<1>6. IsFiniteSet(DOMAIN f) /\ DOMAIN f # {}
  <2>1. IsFiniteSet(0 .. c * n - 1) /\ 0 \in 0 .. c * n - 1
    BY <1>5, FS_Interval
  <2>2. QED
    BY <1>4, <2>1
<1>7. PICK S : S = FixedPositions(k) /\ S = k .. N /\ n = N - k + 1
  BY <1>2 DEF FixedPositions, Span
<1>8. IsFiniteSet(S)
  BY <1>1, <1>7, FS_Interval
<1>9. \A w \in DOMAIN f : f[w] \in S
  <2>1. ASSUME NEW w \in DOMAIN f PROVE f[w] \in S
    <3>1. w \in Int /\ f[w] = k + (w % n)
      BY <1>4
    <3>2. w % n \in 0 .. n - 1
      BY <1>2, <3>1, DivMod
    <3>3. QED
      BY <1>1, <1>7, <3>1, <3>2
  <2>2. QED
    BY <2>1
<1>10. \A x \in S : Cardinality({w \in DOMAIN f : f[w] = x}) = c
  <2>1. ASSUME NEW x \in S PROVE Cardinality({w \in DOMAIN f : f[w] = x}) = c
    <3>1. PICK y \in 0 .. n - 1 : y = x - k
      BY <1>1, <1>7
    <3>2. ASSUME NEW w \in 0 .. c * n - 1 PROVE f[w] = x <=> w % n = y
      <4>1. PICK r \in Int : r = w % n
        BY <1>2, DivMod
      <4>2. f[w] = k + r
        BY <1>4, <4>1
      <4>3. QED
        BY <1>1, <1>7, <3>1, <4>1, <4>2
    <3>3. {w \in DOMAIN f : f[w] = x} = {w \in 0 .. c * n - 1 : w % n = y}
      BY <1>4, <3>2
    <3>4. n \in Nat /\ n > 0
      BY <1>2
    <3>5. Cardinality({w \in 0 .. c * n - 1 : w % n = y}) = c
      BY <3>4, ResidueFibre
    <3>6. QED
      BY <3>3, <3>5
  <2>2. QED
    BY <2>1
<1>11. EquallyOften(S, f)
  BY <1>6, <1>8, <1>9, <1>10, EvenFibres
<1>12. QED
  BY <1>7, <1>11 DEF f

-----------------------------------------------------------------------------
(***************************************************************************)
(* Vectors of signs.                                                       *)
(***************************************************************************)
Vectors == [Slots -> {-1, 0, 1}]

LEMMA SlotFacts ==
  /\ N \in Nat /\ Tau \in Nat /\ N >= 2 /\ Tau >= 1 /\ Tau < N
  /\ IsFiniteSet(Slots) /\ Cardinality(Slots) = N
<1>1. N \in Nat /\ Tau \in 1 .. N - 1
  BY SamplersAssumption, Pow2Facts
<1>2. 1 \in Int /\ N \in Int
  BY <1>1
<1>3. IsFiniteSet(1 .. N) /\ Cardinality(1 .. N) = IF 1 > N THEN 0 ELSE N - 1 + 1
  BY <1>2, FS_Interval
<1>4. QED
  BY <1>1, <1>3 DEF Slots

LEMMA FactorialFacts ==
  /\ Factorial[0] = 1
  /\ \A n \in Nat : Factorial[n] \in Nat /\ Factorial[n + 1] = (n + 1) * Factorial[n]
<1> DEFINE h == [p \in Nat \X Nat |-> p[1] * p[2]]
           Multiplies(g) == g = [n \in Nat |-> IF n = 0 THEN 1 ELSE n * g[n - 1]]
<1>1. PICK k : Recursion(1, h, Nat, k)
  BY RecursionExists
<1>2. k[0] = 1 /\ \A n \in Nat : n # 0 => k[n] = h[<<n, k[n - 1]>>]
  BY <1>1 DEF Recursion
<1>3. \A n \in Nat : k[n] \in Nat
  <2> DEFINE W == {m \in Nat : k[m] \in Nat}
  <2>1. 0 \in W
    BY <1>2
  <2>2. ASSUME NEW n \in Nat, n \in W PROVE n + 1 \in W
    <3>1. n + 1 \in Nat /\ n + 1 # 0 /\ (n + 1) - 1 = n
      OBVIOUS
    <3>2. k[n + 1] = h[<<n + 1, k[n]>>]
      BY <1>2, <3>1
    <3>3. k[n + 1] = (n + 1) * k[n]
      BY <2>2, <3>1, <3>2
    <3>4. QED
      BY <2>2, <3>1, <3>3
  <2>3. \A n \in Nat : n \in W
    <3> HIDE DEF W, h
    <3>1. QED
      BY <2>1, <2>2, NatSetInduction
  <2>4. QED
    BY <2>3
<1>4. \A n \in Nat : k[n] = IF n = 0 THEN 1 ELSE n * k[n - 1]
  <2>1. SUFFICES ASSUME NEW n \in Nat, n # 0 PROVE k[n] = n * k[n - 1]
    BY <1>2
  <2>2. n - 1 \in Nat
    BY <2>1
  <2>3. QED
    BY <1>2, <1>3, <2>1, <2>2
<1>5. Multiplies(k)
  <2>1. k = [n \in Nat |-> k[n]]
    BY <1>1 DEF Recursion
  <2> HIDE DEF h
  <2>2. QED
    BY <1>4, <2>1, Zenon
<1>6. Multiplies(Factorial)
  BY <1>5, Zenon DEF Factorial
<1>7. Factorial[0] = 1 /\ \A n \in Nat : Factorial[n + 1] = (n + 1) * Factorial[n]
  <2>1. \A n \in Nat : Factorial[n] = IF n = 0 THEN 1 ELSE n * Factorial[n - 1]
    BY <1>6
  <2>2. \A n \in Nat : n + 1 \in Nat /\ n + 1 # 0 /\ (n + 1) - 1 = n
    OBVIOUS
  <2>3. QED
    BY <2>1, <2>2
<1>8. \A n \in Nat : Factorial[n] \in Nat
  <2> DEFINE W == {m \in Nat : Factorial[m] \in Nat}
  <2>1. 0 \in W
    BY <1>7
  <2>2. ASSUME NEW n \in Nat, n \in W PROVE n + 1 \in W
    <3>1. Factorial[n] \in Nat /\ Factorial[n + 1] = (n + 1) * Factorial[n]
      BY <1>7, <2>2
    <3>2. QED
      BY <3>1
  <2>3. \A n \in Nat : n \in W
    <3> HIDE DEF W
    <3> QED BY <2>1, <2>2, NatSetInduction
  <2>4. QED
    BY <2>3
<1>9. QED
  BY <1>7, <1>8

LEMMA StreamFacts ==
  ASSUME NEW P, NEW m \in Nat, NEW d \in Streams(P, m)
  PROVE  /\ Len(d) = m /\ d \in [1 .. m -> Slots \X Signs]
         /\ \A k \in 1 .. m : /\ d[k] = <<d[k][1], d[k][2]>> /\ d[k][1] \in P[k]
                              /\ d[k][1] \in Slots /\ d[k][2] \in {-1, 1}
<1>1. d \in [1 .. m -> Slots \X Signs] /\ \A k \in 1 .. m : d[k][1] \in P[k]
  BY DEF Streams
<1>2. \A k \in 1 .. m : /\ d[k] = <<d[k][1], d[k][2]>>
                        /\ d[k][1] \in Slots /\ d[k][2] \in {-1, 1}
  <2>1. \A x \in Slots \X Signs : x = <<x[1], x[2]>> /\ x[1] \in Slots /\ x[2] \in {-1, 1}
    BY DEF Signs
  <2>2. \A k \in 1 .. m : d[k] \in Slots \X Signs
    BY <1>1
  <2>3. QED
    BY <2>1, <2>2
<1>3. Len(d) = m
  BY <1>1
<1>4. QED
  BY <1>1, <1>2, <1>3

\* A stream cut before its last draw, and one continued.
LEMMA StreamCut ==
  ASSUME NEW P, NEW m \in Nat, NEW d \in Streams(P, m + 1)
  PROVE  [k \in 1 .. m |-> d[k]] \in Streams(P, m)
<1>1. \A k \in 1 .. m : k \in 1 .. m + 1
  OBVIOUS
<1>2. QED
  BY <1>1 DEF Streams

LEMMA StreamMore ==
  ASSUME NEW P, NEW m \in Nat, NEW e \in Streams(P, m), NEW j \in Slots, NEW s \in Signs,
         j \in P[m + 1]
  PROVE  [k \in 1 .. m + 1 |-> IF k = m + 1 THEN <<j, s>> ELSE e[k]] \in Streams(P, m + 1)
<1> DEFINE d == [k \in 1 .. m + 1 |-> IF k = m + 1 THEN <<j, s>> ELSE e[k]]
<1>1. ASSUME NEW k \in 1 .. m + 1 PROVE d[k] \in Slots \X Signs /\ d[k][1] \in P[k]
  <2>1. CASE k = m + 1
    BY <2>1
  <2>2. CASE k # m + 1
    <3>1. k \in 1 .. m /\ d[k] = e[k]
      BY <2>2
    <3>2. QED
      BY <3>1 DEF Streams
  <2>3. QED
    BY <2>1, <2>2
<1>2. QED
  BY <1>1 DEF Streams

-----------------------------------------------------------------------------
(***************************************************************************)
(* SampleInBall.                                                           *)
(***************************************************************************)
BallFrom == [k \in Nat |-> BallPositions(k)]
NewSlot(m) == N - Tau + m
\* Every vector SampleInBall passes on the way.
BallRun(d, m, v) ==
  /\ v \in [0 .. m -> Vectors] /\ v[0] = Zero
  /\ \A k \in 1 .. m : v[k] = BallPut(v[k - 1], NewSlot(k), d[k][1], d[k][2])

LEMMA ZeroType == Zero \in Vectors
BY DEF Zero, Vectors

\* A put into an empty slot, and how it is taken back.
Back(u, i, j) == [u EXCEPT ![j] = u[i], ![i] = 0]

LEMMA PutFacts ==
  ASSUME NEW v \in Vectors, NEW i \in Slots, NEW j \in Slots, NEW s \in {-1, 1}
  PROVE  /\ BallPut(v, i, j, s) \in Vectors /\ BallPut(v, i, j, s)[j] = s
         /\ v[i] = 0 => Back(BallPut(v, i, j, s), i, j) = v
<1>1. BallPut(v, i, j, s) = [k \in Slots |-> IF k = j THEN s ELSE IF k = i THEN v[j] ELSE v[k]]
  BY DEF BallPut, Vectors
<1>2. v \in [Slots -> {-1, 0, 1}]
  BY DEF Vectors
<1>3. BallPut(v, i, j, s) \in Vectors /\ BallPut(v, i, j, s)[j] = s
  BY <1>1, <1>2 DEF Vectors
<1>4. ASSUME v[i] = 0 PROVE Back(BallPut(v, i, j, s), i, j) = v
  <2>1. PICK u : u = BallPut(v, i, j, s)
    OBVIOUS
  <2>2. u \in [Slots -> {-1, 0, 1}]
    BY <1>3, <2>1 DEF Vectors
  <2>3. Back(u, i, j) = [k \in Slots |-> IF k = i THEN 0 ELSE IF k = j THEN u[i] ELSE u[k]]
    BY <2>2 DEF Back
  <2>4. \A k \in Slots : Back(u, i, j)[k] = v[k]
    BY <1>1, <1>4, <2>1, <2>3
  <2>5. QED
    BY <1>2, <2>1, <2>3, <2>4
<1>5. QED
  BY <1>3, <1>4

LEMMA BackFacts ==
  ASSUME NEW u \in Vectors, NEW i \in Slots, NEW j \in Slots, u[j] # 0
  PROVE  /\ Back(u, i, j) \in Vectors /\ Back(u, i, j)[i] = 0
         /\ \A k \in Slots : u[k] = 0 /\ k # i => Back(u, i, j)[k] = 0
         /\ BallPut(Back(u, i, j), i, j, u[j]) = u
         /\ \E x \in Filled(u) : Filled(Back(u, i, j)) = Filled(u) \ {x}
<1>1. u \in [Slots -> {-1, 0, 1}]
  BY DEF Vectors
<1>2. PICK v : v = Back(u, i, j)
  OBVIOUS
<1>3. v = [k \in Slots |-> IF k = i THEN 0 ELSE IF k = j THEN u[i] ELSE u[k]]
  BY <1>1, <1>2 DEF Back
<1>4. v \in Vectors /\ v[i] = 0 /\ \A k \in Slots : u[k] = 0 /\ k # i => v[k] = 0
  BY <1>1, <1>3 DEF Vectors
<1>5. BallPut(v, i, j, u[j]) = u
  <2>1. BallPut(v, i, j, u[j]) = [k \in Slots |-> IF k = j THEN u[j] ELSE IF k = i THEN v[j] ELSE v[k]]
    BY <1>3 DEF BallPut
  <2>2. \A k \in Slots : BallPut(v, i, j, u[j])[k] = u[k]
    BY <1>3, <2>1
  <2>3. QED
    BY <1>1, <2>1, <2>2
<1>6. \E x \in Filled(u) : Filled(v) = Filled(u) \ {x}
  <2>1. CASE u[i] = 0
    <3>1. j \in Filled(u) /\ Filled(v) = Filled(u) \ {j}
      BY <1>3, <2>1 DEF Filled
    <3>2. QED
      BY <3>1
  <2>2. CASE u[i] # 0
    <3>1. i \in Filled(u) /\ Filled(v) = Filled(u) \ {i}
      BY <1>3, <2>2 DEF Filled
    <3>2. QED
      BY <3>1
  <2>3. QED
    BY <2>1, <2>2
<1>7. QED
  BY <1>2, <1>4, <1>5, <1>6

LEMMA NewSlotFacts ==
  ASSUME NEW k \in 1 .. Tau
  PROVE  NewSlot(k) \in Slots /\ BallFrom[k] = 1 .. NewSlot(k)
BY SlotFacts DEF NewSlot, Slots, BallFrom, BallPositions

\* What SampleInBall returns is the last of the vectors it passes.
LEMMA BallIs ==
  ASSUME NEW m \in Nat, NEW d, Len(d) = m, NEW v, BallRun(d, m, v)
  PROVE  Ball(d) = v[m]
<1> DEFINE Puts(g) == g = [k \in 0 .. m |-> IF k = 0 THEN Zero
                                           ELSE BallPut(g[k - 1], N - Tau + k, d[k][1], d[k][2])]
<1>1. Puts(v)
  <2>1. v = [k \in 0 .. m |-> v[k]]
    BY DEF BallRun
  <2>2. \A k \in 0 .. m : v[k] = IF k = 0 THEN Zero
                                ELSE BallPut(v[k - 1], N - Tau + k, d[k][1], d[k][2])
    BY DEF BallRun, NewSlot
  <2>3. QED
    BY <2>1, <2>2, Zenon
<1>2. PICK g : g = CHOOSE h : Puts(h)
  OBVIOUS
<1>3. Puts(g)
  BY <1>1, <1>2, Zenon
<1>4. BallAfter(d) = g
  BY <1>2, Zenon DEF BallAfter
<1>5. g[0] = v[0] /\ \A k \in Nat : k + 1 <= m /\ g[k] = v[k] => g[k + 1] = v[k + 1]
  <2>1. \A k \in 0 .. m : /\ g[k] = IF k = 0 THEN Zero
                                    ELSE BallPut(g[k - 1], N - Tau + k, d[k][1], d[k][2])
                          /\ v[k] = IF k = 0 THEN Zero
                                    ELSE BallPut(v[k - 1], N - Tau + k, d[k][1], d[k][2])
    BY <1>1, <1>3
  <2>2. 0 \in 0 .. m /\ \A k \in Nat : k + 1 <= m => k + 1 \in 0 .. m /\ k + 1 # 0 /\ (k + 1) - 1 = k
    OBVIOUS
  <2>3. g[0] = v[0]
    BY <2>1, <2>2
  <2>4. ASSUME NEW k \in Nat, k + 1 <= m, g[k] = v[k] PROVE g[k + 1] = v[k + 1]
    <3>1. k + 1 \in 0 .. m /\ k + 1 # 0 /\ (k + 1) - 1 = k
      BY <2>2, <2>4
    <3>2. /\ g[k + 1] = BallPut(g[k], N - Tau + (k + 1), d[k + 1][1], d[k + 1][2])
          /\ v[k + 1] = BallPut(v[k], N - Tau + (k + 1), d[k + 1][1], d[k + 1][2])
      BY <2>1, <3>1
    <3>3. QED
      BY <2>4, <3>2
  <2>5. QED
    BY <2>3, <2>4
<1> DEFINE W == {k \in Nat : k <= m => g[k] = v[k]}
<1>6. \A k \in Nat : k \in W
  <2>1. 0 \in W
    BY <1>5
  <2>2. \A k \in Nat : k \in W => k + 1 \in W
    BY <1>5
  <2> HIDE DEF W
  <2>3. QED
    BY <2>1, <2>2, NatSetInduction
<1>7. g[m] = v[m]
  BY <1>6
<1>8. QED
  BY <1>4, <1>7 DEF Ball

LEMMA BallRunMore ==
  ASSUME NEW m \in Nat, m < Tau, NEW d \in Streams(BallFrom, m + 1), NEW v,
         BallRun([k \in 1 .. m |-> d[k]], m, v)
  PROVE  BallRun(d, m + 1, [k \in 0 .. m + 1 |->
                   IF k = m + 1 THEN BallPut(v[m], NewSlot(m + 1), d[m + 1][1], d[m + 1][2])
                   ELSE v[k]])
<1> DEFINE w == [k \in 0 .. m + 1 |->
                   IF k = m + 1 THEN BallPut(v[m], NewSlot(m + 1), d[m + 1][1], d[m + 1][2])
                   ELSE v[k]]
<1>1. v \in [0 .. m -> Vectors] /\ v[0] = Zero
  BY DEF BallRun
<1>2. \A k \in 1 .. m : v[k] = BallPut(v[k - 1], NewSlot(k), d[k][1], d[k][2])
  BY DEF BallRun
<1>3. v[m] \in Vectors /\ m + 1 \in 1 .. Tau /\ m + 1 \in 1 .. m + 1
  BY <1>1, SlotFacts
<1>4. d[m + 1][1] \in Slots /\ d[m + 1][2] \in {-1, 1} /\ NewSlot(m + 1) \in Slots
  BY <1>3, StreamFacts, NewSlotFacts
<1>5. BallPut(v[m], NewSlot(m + 1), d[m + 1][1], d[m + 1][2]) \in Vectors
  BY <1>3, <1>4, PutFacts
<1>6. w \in [0 .. m + 1 -> Vectors] /\ w[0] = Zero
  BY <1>1, <1>5
<1>7. \A k \in 1 .. m + 1 : w[k] = BallPut(w[k - 1], NewSlot(k), d[k][1], d[k][2])
  <2>1. SUFFICES ASSUME NEW k \in 1 .. m + 1
                 PROVE  w[k] = BallPut(w[k - 1], NewSlot(k), d[k][1], d[k][2])
    OBVIOUS
  <2>2. CASE k = m + 1
    <3>1. w[k] = BallPut(v[m], NewSlot(k), d[k][1], d[k][2]) /\ w[k - 1] = v[m]
      BY <2>2
    <3>2. QED
      BY <3>1
  <2>3. CASE k # m + 1
    <3>1. k \in 1 .. m /\ w[k] = v[k] /\ w[k - 1] = v[k - 1]
      BY <2>3
    <3>2. QED
      BY <1>2, <3>1
  <2>4. QED
    BY <2>2, <2>3
<1>8. QED
  BY <1>6, <1>7 DEF BallRun

LEMMA BallHasRun ==
  \A m \in Nat : m <= Tau => \A d \in Streams(BallFrom, m) : \E v : BallRun(d, m, v)
<1> DEFINE W == {m \in Nat : m <= Tau => \A d \in Streams(BallFrom, m) : \E v : BallRun(d, m, v)}
<1>1. 0 \in W
  <2>1. ASSUME NEW d \in Streams(BallFrom, 0) PROVE \E v : BallRun(d, 0, v)
    <3>1. BallRun(d, 0, [k \in 0 .. 0 |-> Zero])
      BY ZeroType DEF BallRun
    <3>2. QED
      BY <3>1
  <2>2. QED
    BY <2>1
<1>2. ASSUME NEW m \in Nat, m \in W PROVE m + 1 \in W
  <2>1. SUFFICES ASSUME m + 1 <= Tau, NEW d \in Streams(BallFrom, m + 1)
                 PROVE  \E v : BallRun(d, m + 1, v)
    OBVIOUS
  <2>2. m < Tau /\ m <= Tau
    BY <2>1, SlotFacts
  <2>3. [k \in 1 .. m |-> d[k]] \in Streams(BallFrom, m)
    BY StreamCut
  <2>4. PICK v : BallRun([k \in 1 .. m |-> d[k]], m, v)
    BY <1>2, <2>2, <2>3
  <2>5. QED
    BY <2>2, <2>4, BallRunMore
<1>3. \A m \in Nat : m \in W
  <2> HIDE DEF W
  <2>1. QED
    BY <1>1, <1>2, NatSetInduction
<1>4. QED
  BY <1>3

\* The vector of a stream, from that of the stream before its last draw.
LEMMA BallStep ==
  ASSUME NEW m \in Nat, m < Tau, NEW d \in Streams(BallFrom, m + 1)
  PROVE  /\ Ball([k \in 1 .. m |-> d[k]]) \in Vectors
         /\ Ball(d) = BallPut(Ball([k \in 1 .. m |-> d[k]]), NewSlot(m + 1), d[m + 1][1], d[m + 1][2])
<1>1. PICK e : e = [k \in 1 .. m |-> d[k]]
  OBVIOUS
<1>2. e \in Streams(BallFrom, m) /\ m <= Tau
  BY <1>1, SlotFacts, StreamCut
<1>3. PICK v : BallRun(e, m, v)
  BY <1>2, BallHasRun
<1>4. Len(e) = m
  BY <1>2, StreamFacts
<1>5. Ball(e) = v[m]
  BY <1>3, <1>4, BallIs
<1>6. PICK w : /\ BallRun(d, m + 1, w)
               /\ w[m + 1] = BallPut(v[m], NewSlot(m + 1), d[m + 1][1], d[m + 1][2])
  <2>1. PICK w : w = [k \in 0 .. m + 1 |->
                   IF k = m + 1 THEN BallPut(v[m], NewSlot(m + 1), d[m + 1][1], d[m + 1][2])
                   ELSE v[k]]
    OBVIOUS
  <2>2. BallRun(d, m + 1, w)
    BY <1>1, <1>3, <2>1, BallRunMore
  <2>3. QED
    BY <2>1, <2>2
<1>7. PICK n \in Nat : n = m + 1
  OBVIOUS
<1>8. Len(d) = n
  BY <1>7, StreamFacts
<1>9. Ball(d) = w[n]
  BY <1>6, <1>7, <1>8, BallIs
<1>10. v[m] \in Vectors
  BY <1>3 DEF BallRun
<1>11. QED
  BY <1>1, <1>5, <1>6, <1>7, <1>9, <1>10

LEMMA BallEmpty == ASSUME NEW d \in Streams(BallFrom, 0) PROVE Ball(d) = Zero
<1>1. PICK z \in Nat : z = 0
  OBVIOUS
<1>2. Len(d) = z /\ z <= Tau
  BY <1>1, SlotFacts, StreamFacts
<1>3. PICK v : BallRun(d, z, v)
  BY <1>1, <1>2, BallHasRun
<1>4. Ball(d) = v[z]
  BY <1>2, <1>3, BallIs
<1>5. QED
  BY <1>1, <1>3, <1>4 DEF BallRun

\* After m draws m slots are filled, none of them above the newest.
BallVectors(m) ==
  {u \in Vectors : /\ \A k \in Slots : k > NewSlot(m) => u[k] = 0
                   /\ IsFiniteSet(Filled(u)) /\ Cardinality(Filled(u)) = m}

LEMMA EmptyVector ==
  /\ IsFiniteSet(Filled(Zero)) /\ Cardinality(Filled(Zero)) = 0
  /\ \A u \in Vectors : IsFiniteSet(Filled(u)) /\ (Cardinality(Filled(u)) = 0 => u = Zero)
<1>1. Filled(Zero) = {}
  BY DEF Filled, Zero
<1>2. ASSUME NEW u \in Vectors
      PROVE  IsFiniteSet(Filled(u)) /\ (Cardinality(Filled(u)) = 0 => u = Zero)
  <2>1. Filled(u) \in SUBSET Slots
    BY DEF Filled
  <2>2. IsFiniteSet(Filled(u))
    BY <2>1, SlotFacts, FS_Subset
  <2>3. ASSUME Cardinality(Filled(u)) = 0 PROVE u = Zero
    <3>1. Filled(u) = {}
      BY <2>2, <2>3, FS_EmptySet
    <3>2. \A k \in Slots : u[k] = 0
      BY <3>1 DEF Filled
    <3>3. QED
      BY <3>2 DEF Zero, Vectors
  <2>4. QED
    BY <2>2, <2>3
<1>3. QED
  BY <1>1, <1>2, FS_EmptySet

LEMMA BallGood ==
  \A m \in Nat : m <= Tau => \A d \in Streams(BallFrom, m) : Ball(d) \in BallVectors(m)
<1> DEFINE W == {m \in Nat : m <= Tau => \A d \in Streams(BallFrom, m) : Ball(d) \in BallVectors(m)}
<1>1. 0 \in W
  <2>1. Zero \in BallVectors(0)
    BY ZeroType, EmptyVector DEF BallVectors, Zero
  <2>2. QED
    BY <2>1, BallEmpty
<1>2. ASSUME NEW m \in Nat, m \in W PROVE m + 1 \in W
  <2>1. SUFFICES ASSUME m + 1 <= Tau, NEW d \in Streams(BallFrom, m + 1)
                 PROVE  Ball(d) \in BallVectors(m + 1)
    OBVIOUS
  <2>2. m < Tau /\ m <= Tau /\ m + 1 \in 1 .. Tau /\ m + 1 \in 1 .. m + 1 /\ m + 1 \in Nat
    BY <2>1, SlotFacts
  <2>3. PICK e, i, j, s : /\ e = [k \in 1 .. m |-> d[k]] /\ i = NewSlot(m + 1)
                          /\ j = d[m + 1][1] /\ s = d[m + 1][2]
    OBVIOUS
  <2>4. e \in Streams(BallFrom, m) /\ Ball(e) \in BallVectors(m) /\ Ball(e) \in Vectors
    BY <1>2, <2>2, <2>3, StreamCut DEF BallVectors
  <2>5. i \in Slots /\ j \in Slots /\ s \in {-1, 1} /\ j \in 1 .. i
    <3>1. j \in BallFrom[m + 1] /\ j \in Slots /\ s \in {-1, 1}
      BY <2>2, <2>3, StreamFacts
    <3>2. QED
      BY <2>2, <2>3, <3>1, NewSlotFacts
  <2>6. PICK v, u : v = Ball(e) /\ u = Ball(d) /\ u = BallPut(v, i, j, s)
    BY <2>2, <2>3, BallStep
  <2>7. NewSlot(m) \in Int /\ i = NewSlot(m) + 1 /\ i \in Int
    BY <2>3, SlotFacts DEF NewSlot
  <2>8. v \in Vectors /\ v[i] = 0 /\ Cardinality(Filled(v)) = m /\ \A k \in Slots : k > i => v[k] = 0
    BY <2>4, <2>5, <2>6, <2>7 DEF BallVectors, Slots
  <2>9. u \in Vectors /\ u[j] = s /\ Back(u, i, j) = v
    <3>1. v \in Vectors /\ v[i] = 0
      BY <2>8
    <3>2. /\ BallPut(v, i, j, s) \in Vectors /\ BallPut(v, i, j, s)[j] = s
          /\ Back(BallPut(v, i, j, s), i, j) = v
      BY <2>5, <3>1, PutFacts
    <3>3. u = BallPut(v, i, j, s)
      BY <2>6
    <3>4. QED
      BY <3>2, <3>3
  <2>10. PICK x \in Filled(u) : Filled(v) = Filled(u) \ {x}
    <3>1. u[j] # 0
      BY <2>5, <2>9
    <3>2. QED
      BY <2>5, <2>9, <3>1, BackFacts
  <2>11. IsFiniteSet(Filled(u)) /\ Cardinality(Filled(u)) = m + 1
    <3>1. IsFiniteSet(Filled(u))
      BY <2>9, EmptyVector
    <3>2. Cardinality(Filled(u)) \in Nat /\ Cardinality(Filled(u) \ {x}) = Cardinality(Filled(u)) - 1
      BY <3>1, FS_RemoveElement, FS_CardinalityType
    <3>3. QED
      BY <2>8, <2>10, <3>1, <3>2
  <2>12. \A k \in Slots : k > i => u[k] = 0
    <3>1. u = [k \in Slots |-> IF k = j THEN s ELSE IF k = i THEN v[j] ELSE v[k]]
      BY <2>6, <2>8 DEF BallPut, Vectors
    <3>2. QED
      BY <2>5, <2>7, <2>8, <3>1
  <2>13. QED
    BY <2>3, <2>6, <2>9, <2>11, <2>12 DEF BallVectors
<1>3. \A m \in Nat : m \in W
  <2> HIDE DEF W
  <2>1. QED
    BY <1>1, <1>2, NatSetInduction
<1>4. QED
  BY <1>3

\* Every vector with m filled slots comes of m! streams: whichever of its
\* slots was filled last, the rest came of (m - 1)!.
LEMMA BallCount ==
  \A m \in Nat : m <= Tau => \A u \in BallVectors(m) :
    /\ IsFiniteSet({d \in Streams(BallFrom, m) : Ball(d) = u})
    /\ Cardinality({d \in Streams(BallFrom, m) : Ball(d) = u}) = Factorial[m]
<1> DEFINE From(m, u) == {d \in Streams(BallFrom, m) : Ball(d) = u}
           W == {m \in Nat : m <= Tau => \A u \in BallVectors(m) :
                   IsFiniteSet(From(m, u)) /\ Cardinality(From(m, u)) = Factorial[m]}
<1>1. 0 \in W
  <2>1. SUFFICES ASSUME NEW u \in BallVectors(0)
                 PROVE  IsFiniteSet(From(0, u)) /\ Cardinality(From(0, u)) = 1
    BY FactorialFacts
  <2>2. u = Zero
    BY EmptyVector DEF BallVectors
  <2>3. PICK e : e = [k \in 1 .. 0 |-> <<k, k>>]
    OBVIOUS
  <2>4. Streams(BallFrom, 0) = {e}
    <3>1. e \in Streams(BallFrom, 0)
      BY <2>3 DEF Streams
    <3>2. \A d \in Streams(BallFrom, 0) : d = e
      BY <2>3 DEF Streams
    <3>3. QED
      BY <3>1, <3>2
  <2>5. From(0, u) = {e}
    BY <2>2, <2>4, BallEmpty
  <2>6. QED
    BY <2>5, FS_Singleton
<1>2. ASSUME NEW m \in Nat, m \in W PROVE m + 1 \in W
  <2>1. SUFFICES ASSUME m + 1 <= Tau, NEW u \in BallVectors(m + 1)
                 PROVE  /\ IsFiniteSet(From(m + 1, u))
                        /\ Cardinality(From(m + 1, u)) = Factorial[m + 1]
    OBVIOUS
  <2>2. m < Tau /\ m <= Tau /\ m + 1 \in 1 .. Tau /\ m + 1 \in 1 .. m + 1
    BY <2>1, SlotFacts
  <2>3. PICK i \in Slots : i = NewSlot(m + 1)
    BY <2>2, NewSlotFacts
  <2>4. PICK D, S : D = From(m + 1, u) /\ S = Filled(u)
    OBVIOUS
  <2>5. u \in Vectors /\ IsFiniteSet(S) /\ Cardinality(S) = m + 1 /\ \A k \in Slots : k > i => u[k] = 0
    BY <2>3, <2>4 DEF BallVectors
  <2>6. PICK f : f = [d \in D |-> d[m + 1][1]]
    OBVIOUS
  <2>7. ASSUME NEW d \in D
        PROVE  /\ d \in Streams(BallFrom, m + 1) /\ [k \in 1 .. m |-> d[k]] \in Streams(BallFrom, m)
               /\ d \in [1 .. m + 1 -> Slots \X Signs]
               /\ f[d] \in Slots /\ f[d] \in S /\ f[d] \in 1 .. i
               /\ d[m + 1] = <<f[d], u[f[d]]>>
               /\ Ball([k \in 1 .. m |-> d[k]]) = Back(u, i, f[d])
    <3>1. d \in Streams(BallFrom, m + 1) /\ Ball(d) = u
      BY <2>4
    <3>2. PICK j, s, e, v : j = d[m + 1][1] /\ s = d[m + 1][2] /\ e = [k \in 1 .. m |-> d[k]] /\ v = Ball(e)
      OBVIOUS
    <3>3. /\ d \in [1 .. m + 1 -> Slots \X Signs]
          /\ j \in Slots /\ s \in {-1, 1} /\ j \in 1 .. i /\ d[m + 1] = <<j, s>>
      <4>1. /\ j \in BallFrom[m + 1] /\ j \in Slots /\ s \in {-1, 1} /\ d[m + 1] = <<j, s>>
            /\ d \in [1 .. m + 1 -> Slots \X Signs]
        BY <2>2, <3>1, <3>2, StreamFacts
      <4>2. QED
        BY <2>2, <2>3, <4>1, NewSlotFacts
    <3>4. e \in Streams(BallFrom, m)
      BY <3>1, <3>2, StreamCut
    <3>5. u = BallPut(v, i, j, s) /\ v \in Vectors
      BY <2>2, <2>3, <3>1, <3>2, BallStep
    <3>6. v[i] = 0
      <4>1. v \in BallVectors(m)
        BY <2>2, <3>2, <3>4, BallGood
      <4>2. NewSlot(m) \in Int /\ i = NewSlot(m) + 1
        BY <2>3, SlotFacts DEF NewSlot
      <4>3. QED
        BY <4>1, <4>2 DEF BallVectors
    <3>7. u[j] = s /\ Back(u, i, j) = v
      <4>1. BallPut(v, i, j, s)[j] = s /\ Back(BallPut(v, i, j, s), i, j) = v
        BY <3>3, <3>5, <3>6, PutFacts
      <4>2. QED
        BY <3>5, <4>1
    <3>8. j \in S
      BY <2>4, <3>3, <3>7 DEF Filled
    <3>9. f[d] = j
      BY <2>6, <3>2
    <3>10. QED
      BY <3>1, <3>2, <3>3, <3>4, <3>7, <3>8, <3>9
  <2>8. ASSUME NEW j \in S
        PROVE  /\ IsFiniteSet({d \in D : f[d] = j})
               /\ Cardinality({d \in D : f[d] = j}) = Factorial[m]
    <3>1. j \in Slots /\ u[j] # 0 /\ j \in 1 .. i /\ u[j] \in Signs
      <4>1. j \in Slots /\ u[j] # 0 /\ u[j] \in {-1, 0, 1}
        BY <2>4, <2>5 DEF Filled, Vectors
      <4>2. ~(j > i)
        BY <2>5, <4>1
      <4>3. QED
        BY <4>1, <4>2 DEF Signs, Slots
    <3>2. PICK v : v = Back(u, i, j)
      OBVIOUS
    <3>3. /\ v \in Vectors /\ v[i] = 0 /\ BallPut(v, i, j, u[j]) = u
          /\ \A k \in Slots : u[k] = 0 /\ k # i => v[k] = 0
      BY <2>5, <3>1, <3>2, BackFacts
    <3>4. v \in BallVectors(m)
      <4>1. PICK x \in S : Filled(v) = S \ {x}
        BY <2>4, <2>5, <3>1, <3>2, BackFacts
      <4>2. IsFiniteSet(Filled(v)) /\ Cardinality(Filled(v)) = m
        <5>1. IsFiniteSet(S \ {x}) /\ Cardinality(S \ {x}) = Cardinality(S) - 1
          BY <2>5, FS_RemoveElement
        <5>2. QED
          BY <2>5, <4>1, <5>1
      <4>3. NewSlot(m) \in Int /\ i = NewSlot(m) + 1
        BY <2>3, SlotFacts DEF NewSlot
      <4>4. \A k \in Slots : k > NewSlot(m) => v[k] = 0
        BY <2>5, <3>3, <4>3 DEF Slots
      <4>5. QED
        BY <3>3, <4>2, <4>4 DEF BallVectors
    <3>5. PICK E, F : E = From(m, v) /\ F = {d \in D : f[d] = j}
      OBVIOUS
    <3>6. IsFiniteSet(E) /\ Cardinality(E) = Factorial[m]
      BY <1>2, <2>2, <3>4, <3>5
    <3>7. PICK g : g = [e \in E |-> [k \in 1 .. m + 1 |-> IF k = m + 1 THEN <<j, u[j]>> ELSE e[k]]]
      OBVIOUS
    <3>8. ASSUME NEW e \in E
          PROVE  g[e] \in F /\ e = [k \in 1 .. m |-> g[e][k]]
      <4>1. e \in Streams(BallFrom, m) /\ Ball(e) = v
        BY <3>5
      <4>2. g[e] = [k \in 1 .. m + 1 |-> IF k = m + 1 THEN <<j, u[j]>> ELSE e[k]]
        BY <3>7
      <4>3. j \in BallFrom[m + 1]
        BY <2>2, <2>3, <3>1, NewSlotFacts
      <4>4. g[e] \in Streams(BallFrom, m + 1)
        <5>1. PICK s \in Signs : s = u[j]
          BY <3>1
        <5>2. [k \in 1 .. m + 1 |-> IF k = m + 1 THEN <<j, s>> ELSE e[k]] \in Streams(BallFrom, m + 1)
          BY <3>1, <4>1, <4>3, StreamMore
        <5>3. QED
          BY <4>2, <5>1, <5>2
      <4>5. g[e][m + 1] = <<j, u[j]>> /\ \A k \in 1 .. m : g[e][k] = e[k]
        BY <2>2, <4>2
      <4>6. e = [k \in 1 .. m |-> g[e][k]]
        <5>1. e \in [1 .. m -> Slots \X Signs]
          BY <4>1, StreamFacts
        <5>2. QED
          BY <4>5, <5>1
      <4>7. Ball(g[e]) = u
        <5>1. Ball(g[e]) = BallPut(v, i, g[e][m + 1][1], g[e][m + 1][2])
          BY <2>2, <2>3, <4>1, <4>4, <4>6, BallStep
        <5>2. g[e][m + 1][1] = j /\ g[e][m + 1][2] = u[j]
          BY <4>5
        <5>3. QED
          BY <3>3, <5>1, <5>2
      <4>8. g[e] \in D
        BY <2>4, <4>4, <4>7
      <4>9. f[g[e]] = j
        BY <2>6, <4>5, <4>8
      <4>10. QED
        BY <3>5, <4>6, <4>8, <4>9
    <3>9. g \in [E -> F]
      BY <3>7, <3>8
    <3>10. \A x, y \in E : g[x] = g[y] => x = y
      BY <3>8
    <3>11. \A d \in F : \E e \in E : g[e] = d
      <4>1. ASSUME NEW d \in F PROVE \E e \in E : g[e] = d
        <5>1. d \in D /\ f[d] = j
          BY <3>5
        <5>2. PICK e : e = [k \in 1 .. m |-> d[k]]
          OBVIOUS
        <5>3. e \in E
          BY <2>7, <3>2, <3>5, <5>1, <5>2
        <5>4. d \in [1 .. m + 1 -> Slots \X Signs] /\ d[m + 1] = <<j, u[j]>>
          BY <2>7, <5>1
        <5>5. g[e] = [k \in 1 .. m + 1 |-> IF k = m + 1 THEN <<j, u[j]>> ELSE e[k]]
          BY <3>7, <5>3
        <5>6. \A k \in 1 .. m + 1 : g[e][k] = d[k]
          <6>1. SUFFICES ASSUME NEW k \in 1 .. m + 1 PROVE g[e][k] = d[k]
            OBVIOUS
          <6>2. CASE k = m + 1
            BY <5>4, <5>5, <6>2
          <6>3. CASE k # m + 1
            BY <5>2, <5>5, <6>3
          <6>4. QED
            BY <6>2, <6>3
        <5>7. g[e] = d
          <6>1. d = [k \in 1 .. m + 1 |-> d[k]]
            BY <5>4
          <6>2. g[e] = [k \in 1 .. m + 1 |-> g[e][k]]
            BY <5>5
          <6>3. QED
            BY <5>6, <6>1, <6>2
        <5>8. QED
          BY <5>3, <5>7
      <4>2. QED
        BY <4>1
    <3>12. IsFiniteSet(F) /\ Cardinality(F) = Cardinality(E)
      BY <3>6, <3>9, <3>10, <3>11, SameCount
    <3>13. QED
      BY <3>5, <3>6, <3>12
  <2>9. Factorial[m] \in Nat /\ Factorial[m + 1] = (m + 1) * Factorial[m]
    BY FactorialFacts
  <2>10. PICK c \in Nat : c = Factorial[m]
    BY <2>9
  <2>11. \A d \in D : f[d] \in S
    BY <2>7
  <2>12. \A j \in S : IsFiniteSet(Fibre(D, f, j)) /\ Cardinality(Fibre(D, f, j)) = c
    BY <2>8, <2>10 DEF Fibre
  <2>14. IsFiniteSet(D) /\ Cardinality(D) = c * Cardinality(S)
    <3>1. EvenParts(D, S, f, c)
      BY <2>5, <2>10, <2>11, <2>12 DEF EvenParts
    <3>2. QED
      BY <3>1, EqualFibres
  <2>15. c * (m + 1) = (m + 1) * c
    OBVIOUS
  <2>16. QED
    BY <2>4, <2>5, <2>9, <2>10, <2>14, <2>15
<1>3. \A m \in Nat : m \in W
  <2> HIDE DEF W
  <2>1. QED
    BY <1>1, <1>2, NatSetInduction
<1>4. QED
  BY <1>3

-----------------------------------------------------------------------------
(***************************************************************************)
(* Fixed-weight signs.                                                     *)
(***************************************************************************)
FixedFrom == [k \in Nat |-> FixedPositions(k)]
Orders == {o \in [Slots -> Slots] : /\ \A i, j \in Slots : o[i] = o[j] => i = j
                                    /\ \A y \in Slots : \E i \in Slots : o[i] = y}
Identity == [i \in Slots |-> i]
Sign(v, x, s) == [v EXCEPT ![x] = s]
\* Every order of the slots and every vector the shuffle passes on the way.
FixedRun(d, m, o, v) ==
  /\ o \in [0 .. m -> Orders] /\ v \in [0 .. m -> Vectors]
  /\ o[0] = Identity /\ v[0] = Zero
  /\ \A k \in 1 .. m : /\ o[k] = FixedOrder(o[k - 1], k, d[k][1])
                       /\ v[k] = Sign(v[k - 1], o[k - 1][d[k][1]], d[k][2])
LastOrder(d) == FixedOrders(d)[Len(d)]

LEMMA IdentityType == Identity \in Orders
BY DEF Identity, Orders

LEMMA FixedFromFacts ==
  ASSUME NEW k \in 1 .. Tau
  PROVE  k \in Slots /\ FixedFrom[k] = k .. N
BY SlotFacts DEF Slots, FixedFrom, FixedPositions

LEMMA OrderFacts ==
  ASSUME NEW o \in Orders, NEW k \in Slots, NEW j \in Slots
  PROVE  /\ FixedOrder(o, k, j) \in Orders /\ FixedOrder(o, k, j)[k] = o[j]
         /\ \A i \in Slots : i # k /\ i # j => FixedOrder(o, k, j)[i] = o[i]
<1>1. o \in [Slots -> Slots] /\ (\A i, l \in Slots : o[i] = o[l] => i = l)
      /\ \A y \in Slots : \E i \in Slots : o[i] = y
  BY DEF Orders
<1>2. PICK w : w = FixedOrder(o, k, j)
  OBVIOUS
<1>3. w = [i \in Slots |-> IF i = j THEN o[k] ELSE IF i = k THEN o[j] ELSE o[i]]
  BY <1>1, <1>2 DEF FixedOrder
<1>4. w \in [Slots -> Slots] /\ w[k] = o[j] /\ w[j] = o[k]
      /\ \A i \in Slots : i # k /\ i # j => w[i] = o[i]
  BY <1>1, <1>3
<1>5. \A i, l \in Slots : w[i] = w[l] => i = l
  BY <1>1, <1>4
<1>6. \A y \in Slots : \E i \in Slots : w[i] = y
  <2>1. SUFFICES ASSUME NEW y \in Slots PROVE \E i \in Slots : w[i] = y
    OBVIOUS
  <2>2. PICK i \in Slots : o[i] = y
    BY <1>1
  <2>3. QED
    BY <1>4, <2>2
<1>7. QED
  BY <1>2, <1>4, <1>5, <1>6 DEF Orders

\* What the shuffle returns is the last of what it passes.
LEMMA FixedIs ==
  ASSUME NEW m \in Nat, NEW d, Len(d) = m, NEW o, NEW v, FixedRun(d, m, o, v)
  PROVE  LastOrder(d) = o[m] /\ Fixed(d) = v[m]
<1> DEFINE Swaps(g) == g = [k \in 0 .. m |-> IF k = 0 THEN [i \in Slots |-> i]
                                            ELSE FixedOrder(g[k - 1], k, d[k][1])]
           Signed(g) == g = [k \in 0 .. m |-> IF k = 0 THEN Zero ELSE
                               [g[k - 1] EXCEPT ![FixedOrders(d)[k - 1][d[k][1]]] = d[k][2]]]
<1>1. Swaps(o)
  <2>1. o = [k \in 0 .. m |-> o[k]]
    BY DEF FixedRun
  <2>2. \A k \in 0 .. m : o[k] = IF k = 0 THEN [i \in Slots |-> i]
                                ELSE FixedOrder(o[k - 1], k, d[k][1])
    BY DEF FixedRun, Identity
  <2>3. QED
    BY <2>1, <2>2, Zenon
<1>2. PICK g : g = CHOOSE h : Swaps(h)
  OBVIOUS
<1>3. Swaps(g)
  BY <1>1, <1>2, Zenon
<1>4. FixedOrders(d) = g
  BY <1>2, Zenon DEF FixedOrders
<1>5. g[0] = o[0] /\ \A k \in Nat : k + 1 <= m /\ g[k] = o[k] => g[k + 1] = o[k + 1]
  <2>1. \A k \in 0 .. m : /\ g[k] = IF k = 0 THEN [i \in Slots |-> i]
                                    ELSE FixedOrder(g[k - 1], k, d[k][1])
                          /\ o[k] = IF k = 0 THEN [i \in Slots |-> i]
                                    ELSE FixedOrder(o[k - 1], k, d[k][1])
    BY <1>1, <1>3
  <2>2. 0 \in 0 .. m
    OBVIOUS
  <2>3. g[0] = o[0]
    BY <2>1, <2>2
  <2>4. ASSUME NEW k \in Nat, k + 1 <= m, g[k] = o[k] PROVE g[k + 1] = o[k + 1]
    <3>1. k + 1 \in 0 .. m /\ k + 1 # 0 /\ (k + 1) - 1 = k
      BY <2>4
    <3>2. /\ g[k + 1] = FixedOrder(g[k], k + 1, d[k + 1][1])
          /\ o[k + 1] = FixedOrder(o[k], k + 1, d[k + 1][1])
      BY <2>1, <3>1
    <3>3. QED
      BY <2>4, <3>2
  <2>5. QED
    BY <2>3, <2>4
<1> DEFINE W == {k \in Nat : k <= m => g[k] = o[k]}
<1>6. \A k \in Nat : k \in W
  <2>1. 0 \in W
    BY <1>5
  <2>2. \A k \in Nat : k \in W => k + 1 \in W
    BY <1>5
  <2> HIDE DEF W
  <2>3. QED
    BY <2>1, <2>2, NatSetInduction
<1>7. \A k \in 0 .. m : FixedOrders(d)[k] = o[k]
  BY <1>4, <1>6
<1>8. Signed(v)
  <2>1. v = [k \in 0 .. m |-> v[k]]
    BY DEF FixedRun
  <2>2. \A k \in 0 .. m : v[k] = IF k = 0 THEN Zero ELSE
                               [v[k - 1] EXCEPT ![FixedOrders(d)[k - 1][d[k][1]]] = d[k][2]]
    <3>1. SUFFICES ASSUME NEW k \in 0 .. m, k # 0
                   PROVE  v[k] = [v[k - 1] EXCEPT ![FixedOrders(d)[k - 1][d[k][1]]] = d[k][2]]
      BY DEF FixedRun
    <3>2. k \in 1 .. m /\ k - 1 \in 0 .. m
      BY <3>1
    <3>3. FixedOrders(d)[k - 1] = o[k - 1]
      BY <1>7, <3>2
    <3>4. v[k] = Sign(v[k - 1], o[k - 1][d[k][1]], d[k][2])
      BY <3>2 DEF FixedRun
    <3>5. QED
      BY <3>3, <3>4 DEF Sign
  <2>3. QED
    BY <2>1, <2>2, Zenon
<1>9. PICK h : h = CHOOSE t : Signed(t)
  OBVIOUS
<1>10. Signed(h)
  BY <1>8, <1>9, Zenon
<1>11. FixedAfter(d) = h
  BY <1>9, Zenon DEF FixedAfter
<1>12. h[0] = v[0] /\ \A k \in Nat : k + 1 <= m /\ h[k] = v[k] => h[k + 1] = v[k + 1]
  <2>1. \A k \in 0 .. m :
          /\ h[k] = IF k = 0 THEN Zero ELSE
                      [h[k - 1] EXCEPT ![FixedOrders(d)[k - 1][d[k][1]]] = d[k][2]]
          /\ v[k] = IF k = 0 THEN Zero ELSE
                      [v[k - 1] EXCEPT ![FixedOrders(d)[k - 1][d[k][1]]] = d[k][2]]
    BY <1>8, <1>10
  <2>2. 0 \in 0 .. m
    OBVIOUS
  <2>3. h[0] = v[0]
    BY <2>1, <2>2
  <2>4. ASSUME NEW k \in Nat, k + 1 <= m, h[k] = v[k] PROVE h[k + 1] = v[k + 1]
    <3>1. k + 1 \in 0 .. m /\ k + 1 # 0 /\ (k + 1) - 1 = k
      BY <2>4
    <3>2. /\ h[k + 1] = [h[k] EXCEPT ![FixedOrders(d)[k][d[k + 1][1]]] = d[k + 1][2]]
          /\ v[k + 1] = [v[k] EXCEPT ![FixedOrders(d)[k][d[k + 1][1]]] = d[k + 1][2]]
      BY <2>1, <3>1
    <3>3. QED
      BY <2>4, <3>2
  <2>5. QED
    BY <2>3, <2>4
<1> DEFINE X == {k \in Nat : k <= m => h[k] = v[k]}
<1>13. \A k \in Nat : k \in X
  <2>1. 0 \in X
    BY <1>12
  <2>2. \A k \in Nat : k \in X => k + 1 \in X
    BY <1>12
  <2> HIDE DEF X
  <2>3. QED
    BY <2>1, <2>2, NatSetInduction
<1>14. h[m] = v[m] /\ g[m] = o[m]
  BY <1>6, <1>13
<1>15. QED
  BY <1>4, <1>11, <1>14 DEF Fixed, LastOrder

LEMMA FixedRunMore ==
  ASSUME NEW m \in Nat, m < Tau, NEW d \in Streams(FixedFrom, m + 1), NEW o, NEW v,
         FixedRun([k \in 1 .. m |-> d[k]], m, o, v)
  PROVE  FixedRun(d, m + 1,
           [k \in 0 .. m + 1 |-> IF k = m + 1 THEN FixedOrder(o[m], m + 1, d[m + 1][1]) ELSE o[k]],
           [k \in 0 .. m + 1 |-> IF k = m + 1 THEN Sign(v[m], o[m][d[m + 1][1]], d[m + 1][2])
                                 ELSE v[k]])
<1> DEFINE p == [k \in 0 .. m + 1 |-> IF k = m + 1 THEN FixedOrder(o[m], m + 1, d[m + 1][1]) ELSE o[k]]
           w == [k \in 0 .. m + 1 |-> IF k = m + 1 THEN Sign(v[m], o[m][d[m + 1][1]], d[m + 1][2])
                                      ELSE v[k]]
<1>1. /\ o \in [0 .. m -> Orders] /\ v \in [0 .. m -> Vectors]
      /\ o[0] = Identity /\ v[0] = Zero
  BY DEF FixedRun
<1>2. \A k \in 1 .. m : /\ o[k] = FixedOrder(o[k - 1], k, d[k][1])
                        /\ v[k] = Sign(v[k - 1], o[k - 1][d[k][1]], d[k][2])
  BY DEF FixedRun
<1>3. v[m] \in Vectors /\ o[m] \in Orders /\ m + 1 \in 1 .. Tau /\ m + 1 \in 1 .. m + 1
  BY <1>1, SlotFacts
<1>4. d[m + 1][1] \in Slots /\ d[m + 1][2] \in {-1, 1} /\ m + 1 \in Slots
  BY <1>3, StreamFacts, FixedFromFacts
<1>5. FixedOrder(o[m], m + 1, d[m + 1][1]) \in Orders
  BY <1>3, <1>4, OrderFacts
<1>6. Sign(v[m], o[m][d[m + 1][1]], d[m + 1][2]) \in Vectors
  BY <1>3, <1>4 DEF Sign, Vectors
<1>7. p \in [0 .. m + 1 -> Orders] /\ p[0] = Identity
  BY <1>1, <1>5
<1>8. w \in [0 .. m + 1 -> Vectors] /\ w[0] = Zero
  BY <1>1, <1>6
<1>9. \A k \in 1 .. m + 1 : /\ p[k] = FixedOrder(p[k - 1], k, d[k][1])
                            /\ w[k] = Sign(w[k - 1], p[k - 1][d[k][1]], d[k][2])
  <2>1. SUFFICES ASSUME NEW k \in 1 .. m + 1
                 PROVE  /\ p[k] = FixedOrder(p[k - 1], k, d[k][1])
                        /\ w[k] = Sign(w[k - 1], p[k - 1][d[k][1]], d[k][2])
    OBVIOUS
  <2>2. CASE k = m + 1
    <3>1. /\ p[k] = FixedOrder(o[m], k, d[k][1]) /\ p[k - 1] = o[m]
          /\ w[k] = Sign(v[m], o[m][d[k][1]], d[k][2]) /\ w[k - 1] = v[m]
      BY <2>2
    <3>2. QED
      BY <3>1
  <2>3. CASE k # m + 1
    <3>1. /\ k \in 1 .. m /\ p[k] = o[k] /\ p[k - 1] = o[k - 1]
          /\ w[k] = v[k] /\ w[k - 1] = v[k - 1]
      BY <2>3
    <3>2. QED
      BY <1>2, <3>1
  <2>4. QED
    BY <2>2, <2>3
<1>10. QED
  BY <1>7, <1>8, <1>9 DEF FixedRun

LEMMA FixedHasRun ==
  \A m \in Nat : m <= Tau => \A d \in Streams(FixedFrom, m) : \E o, v : FixedRun(d, m, o, v)
<1> DEFINE W == {m \in Nat : m <= Tau =>
                   \A d \in Streams(FixedFrom, m) : \E o, v : FixedRun(d, m, o, v)}
<1>1. 0 \in W
  <2>1. ASSUME NEW d \in Streams(FixedFrom, 0) PROVE \E o, v : FixedRun(d, 0, o, v)
    <3>1. PICK o, v : o = [k \in 0 .. 0 |-> Identity] /\ v = [k \in 0 .. 0 |-> Zero]
      OBVIOUS
    <3>2. o \in [0 .. 0 -> Orders] /\ v \in [0 .. 0 -> Vectors] /\ o[0] = Identity /\ v[0] = Zero
      BY <3>1, ZeroType, IdentityType
    <3>3. FixedRun(d, 0, o, v)
      BY <3>2 DEF FixedRun
    <3>4. QED
      BY <3>3
  <2>2. QED
    BY <2>1
<1>2. ASSUME NEW m \in Nat, m \in W PROVE m + 1 \in W
  <2>1. SUFFICES ASSUME m + 1 <= Tau, NEW d \in Streams(FixedFrom, m + 1)
                 PROVE  \E o, v : FixedRun(d, m + 1, o, v)
    OBVIOUS
  <2>2. m < Tau /\ m <= Tau
    BY <2>1, SlotFacts
  <2>3. [k \in 1 .. m |-> d[k]] \in Streams(FixedFrom, m)
    BY StreamCut
  <2>4. PICK o, v : FixedRun([k \in 1 .. m |-> d[k]], m, o, v)
    BY <1>2, <2>2, <2>3
  <2>5. QED
    BY <2>2, <2>4, FixedRunMore
<1>3. \A m \in Nat : m \in W
  <2> HIDE DEF W
  <2>1. QED
    BY <1>1, <1>2, NatSetInduction
<1>4. QED
  BY <1>3

\* The order and the vector of a stream, from those before its last draw.
LEMMA FixedStep ==
  ASSUME NEW m \in Nat, m < Tau, NEW d \in Streams(FixedFrom, m + 1),
         NEW e, e = [k \in 1 .. m |-> d[k]]
  PROVE  /\ LastOrder(e) \in Orders /\ Fixed(e) \in Vectors
         /\ LastOrder(d) = FixedOrder(LastOrder(e), m + 1, d[m + 1][1])
         /\ Fixed(d) = Sign(Fixed(e), LastOrder(e)[d[m + 1][1]], d[m + 1][2])
<1>1. e \in Streams(FixedFrom, m) /\ m <= Tau
  <2>1. [k \in 1 .. m |-> d[k]] \in Streams(FixedFrom, m)
    BY StreamCut
  <2>2. QED
    BY <2>1, SlotFacts
<1>2. PICK o, v : FixedRun(e, m, o, v)
  BY <1>1, FixedHasRun
<1>3. Len(e) = m
  BY <1>1, StreamFacts
<1>4. LastOrder(e) = o[m] /\ Fixed(e) = v[m]
  BY <1>2, <1>3, FixedIs
<1>5. PICK p, w : /\ FixedRun(d, m + 1, p, w)
                  /\ p[m + 1] = FixedOrder(o[m], m + 1, d[m + 1][1])
                  /\ w[m + 1] = Sign(v[m], o[m][d[m + 1][1]], d[m + 1][2])
  <2>1. PICK p, w :
          /\ p = [k \in 0 .. m + 1 |-> IF k = m + 1 THEN FixedOrder(o[m], m + 1, d[m + 1][1]) ELSE o[k]]
          /\ w = [k \in 0 .. m + 1 |-> IF k = m + 1 THEN Sign(v[m], o[m][d[m + 1][1]], d[m + 1][2])
                                       ELSE v[k]]
    OBVIOUS
  <2>2. FixedRun([k \in 1 .. m |-> d[k]], m, o, v)
    BY <1>2
  <2>3. FixedRun(d, m + 1, p, w)
    BY <2>1, <2>2, FixedRunMore
  <2>4. QED
    BY <2>1, <2>3
<1>6. PICK n \in Nat : n = m + 1
  OBVIOUS
<1>7. Len(d) = n /\ FixedRun(d, n, p, w)
  BY <1>5, <1>6, StreamFacts
<1>8. LastOrder(d) = p[n] /\ Fixed(d) = w[n]
  BY <1>7, FixedIs
<1>9. o[m] \in Orders /\ v[m] \in Vectors
  BY <1>2 DEF FixedRun
<1>10. QED
  BY <1>4, <1>5, <1>6, <1>8, <1>9

LEMMA FixedEmpty ==
  ASSUME NEW d \in Streams(FixedFrom, 0)
  PROVE  LastOrder(d) = Identity /\ Fixed(d) = Zero
<1>1. PICK z \in Nat : z = 0
  OBVIOUS
<1>2. Len(d) = z /\ z <= Tau
  BY <1>1, SlotFacts, StreamFacts
<1>3. PICK o, v : FixedRun(d, z, o, v)
  BY <1>1, <1>2, FixedHasRun
<1>4. LastOrder(d) = o[z] /\ Fixed(d) = v[z]
  BY <1>2, <1>3, FixedIs
<1>5. QED
  BY <1>1, <1>3, <1>4 DEF FixedRun

FixedVectors(m) == {u \in Vectors : IsFiniteSet(Filled(u)) /\ Cardinality(Filled(u)) = m}

\* The filled slots are the first m of the order.
FixedAt(m, d) ==
  /\ LastOrder(d) \in Orders /\ Fixed(d) \in FixedVectors(m)
  /\ Filled(Fixed(d)) = {LastOrder(d)[k] : k \in 1 .. m}

LEMMA SignFacts ==
  ASSUME NEW v \in Vectors, NEW x \in Slots, v[x] = 0, NEW s \in {-1, 1}
  PROVE  /\ Sign(v, x, s) \in Vectors /\ Sign(v, x, s)[x] = s
         /\ Filled(Sign(v, x, s)) = Filled(v) \cup {x} /\ x \notin Filled(v)
         /\ Sign(Sign(v, x, s), x, 0) = v
<1>1. v \in [Slots -> {-1, 0, 1}]
  BY DEF Vectors
<1>2. PICK u : u = Sign(v, x, s)
  OBVIOUS
<1>3. u = [k \in Slots |-> IF k = x THEN s ELSE v[k]]
  BY <1>1, <1>2 DEF Sign
<1>4. u \in [Slots -> {-1, 0, 1}] /\ u[x] = s
  BY <1>1, <1>3
<1>5. Filled(u) = Filled(v) \cup {x} /\ x \notin Filled(v)
  BY <1>3 DEF Filled
<1>6. Sign(u, x, 0) = v
  <2>1. Sign(u, x, 0) = [k \in Slots |-> IF k = x THEN 0 ELSE u[k]]
    BY <1>4 DEF Sign
  <2>2. \A k \in Slots : Sign(u, x, 0)[k] = v[k]
    BY <1>3, <2>1
  <2>3. QED
    BY <1>1, <2>1, <2>2
<1>7. QED
  BY <1>2, <1>4, <1>5, <1>6 DEF Vectors

LEMMA FixedGood ==
  \A m \in Nat : m <= Tau => \A d \in Streams(FixedFrom, m) : FixedAt(m, d)
<1> DEFINE W == {m \in Nat : m <= Tau => \A d \in Streams(FixedFrom, m) : FixedAt(m, d)}
<1>1. 0 \in W
  <2>1. ASSUME NEW d \in Streams(FixedFrom, 0) PROVE FixedAt(0, d)
    <3>1. LastOrder(d) = Identity /\ Fixed(d) = Zero
      BY FixedEmpty
    <3>2. Filled(Zero) = {} /\ {LastOrder(d)[k] : k \in 1 .. 0} = {}
      BY DEF Filled, Zero
    <3>3. Zero \in FixedVectors(0)
      BY ZeroType, EmptyVector DEF FixedVectors
    <3>4. QED
      BY <3>1, <3>2, <3>3, IdentityType DEF FixedAt
  <2>2. QED
    BY <2>1
<1>2. ASSUME NEW m \in Nat, m \in W PROVE m + 1 \in W
  <2>1. SUFFICES ASSUME m + 1 <= Tau, NEW d \in Streams(FixedFrom, m + 1)
                 PROVE  FixedAt(m + 1, d)
    OBVIOUS
  <2>2. m < Tau /\ m <= Tau /\ m + 1 \in 1 .. Tau /\ m + 1 \in 1 .. m + 1 /\ m + 1 \in Nat
    BY <2>1, SlotFacts
  <2>3. PICK e, j, s : e = [k \in 1 .. m |-> d[k]] /\ j = d[m + 1][1] /\ s = d[m + 1][2]
    OBVIOUS
  <2>4. e \in Streams(FixedFrom, m) /\ FixedAt(m, e)
    BY <1>2, <2>2, <2>3, StreamCut
  <2>5. j \in Slots /\ s \in {-1, 1} /\ j \in m + 1 .. N /\ m + 1 \in Slots
    <3>1. j \in FixedFrom[m + 1] /\ j \in Slots /\ s \in {-1, 1}
      BY <2>2, <2>3, StreamFacts
    <3>2. QED
      BY <2>2, <3>1, FixedFromFacts
  <2>6. PICK o, v : o = LastOrder(e) /\ v = Fixed(e)
    OBVIOUS
  <2>7. PICK p, u : /\ p = LastOrder(d) /\ u = Fixed(d)
                    /\ p = FixedOrder(o, m + 1, j) /\ u = Sign(v, o[j], s)
    BY <2>2, <2>3, <2>6, FixedStep
  <2>8. /\ o \in Orders /\ v \in Vectors /\ IsFiniteSet(Filled(v)) /\ Cardinality(Filled(v)) = m
        /\ Filled(v) = {o[k] : k \in 1 .. m}
    BY <2>4, <2>6 DEF FixedAt, FixedVectors
  <2>9. o[j] \in Slots /\ o[j] \notin Filled(v) /\ v[o[j]] = 0
    <3>1. o[j] \in Slots /\ \A k \in Slots : o[k] = o[j] => k = j
      BY <2>5, <2>8 DEF Orders
    <3>2. \A k \in 1 .. m : k \in Slots /\ k # j
      BY <2>2, <2>5, SlotFacts DEF Slots
    <3>3. o[j] \notin Filled(v)
      BY <2>8, <3>1, <3>2
    <3>4. QED
      BY <3>1, <3>3 DEF Filled
  <2>10. u \in Vectors /\ Filled(u) = Filled(v) \cup {o[j]}
    <3>1. PICK x \in Slots : x = o[j]
      BY <2>9
    <3>2. v \in Vectors /\ v[x] = 0 /\ s \in {-1, 1}
      BY <2>5, <2>8, <2>9, <3>1
    <3>3. Sign(v, x, s) \in Vectors /\ Filled(Sign(v, x, s)) = Filled(v) \cup {x}
      BY <3>2, SignFacts
    <3>4. u = Sign(v, x, s)
      BY <2>7, <3>1
    <3>5. QED
      BY <3>1, <3>3, <3>4
  <2>11. IsFiniteSet(Filled(u)) /\ Cardinality(Filled(u)) = m + 1
    <3>1. IsFiniteSet(Filled(v)) /\ Cardinality(Filled(v)) = m
      BY <2>8
    <3>2. /\ IsFiniteSet(Filled(v) \cup {o[j]})
          /\ Cardinality(Filled(v) \cup {o[j]}) = Cardinality(Filled(v)) + 1
      BY <2>9, <3>1, FS_AddElement
    <3>3. QED
      BY <2>10, <3>1, <3>2
  <2>12. p \in Orders /\ p[m + 1] = o[j] /\ \A i \in Slots : i # m + 1 /\ i # j => p[i] = o[i]
    <3>1. /\ FixedOrder(o, m + 1, j) \in Orders /\ FixedOrder(o, m + 1, j)[m + 1] = o[j]
          /\ \A i \in Slots : i # m + 1 /\ i # j => FixedOrder(o, m + 1, j)[i] = o[i]
      BY <2>5, <2>8, OrderFacts
    <3>2. p = FixedOrder(o, m + 1, j)
      BY <2>7
    <3>3. QED
      BY <3>1, <3>2
  <2>13. Filled(u) = {p[k] : k \in 1 .. m + 1}
    <3>1. \A k \in 1 .. m : p[k] = o[k]
      <4>1. \A k \in 1 .. m : k \in Slots /\ k # j /\ k # m + 1
        BY <2>2, <2>5, SlotFacts DEF Slots
      <4>2. QED
        BY <2>12, <4>1
    <3>2. 1 .. m + 1 = (1 .. m) \cup {m + 1}
      OBVIOUS
    <3>3. {p[k] : k \in 1 .. m + 1} = {o[k] : k \in 1 .. m} \cup {o[j]}
      BY <2>12, <3>1, <3>2
    <3>4. QED
      BY <2>8, <2>10, <3>3
  <2>14. QED
    BY <2>7, <2>10, <2>11, <2>12, <2>13 DEF FixedAt, FixedVectors
<1>3. \A m \in Nat : m \in W
  <2> HIDE DEF W
  <2>1. QED
    BY <1>1, <1>2, NatSetInduction
<1>4. QED
  BY <1>3

\* Every vector with m filled slots comes of m! streams: whichever of its
\* slots was chosen last, the rest came of (m - 1)!.
LEMMA FixedCount ==
  \A m \in Nat : m <= Tau => \A u \in FixedVectors(m) :
    /\ IsFiniteSet({d \in Streams(FixedFrom, m) : Fixed(d) = u})
    /\ Cardinality({d \in Streams(FixedFrom, m) : Fixed(d) = u}) = Factorial[m]
<1> DEFINE From(m, u) == {d \in Streams(FixedFrom, m) : Fixed(d) = u}
           W == {m \in Nat : m <= Tau => \A u \in FixedVectors(m) :
                   IsFiniteSet(From(m, u)) /\ Cardinality(From(m, u)) = Factorial[m]}
<1>1. 0 \in W
  <2>1. SUFFICES ASSUME NEW u \in FixedVectors(0)
                 PROVE  IsFiniteSet(From(0, u)) /\ Cardinality(From(0, u)) = 1
    BY FactorialFacts
  <2>2. u = Zero
    BY EmptyVector DEF FixedVectors
  <2>3. PICK e : e = [k \in 1 .. 0 |-> <<k, k>>]
    OBVIOUS
  <2>4. Streams(FixedFrom, 0) = {e}
    <3>1. e \in Streams(FixedFrom, 0)
      BY <2>3 DEF Streams
    <3>2. \A d \in Streams(FixedFrom, 0) : d = e
      BY <2>3 DEF Streams
    <3>3. QED
      BY <3>1, <3>2
  <2>5. From(0, u) = {e}
    BY <2>2, <2>4, FixedEmpty
  <2>6. QED
    BY <2>5, FS_Singleton
<1>2. ASSUME NEW m \in Nat, m \in W PROVE m + 1 \in W
  <2>1. SUFFICES ASSUME m + 1 <= Tau, NEW u \in FixedVectors(m + 1)
                 PROVE  /\ IsFiniteSet(From(m + 1, u))
                        /\ Cardinality(From(m + 1, u)) = Factorial[m + 1]
    OBVIOUS
  <2>2. m < Tau /\ m <= Tau /\ m + 1 \in 1 .. Tau /\ m + 1 \in 1 .. m + 1 /\ m + 1 \in Slots
    BY <2>1, SlotFacts DEF Slots
  <2>3. PICK cut : cut = [d \in Streams(FixedFrom, m + 1) |-> [k \in 1 .. m |-> d[k]]]
    OBVIOUS
  <2>4. PICK D, S : D = From(m + 1, u) /\ S = Filled(u)
    OBVIOUS
  <2>5. u \in Vectors /\ IsFiniteSet(S) /\ Cardinality(S) = m + 1
    BY <2>4 DEF FixedVectors
  <2>6. PICK f : f = [d \in D |-> LastOrder(cut[d])[d[m + 1][1]]]
    OBVIOUS
  <2>7. ASSUME NEW d \in D
        PROVE  /\ d \in Streams(FixedFrom, m + 1) /\ cut[d] \in Streams(FixedFrom, m)
               /\ d \in [1 .. m + 1 -> Slots \X Signs]
               /\ f[d] \in Slots /\ f[d] \in S
               /\ d[m + 1] = <<d[m + 1][1], u[f[d]]>> /\ d[m + 1][1] \in Slots
               /\ f[d] = LastOrder(cut[d])[d[m + 1][1]] /\ LastOrder(cut[d]) \in Orders
               /\ Fixed(cut[d]) = Sign(u, f[d], 0)
    <3>1. d \in Streams(FixedFrom, m + 1) /\ Fixed(d) = u
      BY <2>4
    <3>2. PICK j, s, e, v, o : /\ j = d[m + 1][1] /\ s = d[m + 1][2] /\ e = cut[d]
                               /\ v = Fixed(e) /\ o = LastOrder(e)
      OBVIOUS
    <3>11. e = [k \in 1 .. m |-> d[k]]
      BY <2>3, <3>1, <3>2
    <3>3. /\ d \in [1 .. m + 1 -> Slots \X Signs]
          /\ j \in Slots /\ s \in {-1, 1} /\ j \in m + 1 .. N /\ d[m + 1] = <<j, s>>
      <4>1. /\ j \in FixedFrom[m + 1] /\ j \in Slots /\ s \in {-1, 1} /\ d[m + 1] = <<j, s>>
            /\ d \in [1 .. m + 1 -> Slots \X Signs]
        BY <2>2, <3>1, <3>2, StreamFacts
      <4>2. QED
        BY <2>2, <4>1, FixedFromFacts
    <3>4. e \in Streams(FixedFrom, m)
      <4>1. [k \in 1 .. m |-> d[k]] \in Streams(FixedFrom, m)
        BY <3>1, StreamCut
      <4>2. QED
        BY <3>11, <4>1
    <3>5. Fixed(d) = Sign(v, o[j], s)
      <4>1. Fixed(d) = Sign(Fixed(e), LastOrder(e)[d[m + 1][1]], d[m + 1][2])
        BY <2>2, <3>1, <3>11, FixedStep
      <4>2. QED
        BY <3>2, <4>1
    <3>6. FixedAt(m, e)
      BY <2>2, <3>4, FixedGood
    <3>7. PICK x \in Slots : x = o[j] /\ v[x] = 0 /\ v \in Vectors /\ o \in Orders
      <4>1. o \in Orders /\ v \in Vectors /\ Filled(v) = {o[k] : k \in 1 .. m}
        BY <3>2, <3>6 DEF FixedAt, FixedVectors
      <4>2. o[j] \in Slots /\ \A k \in Slots : o[k] = o[j] => k = j
        BY <3>3, <4>1 DEF Orders
      <4>3. \A k \in 1 .. m : k \in Slots /\ k # j
        BY <2>2, <3>3, SlotFacts DEF Slots
      <4>4. o[j] \notin Filled(v)
        BY <4>1, <4>2, <4>3
      <4>5. QED
        BY <4>1, <4>2, <4>4 DEF Filled
    <3>8. u[x] = s /\ x \in S /\ Sign(u, x, 0) = v
      <4>1. /\ Sign(v, x, s)[x] = s /\ Filled(Sign(v, x, s)) = Filled(v) \cup {x}
            /\ Sign(Sign(v, x, s), x, 0) = v
        BY <3>3, <3>7, SignFacts
      <4>2. u = Sign(v, x, s)
        BY <3>1, <3>5, <3>7
      <4>3. QED
        BY <2>4, <4>1, <4>2
    <3>9. f[d] = x
      BY <2>6, <3>2, <3>7
    <3>10. QED
      BY <3>1, <3>2, <3>3, <3>4, <3>7, <3>8, <3>9
  <2>8. ASSUME NEW x \in S
        PROVE  /\ IsFiniteSet({d \in D : f[d] = x})
               /\ Cardinality({d \in D : f[d] = x}) = Factorial[m]
    <3>1. x \in Slots /\ u[x] # 0 /\ u[x] \in Signs
      <4>1. x \in Slots /\ u[x] # 0 /\ u[x] \in {-1, 0, 1}
        BY <2>4, <2>5 DEF Filled, Vectors
      <4>2. QED
        BY <4>1 DEF Signs
    <3>2. PICK v : v = [k \in Slots |-> IF k = x THEN 0 ELSE u[k]]
      OBVIOUS
    <3>3. v \in Vectors /\ v = Sign(u, x, 0) /\ Sign(v, x, u[x]) = u /\ Filled(v) = S \ {x}
      <4>1. u \in [Slots -> {-1, 0, 1}]
        BY <2>5 DEF Vectors
      <4>2. v \in Vectors /\ v = Sign(u, x, 0) /\ Filled(v) = S \ {x}
        BY <2>4, <3>1, <3>2, <4>1 DEF Vectors, Sign, Filled
      <4>3. Sign(v, x, u[x]) = [k \in Slots |-> IF k = x THEN u[x] ELSE v[k]]
        BY <3>2 DEF Sign
      <4>4. \A k \in Slots : Sign(v, x, u[x])[k] = u[k]
        BY <3>2, <4>3
      <4>5. QED
        BY <4>1, <4>2, <4>3, <4>4
    <3>4. v \in FixedVectors(m)
      <4>1. IsFiniteSet(S \ {x}) /\ Cardinality(S \ {x}) = Cardinality(S) - 1
        BY <2>5, FS_RemoveElement
      <4>2. IsFiniteSet(Filled(v)) /\ Cardinality(Filled(v)) = m
        BY <2>5, <3>3, <4>1
      <4>3. QED
        BY <3>3, <4>2 DEF FixedVectors
    <3>5. PICK E, F : E = From(m, v) /\ F = {d \in D : f[d] = x}
      OBVIOUS
    <3>6. IsFiniteSet(E) /\ Cardinality(E) = Factorial[m]
      BY <1>2, <2>2, <3>4, <3>5
    <3>7. PICK at : at = [e \in E |-> CHOOSE j \in Slots : LastOrder(e)[j] = x]
      OBVIOUS
    <3>14. ASSUME NEW e \in E
           PROVE  /\ e \in Streams(FixedFrom, m) /\ Fixed(e) = v /\ LastOrder(e) \in Orders
                  /\ at[e] \in Slots /\ LastOrder(e)[at[e]] = x /\ at[e] \in m + 1 .. N
      <4>1. e \in Streams(FixedFrom, m) /\ Fixed(e) = v
        BY <3>5
      <4>2. FixedAt(m, e)
        BY <2>2, <4>1, FixedGood
      <4>3. LastOrder(e) \in Orders /\ Filled(v) = {LastOrder(e)[k] : k \in 1 .. m}
        BY <4>1, <4>2 DEF FixedAt
      <4>4. \E j \in Slots : LastOrder(e)[j] = x
        BY <3>1, <4>3 DEF Orders
      <4>5. at[e] \in Slots /\ LastOrder(e)[at[e]] = x
        BY <3>7, <4>4
      <4>6. at[e] \notin 1 .. m
        BY <3>3, <4>3, <4>5
      <4>7. QED
        BY <4>1, <4>3, <4>5, <4>6, SlotFacts DEF Slots
    <3>15. PICK g : g = [e \in E |-> [k \in 1 .. m + 1 |-> IF k = m + 1 THEN <<at[e], u[x]>> ELSE e[k]]]
      OBVIOUS
    <3>8. ASSUME NEW e \in E
          PROVE  g[e] \in F /\ e = [k \in 1 .. m |-> g[e][k]]
      <4>1. e \in Streams(FixedFrom, m) /\ Fixed(e) = v
        BY <3>14
      <4>a. PICK j \in Slots, s \in Signs : j = at[e] /\ s = u[x]
        BY <3>1, <3>14
      <4>b. PICK d : d = g[e]
        OBVIOUS
      <4>2. j = at[e] /\ s = u[x] /\ d = g[e]
        BY <4>a, <4>b
      <4>3. d = [k \in 1 .. m + 1 |-> IF k = m + 1 THEN <<j, s>> ELSE e[k]]
        BY <3>15, <4>2
      <4>4. j \in FixedFrom[m + 1]
        BY <2>2, <3>14, <4>2, FixedFromFacts
      <4>5. d \in Streams(FixedFrom, m + 1)
        <5>1. [k \in 1 .. m + 1 |-> IF k = m + 1 THEN <<j, s>> ELSE e[k]] \in Streams(FixedFrom, m + 1)
          BY <4>1, <4>4, StreamMore
        <5>2. QED
          BY <4>3, <5>1
      <4>6. d[m + 1] = <<j, s>> /\ \A k \in 1 .. m : d[k] = e[k]
        BY <2>2, <4>3
      <4>7. e = [k \in 1 .. m |-> d[k]]
        <5>1. e \in [1 .. m -> Slots \X Signs]
          BY <4>1, StreamFacts
        <5>2. QED
          BY <4>6, <5>1
      <4>8. Fixed(d) = u
        <5>1. Fixed(d) = Sign(Fixed(e), LastOrder(e)[d[m + 1][1]], d[m + 1][2])
          BY <2>2, <4>5, <4>7, FixedStep
        <5>2. d[m + 1][1] = j /\ d[m + 1][2] = s
          BY <4>6
        <5>3. LastOrder(e)[j] = x
          BY <3>14, <4>2
        <5>4. QED
          BY <3>3, <4>1, <4>2, <5>1, <5>2, <5>3
      <4>9. d \in D
        BY <2>4, <4>5, <4>8
      <4>10. cut[d] = e
        BY <2>3, <4>5, <4>7
      <4>11. f[d] = x
        BY <2>6, <3>14, <4>2, <4>6, <4>9, <4>10
      <4>12. QED
        BY <3>5, <4>2, <4>7, <4>9, <4>11
    <3>9. g \in [E -> F]
      BY <3>8, <3>15
    <3>10. \A y, z \in E : g[y] = g[z] => y = z
      BY <3>8
    <3>11. \A d \in F : \E e \in E : g[e] = d
      <4>1. ASSUME NEW d \in F PROVE \E e \in E : g[e] = d
        <5>1. d \in D /\ f[d] = x
          BY <3>5
        <5>2. PICK e : e = cut[d]
          OBVIOUS
        <5>3. e \in E
          BY <2>7, <3>3, <3>5, <5>1, <5>2
        <5>4. d \in [1 .. m + 1 -> Slots \X Signs] /\ d[m + 1] = <<at[e], u[x]>>
          <6>1. /\ d[m + 1] = <<d[m + 1][1], u[x]>> /\ d[m + 1][1] \in Slots
                /\ LastOrder(e)[d[m + 1][1]] = x /\ d \in [1 .. m + 1 -> Slots \X Signs]
            BY <2>7, <5>1, <5>2
          <6>2. LastOrder(e) \in Orders /\ at[e] \in Slots /\ LastOrder(e)[at[e]] = x
            BY <3>14, <5>3
          <6>3. d[m + 1][1] = at[e]
            BY <6>1, <6>2 DEF Orders
          <6>4. QED
            BY <6>1, <6>3
        <5>5. g[e] = [k \in 1 .. m + 1 |-> IF k = m + 1 THEN <<at[e], u[x]>> ELSE e[k]]
          BY <3>15, <5>3
        <5>6. \A k \in 1 .. m : e[k] = d[k]
          BY <2>3, <2>7, <5>1, <5>2
        <5>7. \A k \in 1 .. m + 1 : g[e][k] = d[k]
          <6>1. SUFFICES ASSUME NEW k \in 1 .. m + 1 PROVE g[e][k] = d[k]
            OBVIOUS
          <6>2. CASE k = m + 1
            BY <5>4, <5>5, <6>2
          <6>3. CASE k # m + 1
            BY <5>5, <5>6, <6>3
          <6>4. QED
            BY <6>2, <6>3
        <5>8. g[e] = d
          BY <5>4, <5>5, <5>7
        <5>9. QED
          BY <5>3, <5>8
      <4>2. QED
        BY <4>1
    <3>12. IsFiniteSet(F) /\ Cardinality(F) = Cardinality(E)
      BY <3>6, <3>9, <3>10, <3>11, SameCount
    <3>13. QED
      BY <3>5, <3>6, <3>12
  <2>9. Factorial[m] \in Nat /\ Factorial[m + 1] = (m + 1) * Factorial[m]
    BY FactorialFacts
  <2>10. PICK c \in Nat : c = Factorial[m]
    BY <2>9
  <2>11. \A d \in D : f[d] \in S
    BY <2>7
  <2>12. \A j \in S : IsFiniteSet(Fibre(D, f, j)) /\ Cardinality(Fibre(D, f, j)) = c
    BY <2>8, <2>10 DEF Fibre
  <2>14. IsFiniteSet(D) /\ Cardinality(D) = c * Cardinality(S)
    <3>1. EvenParts(D, S, f, c)
      BY <2>5, <2>10, <2>11, <2>12 DEF EvenParts
    <3>2. QED
      BY <3>1, EqualFibres
  <2>15. c * (m + 1) = (m + 1) * c
    OBVIOUS
  <2>16. QED
    BY <2>4, <2>5, <2>9, <2>10, <2>14, <2>15
<1>3. \A m \in Nat : m \in W
  <2> HIDE DEF W
  <2>1. QED
    BY <1>1, <1>2, NatSetInduction
<1>4. QED
  BY <1>3

-----------------------------------------------------------------------------
(***************************************************************************)
(* Units of Z_Q[X]/(X^N + 1).                                              *)
(***************************************************************************)
LEMMA FiniteFunctions ==
  ASSUME NEW S, IsFiniteSet(S)
  PROVE  \A n \in Nat : IsFiniteSet([1 .. n -> S])
<1> DEFINE W == {n \in Nat : IsFiniteSet([1 .. n -> S])}
<1>1. 0 \in W
  <2>1. PICK e : e = [k \in 1 .. 0 |-> k]
    OBVIOUS
  <2>2. [1 .. 0 -> S] = {e}
    <3>1. e \in [1 .. 0 -> S] /\ \A f \in [1 .. 0 -> S] : f = e
      BY <2>1
    <3>2. QED
      BY <3>1
  <2>3. QED
    BY <2>2, FS_Singleton
<1>2. ASSUME NEW n \in Nat, n \in W PROVE n + 1 \in W
  <2>1. PICK E, D : E = [1 .. n -> S] /\ D = [1 .. n + 1 -> S]
    OBVIOUS
  <2>2. IsFiniteSet(E)
    BY <1>2, <2>1
  <2>3. PICK c \in Nat : c = Cardinality(E)
    BY <2>2, FS_CardinalityType
  <2>4. PICK f : f = [d \in D |-> d[n + 1]]
    OBVIOUS
  <2>5. \A d \in D : f[d] \in S
    BY <2>1, <2>4
  <2>6. ASSUME NEW x \in S
        PROVE  IsFiniteSet(Fibre(D, f, x)) /\ Cardinality(Fibre(D, f, x)) = c
    <3>1. PICK F : F = Fibre(D, f, x)
      OBVIOUS
    <3>2. PICK g : g = [e \in E |-> [k \in 1 .. n + 1 |-> IF k = n + 1 THEN x ELSE e[k]]]
      OBVIOUS
    <3>3. ASSUME NEW e \in E PROVE g[e] \in F /\ e = [k \in 1 .. n |-> g[e][k]]
      <4>1. g[e] \in D /\ f[g[e]] = x
        BY <2>1, <2>4, <3>2
      <4>2. e = [k \in 1 .. n |-> g[e][k]]
        BY <2>1, <3>2
      <4>3. QED
        BY <3>1, <4>1, <4>2 DEF Fibre
    <3>4. g \in [E -> F] /\ \A y, z \in E : g[y] = g[z] => y = z
      <4>1. \A e \in E : g[e] \in F
        BY <3>3
      <4>2. g \in [E -> F]
        BY <3>2, <4>1
      <4>3. ASSUME NEW y \in E, NEW z \in E, g[y] = g[z] PROVE y = z
        <5>1. y = [k \in 1 .. n |-> g[y][k]] /\ z = [k \in 1 .. n |-> g[z][k]]
          BY <3>3
        <5>2. QED
          BY <4>3, <5>1
      <4>4. QED
        BY <4>2, <4>3
    <3>5. \A d \in F : \E e \in E : g[e] = d
      <4>1. ASSUME NEW d \in F PROVE \E e \in E : g[e] = d
        <5>1. d \in [1 .. n + 1 -> S] /\ d[n + 1] = x
          BY <2>1, <2>4, <3>1 DEF Fibre
        <5>2. PICK e : e = [k \in 1 .. n |-> d[k]]
          OBVIOUS
        <5>3. e \in E
          BY <2>1, <5>1, <5>2
        <5>4. g[e] = [k \in 1 .. n + 1 |-> IF k = n + 1 THEN x ELSE e[k]]
          BY <3>2, <5>3
        <5>5. \A k \in 1 .. n + 1 : g[e][k] = d[k]
          BY <5>1, <5>2, <5>4
        <5>6. QED
          BY <5>1, <5>3, <5>4, <5>5
      <4>2. QED
        BY <4>1
    <3>6. IsFiniteSet(F) /\ Cardinality(F) = Cardinality(E)
      BY <2>2, <3>4, <3>5, SameCount
    <3>7. QED
      BY <2>3, <3>1, <3>6
  <2>7. EvenParts(D, S, f, c)
    BY <2>3, <2>5, <2>6 DEF EvenParts
  <2>8. QED
    BY <2>1, <2>7, EqualFibres
<1>3. \A n \in Nat : n \in W
  <2> HIDE DEF W
  <2>1. QED
    BY <1>1, <1>2, NatSetInduction
<1>4. QED
  BY <1>3

\* Off its diagonal a symmetric table holds everything twice.
LEMMA SymmetricSum ==
  ASSUME NEW S, IsFiniteSet(S), NEW f, \A x, y \in S : f[x][y] \in Int /\ f[x][y] = f[y][x]
  PROVE  Cong(2, SumFunctionOnSet([x \in S |-> SumFunctionOnSet(f[x], S)], S),
                 SumFunctionOnSet([x \in S |-> f[x][x]], S))
<1> DEFINE row(s) == [x \in S |-> SumFunctionOnSet(f[x], s)]
           all(s) == SumFunctionOnSet(row(s), s)
           diag == [x \in S |-> f[x][x]]
           W == {s \in SUBSET S : Cong(2, all(s), SumFunctionOnSet(diag, s))}
<1>1. ASSUME NEW s \in SUBSET S
      PROVE  /\ IsFiniteSet(s) /\ \A x \in S : row(s)[x] \in Int
             /\ all(s) \in Int /\ SumFunctionOnSet(diag, s) \in Int
  <2>1. IsFiniteSet(s)
    BY FS_Subset
  <2>2. \A x \in S : row(s)[x] \in Int
    <3>1. ASSUME NEW x \in S PROVE SumFunctionOnSet(f[x], s) \in Int
      <4>1. \A y \in s : f[x][y] \in Int
        OBVIOUS
      <4>2. QED
        BY <2>1, <4>1, SumType
    <3>2. QED
      BY <3>1
  <2>3. (\A x \in s : row(s)[x] \in Int) /\ \A x \in s : diag[x] \in Int
    BY <2>2
  <2> HIDE DEF row, diag
  <2>4. QED
    BY <2>1, <2>2, <2>3, SumType
<1>2. {} \in W
  <2>1. all({}) = 0 /\ SumFunctionOnSet(diag, {}) = 0
    <3> HIDE DEF row, diag
    <3>1. QED
      BY SumEmpty
  <2> HIDE DEF all, diag
  <2>2. 2 \in Nat /\ 0 \in Int
    OBVIOUS
  <2>3. Cong(2, 0, 0)
    BY <2>2, CongRefl
  <2>4. QED
    BY <2>1, <2>3
<1>3. ASSUME NEW s \in SUBSET S, s # {}, \A x \in s : s \ {x} \in W PROVE s \in W
  <2>1. PICK z, t : z \in s /\ z \in S /\ t = s \ {z} /\ t \in SUBSET S
    BY <1>3
  <2>2. /\ IsFiniteSet(s) /\ IsFiniteSet(t) /\ all(s) \in Int /\ all(t) \in Int
        /\ (\A x \in S : row(s)[x] \in Int) /\ (\A x \in S : row(t)[x] \in Int)
        /\ SumFunctionOnSet(diag, s) \in Int /\ SumFunctionOnSet(diag, t) \in Int
    BY <1>1, <2>1
  <2>3. \A x \in S : row(s)[x] = f[x][z] + row(t)[x]
    <3>1. ASSUME NEW x \in S PROVE SumFunctionOnSet(f[x], s) = f[x][z] + SumFunctionOnSet(f[x], t)
      <4>1. (\A y \in s : f[x][y] \in Int) /\ IsFiniteSet(s)
        BY <2>2
      <4>2. QED
        BY <2>1, <4>1, SumRemove
    <3>2. QED
      BY <3>1
  <2>4. all(s) = row(s)[z] + SumFunctionOnSet(row(s), t)
    <3>1. IsFiniteSet(s) /\ \A x \in s : row(s)[x] \in Int
      BY <2>2
    <3> HIDE DEF row
    <3>2. QED
      BY <2>1, <3>1, SumRemove
  <2>5. SumFunctionOnSet(diag, s) = f[z][z] + SumFunctionOnSet(diag, t)
    <3>1. IsFiniteSet(s) /\ (\A x \in s : diag[x] \in Int) /\ diag[z] = f[z][z]
      BY <2>1, <2>2
    <3> HIDE DEF diag
    <3>2. QED
      BY <2>1, <3>1, SumRemove
  <2>6. PICK cross \in Int : cross = SumFunctionOnSet(f[z], t)
    <3>1. (\A y \in t : f[z][y] \in Int) /\ IsFiniteSet(t)
      BY <2>1, <2>2
    <3>2. QED
      BY <3>1, SumType
  <2>7. row(s)[z] = f[z][z] + cross
    BY <2>1, <2>3, <2>6
  <2>8. Cong(2, SumFunctionOnSet(row(s), t), cross + all(t))
    <3>1. PICK o \in Int, w \in Nat : o = 1 /\ w = 2
      OBVIOUS
    <3>2. ASSUME NEW x \in t
          PROVE  /\ f[z][x] \in Int /\ row(t)[x] \in Int /\ row(s)[x] \in Int
                 /\ Cong(w, row(s)[x], o * f[z][x] + o * row(t)[x])
      <4>1. f[z][x] \in Int /\ row(t)[x] \in Int /\ row(s)[x] \in Int /\ f[x][z] = f[z][x]
        BY <2>1, <2>2
      <4>2. row(s)[x] = f[x][z] + row(t)[x]
        BY <2>1, <2>3
      <4>3. row(s)[x] = o * f[z][x] + o * row(t)[x]
        BY <3>1, <4>1, <4>2
      <4> HIDE DEF row
      <4>4. Cong(w, row(s)[x], row(s)[x])
        BY <4>1, CongRefl
      <4>5. QED
        BY <4>1, <4>3, <4>4
    <3>3. IsFiniteSet(t)
      BY <2>2
    <3>4. PICK A, B, C : A = f[z] /\ B = row(t) /\ C = row(s)
      OBVIOUS
    <3>5. \A x \in t : /\ A[x] \in Int /\ B[x] \in Int /\ C[x] \in Int
                       /\ Cong(w, C[x], o * A[x] + o * B[x])
      BY <3>2, <3>4
    <3>6. Cong(w, SumFunctionOnSet(C, t), o * SumFunctionOnSet(A, t) + o * SumFunctionOnSet(B, t))
      BY <3>3, <3>5, SumLinear
    <3>7. SumFunctionOnSet(A, t) = cross /\ SumFunctionOnSet(B, t) = all(t) /\ all(t) \in Int
      BY <2>2, <2>6, <3>4
    <3>8. o * cross + o * all(t) = cross + all(t)
      <4> HIDE DEF all
      <4>1. QED
        BY <3>1, <3>7
    <3>9. QED
      BY <3>1, <3>4, <3>6, <3>7, <3>8
  <2>9. SumFunctionOnSet(row(s), t) \in Int
    <3>1. IsFiniteSet(t) /\ \A x \in t : row(s)[x] \in Int
      BY <2>1, <2>2
    <3> HIDE DEF row
    <3>2. QED
      BY <3>1, SumType
  <2>10. Cong(2, all(t), SumFunctionOnSet(diag, t))
    BY <1>3, <2>1
  <2>11. PICK r \in Int, q \in Int, e \in Int, g \in Int, h \in Int :
           /\ r = SumFunctionOnSet(row(s), t) /\ q = all(t) /\ e = f[z][z]
           /\ g = SumFunctionOnSet(diag, t) /\ h = all(s)
    BY <2>1, <2>2, <2>9
  <2>12. /\ Cong(2, r, cross + q) /\ Cong(2, q, g) /\ h = e + cross + r
         /\ SumFunctionOnSet(diag, s) = e + g
    BY <2>1, <2>4, <2>5, <2>7, <2>8, <2>10, <2>11
  <2>13. Cong(2, h, e + g)
    <3>1. PICK i \in Int : r = (cross + q) + 2 * i
      BY <2>12 DEF Cong
    <3>2. PICK j \in Int : q = g + 2 * j
      BY <2>12 DEF Cong
    <3>3. cross + i + j \in Int /\ h = (e + g) + 2 * (cross + i + j)
      BY <2>12, <3>1, <3>2
    <3>4. QED
      BY <3>3 DEF Cong
  <2>14. Cong(2, all(s), SumFunctionOnSet(diag, s))
    BY <2>11, <2>12, <2>13
  <2>15. QED
    BY <2>14
<1>4. S \in W
  <2> HIDE DEF W
  <2>1. QED
    BY <1>2, <1>3, SetInduction
<1>5. QED
  BY <1>4

\* b continued over all numbers, with period N.
Cyclic(b) == [x \in Int |-> b[((x - 1) % N) + 1]]
\* The terms of a b at x, i taken s slots apart.
Terms(a, B, s, x) == [i \in Slots |-> a[i] * B[x - s * i]]
Spread(a, B, s, x) == SumFunctionOnSet(Terms(a, B, s, x), Slots)
Product(a, b, k) == SumFunctionOnSet([i \in Slots |-> a[i] * Wrapped(b, k - i + 1)], Slots)
Integers == [Slots -> Int]

LEMMA CyclicFacts ==
  ASSUME NEW b \in Integers
  PROVE  /\ Cyclic(b) \in [Int -> Int]
         /\ \A x, z \in Int : Cyclic(b)[x + N * z] = Cyclic(b)[x]
         /\ \A y \in 1 - N .. N : Cyclic(b)[y] = IF y > 0 THEN b[y] ELSE b[y + N]
<1>1. N \in Nat /\ N > 0
  BY SlotFacts
<1>2. ASSUME NEW x \in Int PROVE ((x - 1) % N) + 1 \in Slots
  <2>1. (x - 1) % N \in 0 .. N - 1
    BY <1>1, DivMod
  <2>2. QED
    BY <1>1, <2>1 DEF Slots
<1>3. Cyclic(b) \in [Int -> Int]
  BY <1>2 DEF Cyclic, Integers
<1>4. ASSUME NEW x \in Int, NEW z \in Int PROVE Cyclic(b)[x + N * z] = Cyclic(b)[x]
  <2>1. PICK u \in Int, w \in Int : u = (x + N * z) - 1 /\ w = x - 1
    BY <1>1
  <2>2. u = w + N * z
    BY <1>1, <2>1
  <2>3. Cong(N, u, w)
    BY <2>2 DEF Cong
  <2>4. u % N = w % N
    BY <1>1, <2>3, CongSame
  <2>5. x + N * z \in Int
    BY <1>1
  <2>6. QED
    BY <2>1, <2>4, <2>5 DEF Cyclic
<1>5. ASSUME NEW y \in 1 - N .. N PROVE Cyclic(b)[y] = IF y > 0 THEN b[y] ELSE b[y + N]
  <2>1. PICK w \in Int, k \in Int, r \in Int :
          /\ w = y - 1 /\ w = N * k + r /\ 0 <= r /\ r < N
          /\ r = IF y > 0 THEN y - 1 ELSE y + N - 1
    <3>1. CASE y > 0
      <4>1. PICK w \in Int, z \in Int : w = y - 1 /\ z = 0
        BY <1>1
      <4>2. w = N * z + w
        BY <1>1, <4>1
      <4>3. QED
        BY <1>1, <3>1, <4>1, <4>2
    <3>2. CASE ~(y > 0)
      <4>1. PICK w \in Int, z \in Int, r \in Int : w = y - 1 /\ z = -1 /\ r = y + N - 1
        BY <1>1
      <4>2. w = N * z + r
        BY <1>1, <4>1
      <4>3. QED
        BY <1>1, <3>2, <4>1, <4>2
    <3>3. QED
      BY <3>1, <3>2
  <2>2. w % N = r
    BY <1>1, <2>1, DivModUnique
  <2>3. Cyclic(b)[y] = b[r + 1]
    BY <1>1, <2>1, <2>2 DEF Cyclic
  <2>4. QED
    BY <1>1, <2>1, <2>3
<1>6. QED
  BY <1>3, <1>4, <1>5

LEMMA TermsType ==
  ASSUME NEW a \in Integers, NEW B \in [Int -> Int], NEW s \in Int, NEW x \in Int
  PROVE  /\ \A i \in Slots : Terms(a, B, s, x)[i] \in Int /\ x - s * i \in Int
         /\ Spread(a, B, s, x) \in Int
<1>1. \A i \in Slots : i \in Int
  BY SlotFacts DEF Slots
<1>2. \A i \in Slots : Terms(a, B, s, x)[i] \in Int /\ x - s * i \in Int
  <2>1. SUFFICES ASSUME NEW i \in Slots PROVE a[i] * B[x - s * i] \in Int /\ x - s * i \in Int
    BY DEF Terms
  <2>2. a[i] \in Int /\ x - s * i \in Int
    BY <1>1 DEF Integers
  <2>3. B[x - s * i] \in Int
    BY <2>2
  <2>4. QED
    BY <2>2, <2>3
<1>3. QED
  BY <1>2, SlotFacts, SumType DEF Spread

LEMMA ProductType ==
  ASSUME NEW a \in Integers, NEW b \in Integers, NEW k \in Slots
  PROVE  /\ \A i \in Slots : /\ Wrapped(b, k - i + 1) \in Int
                             /\ a[i] * Wrapped(b, k - i + 1) \in Int
         /\ Product(a, b, k) \in Int
<1>1. \A i \in Slots : Wrapped(b, k - i + 1) \in Int /\ a[i] * Wrapped(b, k - i + 1) \in Int
  <2>1. SUFFICES ASSUME NEW i \in Slots
                 PROVE  Wrapped(b, k - i + 1) \in Int /\ a[i] * Wrapped(b, k - i + 1) \in Int
    OBVIOUS
  <2>2. IF k - i + 1 > 0 THEN k - i + 1 \in Slots ELSE k - i + 1 + N \in Slots
    BY SlotFacts DEF Slots
  <2>3. Wrapped(b, k - i + 1) \in Int
    BY <2>2 DEF Wrapped, Integers
  <2>4. a[i] \in Int
    BY DEF Integers
  <2>5. QED
    BY <2>3, <2>4
<1>2. PICK f : f = [i \in Slots |-> a[i] * Wrapped(b, k - i + 1)]
  OBVIOUS
<1>3. \A i \in Slots : f[i] \in Int
  BY <1>1, <1>2
<1>4. SumFunctionOnSet(f, Slots) \in Int
  BY <1>3, SlotFacts, SumType
<1>5. QED
  BY <1>1, <1>2, <1>4 DEF Product

\* Modulo 2 a coefficient that wraps around need not be negated.
LEMMA ProductIsSpread ==
  ASSUME NEW a \in Integers, NEW b \in Integers, NEW k \in Slots
  PROVE  Cong(2, Product(a, b, k), Spread(a, Cyclic(b), 1, k + 1))
<1>1. PICK B : B = Cyclic(b)
  OBVIOUS
<1>2. /\ B \in [Int -> Int] /\ k + 1 \in Int
      /\ \A y \in 1 - N .. N : B[y] = IF y > 0 THEN b[y] ELSE b[y + N]
  <2>1. k + 1 \in Int
    BY SlotFacts DEF Slots
  <2>2. /\ Cyclic(b) \in [Int -> Int]
        /\ \A y \in 1 - N .. N : Cyclic(b)[y] = IF y > 0 THEN b[y] ELSE b[y + N]
    BY CyclicFacts
  <2>3. QED
    BY <1>1, <2>1, <2>2
<1>3. PICK f, g, n : /\ f = [i \in Slots |-> a[i] * Wrapped(b, k - i + 1)]
                             /\ g = Terms(a, B, 1, k + 1) /\ n = 2
  OBVIOUS
<1>4. ASSUME NEW i \in Slots PROVE g[i] \in Int /\ f[i] \in Int /\ Cong(n, f[i], g[i])
  <2>0. Wrapped(b, k - i + 1) \in Int /\ k - i + 1 \in Int /\ a[i] \in Int
    <3>1. Wrapped(b, k - i + 1) \in Int
      BY ProductType
    <3>2. k - i + 1 \in Int
      BY SlotFacts DEF Slots
    <3>3. QED
      BY <3>1, <3>2 DEF Integers
  <2>1. PICK w \in Int, y \in Int, e \in Int : w = Wrapped(b, k - i + 1) /\ y = k - i + 1 /\ e = a[i]
    BY <2>0
  <2>2. y \in 1 - N .. N /\ (k + 1) - 1 * i = y
    BY <2>1, SlotFacts DEF Slots
  <2>3. PICK c \in Int : c = B[y]
    BY <1>2
  <2>4. w = c \/ w = -c
    BY <1>2, <2>1, <2>2, <2>3 DEF Wrapped
  <2>5. f[i] = e * w /\ g[i] = e * c
    BY <1>3, <2>1, <2>2, <2>3 DEF Terms
  <2>6. Cong(2, e * w, e * c)
    <3>1. CASE w = c
      <4>1. e * c \in Int /\ e * w = e * c + 2 * 0
        BY <3>1
      <4>2. QED
        BY <4>1 DEF Cong
    <3>2. CASE w = -c
      <4>1. -(e * c) \in Int /\ e * w = e * c + 2 * (-(e * c))
        BY <3>2
      <4>2. QED
        BY <4>1 DEF Cong
    <3>3. QED
      BY <2>4, <3>1, <3>2
  <2>7. QED
    BY <1>3, <2>5, <2>6
<1>5. Cong(n, SumFunctionOnSet(f, Slots), SumFunctionOnSet(g, Slots))
  <2>1. n \in Nat /\ IsFiniteSet(Slots)
    BY <1>3, SlotFacts
  <2>2. \A i \in Slots : g[i] \in Int /\ f[i] \in Int /\ Cong(n, f[i], g[i])
    BY <1>4
  <2>3. QED
    BY <2>1, <2>2, SumCong
<1>6. QED
  BY <1>1, <1>3, <1>5 DEF Product, Spread

Halves(a, B, s) == \A x \in Int : Cong(2, Spread(a, B, s, x), 0)

\* If every sum of terms s slots apart is even, so is every sum of terms 2 s
\* apart: the square of the first is the second, modulo 2.
LEMMA HalvesDouble ==
  ASSUME NEW a \in Integers, NEW B \in [Int -> Int], NEW s \in Int, Halves(a, B, s)
  PROVE  Halves(a, B, 2 * s)
<1>1. SUFFICES ASSUME NEW x \in Int PROVE Cong(2, Spread(a, B, 2 * s, x), 0)
  BY DEF Halves
<1>2. PICK f : f = [j \in Slots |-> [i \in Slots |-> a[j] * (a[i] * B[(x - s * j) - s * i])]]
  OBVIOUS
<1>3. \A i \in Slots : i \in Int /\ a[i] \in Int
  BY SlotFacts DEF Slots, Integers
<1>4. \A j, i \in Slots : f[j][i] \in Int /\ f[j][i] = f[i][j]
  <2>1. SUFFICES ASSUME NEW j \in Slots, NEW i \in Slots PROVE f[j][i] \in Int /\ f[j][i] = f[i][j]
    OBVIOUS
  <2>2. PICK c \in Int, e \in Int, y \in Int, z \in Int :
          c = a[j] /\ e = a[i] /\ y = (x - s * j) - s * i /\ z = (x - s * i) - s * j
    <3>1. a[j] \in Int /\ a[i] \in Int /\ i \in Int /\ j \in Int
      BY <1>3
    <3>2. (x - s * j) - s * i \in Int /\ (x - s * i) - s * j \in Int
      BY <3>1
    <3>3. QED
      BY <3>1, <3>2
  <2>3. y = z
    <3>1. i \in Int /\ j \in Int
      BY <1>3
    <3>2. PICK u \in Int, w \in Int : u = s * j /\ w = s * i
      BY <3>1
    <3>3. QED
      BY <2>2, <3>2
  <2>4. PICK v \in Int : v = B[y]
    OBVIOUS
  <2>5. f[j][i] = c * (e * v) /\ f[i][j] = e * (c * v)
    BY <1>2, <2>2, <2>3, <2>4
  <2>6. QED
    BY <2>5
<1>5. PICK row : row = [j \in Slots |-> SumFunctionOnSet(f[j], Slots)]
  OBVIOUS
<1>6. PICK diag : diag = [j \in Slots |-> f[j][j]]
  OBVIOUS
<1>7. Cong(2, SumFunctionOnSet(row, Slots), SumFunctionOnSet(diag, Slots))
  <2>1. IsFiniteSet(Slots)
    BY SlotFacts
  <2>2. QED
    BY <1>4, <1>5, <1>6, <2>1, SymmetricSum
<1>8. PICK n \in Nat, o \in Int, z \in Int : n = 2 /\ o = 1 /\ z = 0
  OBVIOUS
<1>9. ASSUME NEW j \in Slots PROVE row[j] \in Int /\ Cong(2, row[j], 0)
  <2>a. PICK e \in Int, y \in Int : e = a[j] /\ y = x - s * j
    <3>1. x - s * j \in Int /\ a[j] \in Int
      BY <1>3
    <3>2. QED
      BY <3>1
  <2>b. PICK g : g = Terms(a, B, s, y)
    OBVIOUS
  <2>1. g = Terms(a, B, s, y) /\ e = a[j] /\ y = x - s * j
    BY <2>a, <2>b
  <2>2. ASSUME NEW i \in Slots PROVE g[i] \in Int /\ f[j][i] \in Int /\ Cong(z, f[j][i], e * g[i])
    <3>1. g[i] \in Int
      BY <2>1, TermsType
    <3>2. f[j][i] = e * g[i] /\ f[j][i] \in Int
      BY <1>2, <1>4, <2>1 DEF Terms
    <3>3. Cong(z, f[j][i], f[j][i])
      BY <1>8, <3>2, CongRefl
    <3>4. QED
      BY <3>1, <3>2, <3>3
  <2>3. z \in Nat /\ IsFiniteSet(Slots)
    BY <1>8, SlotFacts
  <2>4. PICK h : h = f[j]
    OBVIOUS
  <2>5. Cong(z, SumFunctionOnSet(h, Slots), e * SumFunctionOnSet(g, Slots))
    <3>1. \A i \in Slots : g[i] \in Int /\ h[i] \in Int /\ Cong(z, h[i], e * g[i])
      BY <2>2, <2>4
    <3>2. QED
      BY <2>3, <3>1, SumScaled
  <2>6. PICK p \in Int : p = SumFunctionOnSet(g, Slots)
    BY <2>1, TermsType DEF Spread
  <2>7. PICK q \in Int : q = SumFunctionOnSet(h, Slots)
    <3>1. \A i \in Slots : h[i] \in Int
      BY <1>4, <2>4
    <3>2. QED
      BY <2>3, <3>1, SumType
  <2>8. q = e * p
    <3>1. PICK k \in Int : q = e * p + z * k
      BY <2>5, <2>6, <2>7 DEF Cong
    <3>2. QED
      BY <1>8, <3>1
  <2>9. PICK k \in Int : p = 2 * k
    <3>1. Cong(2, p, 0)
      BY <2>1, <2>6 DEF Halves, Spread
    <3>2. QED
      BY <3>1 DEF Cong
  <2>10. q = 0 + 2 * (e * k) /\ e * k \in Int
    BY <2>8, <2>9
  <2>11. row[j] = q
    BY <1>5, <2>4, <2>7
  <2>12. QED
    BY <2>10, <2>11 DEF Cong
<1>10. PICK r \in Int : r = SumFunctionOnSet(row, Slots) /\ Cong(2, r, 0)
  <2>1. \A j \in Slots : row[j] \in Int /\ row[j] \in Int /\ Cong(n, row[j], z * row[j])
    <3>1. SUFFICES ASSUME NEW j \in Slots PROVE row[j] \in Int /\ Cong(n, row[j], z * row[j])
      OBVIOUS
    <3>2. row[j] \in Int /\ Cong(2, row[j], 0)
      BY <1>9
    <3>3. z * row[j] = 0
      BY <1>8, <3>2
    <3>4. QED
      BY <1>8, <3>2, <3>3
  <2>2. IsFiniteSet(Slots)
    BY SlotFacts
  <2>3. Cong(n, SumFunctionOnSet(row, Slots), z * SumFunctionOnSet(row, Slots))
    BY <2>1, <2>2, SumScaled
  <2>4. PICK r \in Int : r = SumFunctionOnSet(row, Slots)
    BY <2>1, <2>2, SumType
  <2>5. z * r = 0
    BY <1>8
  <2>6. QED
    BY <1>8, <2>3, <2>4, <2>5
<1>11. ASSUME NEW j \in Slots
       PROVE  /\ diag[j] \in Int /\ Terms(a, B, 2 * s, x)[j] \in Int
              /\ Cong(n, Terms(a, B, 2 * s, x)[j], diag[j])
  <2>1. PICK e \in Int, y \in Int : e = a[j] /\ y = x - (2 * s) * j
    <3>1. x - (2 * s) * j \in Int /\ a[j] \in Int
      BY <1>3
    <3>2. QED
      BY <3>1
  <2>2. (x - s * j) - s * j = y
    <3>1. j \in Int
      BY <1>3
    <3>2. PICK u \in Int : u = s * j
      BY <3>1
    <3>3. (2 * s) * j = 2 * u
      BY <3>1, <3>2
    <3>4. QED
      BY <2>1, <3>2, <3>3
  <2>3. PICK v \in Int : v = B[y]
    OBVIOUS
  <2>4. diag[j] = e * (e * v) /\ Terms(a, B, 2 * s, x)[j] = e * v
    BY <1>2, <1>6, <2>1, <2>2, <2>3 DEF Terms
  <2>5. Cong(2, e * v, e * (e * v))
    <3>1. PICK k \in Int : e = 2 * k \/ e = 2 * k + 1
      <4>1. e % 2 \in 0 .. 1 /\ e \div 2 \in Int /\ e = 2 * (e \div 2) + (e % 2)
        BY DivMod
      <4>2. QED
        BY <4>1
    <3>2. CASE e = 2 * k
      <4>1. PICK w \in Int : w = k * v
        OBVIOUS
      <4>2. e * v = 2 * w /\ e * (e * v) = 2 * (e * w)
        BY <3>2, <4>1
      <4>3. w - e * w \in Int /\ e * v = e * (e * v) + 2 * (w - e * w)
        BY <4>2
      <4>4. QED
        BY <4>3 DEF Cong
    <3>3. CASE e = 2 * k + 1
      <4>1. PICK w \in Int : w = e * v
        OBVIOUS
      <4>2. e * w = 2 * (k * w) + w
        BY <3>3
      <4>3. -(k * w) \in Int /\ w = e * w + 2 * (-(k * w))
        BY <4>2
      <4>4. QED
        BY <4>1, <4>3 DEF Cong
    <3>4. QED
      BY <3>1, <3>2, <3>3
  <2>6. QED
    BY <1>8, <2>4, <2>5
<1>a. PICK g : g = Terms(a, B, 2 * s, x)
  OBVIOUS
<1>12. PICK t \in Int : t = SumFunctionOnSet(g, Slots)
  <2>1. 2 * s \in Int
    OBVIOUS
  <2>2. Spread(a, B, 2 * s, x) \in Int
    BY <2>1, TermsType
  <2>3. QED
    BY <1>a, <2>2 DEF Spread
<1>13. Cong(2, t, SumFunctionOnSet(diag, Slots))
  <2>1. \A j \in Slots : diag[j] \in Int /\ g[j] \in Int /\ Cong(n, g[j], diag[j])
    BY <1>11, <1>a
  <2>2. IsFiniteSet(Slots)
    BY SlotFacts
  <2>3. Cong(n, SumFunctionOnSet(g, Slots), SumFunctionOnSet(diag, Slots))
    BY <2>1, <2>2, SumCong
  <2>4. QED
    BY <1>8, <1>12, <2>3
<1>14. PICK d \in Int : d = SumFunctionOnSet(diag, Slots)
  <2>1. \A j \in Slots : diag[j] \in Int
    BY <1>11
  <2>2. QED
    BY <2>1, SlotFacts, SumType
<1>15. Cong(2, t, 0)
  <2>1. PICK i \in Int : r = 2 * i
    BY <1>10 DEF Cong
  <2>2. PICK j \in Int : r = d + 2 * j
    BY <1>7, <1>10, <1>14 DEF Cong
  <2>3. PICK k \in Int : t = d + 2 * k
    BY <1>13, <1>14 DEF Cong
  <2>4. t = 0 + 2 * (i - j + k) /\ i - j + k \in Int
    BY <2>1, <2>2, <2>3
  <2>5. QED
    BY <2>4 DEF Cong
<1>16. QED
  BY <1>a, <1>12, <1>15 DEF Spread

LEMMA HalvesGrow ==
  ASSUME NEW a \in Integers, NEW B \in [Int -> Int], Halves(a, B, 1)
  PROVE  \A m \in Nat : Halves(a, B, Pow2[m])
<1> DEFINE W == {m \in Nat : Halves(a, B, Pow2[m])}
<1>1. 0 \in W
  BY Pow2Facts
<1>2. ASSUME NEW m \in Nat, m \in W PROVE m + 1 \in W
  <2>1. PICK s \in Int : s = Pow2[m] /\ Pow2[m + 1] = 2 * s
    BY Pow2Facts
  <2>2. Halves(a, B, s)
    BY <1>2, <2>1
  <2>3. Halves(a, B, 2 * s)
    BY <2>2, HalvesDouble
  <2>4. QED
    BY <2>1, <2>3
<1>3. \A m \in Nat : m \in W
  <2> HIDE DEF W
  <2>1. QED
    BY <1>1, <1>2, NatSetInduction
<1>4. QED
  BY <1>3

\* Steps of N bring every term back to the same coefficient.
LEMMA FullTurn ==
  ASSUME NEW a \in Integers, NEW e \in Integers, NEW x \in Int
  PROVE  CoeffSum(a) \in Int /\ Spread(a, Cyclic(e), N, x) = Cyclic(e)[x] * CoeffSum(a)
<1>1. PICK B : B = Cyclic(e)
  OBVIOUS
<1>2. B \in [Int -> Int] /\ \A y, z \in Int : B[y + N * z] = B[y]
  BY <1>1, CyclicFacts
<1>3. PICK z \in Nat, c \in Int : z = 0 /\ c = B[x]
  BY <1>2
<1>4. PICK g : g = Terms(a, B, N, x)
  OBVIOUS
<1>5. ASSUME NEW i \in Slots PROVE a[i] \in Int /\ g[i] \in Int /\ Cong(z, g[i], c * a[i])
  <2>1. PICK k \in Int, v \in Int : k = i /\ v = a[i]
    BY SlotFacts DEF Slots, Integers
  <2>2. PICK y \in Int : y = x - N * k
    BY SlotFacts
  <2>3. y + N * k = x
    BY <2>2, SlotFacts
  <2>4. B[y] = c
    BY <1>2, <1>3, <2>3
  <2>5. g[i] = v * B[y]
    BY <1>4, <2>1, <2>2 DEF Terms
  <2>6. g[i] = v * c
    BY <2>4, <2>5
  <2>7. g[i] = c * v + z * 0
    BY <1>3, <2>6
  <2>8. g[i] \in Int
    BY <2>6
  <2>9. a[i] \in Int /\ 0 \in Int /\ g[i] = c * a[i] + z * 0
    BY <2>1, <2>7
  <2>10. Cong(z, g[i], c * a[i])
    BY <2>9 DEF Cong
  <2>11. QED
    BY <2>8, <2>9, <2>10
<1>6. IsFiniteSet(Slots) /\ \A i \in Slots : a[i] \in Int /\ g[i] \in Int /\ Cong(z, g[i], c * a[i])
  BY <1>5, SlotFacts
<1>7. Cong(z, SumFunctionOnSet(g, Slots), c * SumFunctionOnSet(a, Slots))
  BY <1>6, SumScaled
<1>8. SumFunctionOnSet(a, Slots) \in Int
  BY <1>6, SumType
<1>9. SumFunctionOnSet(g, Slots) \in Int
  BY <1>6, SumType
<1>10. PICK p \in Int, q \in Int : p = SumFunctionOnSet(g, Slots) /\ q = SumFunctionOnSet(a, Slots)
  BY <1>8, <1>9
<1>11. p = c * q
  <2>1. PICK k \in Int : p = c * q + z * k
    BY <1>7, <1>10 DEF Cong
  <2>2. QED
    BY <1>3, <2>1
<1>12. QED
  BY <1>1, <1>3, <1>4, <1>10, <1>11 DEF Spread, CoeffSum

\* An element of odd sum divides no zero modulo 2.
LEMMA KeyParity ==
  ASSUME NEW a \in Integers, NEW e \in Integers, CoeffSum(a) % 2 = 1,
         \A k \in Slots : Cong(2, Product(a, e, k), 0)
  PROVE  \A k \in Slots : Cong(2, e[k], 0)
<1>1. PICK B : B = Cyclic(e)
  OBVIOUS
<1>2. /\ B \in [Int -> Int] /\ \A y, z \in Int : B[y + N * z] = B[y]
      /\ \A y \in 1 - N .. N : B[y] = IF y > 0 THEN e[y] ELSE e[y + N]
  BY <1>1, CyclicFacts
<1>3. Halves(a, B, 1)
  <2>1. SUFFICES ASSUME NEW x \in Int PROVE Cong(2, Spread(a, B, 1, x), 0)
    BY DEF Halves
  <2>2. PICK w \in Int, r \in Int, z \in Int : w = x - 2 /\ w = N * z + r /\ 0 <= r /\ r < N
    <3>1. PICK w \in Int : w = x - 2
      OBVIOUS
    <3>2. w % N \in 0 .. N - 1 /\ w \div N \in Int /\ w = N * (w \div N) + (w % N)
      BY SlotFacts, DivMod
    <3>3. w % N \in Int /\ 0 <= w % N /\ w % N < N
      BY <3>2, SlotFacts
    <3>4. QED
      BY <3>1, <3>2, <3>3
  <2>3. PICK k \in Slots, y \in Int : k = r + 1 /\ y = k + 1
    BY <2>2, SlotFacts DEF Slots
  <2>4. x = y + N * z
    BY <2>2, <2>3, SlotFacts
  <2>5. Terms(a, B, 1, x) = Terms(a, B, 1, y)
    <3>1. ASSUME NEW i \in Slots PROVE a[i] * B[x - 1 * i] = a[i] * B[y - 1 * i]
      <4>1. PICK h \in Int : h = i
        BY SlotFacts DEF Slots
      <4>2. PICK u \in Int : u = y - 1 * h
        OBVIOUS
      <4>3. x - 1 * h = u + N * z
        <5>1. PICK v \in Int : v = N * z
          BY SlotFacts
        <5>2. QED
          BY <2>4, <4>2, <5>1
      <4>4. B[u + N * z] = B[u]
        BY <1>2
      <4>5. QED
        BY <4>1, <4>2, <4>3, <4>4
    <3>2. QED
      BY <3>1 DEF Terms
  <2>6. Spread(a, B, 1, x) = Spread(a, B, 1, y)
    BY <2>5 DEF Spread
  <2>7. Cong(2, Product(a, e, k), Spread(a, B, 1, y))
    BY <1>1, <2>3, ProductIsSpread
  <2>8. PICK p \in Int : p = Product(a, e, k) /\ Cong(2, p, 0)
    BY ProductType
  <2>9. PICK q \in Int : q = Spread(a, B, 1, y)
    <3>1. PICK s \in Int : s = 1
      OBVIOUS
    <3>2. Spread(a, B, s, y) \in Int
      BY <1>2, TermsType
    <3>3. QED
      BY <3>1, <3>2
  <2>10. Cong(2, p, q)
    BY <2>7, <2>8, <2>9
  <2>11. Cong(2, q, 0)
    <3>1. PICK i \in Int : p = 0 + 2 * i
      BY <2>8 DEF Cong
    <3>2. PICK j \in Int : p = q + 2 * j
      BY <2>10 DEF Cong
    <3>3. q = 0 + 2 * (i - j) /\ i - j \in Int
      BY <3>1, <3>2
    <3>4. QED
      BY <3>3 DEF Cong
  <2>12. QED
    BY <2>6, <2>9, <2>11
<1>4. Halves(a, B, N)
  <2>1. PICK m \in Nat : N = Pow2[m]
    BY SamplersAssumption, SlotFacts
  <2>2. \A k \in Nat : Halves(a, B, Pow2[k])
    BY <1>2, <1>3, HalvesGrow
  <2>3. QED
    BY <2>1, <2>2
<1>5. SUFFICES ASSUME NEW k \in Slots PROVE Cong(2, e[k], 0)
  OBVIOUS
<1>6. PICK y \in Int, v \in Int : y = k /\ v = e[k] /\ B[y] = v
  <2>1. k \in Int /\ k \in 1 - N .. N /\ k > 0
    BY SlotFacts DEF Slots
  <2>2. e[k] \in Int
    BY DEF Integers
  <2>3. QED
    BY <1>2, <2>1, <2>2
<1>7. PICK s \in Int : s = CoeffSum(a) /\ Spread(a, B, N, y) = v * s
  BY <1>1, <1>6, FullTurn
<1>8. PICK t \in Int : s = 2 * t + 1
  <2>1. s % 2 = 1 /\ s \div 2 \in Int /\ s = 2 * (s \div 2) + (s % 2)
    BY <1>7, DivMod
  <2>2. QED
    BY <2>1
<1>9. PICK u \in Int : v * s = 0 + 2 * u
  BY <1>4, <1>6, <1>7 DEF Halves, Cong
<1>10. v = 0 + 2 * (u - v * t) /\ u - v * t \in Int
  <2>1. PICK w \in Int : w = v * t
    OBVIOUS
  <2>2. v * s = 2 * w + v
    BY <1>8, <2>1
  <2>3. v = 0 + 2 * (u - w)
    BY <1>9, <2>2
  <2>4. QED
    BY <2>1, <2>3
<1>11. QED
  BY <1>6, <1>10 DEF Cong

-----------------------------------------------------------------------------
\* Multiplication by an element of odd sum is injective: a difference sent to
\* zero modulo Q is even, then its half, and so on to a multiple of Q.
LEMMA QFacts ==
  /\ Q \in Nat /\ Q >= 4 /\ Q % 2 = 0 /\ \E h \in Int : Q = 2 * h
  /\ \E K \in Nat : K >= 1 /\ Q = Pow2[K]
<1>1. PICK k \in 2 .. 64 : Q = Pow2[k]
  BY SamplersAssumption
<1>2. PICK j \in Nat : k = (j + 1) + 1
  <2>1. k - 2 \in Nat /\ k = ((k - 2) + 1) + 1
    OBVIOUS
  <2>2. QED
    BY <2>1
<1>3. PICK h \in Int : h = Pow2[j] /\ h > 0
  BY Pow2Facts
<1>4. j + 1 \in Nat /\ Pow2[j + 1] = 2 * h
  BY <1>3, Pow2Facts
<1>5. Pow2[(j + 1) + 1] = 2 * (2 * h)
  BY <1>4, Pow2Facts
<1>6. Q = 2 * (2 * h) /\ 2 * h \in Int
  BY <1>1, <1>2, <1>5
<1>7. Q \in Nat /\ Q >= 4 /\ Q % 2 = 0
  BY <1>3, <1>6
<1>8. k \in Nat /\ k >= 1
  OBVIOUS
<1>9. QED
  BY <1>1, <1>6, <1>7, <1>8

LEMMA ProductScaled ==
  ASSUME NEW a \in Integers, NEW e \in Integers, NEW d \in Integers, NEW c \in Int, NEW k \in Slots,
         \A i \in Slots : d[i] = c * e[i]
  PROVE  Product(a, d, k) = c * Product(a, e, k)
<1>1. PICK f : f = [i \in Slots |-> a[i] * Wrapped(e, k - i + 1)]
  OBVIOUS
<1>2. PICK g : g = [i \in Slots |-> a[i] * Wrapped(d, k - i + 1)]
  OBVIOUS
<1>3. PICK z \in Nat : z = 0
  OBVIOUS
<1>4. ASSUME NEW i \in Slots PROVE f[i] \in Int /\ g[i] \in Int /\ Cong(z, g[i], c * f[i])
  <2>1. f[i] \in Int /\ g[i] \in Int
    BY <1>1, <1>2, ProductType
  <2>2. PICK u \in Int, v \in Int, w \in Int :
          u = a[i] /\ v = Wrapped(e, k - i + 1) /\ w = Wrapped(d, k - i + 1)
    BY ProductType DEF Integers
  <2>3. PICK y \in Int : y = k - i + 1 /\ IF y > 0 THEN y \in Slots ELSE y + N \in Slots
    BY SlotFacts DEF Slots
  <2>4. w = c * v
    <3>1. CASE y > 0
      <4>1. w = d[y] /\ v = e[y] /\ y \in Slots
        BY <2>2, <2>3, <3>1 DEF Wrapped
      <4>2. QED
        BY <4>1
    <3>2. CASE ~(y > 0)
      <4>1. w = -d[y + N] /\ v = -e[y + N] /\ y + N \in Slots
        BY <2>2, <2>3, <3>2 DEF Wrapped
      <4>2. PICK p \in Int, q \in Int : p = d[y + N] /\ q = e[y + N] /\ p = c * q
        <5>1. d[y + N] \in Int /\ e[y + N] \in Int /\ d[y + N] = c * e[y + N]
          BY <4>1 DEF Integers
        <5>2. QED
          BY <5>1
      <4>3. w = -p /\ v = -q
        BY <4>1, <4>2
      <4>4. PICK r \in Int : r = c * q
        OBVIOUS
      <4>5. c * (-q) = -r
        BY <4>4
      <4>6. QED
        BY <4>2, <4>3, <4>4, <4>5
    <3>3. QED
      BY <3>1, <3>2
  <2>5. f[i] = u * v /\ g[i] = u * (c * v)
    BY <1>1, <1>2, <2>2, <2>4
  <2>6. g[i] = c * f[i] + z * 0
    <3>1. u * (c * v) = c * (u * v)
      OBVIOUS
    <3>2. QED
      BY <1>3, <2>1, <2>5, <3>1
  <2>7. Cong(z, g[i], c * f[i])
    <3>1. PICK p \in Int, q \in Int : p = f[i] /\ q = g[i]
      BY <2>1
    <3>2. 0 \in Int /\ q = c * p + z * 0
      BY <2>6, <3>1
    <3>3. Cong(z, q, c * p)
      BY <3>2 DEF Cong
    <3>4. QED
      BY <3>1, <3>3
  <2>8. QED
    BY <2>1, <2>7
<1>5. IsFiniteSet(Slots) /\ \A i \in Slots : f[i] \in Int /\ g[i] \in Int /\ Cong(z, g[i], c * f[i])
  BY <1>4, SlotFacts
<1>6. Cong(z, SumFunctionOnSet(g, Slots), c * SumFunctionOnSet(f, Slots))
  BY <1>5, SumScaled
<1>7. PICK p \in Int, q \in Int : p = Product(a, d, k) /\ q = Product(a, e, k)
  BY ProductType
<1>8. Cong(z, p, c * q)
  BY <1>1, <1>2, <1>6, <1>7 DEF Product
<1>9. PICK j \in Int : p = c * q + z * j
  BY <1>8 DEF Cong
<1>10. QED
  BY <1>3, <1>7, <1>9

LEMMA ProductDifference ==
  ASSUME NEW a \in Integers, NEW b \in Integers, NEW c \in Integers, NEW d \in Integers, NEW k \in Slots,
         \A i \in Slots : d[i] = b[i] - c[i]
  PROVE  Product(a, d, k) = Product(a, b, k) - Product(a, c, k)
<1>1. PICK f : f = [i \in Slots |-> a[i] * Wrapped(b, k - i + 1)]
  OBVIOUS
<1>2. PICK g : g = [i \in Slots |-> a[i] * Wrapped(c, k - i + 1)]
  OBVIOUS
<1>3. PICK h : h = [i \in Slots |-> a[i] * Wrapped(d, k - i + 1)]
  OBVIOUS
<1>4. PICK z \in Nat, o \in Int, m \in Int : z = 0 /\ o = 1 /\ o + m = 0
  <2>1. 0 - 1 \in Int /\ 1 + (0 - 1) = 0
    OBVIOUS
  <2>2. QED
    BY <2>1
<1>5. ASSUME NEW i \in Slots
      PROVE  /\ f[i] \in Int /\ g[i] \in Int /\ h[i] \in Int
             /\ Cong(z, h[i], o * f[i] + m * g[i])
  <2>1. f[i] \in Int /\ g[i] \in Int /\ h[i] \in Int
    BY <1>1, <1>2, <1>3, ProductType
  <2>2. PICK u \in Int, v \in Int, w \in Int, x \in Int :
          /\ u = a[i] /\ v = Wrapped(b, k - i + 1) /\ w = Wrapped(c, k - i + 1)
          /\ x = Wrapped(d, k - i + 1)
    BY ProductType DEF Integers
  <2>3. PICK y \in Int : y = k - i + 1 /\ IF y > 0 THEN y \in Slots ELSE y + N \in Slots
    BY SlotFacts DEF Slots
  <2>4. x = v - w
    <3>1. CASE y > 0
      <4>1. x = d[y] /\ v = b[y] /\ w = c[y] /\ y \in Slots
        BY <2>2, <2>3, <3>1 DEF Wrapped
      <4>2. QED
        BY <4>1
    <3>2. CASE ~(y > 0)
      <4>1. x = -d[y + N] /\ v = -b[y + N] /\ w = -c[y + N] /\ y + N \in Slots
        BY <2>2, <2>3, <3>2 DEF Wrapped
      <4>2. d[y + N] \in Int /\ b[y + N] \in Int /\ c[y + N] \in Int /\ d[y + N] = b[y + N] - c[y + N]
        BY <4>1 DEF Integers
      <4>3. QED
        BY <4>1, <4>2
    <3>3. QED
      BY <3>1, <3>2
  <2>5. f[i] = u * v /\ g[i] = u * w /\ h[i] = u * (v - w)
    BY <1>1, <1>2, <1>3, <2>2, <2>4
  <2>6. h[i] = f[i] - g[i]
    <3>1. u * (v - w) = u * v - u * w
      OBVIOUS
    <3>2. QED
      BY <2>5, <3>1
  <2>7. h[i] = (o * f[i] + m * g[i]) + z * 0
    <3>1. m = 0 - 1
      BY <1>4
    <3>2. PICK p \in Int, q \in Int : p = f[i] /\ q = g[i]
      BY <2>1
    <3>3. (o * p + m * q) + z * 0 = p - q
      BY <1>4, <3>1
    <3>4. QED
      BY <2>6, <3>2, <3>3
  <2>8. Cong(z, h[i], o * f[i] + m * g[i])
    BY <2>7 DEF Cong
  <2>9. QED
    BY <2>1, <2>8
<1>6. /\ IsFiniteSet(Slots)
      /\ \A i \in Slots : /\ f[i] \in Int /\ g[i] \in Int /\ h[i] \in Int
                          /\ Cong(z, h[i], o * f[i] + m * g[i])
  BY <1>5, SlotFacts
<1>7. Cong(z, SumFunctionOnSet(h, Slots), o * SumFunctionOnSet(f, Slots) + m * SumFunctionOnSet(g, Slots))
  BY <1>6, SumLinear
<1>8. PICK p \in Int, q \in Int, r \in Int :
        p = Product(a, d, k) /\ q = Product(a, b, k) /\ r = Product(a, c, k)
  BY ProductType
<1>9. Cong(z, p, o * q + m * r)
  BY <1>1, <1>2, <1>3, <1>7, <1>8 DEF Product
<1>10. PICK j \in Int : p = (o * q + m * r) + z * j
  BY <1>9 DEF Cong
<1>11. p = q - r
  <2>1. m = 0 - 1
    BY <1>4
  <2>2. QED
    BY <1>4, <1>10, <2>1
<1>12. QED
  BY <1>8, <1>11

LEMMA OddCancels ==
  ASSUME NEW a \in Integers, CoeffSum(a) % 2 = 1, NEW d \in Integers,
         \A k \in Slots : Cong(Q, Product(a, d, k), 0)
  PROVE  \A i \in Slots : Cong(Q, d[i], 0)
<1>1. PICK K \in Nat : Q = Pow2[K]
  BY QFacts
<1> DEFINE Divides(c, e) == e \in Integers /\ \A i \in Slots : d[i] = c * e[i]
           W == {t \in Nat : t <= K => \E e : Divides(Pow2[t], e)}
<1>2. 0 \in W
  <2>1. PICK c \in Int : c = Pow2[0] /\ c = 1
    BY Pow2Facts
  <2>2. \A i \in Slots : d[i] = c * d[i]
    BY <2>1 DEF Integers
  <2>3. QED
    BY <2>1, <2>2
<1>3. ASSUME NEW t \in Nat, t \in W PROVE t + 1 \in W
  <2>1. SUFFICES ASSUME t + 1 <= K PROVE \E e : Divides(Pow2[t + 1], e)
    OBVIOUS
  <2>2. PICK e : Divides(Pow2[t], e)
    BY <1>3, <2>1
  <2>3. PICK p \in Int, s \in Int : /\ p = Pow2[t] /\ p > 0 /\ Pow2[t + 1] = 2 * p
                                    /\ Q = p * (2 * s)
    <3>1. PICK m \in Nat : m = K - (t + 1) /\ K = t + (m + 1)
      <4>1. K - (t + 1) \in Nat /\ K = t + ((K - (t + 1)) + 1)
        BY <2>1
      <4>2. QED
        BY <4>1
    <3>2. m + 1 \in Nat
      OBVIOUS
    <3>3. Pow2[t + (m + 1)] = Pow2[t] * Pow2[m + 1]
      BY <3>2, Pow2Sum
    <3>4. PICK p \in Int, s \in Int : /\ p = Pow2[t] /\ p > 0 /\ Pow2[t + 1] = 2 * p
                                      /\ s = Pow2[m] /\ Pow2[m + 1] = 2 * s
      <4>1. /\ Pow2[t] \in Int /\ Pow2[t] > 0 /\ Pow2[t + 1] = 2 * Pow2[t]
            /\ Pow2[m] \in Int /\ Pow2[m + 1] = 2 * Pow2[m]
        BY Pow2Facts
      <4>2. QED
        BY <4>1
    <3>5. QED
      BY <1>1, <3>1, <3>3, <3>4
  <2>4. e \in Integers /\ \A i \in Slots : d[i] = p * e[i]
    BY <2>2, <2>3
  <2>5. ASSUME NEW k \in Slots PROVE Cong(2, Product(a, e, k), 0)
    <3>1. Product(a, d, k) = p * Product(a, e, k)
      BY <2>4, ProductScaled
    <3>2. PICK x \in Int, y \in Int : x = Product(a, d, k) /\ y = Product(a, e, k) /\ Cong(Q, x, 0)
      BY <2>4, ProductType
    <3>3. PICK j \in Int : x = 0 + Q * j
      BY <3>2 DEF Cong
    <3>4. p * y = p * (2 * (s * j))
      <4>1. (p * (2 * s)) * j = p * (2 * (s * j))
        OBVIOUS
      <4>2. 0 + Q * j = Q * j
        BY QFacts
      <4>3. QED
        BY <2>3, <3>1, <3>2, <3>3, <4>1, <4>2
    <3>5. PICK w \in Int : w = s * j
      OBVIOUS
    <3>6. y = 2 * w
      <4>1. p * (y - 2 * w) = 0
        BY <3>4, <3>5
      <4>2. PICK u \in Int : u = y - 2 * w
        OBVIOUS
      <4>3. u = 0
        BY <2>3, <4>1, <4>2
      <4>4. QED
        BY <4>2, <4>3
    <3>7. y = 0 + 2 * w
      BY <3>6
    <3>8. QED
      BY <3>2, <3>7 DEF Cong
  <2>6. \A k \in Slots : Cong(2, e[k], 0)
    BY <2>4, <2>5, KeyParity
  <2>7. PICK h : h = [i \in Slots |-> e[i] \div 2]
    OBVIOUS
  <2>8. ASSUME NEW i \in Slots PROVE h[i] \in Int /\ d[i] = (2 * p) * h[i]
    <3>1. PICK v \in Int : v = e[i] /\ d[i] = p * v
      BY <2>4 DEF Integers
    <3>2. PICK w \in Int : v = 0 + 2 * w
      BY <2>6, <3>1 DEF Cong
    <3>3. v \div 2 = w
      BY <3>2
    <3>4. h[i] = w
      BY <2>7, <3>1, <3>3
    <3>5. p * (2 * w) = (2 * p) * w
      OBVIOUS
    <3>6. QED
      BY <3>1, <3>2, <3>4, <3>5
  <2>9. h \in Integers
    BY <2>7, <2>8 DEF Integers
  <2>10. Divides(Pow2[t + 1], h)
    BY <2>3, <2>8, <2>9
  <2>11. QED
    BY <2>10
<1>4. \A t \in Nat : t \in W
  <2> HIDE DEF W
  <2>1. QED
    BY <1>2, <1>3, NatSetInduction
<1>5. PICK e : Divides(Pow2[K], e)
  BY <1>4
<1>6. SUFFICES ASSUME NEW i \in Slots PROVE Cong(Q, d[i], 0)
  OBVIOUS
<1>7. PICK v \in Int : v = e[i] /\ d[i] = Q * v
  BY <1>1, <1>5 DEF Integers
<1>8. d[i] = 0 + Q * v
  BY <1>7, QFacts
<1>9. QED
  BY <1>8 DEF Cong

LEMMA ElementFacts ==
  /\ Elements \subseteq Integers /\ IsFiniteSet(Elements) /\ One \in Elements
  /\ \A a, b \in Elements : Mul(a, b) \in Elements /\ \A k \in Slots : Mul(a, b)[k] = Product(a, b, k) % Q
<1>1. Elements \subseteq Integers
  BY QFacts DEF Elements, Integers
<1>2. IsFiniteSet(Elements)
  <2>1. IsFiniteSet(0 .. Q - 1)
    <3>1. 0 \in Int /\ Q - 1 \in Int
      BY QFacts
    <3>2. QED
      BY <3>1, FS_Interval
  <2>2. PICK S : S = 0 .. Q - 1
    OBVIOUS
  <2>3. \A n \in Nat : IsFiniteSet([1 .. n -> S])
    BY <2>1, <2>2, FiniteFunctions
  <2>4. QED
    BY <2>2, <2>3, SlotFacts DEF Elements, Slots
<1>3. One \in Elements
  BY QFacts DEF One, Elements
<1>4. ASSUME NEW a \in Elements, NEW b \in Elements
      PROVE  Mul(a, b) \in Elements /\ \A k \in Slots : Mul(a, b)[k] = Product(a, b, k) % Q
  <2>1. ASSUME NEW k \in Slots PROVE Product(a, b, k) % Q \in 0 .. Q - 1
    <3>1. PICK p \in Int : p = Product(a, b, k)
      BY <1>1, ProductType
    <3>2. Q \in Nat /\ Q > 0
      BY QFacts
    <3>3. p % Q \in 0 .. Q - 1
      BY <3>2, DivMod
    <3>4. QED
      BY <3>1, <3>3
  <2>2. Mul(a, b) = [k \in Slots |-> Product(a, b, k) % Q]
    BY DEF Mul, Product
  <2>3. QED
    BY <2>1, <2>2 DEF Elements
<1>5. QED
  BY <1>1, <1>2, <1>3, <1>4

LEMMA OddIsInjective ==
  ASSUME NEW a \in Elements, CoeffSum(a) % 2 = 1, NEW b \in Elements, NEW c \in Elements,
         Mul(a, b) = Mul(a, c)
  PROVE  b = c
<1>1. a \in Integers /\ b \in Integers /\ c \in Integers
  BY ElementFacts
<1>2. PICK d : d = [i \in Slots |-> b[i] - c[i]]
  OBVIOUS
<1>3. d \in Integers /\ \A i \in Slots : d[i] = b[i] - c[i]
  BY <1>1, <1>2 DEF Integers
<1>4. ASSUME NEW k \in Slots PROVE Cong(Q, Product(a, d, k), 0)
  <2>1. Product(a, d, k) = Product(a, b, k) - Product(a, c, k)
    BY <1>1, <1>3, ProductDifference
  <2>2. PICK x \in Int, y \in Int : x = Product(a, b, k) /\ y = Product(a, c, k)
    BY <1>1, ProductType
  <2>3. x % Q = y % Q
    BY <2>2, ElementFacts
  <2>4. Q \in Nat /\ Q > 0
    BY QFacts
  <2>5. PICK r \in Int, i \in Int, j \in Int : x = Q * i + r /\ y = Q * j + r
    <3>1. /\ x \div Q \in Int /\ x % Q \in 0 .. Q - 1 /\ x = Q * (x \div Q) + (x % Q)
          /\ y \div Q \in Int /\ y = Q * (y \div Q) + (y % Q)
      BY <2>4, DivMod
    <3>2. x % Q \in Int
      BY <2>4, <3>1
    <3>3. QED
      BY <2>3, <3>1, <3>2
  <2>6. x - y = 0 + Q * (i - j)
    <3>1. PICK u \in Int, w \in Int : u = Q * i /\ w = Q * j /\ Q * (i - j) = u - w
      <4>1. Q * (i - j) = Q * i - Q * j
        BY <2>4
      <4>2. Q * i \in Int /\ Q * j \in Int
        BY <2>4
      <4>3. QED
        BY <4>1, <4>2
    <3>2. QED
      BY <2>5, <3>1
  <2>7. i - j \in Int
    OBVIOUS
  <2>8. QED
    BY <2>1, <2>2, <2>6, <2>7 DEF Cong
<1>5. \A i \in Slots : Cong(Q, d[i], 0)
  BY <1>1, <1>3, <1>4, OddCancels
<1>6. ASSUME NEW i \in Slots PROVE b[i] = c[i]
  <2>1. PICK x \in Int, y \in Int, q \in Int :
          /\ x = b[i] /\ y = c[i] /\ q = Q /\ q > 0
          /\ 0 <= x /\ x < q /\ 0 <= y /\ y < q
    BY QFacts DEF Elements
  <2>2. PICK j \in Int : d[i] = 0 + q * j
    BY <1>5, <2>1 DEF Cong
  <2>3. x - y = q * j
    <3>1. PICK w \in Int : w = q * j
      OBVIOUS
    <3>2. QED
      BY <1>3, <2>1, <2>2, <3>1
  <2>4. j = 0
    <3>1. CASE j >= 1
      <4>1. q * j >= q
        BY <2>1, <3>1
      <4>2. QED
        BY <2>1, <2>3, <4>1
    <3>2. CASE j <= -1
      <4>1. q * j <= -q
        BY <2>1, <3>2
      <4>2. QED
        BY <2>1, <2>3, <4>1
    <3>3. QED
      BY <3>1, <3>2
  <2>5. QED
    BY <2>1, <2>3, <2>4
<1>7. QED
  BY <1>6 DEF Elements

LEMMA OddIsUnit ==
  ASSUME NEW a \in Elements, CoeffSum(a) % 2 = 1
  PROVE  IsUnit(a)
<1>1. PICK f : f = [b \in Elements |-> Mul(a, b)]
  OBVIOUS
<1>2. f \in [Elements -> Elements]
  BY <1>1, ElementFacts
<1>3. \A b, c \in Elements : f[b] = f[c] => b = c
  BY <1>1, OddIsInjective
<1>4. f \in Injection(Elements, Elements)
  BY <1>2, <1>3 DEF Injection, IsInjective
<1>5. f \in Surjection(Elements, Elements)
  BY <1>4, ElementFacts, FS_Injection
<1>6. PICK b \in Elements : f[b] = One
  BY <1>5, ElementFacts DEF Surjection
<1>7. QED
  BY <1>1, <1>6 DEF IsUnit

\* Conversely the coefficients of a product add up to the product of the
\* sums, modulo 2, and those of One to one.
LEMMA SumOfOne == SumFunctionOnSet(One, Slots) = 1
<1>1. PICK z \in Nat, x \in Nat : z = 0 /\ x = 1
  OBVIOUS
<1>2. /\ IsFiniteSet(Slots) /\ x \in Slots /\ One[x] = 1
      /\ \A i \in Slots : One[i] \in Int /\ (i # x => One[i] = 0)
  BY <1>1, SlotFacts DEF Slots, One
<1>a. PICK T : T = Slots \ {x}
  OBVIOUS
<1>b. PICK h : h = One
  OBVIOUS
<1>3. IsFiniteSet(T)
  BY <1>2, <1>a, FS_Subset
<1>4. SumFunctionOnSet(One, Slots) = One[x] + SumFunctionOnSet(One, T)
  <2>1. IsFiniteSet(Slots) /\ \A i \in Slots : h[i] \in Int
    BY <1>2, <1>b
  <2>2. \A i \in Slots : SumFunctionOnSet(h, Slots) = h[i] + SumFunctionOnSet(h, Slots \ {i})
    BY <2>1, SumRemove
  <2>3. QED
    BY <1>2, <1>a, <1>b, <2>2
<1>5. \A i \in T : h[i] \in Int /\ h[i] \in Int /\ Cong(z, h[i], z * h[i])
  <2>1. SUFFICES ASSUME NEW i \in T PROVE One[i] \in Int /\ Cong(z, One[i], z * One[i])
    BY <1>b
  <2>2. One[i] = 0 /\ z * One[i] = 0
    BY <1>1, <1>2, <1>a
  <2>3. Cong(z, 0, 0)
    BY <1>1, CongRefl
  <2>4. QED
    BY <2>2, <2>3
<1>6. Cong(z, SumFunctionOnSet(h, T), z * SumFunctionOnSet(h, T))
  <2>1. PICK c \in Int : c = z
    OBVIOUS
  <2>2. \A i \in T : h[i] \in Int /\ h[i] \in Int /\ Cong(z, h[i], c * h[i])
    BY <1>5, <2>1
  <2>3. Cong(z, SumFunctionOnSet(h, T), c * SumFunctionOnSet(h, T))
    BY <1>3, <2>2, SumScaled
  <2>4. QED
    BY <2>1, <2>3
<1>7. PICK s \in Int : s = SumFunctionOnSet(h, T)
  BY <1>3, <1>5, SumType
<1>8. PICK k \in Int : s = z * s + z * k
  BY <1>6, <1>7 DEF Cong
<1>9. s = 0
  BY <1>1, <1>8
<1>10. SumFunctionOnSet(One, T) = 0
  BY <1>7, <1>9, <1>b
<1>11. SumFunctionOnSet(One, Slots) = 1 + 0
  BY <1>2, <1>4, <1>10
<1>12. QED
  BY <1>11

\* The coefficients of a full period add up to the same from any start.
LEMMA PeriodSum ==
  ASSUME NEW b \in Integers, NEW i \in Slots, NEW f, \A k \in Slots : f[k] = Cyclic(b)[(k + 1) - 1 * i]
  PROVE  SumFunctionOnSet(f, Slots) = CoeffSum(b)
<1>1. N \in Nat /\ N > 0 /\ i \in Int /\ \A k \in Slots : k \in Int /\ 1 <= k /\ k <= N
  BY SlotFacts DEF Slots
<1>2. PICK m : m = [k \in Slots |-> ((k - i) % N) + 1]
  OBVIOUS
<1>3. ASSUME NEW k \in Slots
      PROVE  m[k] \in Slots /\ \E z \in Int : k - i = N * z + (m[k] - 1)
  <2>a. k - i \in Int
    BY SlotFacts DEF Slots
  <2>1. PICK w \in Int : w = k - i
    BY <2>a
  <2>2. w % N \in 0 .. N - 1 /\ w \div N \in Int /\ w = N * (w \div N) + (w % N)
    BY <1>1, DivMod
  <2>3. m[k] = (w % N) + 1
    BY <1>2, <2>1
  <2>4. m[k] \in Slots /\ w % N = m[k] - 1
    BY <1>1, <2>2, <2>3 DEF Slots
  <2>5. QED
    BY <2>1, <2>2, <2>4
<1>4. m \in [Slots -> Slots]
  BY <1>2, <1>3
<1>5. ASSUME NEW x \in Slots, NEW y \in Slots, m[x] = m[y] PROVE x = y
  <2>1. PICK u \in Int : x - i = N * u + (m[x] - 1)
    BY <1>3
  <2>2. PICK v \in Int : y - i = N * v + (m[x] - 1)
    BY <1>3, <1>5
  <2>3. PICK p \in Int, q \in Int, r \in Int, n \in Int :
          p = x /\ q = y /\ r = m[x] - 1 /\ n = N /\ n > 0 /\ 1 <= p /\ p <= n /\ 1 <= q /\ q <= n
    <3>a. m[x] \in Slots
      BY <1>4
    <3>b. m[x] - 1 \in Int
      <4>1. PICK e \in Slots : e = m[x]
        BY <3>a
      <4>2. e \in Int /\ e - 1 \in Int
        BY SlotFacts DEF Slots
      <4>3. QED
        BY <4>1, <4>2
    <3>1. m[x] - 1 \in Int /\ x \in Int /\ y \in Int /\ N \in Int
      BY <1>1, <3>b
    <3>2. QED
      BY <1>1, <3>1
  <2>4. p - q = n * (u - v)
    <3>1. PICK a \in Int, c \in Int : a = n * u /\ c = n * v /\ n * (u - v) = a - c
      OBVIOUS
    <3>2. p - i = a + r /\ q - i = c + r
      BY <2>1, <2>2, <2>3, <3>1
    <3>3. QED
      BY <1>1, <3>1, <3>2
  <2>5. PICK j \in Int : j = u - v
    OBVIOUS
  <2>6. j = 0
    <3>1. CASE j >= 1
      <4>1. n * j >= n
        BY <2>3, <3>1
      <4>2. QED
        BY <2>3, <2>4, <2>5, <4>1
    <3>2. CASE j <= -1
      <4>1. n * j <= -n
        BY <2>3, <3>2
      <4>2. QED
        BY <2>3, <2>4, <2>5, <4>1
    <3>3. QED
      BY <3>1, <3>2
  <2>7. QED
    BY <2>3, <2>4, <2>5, <2>6
<1>6. ASSUME NEW y \in Slots PROVE \E x \in Slots : m[x] = y
  <2>1. PICK w \in Int, e \in Int : w = (y + i) - 2 /\ e = y - 1 /\ 0 <= e /\ e < N
    <3>1. (y + i) - 2 \in Int /\ y - 1 \in Int /\ 0 <= y - 1 /\ y - 1 < N
      BY SlotFacts DEF Slots
    <3>2. QED
      BY <3>1
  <2>2. w % N \in 0 .. N - 1 /\ w \div N \in Int /\ w = N * (w \div N) + (w % N)
    BY <1>1, DivMod
  <2>3. PICK x \in Slots, z \in Int : x = (w % N) + 1 /\ z = w \div N
    BY <1>1, <2>2 DEF Slots
  <2>4. PICK v \in Int : v = x - i /\ v = N * (0 - z) + e
    <3>1. PICK a \in Int : a = N * z /\ N * (0 - z) = 0 - a
      BY <1>1
    <3>2. w = a + (x - 1)
      BY <1>1, <2>2, <2>3, <3>1
    <3>3. x - i \in Int /\ x - i = (0 - a) + e
      BY <1>1, <2>1, <3>2
    <3>4. QED
      BY <3>1, <3>3
  <2>5. 0 - z \in Int
    OBVIOUS
  <2>6. v % N = e
    BY <1>1, <2>1, <2>4, <2>5, DivModUnique
  <2>7. m[x] = e + 1
    BY <1>2, <2>4, <2>6
  <2>8. e + 1 = y
    BY <1>1, <2>1
  <2>9. QED
    BY <2>7, <2>8
<1>7. ASSUME NEW k \in Slots PROVE f[k] \in Int /\ b[m[k]] = f[k]
  <2>1. PICK x \in Int : x = (k + 1) - 1 * i /\ x - 1 = k - i
    BY <1>1
  <2>2. Cyclic(b)[x] = b[((x - 1) % N) + 1]
    BY DEF Cyclic
  <2>3. f[k] = b[m[k]]
    BY <1>2, <2>1, <2>2
  <2>4. QED
    BY <1>4, <2>3 DEF Integers
<1>8. IsFiniteSet(Slots)
  BY SlotFacts
<1>9. SumFunctionOnSet(b, Slots) = SumFunctionOnSet(f, Slots)
  BY <1>4, <1>5, <1>6, <1>7, <1>8, SumReindex
<1>10. QED
  BY <1>9 DEF CoeffSum

LEMMA SumsMultiply ==
  ASSUME NEW a \in Integers, NEW b \in Integers, NEW g, \A k \in Slots : g[k] = Spread(a, Cyclic(b), 1, k + 1)
  PROVE  SumFunctionOnSet(g, Slots) = CoeffSum(b) * CoeffSum(a)
<1>1. PICK B : B = Cyclic(b)
  OBVIOUS
<1>2. B \in [Int -> Int] /\ \A k \in Slots : k \in Int /\ k + 1 \in Int
  BY <1>1, CyclicFacts, SlotFacts DEF Slots
<1>3. PICK f : f = [k \in Slots |-> [i \in Slots |-> a[i] * B[(k + 1) - 1 * i]]]
  OBVIOUS
<1>4. IsFiniteSet(Slots)
  BY SlotFacts
<1>5. \A k, i \in Slots : f[k][i] \in Int /\ (k + 1) - 1 * i \in Int
  <2>1. SUFFICES ASSUME NEW k \in Slots, NEW i \in Slots PROVE f[k][i] \in Int /\ (k + 1) - 1 * i \in Int
    OBVIOUS
  <2>2. a[i] \in Int /\ (k + 1) - 1 * i \in Int
    BY <1>2 DEF Integers
  <2>3. B[(k + 1) - 1 * i] \in Int
    BY <1>2, <2>2
  <2>4. QED
    BY <1>3, <2>2, <2>3
<1>6. PICK row : row = [k \in Slots |-> SumFunctionOnSet(f[k], Slots)]
  OBVIOUS
<1>7. PICK col : col = [i \in Slots |-> SumFunctionOnSet([k \in Slots |-> f[k][i]], Slots)]
  OBVIOUS
<1>8. SumFunctionOnSet(row, Slots) = SumFunctionOnSet(col, Slots)
  BY <1>4, <1>5, <1>6, <1>7, SumExchange
<1>9. ASSUME NEW k \in Slots PROVE g[k] \in Int /\ row[k] = g[k]
  <2>1. f[k] = Terms(a, B, 1, k + 1)
    BY <1>3 DEF Terms
  <2>2. row[k] = g[k]
    BY <1>1, <1>6, <2>1 DEF Spread
  <2>3. PICK h : h = f[k]
    OBVIOUS
  <2>4. \A i \in Slots : h[i] \in Int
    BY <1>5, <2>3
  <2>5. SumFunctionOnSet(h, Slots) \in Int
    BY <1>4, <2>4, SumType
  <2>6. QED
    BY <1>6, <2>2, <2>3, <2>5
<1>10. SumFunctionOnSet(row, Slots) = SumFunctionOnSet(g, Slots)
  BY <1>4, <1>9, SumSame
<1>11. PICK t \in Int, z \in Nat : t = CoeffSum(b) /\ z = 0
  BY FullTurn
<1>12. ASSUME NEW i \in Slots PROVE a[i] \in Int /\ col[i] \in Int /\ Cong(z, col[i], t * a[i])
  <2>1. PICK h : h = [k \in Slots |-> f[k][i]]
    OBVIOUS
  <2>2. PICK p : p = [k \in Slots |-> B[(k + 1) - 1 * i]]
    OBVIOUS
  <2>3. SumFunctionOnSet(p, Slots) = t
    <3>1. \A k \in Slots : p[k] = Cyclic(b)[(k + 1) - 1 * i]
      BY <1>1, <2>2
    <3>2. SumFunctionOnSet(p, Slots) = CoeffSum(b)
      BY <3>1, PeriodSum
    <3>3. QED
      BY <1>11, <3>2
  <2>4. PICK e \in Int : e = a[i]
    BY DEF Integers
  <2>5. ASSUME NEW k \in Slots PROVE p[k] \in Int /\ h[k] \in Int /\ Cong(z, h[k], e * p[k])
    <3>1. p[k] \in Int /\ h[k] \in Int
      BY <1>2, <1>5, <2>1, <2>2
    <3>2. h[k] = e * p[k]
      BY <1>3, <2>1, <2>2, <2>4
    <3>3. Cong(z, h[k], h[k])
      BY <3>1, CongRefl
    <3>4. QED
      BY <3>1, <3>2, <3>3
  <2>6. Cong(z, SumFunctionOnSet(h, Slots), e * SumFunctionOnSet(p, Slots))
    BY <1>4, <2>5, SumScaled
  <2>7. PICK q \in Int : q = SumFunctionOnSet(h, Slots)
    BY <1>4, <2>5, SumType
  <2>8. Cong(z, q, e * t)
    BY <2>3, <2>6, <2>7
  <2>9. e * t = t * e
    OBVIOUS
  <2>10. col[i] = q
    BY <1>7, <2>1, <2>7
  <2>11. QED
    BY <2>4, <2>8, <2>9, <2>10
<1>13. Cong(z, SumFunctionOnSet(col, Slots), t * SumFunctionOnSet(a, Slots))
  BY <1>4, <1>12, SumScaled
<1>14. PICK s \in Int : s = SumFunctionOnSet(a, Slots)
  BY <1>4, <1>12, SumType
<1>15. PICK c \in Int : c = SumFunctionOnSet(col, Slots)
  BY <1>4, <1>12, SumType
<1>16. PICK j \in Int : c = t * s + z * j
  BY <1>13, <1>14, <1>15 DEF Cong
<1>17. c = t * s
  BY <1>11, <1>16
<1>18. QED
  BY <1>8, <1>10, <1>11, <1>14, <1>15, <1>17 DEF CoeffSum

\* A unit has an odd sum: an even one would make 1 even.
LEMMA UnitIsOdd ==
  ASSUME NEW a \in Elements, IsUnit(a)
  PROVE  CoeffSum(a) % 2 = 1
<1>1. PICK b \in Elements : Mul(a, b) = One
  BY DEF IsUnit
<1>2. a \in Integers /\ b \in Integers
  BY ElementFacts
<1>3. PICK g : g = [k \in Slots |-> Spread(a, Cyclic(b), 1, k + 1)]
  OBVIOUS
<1>4. PICK n \in Nat : n = 2
  OBVIOUS
<1>5. ASSUME NEW k \in Slots PROVE One[k] \in Int /\ g[k] \in Int /\ Cong(n, g[k], One[k])
  <2>1. PICK p \in Int : p = Product(a, b, k)
    BY <1>2, ProductType
  <2>2. p % Q = One[k]
    BY <1>1, <2>1, ElementFacts
  <2>3. PICK h \in Int : Q = 2 * h
    BY QFacts
  <2>4. /\ p \div Q \in Int /\ p % Q \in 0 .. Q - 1
        /\ p = Q * (p \div Q) + (p % Q)
    <3>1. Q \in Nat /\ Q > 0
      BY QFacts
    <3>2. QED
      BY <3>1, DivMod
  <2>5. PICK i \in Int, o \in Int : i = p \div Q /\ o = One[k]
    BY <2>2, <2>4, QFacts
  <2>6. p = 2 * (h * i) + o
    <3>1. p = (2 * h) * i + o
      BY <2>2, <2>3, <2>4, <2>5
    <3>2. (2 * h) * i = 2 * (h * i)
      OBVIOUS
    <3>3. QED
      BY <3>1, <3>2
  <2>7. PICK q \in Int : q = g[k]
    <3>1. PICK s \in Int, y \in Int : s = 1 /\ y = k + 1
      BY SlotFacts DEF Slots
    <3>2. PICK B : B = Cyclic(b) /\ B \in [Int -> Int]
      BY <1>2, CyclicFacts
    <3>3. Spread(a, B, s, y) \in Int
      BY <1>2, <3>2, TermsType
    <3>4. QED
      BY <1>3, <3>1, <3>2, <3>3
  <2>8. PICK j \in Int : p = q + 2 * j
    <3>1. Cong(2, Product(a, b, k), Spread(a, Cyclic(b), 1, k + 1))
      BY <1>2, ProductIsSpread
    <3>2. Cong(2, p, q)
      BY <1>3, <2>1, <2>7, <3>1
    <3>3. QED
      BY <3>2 DEF Cong
  <2>9. PICK u \in Int : u = h * i
    OBVIOUS
  <2>10. q = o + 2 * (u - j) /\ u - j \in Int
    BY <2>6, <2>8, <2>9
  <2>11. Cong(n, q, o)
    BY <1>4, <2>10 DEF Cong
  <2>12. QED
    BY <2>5, <2>7, <2>11
<1>6. IsFiniteSet(Slots)
  BY SlotFacts
<1>7. PICK e : e = One
  OBVIOUS
<1>8. Cong(n, SumFunctionOnSet(g, Slots), SumFunctionOnSet(e, Slots))
  <2>1. \A k \in Slots : e[k] \in Int /\ g[k] \in Int /\ Cong(n, g[k], e[k])
    BY <1>5, <1>7
  <2>2. QED
    BY <1>6, <2>1, SumCong
<1>9. SumFunctionOnSet(g, Slots) = CoeffSum(b) * CoeffSum(a)
  BY <1>2, <1>3, SumsMultiply
<1>10. PICK s \in Int, t \in Int : s = CoeffSum(a) /\ t = CoeffSum(b)
  BY <1>2, FullTurn
<1>11. SumFunctionOnSet(e, Slots) = 1
  BY <1>7, SumOfOne
<1>12. PICK j \in Int : t * s = 1 + 2 * j
  <2>1. Cong(2, t * s, 1)
    BY <1>4, <1>8, <1>9, <1>10, <1>11
  <2>2. QED
    BY <2>1 DEF Cong
<1>13. s % 2 = 1
  <2>1. s % 2 \in 0 .. 1 /\ s \div 2 \in Int /\ s = 2 * (s \div 2) + (s % 2)
    BY DivMod
  <2>2. ASSUME s % 2 = 0 PROVE FALSE
    <3>1. PICK h \in Int : s = 2 * h
      BY <2>1, <2>2
    <3>2. PICK w \in Int : w = t * h
      OBVIOUS
    <3>3. t * s = 2 * w
      BY <3>1, <3>2
    <3>4. QED
      BY <1>12, <3>3
  <2>3. QED
    BY <2>1, <2>2
<1>14. QED
  BY <1>10, <1>13

\* The units are the elements of odd sum.
LEMMA UnitsAreOdd ==
  ASSUME NEW a \in Elements
  PROVE  IsUnit(a) <=> CoeffSum(a) % 2 = 1
BY OddIsUnit, UnitIsOdd

-----------------------------------------------------------------------------
\* The sum of numbers each 0 or odd has the parity of their count.
LEMMA CountParity ==
  ASSUME NEW v \in Integers, \A i \in Slots : v[i] = 0 \/ v[i] % 2 = 1
  PROVE  /\ IsFiniteSet(Filled(v)) /\ Cardinality(Filled(v)) \in Nat
         /\ CoeffSum(v) \in Int /\ CoeffSum(v) % 2 = Cardinality(Filled(v)) % 2
<1> DEFINE In(s) == {i \in s : v[i] # 0}
           W == {s \in SUBSET Slots : Cong(2, SumFunctionOnSet(v, s), Cardinality(In(s)))}
<1>1. ASSUME NEW s \in SUBSET Slots
      PROVE  /\ IsFiniteSet(s) /\ IsFiniteSet(In(s)) /\ Cardinality(In(s)) \in Nat
             /\ SumFunctionOnSet(v, s) \in Int /\ \A i \in s : v[i] \in Int
  <2>1. IsFiniteSet(s)
    BY SlotFacts, FS_Subset
  <2>2. IsFiniteSet(In(s))
    BY <2>1, FS_Subset
  <2>3. Cardinality(In(s)) \in Nat
    BY <2>2, FS_CardinalityType
  <2>4. \A i \in s : v[i] \in Int
    BY DEF Integers
  <2> HIDE DEF In
  <2>5. QED
    BY <2>1, <2>2, <2>3, <2>4, SumType
<1>2. {} \in W
  <2>1. In({}) = {} /\ Cardinality({}) = 0
    BY FS_EmptySet
  <2>2. SumFunctionOnSet(v, {}) = 0
    BY SumEmpty
  <2>3. 2 \in Nat /\ 0 \in Int
    OBVIOUS
  <2>4. Cong(2, 0, 0)
    BY <2>3, CongRefl
  <2>5. QED
    BY <2>1, <2>2, <2>4
<1>3. ASSUME NEW s \in SUBSET Slots, s # {}, \A x \in s : s \ {x} \in W PROVE s \in W
  <2>1. PICK z, t : z \in s /\ z \in Slots /\ t = s \ {z} /\ t \in SUBSET Slots /\ t \in W
    BY <1>3
  <2>2. SumFunctionOnSet(v, s) = v[z] + SumFunctionOnSet(v, t)
    <3>1. IsFiniteSet(s) /\ \A i \in s : v[i] \in Int
      BY <1>1
    <3>2. QED
      BY <2>1, <3>1, SumRemove
  <2>3. PICK p \in Int, q \in Int, e \in Int :
          p = SumFunctionOnSet(v, s) /\ q = SumFunctionOnSet(v, t) /\ e = v[z] /\ p = e + q
    <3>1. /\ SumFunctionOnSet(v, s) \in Int /\ SumFunctionOnSet(v, t) \in Int /\ v[z] \in Int
      BY <1>1, <2>1
    <3>2. QED
      BY <2>2, <3>1
  <2>4. PICK m \in Nat : m = Cardinality(In(t))
    BY <1>1, <2>1
  <2>5. PICK j \in Int : q = m + 2 * j
    BY <2>1, <2>3, <2>4 DEF Cong
  <2>6. CASE e = 0
    <3>1. In(s) = In(t)
      BY <2>1, <2>3, <2>6
    <3>2. p = m + 2 * j
      BY <2>3, <2>5, <2>6
    <3>3. QED
      BY <2>3, <2>4, <3>1, <3>2 DEF Cong
  <2>7. CASE e # 0
    <3>1. In(s) = In(t) \cup {z} /\ z \notin In(t)
      BY <2>1, <2>3, <2>7
    <3>2. IsFiniteSet(In(t))
      BY <1>1, <2>1
    <3>3. Cardinality(In(s)) = m + 1
      <4>1. PICK I : I = In(t)
        OBVIOUS
      <4>2. Cardinality(I \cup {z}) = Cardinality(I) + 1
        BY <3>1, <3>2, <4>1, FS_AddElement
      <4>3. QED
        BY <2>4, <3>1, <4>1, <4>2
    <3>4. PICK k \in Int : e = 2 * k + 1
      <4>1. e % 2 = 1 /\ e \div 2 \in Int /\ e = 2 * (e \div 2) + (e % 2)
        BY <2>1, <2>3, <2>7, DivMod
      <4>2. QED
        BY <4>1
    <3>5. p = (m + 1) + 2 * (k + j) /\ k + j \in Int
      BY <2>3, <2>5, <3>4
    <3>6. QED
      BY <2>3, <3>3, <3>5 DEF Cong
  <2>8. QED
    BY <2>6, <2>7
<1>4. Slots \in W
  <2> HIDE DEF W
  <2>1. \A s \in SUBSET Slots : s # {} /\ (\A x \in s : s \ {x} \in W) => s \in W
    BY <1>3
  <2>2. QED
    BY <1>2, <2>1, SlotFacts, SetInduction
<1>5. PICK p \in Int, m \in Nat : p = CoeffSum(v) /\ m = Cardinality(Filled(v))
  BY <1>1 DEF CoeffSum, Filled
<1>6. PICK j \in Int : p = m + 2 * j
  BY <1>4, <1>5 DEF Cong, CoeffSum, Filled
<1>7. p % 2 = m % 2
  <2>1. Cong(2, p, m)
    BY <1>6 DEF Cong
  <2>2. 2 \in Nat /\ 2 > 0 /\ m \in Int
    OBVIOUS
  <2>3. QED
    BY <2>1, <2>2, CongSame
<1>8. IsFiniteSet(Filled(v))
  BY <1>1 DEF Filled
<1>9. QED
  BY <1>5, <1>7, <1>8

LEMMA OddTopDigit == Q - 1 \in 0 .. Q - 1 /\ Q - 1 # 0 /\ (Q - 1) % 2 = 1
<1>1. PICK h \in Int : Q = 2 * h /\ Q \in Nat /\ Q >= 4
  BY QFacts
<1>2. PICK p \in Int : p = Q - 1 /\ p = 2 * (h - 1) + 1 /\ h - 1 \in Int
  BY <1>1
<1>3. p % 2 = 1
  BY <1>2
<1>4. QED
  BY <1>1, <1>2, <1>3

\* The small challenge is mended only where its constant term was drawn
\* nonzero.
LEMMA SmallParity ==
  ASSUME NEW d \in [Slots -> {0, 1, Q - 1}]
  PROVE  /\ Repair(d) \in Elements
         /\ CoeffSum(Repair(d)) % 2 = 1 <=> CoeffSum(d) % 2 = 1 /\ d[1] = 0
<1>1. 1 \in Slots
  BY SlotFacts DEF Slots
<1>2. ASSUME NEW v \in [Slots -> {0, 1, Q - 1}]
      PROVE  /\ v \in Elements /\ v \in Integers /\ IsFiniteSet(Filled(v)) /\ Cardinality(Filled(v)) \in Nat
             /\ CoeffSum(v) % 2 = Cardinality(Filled(v)) % 2
  <2>1. v \in Elements
    BY OddTopDigit, QFacts DEF Elements
  <2>2. v \in Integers
    BY <2>1, ElementFacts
  <2>3. \A i \in Slots : v[i] = 0 \/ v[i] % 2 = 1
    <3>1. SUFFICES ASSUME NEW i \in Slots PROVE v[i] = 0 \/ v[i] % 2 = 1
      OBVIOUS
    <3>2. v[i] = 0 \/ v[i] = 1 \/ v[i] = Q - 1
      OBVIOUS
    <3>3. 1 % 2 = 1
      OBVIOUS
    <3>4. QED
      BY <3>2, <3>3, OddTopDigit
  <2>4. QED
    BY <2>1, <2>2, <2>3, CountParity
<1>3. PICK e : e = Repair(d)
  OBVIOUS
<1>4. PICK n \in Nat : n = Cardinality(Filled(d)) /\ IsFiniteSet(Filled(d)) /\ CoeffSum(d) % 2 = n % 2
  BY <1>2
<1>5. n % 2 = 0 \/ n % 2 = 1
  OBVIOUS
<1>6. CASE n % 2 = 0
  <2>1. e = d
    BY <1>3, <1>4, <1>6 DEF Repair
  <2>2. QED
    BY <1>2, <1>3, <1>4, <1>6, <2>1
<1>7. CASE n % 2 = 1
  <2>1. e = [d EXCEPT ![1] = 0]
    BY <1>3, <1>4, <1>7 DEF Repair
  <2>2. e \in [Slots -> {0, 1, Q - 1}]
    BY <2>1
  <2>3. CASE d[1] = 0
    <3>1. e = d
      BY <2>1, <2>3
    <3>2. QED
      BY <1>2, <1>3, <1>4, <1>7, <2>3, <3>1
  <2>4. CASE d[1] # 0
    <3>1. \A i \in Slots : e[i] = IF i = 1 THEN 0 ELSE d[i]
      BY <2>1
    <3>2. Filled(e) = Filled(d) \ {1} /\ 1 \in Filled(d)
      BY <1>1, <2>4, <3>1 DEF Filled
    <3>3. Cardinality(Filled(e)) = n - 1
      <4>1. PICK F, x : F = Filled(d) /\ x = 1
        OBVIOUS
      <4>2. Cardinality(F \ {x}) = Cardinality(F) - 1
        <5>1. IsFiniteSet(F) /\ x \in F
          BY <1>4, <3>2, <4>1
        <5>2. QED
          BY <5>1, FS_RemoveElement
      <4>3. QED
        BY <1>4, <3>2, <4>1, <4>2
    <3>4. (n - 1) % 2 = 0
      BY <1>7
    <3>5. CoeffSum(e) % 2 = 0
      BY <1>2, <2>2, <3>3, <3>4
    <3>6. QED
      BY <1>2, <1>3, <2>2, <2>4, <3>5
  <2>5. QED
    BY <2>3, <2>4
<1>8. QED
  BY <1>5, <1>6, <1>7

\* The odd challenge is mended only where its constant term was drawn even.
LEMMA OddParity ==
  ASSUME NEW d \in Elements
  PROVE  /\ SetLast(d) \in Elements
         /\ CoeffSum(SetLast(d)) % 2 = 0 <=> CoeffSum(d) % 2 = 0 /\ d[1] % 2 = 1
<1>1. 1 \in Slots /\ IsFiniteSet(Slots) /\ d \in Integers
  BY SlotFacts, ElementFacts DEF Slots
<1>2. PICK e : e = SetLast(d)
  OBVIOUS
<1>3. PICK s \in Int : s = CoeffSum(d)
  BY <1>1, FullTurn
<1>4. CASE s % 2 # 0
  <2>1. e = d
    BY <1>2, <1>3, <1>4 DEF SetLast
  <2>2. QED
    BY <1>2, <1>3, <1>4, <2>1
<1>5. CASE s % 2 = 0
  <2>1. e = [d EXCEPT ![1] = 2 * (d[1] \div 2) + 1]
    BY <1>2, <1>3, <1>5 DEF SetLast
  <2>2. PICK x \in Int, y \in Int, q \in Int :
          /\ x = d[1] /\ 0 <= x /\ x <= Q - 1 /\ y = 2 * (x \div 2) + 1 /\ q = Q - 1
    <3>1. d[1] \in 0 .. Q - 1 /\ Q \in Nat
      BY <1>1, QFacts DEF Elements
    <3>2. QED
      BY <3>1
  <2>3. PICK g \in Int : Q = 2 * g
    BY QFacts
  <2>4. 0 <= y /\ y <= q /\ (x % 2 = 1 => y = x) /\ (x % 2 = 0 => y = x + 1) /\ (x % 2 = 0 \/ x % 2 = 1)
    <3>1. PICK h \in Int, r \in Int : x = 2 * h + r /\ h = x \div 2 /\ r = x % 2 /\ (r = 0 \/ r = 1)
      OBVIOUS
    <3>2. q = 2 * (g - 1) + 1
      BY <2>2, <2>3
    <3>3. QED
      BY <2>2, <3>1, <3>2
  <2>5. \A i \in Slots : e[i] = IF i = 1 THEN y ELSE d[i]
    BY <1>1, <2>1, <2>2 DEF Elements
  <2>6. e \in Elements
    <3>1. DOMAIN e = Slots /\ e = [i \in Slots |-> e[i]]
      BY <2>1 DEF Elements
    <3>2. y \in 0 .. Q - 1
      BY <2>2, <2>4
    <3>3. \A i \in Slots : e[i] \in 0 .. Q - 1
      BY <2>5, <3>2 DEF Elements
    <3>4. QED
      BY <3>1, <3>3 DEF Elements
  <2>7. e \in Integers
    BY <2>6, ElementFacts
  <2>8. PICK t, k : t = Slots \ {k} /\ k = 1
    OBVIOUS
  <2>9. IsFiniteSet(t) /\ k \in Slots
    BY <1>1, <2>8, FS_Subset
  <2>10. SumFunctionOnSet(d, Slots) = d[k] + SumFunctionOnSet(d, t)
    <3>1. IsFiniteSet(Slots) /\ \A i \in Slots : d[i] \in Int
      BY <1>1 DEF Integers
    <3>2. \A i \in Slots : SumFunctionOnSet(d, Slots) = d[i] + SumFunctionOnSet(d, Slots \ {i})
      BY <3>1, SumRemove
    <3>3. QED
      BY <2>8, <2>9, <3>2
  <2>11. SumFunctionOnSet(e, Slots) = e[k] + SumFunctionOnSet(e, t)
    <3>1. IsFiniteSet(Slots) /\ \A i \in Slots : e[i] \in Int
      BY <1>1, <2>7 DEF Integers
    <3>2. \A i \in Slots : SumFunctionOnSet(e, Slots) = e[i] + SumFunctionOnSet(e, Slots \ {i})
      BY <3>1, SumRemove
    <3>3. QED
      BY <2>8, <2>9, <3>2
  <2>12. SumFunctionOnSet(e, t) = SumFunctionOnSet(d, t)
    <3>1. \A i \in t : d[i] \in Int /\ e[i] = d[i]
      BY <1>1, <2>5, <2>8 DEF Integers
    <3>2. QED
      BY <2>9, <3>1, SumSame
  <2>13. PICK u \in Int : u = SumFunctionOnSet(d, t)
    <3>1. \A i \in t : d[i] \in Int
      BY <1>1, <2>8 DEF Integers
    <3>2. QED
      BY <2>9, <3>1, SumType
  <2>14. s = x + u /\ CoeffSum(e) = y + u
    BY <1>1, <1>3, <2>2, <2>5, <2>8, <2>10, <2>11, <2>12, <2>13 DEF CoeffSum
  <2>15. (y + u) % 2 = 0 <=> x % 2 = 1
    <3>1. CASE x % 2 = 1
      BY <1>5, <2>4, <2>14, <3>1
    <3>2. CASE x % 2 = 0
      <4>1. y + u = s + 1
        BY <2>4, <2>14, <3>2
      <4>2. (s + 1) % 2 = 1
        BY <1>5
      <4>3. QED
        BY <3>2, <4>1, <4>2
    <3>3. QED
      BY <2>4, <3>1, <3>2
  <2>16. QED
    BY <1>2, <1>3, <1>5, <2>2, <2>6, <2>14, <2>15
<1>6. QED
  BY <1>4, <1>5

Linear(x) == [i \in Slots |-> IF i = 1 THEN (Q - Root(x)) % Q ELSE IF i = 2 THEN 1 ELSE 0]

\* X - a with a odd has two odd coefficients.
LEMMA LinearParity ==
  ASSUME NEW x \in Int
  PROVE  Linear(x) \in Elements /\ CoeffSum(Linear(x)) % 2 = 0
<1>1. PICK v : v = Linear(x)
  OBVIOUS
<1>2. 1 \in Slots /\ 2 \in Slots
  BY SlotFacts DEF Slots
<1>3. PICK c \in Int : c = (Q - Root(x)) % Q /\ c \in 0 .. Q - 1 /\ c % 2 = 1
  <2>1. PICK g \in Int : Q = 2 * g /\ Q \in Nat /\ Q > 0
    BY QFacts
  <2>2. PICK h \in Int : h = x \div 2
    OBVIOUS
  <2>3. PICK w \in Int : w = Q - Root(x) /\ w = 2 * (g - h) - 1
    BY <2>1, <2>2 DEF Root
  <2>4. w \div Q \in Int /\ w % Q \in 0 .. Q - 1 /\ w = Q * (w \div Q) + (w % Q)
    BY <2>1, DivMod
  <2>5. PICK c \in Int, k \in Int : c = w % Q /\ k = w \div Q /\ w = (2 * g) * k + c
    BY <2>1, <2>4
  <2>6. PICK m \in Int : m = g * k /\ w = 2 * m + c
    <3>1. (2 * g) * k = 2 * (g * k)
      OBVIOUS
    <3>2. QED
      BY <2>5, <3>1
  <2>7. c = 2 * ((g - h) - m - 1) + 1 /\ (g - h) - m - 1 \in Int
    BY <2>3, <2>6
  <2>8. c % 2 = 1
    BY <2>7
  <2>9. QED
    BY <2>3, <2>4, <2>5, <2>8
<1>4. \A i \in Slots : v[i] = IF i = 1 THEN c ELSE IF i = 2 THEN 1 ELSE 0
  BY <1>1, <1>3 DEF Linear
<1>5. v \in Elements
  <2>1. \A i \in Slots : v[i] \in 0 .. Q - 1
    BY <1>3, <1>4, QFacts
  <2>2. v = [i \in Slots |-> v[i]]
    BY <1>1 DEF Linear
  <2>3. QED
    BY <2>1, <2>2 DEF Elements
<1>6. v \in Integers
  BY <1>5, ElementFacts
<1>7. \A i \in Slots : v[i] = 0 \/ v[i] % 2 = 1
  <2>1. 1 % 2 = 1
    OBVIOUS
  <2>2. QED
    BY <1>3, <1>4, <2>1
<1>8. CoeffSum(v) % 2 = Cardinality(Filled(v)) % 2
  BY <1>6, <1>7, CountParity
<1>9. Filled(v) = {1, 2}
  <2>1. c # 0
    BY <1>3
  <2>2. QED
    BY <1>2, <1>4, <2>1 DEF Filled
<1>10. Cardinality(Filled(v)) = 2
  <2>1. PICK p, q : p = 1 /\ q = 2
    OBVIOUS
  <2>2. Cardinality({p}) = 1 /\ IsFiniteSet({p})
    BY FS_Singleton
  <2>3. q \notin {p} /\ {p} \cup {q} = {1, 2}
    BY <2>1
  <2>4. Cardinality({p} \cup {q}) = Cardinality({p}) + 1
    BY <2>2, <2>3, FS_AddElement
  <2>5. QED
    BY <1>9, <2>2, <2>3, <2>4
<1>11. QED
  BY <1>1, <1>5, <1>8, <1>10

-----------------------------------------------------------------------------
(***************************************************************************)
(* What a run has drawn, and the two theorems.                             *)
(***************************************************************************)
Taken(P) == \E m \in 0 .. Tau : draws \in Streams(P, m)
Listed(S) == \E m \in 0 .. N : draws \in [1 .. m -> S]
Ternary == {0, 1, Q - 1}

\* The draws are a stream of the sampler's kind, and what is returned is
\* made of a whole one.
SamplerInv ==
  /\ kind = "coeff" => param \in Moduli
  /\ kind = "bounded" => param \in Bounds
  /\ kind = "ball" => Taken(BallFrom)
  /\ kind = "fixed" => Taken(FixedFrom)
  /\ kind = "small" => Listed(Ternary)
  /\ kind = "odd" => Listed(0 .. Q - 1)
  /\ kind = "ball" /\ out # <<>> => draws \in Streams(BallFrom, Tau) /\ out = Ball(draws)
  /\ kind = "fixed" /\ out # <<>> => draws \in Streams(FixedFrom, Tau) /\ out = Fixed(draws)
  /\ kind = "small" /\ out # <<>> => draws \in [Slots -> Ternary] /\ out = Repair(draws)
  /\ kind = "odd" /\ out # <<>> => draws \in Elements /\ out = SetLast(draws)
  /\ kind = "linear" /\ out # <<>> => \E x \in Int : out = Linear(x)

LEMMA AppendFacts ==
  ASSUME NEW S, NEW m \in Nat, NEW d \in [1 .. m -> S], NEW x \in S
  PROVE  /\ Len(d) = m
         /\ Append(d, x) = [k \in 1 .. m + 1 |-> IF k = m + 1 THEN x ELSE d[k]]
<1>1. d \in Seq(S) /\ Len(d) = m
  OBVIOUS
<1>2. PICK e : e = Append(d, x)
  OBVIOUS
<1>3. e \in Seq(S) /\ Len(e) = m + 1 /\ e[m + 1] = x /\ \A k \in 1 .. m : e[k] = d[k]
  BY <1>1, <1>2, AppendProperties
<1>4. e = [k \in 1 .. m + 1 |-> e[k]]
  BY <1>3
<1>5. \A k \in 1 .. m + 1 : e[k] = IF k = m + 1 THEN x ELSE d[k]
  BY <1>3
<1>6. QED
  BY <1>1, <1>2, <1>4, <1>5

LEMMA ListMore ==
  ASSUME NEW S, NEW m \in Nat, NEW d \in [1 .. m -> S], NEW x \in S
  PROVE  Append(d, x) \in [1 .. m + 1 -> S]
BY AppendFacts

LEMMA StreamAppend ==
  ASSUME NEW P, NEW m \in Nat, NEW d \in Streams(P, m), NEW j \in Slots, NEW s \in Signs, j \in P[m + 1]
  PROVE  Append(d, <<j, s>>) \in Streams(P, m + 1)
<1>1. d \in [1 .. m -> Slots \X Signs]
  BY StreamFacts
<1>a. PICK S : S = Slots \X Signs
  OBVIOUS
<1>b. PICK x : x = <<j, s>>
  OBVIOUS
<1>2. x \in S
  BY <1>a, <1>b
<1>c. d \in [1 .. m -> S]
  BY <1>1, <1>a
<1>3. Append(d, x) = [k \in 1 .. m + 1 |-> IF k = m + 1 THEN x ELSE d[k]]
  BY <1>2, <1>c, AppendFacts
<1>4. [k \in 1 .. m + 1 |-> IF k = m + 1 THEN <<j, s>> ELSE d[k]] \in Streams(P, m + 1)
  BY StreamMore
<1>5. QED
  BY <1>3, <1>4, <1>b

LEMMA SamplerStart == SamplerInit => SamplerInv
<1> SUFFICES ASSUME SamplerInit PROVE SamplerInv
  OBVIOUS
<1>1. out = <<>> /\ draws = <<>> /\ 0 \in 0 .. Tau /\ 0 \in 0 .. N
  BY SlotFacts DEF SamplerInit
<1>2. \A S : <<>> \in [1 .. 0 -> S]
  OBVIOUS
<1>3. \A P : <<>> \in Streams(P, 0)
  BY <1>2 DEF Streams
<1>4. Taken(BallFrom) /\ Taken(FixedFrom)
  BY <1>1, <1>3 DEF Taken
<1>5. Listed(Ternary) /\ Listed(0 .. Q - 1)
  BY <1>1, <1>2 DEF Listed
<1>6. (kind = "coeff" => param \in Moduli) /\ (kind = "bounded" => param \in Bounds)
  BY DEF SamplerInit
<1>7. QED
  BY <1>1, <1>4, <1>5, <1>6 DEF SamplerInv

LEMMA SamplerStep == SamplerInv /\ [SamplerNext]_samplerVars => SamplerInv'
<1> SUFFICES ASSUME SamplerInv, [SamplerNext]_samplerVars PROVE SamplerInv'
  OBVIOUS
<1>1. CASE DrawCoeff
  BY <1>1 DEF DrawCoeff, Give, SamplerInv, Taken, Listed
<1>2. CASE DrawBounded
  BY <1>2 DEF DrawBounded, Give, SamplerInv, Taken, Listed
<1>3. CASE DrawBall
  <2>1. PICK j \in BallPositions(Len(draws) + 1), s \in Signs : Take(<<j, s>>)
    BY <1>3 DEF DrawBall
  <2>2. PICK m \in 0 .. Tau : draws \in Streams(BallFrom, m)
    BY <1>3 DEF DrawBall, SamplerInv, Taken
  <2>3. m \in Nat
    BY SlotFacts
  <2>4. Len(draws) = m
    BY <2>2, <2>3, StreamFacts
  <2>5. m < Tau /\ m + 1 \in 0 .. Tau /\ m + 1 \in Nat
    BY <1>3, <2>3, <2>4, SlotFacts DEF DrawBall
  <2>6. j \in Slots /\ j \in BallFrom[m + 1]
    BY <2>1, <2>4, <2>5, SlotFacts DEF BallPositions, BallFrom, Slots
  <2>7. Append(draws, <<j, s>>) \in Streams(BallFrom, m + 1)
    BY <2>1, <2>2, <2>3, <2>6, StreamAppend
  <2>8. draws' = Append(draws, <<j, s>>) /\ out' = <<>> /\ kind' = "ball"
    BY <1>3, <2>1 DEF Take, DrawBall
  <2>9. Taken(BallFrom)'
    BY <2>5, <2>7, <2>8 DEF Taken
  <2>10. QED
    BY <2>8, <2>9 DEF SamplerInv
<1>4. CASE DrawFixed
  <2>1. PICK k, w, s : /\ k = Len(draws) + 1 /\ w \in 0 .. Limit(k) - 1 /\ s \in Signs
                       /\ Take(<<Position(k, w), s>>)
    BY <1>4 DEF DrawFixed
  <2>2. PICK m \in 0 .. Tau : draws \in Streams(FixedFrom, m)
    BY <1>4 DEF DrawFixed, SamplerInv, Taken
  <2>3. m \in Nat
    BY SlotFacts
  <2>4. Len(draws) = m
    BY <2>2, <2>3, StreamFacts
  <2>5. m < Tau /\ m + 1 \in 0 .. Tau /\ m + 1 \in 1 .. Tau /\ m + 1 \in Nat /\ k = m + 1
    BY <1>4, <2>1, <2>3, <2>4, SlotFacts DEF DrawFixed
  <2>6. PICK j : j = Position(k, w)
    OBVIOUS
  <2>7. j \in Slots /\ j \in FixedFrom[m + 1]
    <3>1. PICK n \in Nat : n = Span(k) /\ n > 0 /\ k + n = N + 1
      <4>1. Span(k) \in Nat /\ Span(k) > 0 /\ k + Span(k) = N + 1
        BY <2>5, SlotFacts DEF Span
      <4>2. QED
        BY <4>1
    <3>2. w \in Int
      BY <2>1
    <3>3. PICK r \in Int : r = w % n /\ 0 <= r /\ r < n
      <4>1. w % n \in 0 .. n - 1
        BY <3>1, <3>2, DivMod
      <4>2. QED
        BY <3>1, <4>1
    <3>4. j = k + r
      BY <2>6, <3>1, <3>3 DEF Position
    <3>5. j \in k .. N
      BY <2>5, <3>1, <3>3, <3>4, SlotFacts
    <3>6. j \in Slots
      BY <2>5, <3>5, SlotFacts DEF Slots
    <3>7. FixedFrom[m + 1] = k .. N
      BY <2>5, FixedFromFacts
    <3>8. QED
      BY <3>5, <3>6, <3>7
  <2>8. Append(draws, <<j, s>>) \in Streams(FixedFrom, m + 1)
    BY <2>1, <2>2, <2>3, <2>7, StreamAppend
  <2>9. draws' = Append(draws, <<j, s>>) /\ out' = <<>> /\ kind' = "fixed"
    BY <1>4, <2>1, <2>6 DEF Take, DrawFixed
  <2>10. Taken(FixedFrom)'
    BY <2>5, <2>8, <2>9 DEF Taken
  <2>11. QED
    BY <2>9, <2>10 DEF SamplerInv
<1>5. CASE ReturnSigns
  <2>1. /\ kind \in {"ball", "fixed"} /\ Len(draws) = Tau /\ out' = Vector(draws)
        /\ UNCHANGED <<kind, param, draws>>
    BY <1>5 DEF ReturnSigns, Give
  <2>2. CASE kind = "ball"
    <3>1. PICK m \in 0 .. Tau : draws \in Streams(BallFrom, m)
      BY <2>2 DEF SamplerInv, Taken
    <3>2. m \in Nat
      BY SlotFacts
    <3>3. m = Tau
      BY <2>1, <3>1, <3>2, StreamFacts
    <3>4. draws' \in Streams(BallFrom, Tau) /\ out' = Ball(draws') /\ kind' = "ball"
      BY <2>1, <2>2, <3>1, <3>3 DEF Vector
    <3>5. Taken(BallFrom)'
      BY <2>1, <2>2 DEF SamplerInv, Taken
    <3>6. QED
      BY <3>4, <3>5 DEF SamplerInv
  <2>3. CASE kind = "fixed"
    <3>1. PICK m \in 0 .. Tau : draws \in Streams(FixedFrom, m)
      BY <2>3 DEF SamplerInv, Taken
    <3>2. m \in Nat
      BY SlotFacts
    <3>3. m = Tau
      BY <2>1, <3>1, <3>2, StreamFacts
    <3>4. draws' \in Streams(FixedFrom, Tau) /\ out' = Fixed(draws') /\ kind' = "fixed"
      BY <2>1, <2>3, <3>1, <3>3 DEF Vector
    <3>5. Taken(FixedFrom)'
      BY <2>1, <2>3 DEF SamplerInv, Taken
    <3>6. QED
      BY <3>4, <3>5 DEF SamplerInv
  <2>4. QED
    BY <2>1, <2>2, <2>3
<1>6. CASE DrawTernary
  <2>1. PICK x \in Ternary : Take(x)
    BY <1>6 DEF DrawTernary, Ternary
  <2>2. PICK m \in 0 .. N : draws \in [1 .. m -> Ternary]
    BY <1>6 DEF DrawTernary, SamplerInv, Listed
  <2>3. m \in Nat
    BY SlotFacts
  <2>4. Len(draws) = m /\ Append(draws, x) \in [1 .. m + 1 -> Ternary]
    BY <2>2, <2>3, AppendFacts, ListMore
  <2>5. m + 1 \in 0 .. N
    BY <1>6, <2>3, <2>4, SlotFacts DEF DrawTernary
  <2>6. draws' = Append(draws, x) /\ out' = <<>> /\ kind' = "small"
    BY <1>6, <2>1 DEF Take, DrawTernary
  <2>7. Listed(Ternary)'
    BY <2>4, <2>5, <2>6 DEF Listed, Ternary
  <2>8. QED
    BY <2>6, <2>7 DEF SamplerInv
<1>7. CASE DrawUniform
  <2>0. PICK S : S = 0 .. Q - 1
    OBVIOUS
  <2>a. PICK x \in S : Take(x)
    BY <1>7, <2>0 DEF DrawUniform
  <2>1. S = 0 .. Q - 1 /\ x \in S /\ Take(x)
    BY <2>0, <2>a
  <2>2. PICK m \in 0 .. N : draws \in [1 .. m -> S]
    BY <1>7, <2>1 DEF DrawUniform, SamplerInv, Listed
  <2>3. m \in Nat
    BY SlotFacts
  <2>4. Len(draws) = m /\ Append(draws, x) \in [1 .. m + 1 -> S]
    BY <2>2, <2>3, AppendFacts, ListMore
  <2>5. m + 1 \in 0 .. N
    BY <1>7, <2>3, <2>4, SlotFacts DEF DrawUniform
  <2>6. draws' = Append(draws, x) /\ out' = <<>> /\ kind' = "odd"
    BY <1>7, <2>1 DEF Take, DrawUniform
  <2>7. Listed(0 .. Q - 1)'
    BY <2>1, <2>4, <2>5, <2>6 DEF Listed
  <2>8. QED
    BY <2>6, <2>7 DEF SamplerInv
<1>8. CASE ReturnSmall
  <2>1. kind = "small" /\ Len(draws) = N /\ out' = Repair(draws) /\ UNCHANGED <<kind, param, draws>>
    BY <1>8 DEF ReturnSmall, Give
  <2>2. PICK m \in 0 .. N : draws \in [1 .. m -> Ternary]
    BY <2>1 DEF SamplerInv, Listed
  <2>3. m \in Nat
    BY SlotFacts
  <2>4. m = N
    BY <2>1, <2>2, <2>3
  <2>5. draws' \in [Slots -> Ternary] /\ out' = Repair(draws') /\ kind' = "small"
    BY <2>1, <2>2, <2>4 DEF Slots
  <2>6. Listed(Ternary)'
    BY <2>1 DEF SamplerInv, Listed, Ternary
  <2>7. QED
    BY <2>5, <2>6 DEF SamplerInv, Ternary
<1>9. CASE ReturnOdd
  <2>1. kind = "odd" /\ Len(draws) = N /\ out' = SetLast(draws) /\ UNCHANGED <<kind, param, draws>>
    BY <1>9 DEF ReturnOdd, Give
  <2>2. PICK m \in 0 .. N : draws \in [1 .. m -> 0 .. Q - 1]
    BY <2>1 DEF SamplerInv, Listed
  <2>3. m \in Nat
    BY SlotFacts
  <2>4. m = N
    BY <2>1, <2>2, <2>3
  <2>5. draws' \in Elements /\ out' = SetLast(draws') /\ kind' = "odd"
    BY <2>1, <2>2, <2>4 DEF Slots, Elements
  <2>6. Listed(0 .. Q - 1)'
    BY <2>1 DEF SamplerInv, Listed
  <2>7. QED
    BY <2>5, <2>6 DEF SamplerInv, Elements
<1>10. CASE ReturnLinear
  <2>1. PICK x \in Int : out' = Linear(x)
    <3>1. PICK x \in 0 .. Pow2[ByteBits * ByteCount] - 1 : out' = Linear(x)
      BY <1>10 DEF ReturnLinear, Give, Linear
    <3>2. QED
      BY <3>1
  <2>2. kind' = "linear"
    BY <1>10 DEF ReturnLinear, Give
  <2>3. \E y \in Int : out' = Linear(y)
    BY <2>1
  <2>4. QED
    BY <2>2, <2>3 DEF SamplerInv, Linear
<1>11. CASE UNCHANGED samplerVars
  BY <1>11 DEF samplerVars, SamplerInv, Taken, Listed, Elements, Ternary
<1>12. QED
  BY <1>1, <1>2, <1>3, <1>4, <1>5, <1>6, <1>7, <1>8, <1>9, <1>10, <1>11 DEF SamplerNext

LEMMA SamplerInvariant == SamplerSpec => []SamplerInv
BY SamplerStart, SamplerStep, PTL DEF SamplerSpec

LEMMA InvUniform == SamplerInv => SamplesAreUniform
<1> SUFFICES ASSUME SamplerInv PROVE SamplesAreUniform
  OBVIOUS
<1>1. CoefficientsAreUniform
  <2>1. ASSUME kind = "coeff"
        PROVE  EquallyOften(0 .. param - 1,
                            [w \in {v \in Words : CoeffTaken(param, v)} |-> Coeff(param, w)])
    <3>1. PICK q \in Moduli : q = param
      BY <2>1 DEF SamplerInv
    <3>2. EquallyOften(0 .. q - 1, [w \in {v \in Words : CoeffTaken(q, v)} |-> Coeff(q, w)])
      BY CoefficientsUniform
    <3>3. QED
      BY <3>1, <3>2
  <2>2. ASSUME kind = "bounded"
        PROVE  EquallyOften(-param .. param,
                            [w \in {t \in BitGroups(param) : BoundedTaken(param, t)} |-> Bounded(param, w)])
    <3>1. PICK e \in Bounds : e = param
      BY <2>2 DEF SamplerInv
    <3>2. EquallyOften(-e .. e, [w \in {t \in BitGroups(e) : BoundedTaken(e, t)} |-> Bounded(e, w)])
      BY BoundedUniform
    <3>3. QED
      BY <3>1, <3>2
  <2>3. QED
    BY <2>1, <2>2 DEF CoefficientsAreUniform
<1>2. Tau \in Nat /\ Tau <= Tau
  BY SlotFacts
<1>3. ASSUME kind = "ball"
      PROVE  /\ Cardinality(Filled(Vector(draws))) = Len(draws)
             /\ out # <<>> => Cardinality({d \in BallStreams : Ball(d) = out}) = Factorial[Tau]
  <2>1. PICK m \in 0 .. Tau : draws \in Streams(BallFrom, m)
    BY <1>3 DEF SamplerInv, Taken
  <2>2. m \in Nat /\ m <= Tau
    BY SlotFacts
  <2>3. Len(draws) = m /\ Ball(draws) \in BallVectors(m)
    BY <2>1, <2>2, StreamFacts, BallGood
  <2>4. Cardinality(Filled(Ball(draws))) = m
    BY <2>3 DEF BallVectors
  <2>5. ASSUME out # <<>> PROVE Cardinality({d \in BallStreams : Ball(d) = out}) = Factorial[Tau]
    <3>1. draws \in Streams(BallFrom, Tau) /\ out = Ball(draws)
      BY <1>3, <2>5 DEF SamplerInv
    <3>2. out \in BallVectors(Tau)
      BY <1>2, <3>1, BallGood
    <3>3. Cardinality({d \in Streams(BallFrom, Tau) : Ball(d) = out}) = Factorial[Tau]
      BY <1>2, <3>2, BallCount
    <3>4. BallStreams = Streams(BallFrom, Tau)
      BY DEF BallStreams, BallFrom
    <3>5. QED
      BY <3>3, <3>4
  <2>6. QED
    BY <1>3, <2>3, <2>4, <2>5 DEF Vector
<1>4. ASSUME kind = "fixed"
      PROVE  /\ Cardinality(Filled(Vector(draws))) = Len(draws)
             /\ out # <<>> => Cardinality({d \in FixedStreams : Fixed(d) = out}) = Factorial[Tau]
  <2>1. PICK m \in 0 .. Tau : draws \in Streams(FixedFrom, m)
    BY <1>4 DEF SamplerInv, Taken
  <2>2. m \in Nat /\ m <= Tau
    BY SlotFacts
  <2>3. Len(draws) = m /\ Fixed(draws) \in FixedVectors(m)
    BY <2>1, <2>2, StreamFacts, FixedGood DEF FixedAt
  <2>4. Cardinality(Filled(Fixed(draws))) = m
    BY <2>3 DEF FixedVectors
  <2>5. ASSUME out # <<>> PROVE Cardinality({d \in FixedStreams : Fixed(d) = out}) = Factorial[Tau]
    <3>1. draws \in Streams(FixedFrom, Tau) /\ out = Fixed(draws)
      BY <1>4, <2>5 DEF SamplerInv
    <3>2. out \in FixedVectors(Tau)
      BY <1>2, <3>1, FixedGood DEF FixedAt
    <3>3. Cardinality({d \in Streams(FixedFrom, Tau) : Fixed(d) = out}) = Factorial[Tau]
      BY <1>2, <3>2, FixedCount
    <3>4. FixedStreams = Streams(FixedFrom, Tau)
      BY DEF FixedStreams, FixedFrom
    <3>5. QED
      BY <3>3, <3>4
  <2>6. kind # "ball"
    BY <1>4
  <2>7. QED
    BY <2>3, <2>4, <2>5, <2>6 DEF Vector
<1>5. \A k \in 1 .. Tau : EquallyOften(FixedPositions(k), [w \in 0 .. Limit(k) - 1 |-> Position(k, w)])
  BY PositionsUniform
<1>6. VectorsAreUniform
  BY <1>3, <1>4, <1>5 DEF VectorsAreUniform
<1>7. QED
  BY <1>1, <1>6 DEF SamplesAreUniform

LEMMA InvParities == SamplerInv => ParitiesDecideUnits
<1> SUFFICES ASSUME SamplerInv, out # <<>>, kind \in {"small", "odd", "linear"}
             PROVE  /\ IsUnit(out) <=> CoeffSum(out) % 2 = 1
                    /\ kind = "small" => (IsUnit(out) <=> CoeffSum(draws) % 2 = 1 /\ draws[1] = 0)
                    /\ kind = "odd" =>
                         (CoeffSum(out) % 2 = 0 <=> CoeffSum(draws) % 2 = 0 /\ draws[1] % 2 = 1)
                    /\ kind = "linear" => ~IsUnit(out)
  BY DEF ParitiesDecideUnits, UnitsAreOddSums, UnmendedParities
<1>1. CASE kind = "small"
  <2>1. draws \in [Slots -> {0, 1, Q - 1}] /\ out = Repair(draws)
    BY <1>1 DEF SamplerInv, Ternary
  <2>2. out \in Elements /\ (CoeffSum(out) % 2 = 1 <=> CoeffSum(draws) % 2 = 1 /\ draws[1] = 0)
    BY <2>1, SmallParity
  <2>3. IsUnit(out) <=> CoeffSum(out) % 2 = 1
    BY <2>2, UnitsAreOdd
  <2>4. QED
    BY <1>1, <2>2, <2>3
<1>2. CASE kind = "odd"
  <2>1. draws \in Elements /\ out = SetLast(draws)
    BY <1>2 DEF SamplerInv
  <2>2. /\ out \in Elements
        /\ CoeffSum(out) % 2 = 0 <=> CoeffSum(draws) % 2 = 0 /\ draws[1] % 2 = 1
    BY <2>1, OddParity
  <2>3. IsUnit(out) <=> CoeffSum(out) % 2 = 1
    BY <2>2, UnitsAreOdd
  <2>4. QED
    BY <1>2, <2>2, <2>3
<1>3. CASE kind = "linear"
  <2>1. PICK x \in Int : out = Linear(x)
    BY <1>3 DEF SamplerInv
  <2>2. out \in Elements /\ CoeffSum(out) % 2 = 0
    BY <2>1, LinearParity
  <2>3. IsUnit(out) <=> CoeffSum(out) % 2 = 1
    BY <2>2, UnitsAreOdd
  <2>4. QED
    BY <1>3, <2>2, <2>3
<1>4. QED
  BY <1>1, <1>2, <1>3

\* No sampler prefers an outcome to another: coefficients by rejection,
\* sign vectors of either shuffle (sampling.rs of the algebra and of zk).
THEOREM SamplesUniform == SamplerSpec => []SamplesAreUniform
BY SamplerInvariant, InvUniform, PTL

\* Which parity challenges are units is decided by the sum of their
\* coefficients, and that by the draws (sampling.rs:244-250, 313-316).
THEOREM ParitiesDecide == SamplerSpec => []ParitiesDecideUnits
BY SamplerInvariant, InvParities, PTL
=============================================================================
