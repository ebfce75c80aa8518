-------------------------------- MODULE Xof --------------------------------
(***************************************************************************)
(* The extendable-output function of algebra/src/crypto/xof.rs as a data   *)
(* type.  A SHAKE value is its hasher (everything absorbed so far) and an  *)
(* optional live reader, which remembers the input it was finalised from   *)
(* and how far its output has been read.  SHAKE itself is ideal: the       *)
(* output is named by the input it hashes, so a block of output is         *)
(* [of |-> input, from |-> offset, len |-> n] and two blocks are the same  *)
(* bytes only when input and offset agree.                                 *)
(*                                                                         *)
(* The input is a sequence of cells.  A cell is a byte of payload or one   *)
(* fixed-width length field: both are numbers, and nothing marks a cell as *)
(* one or the other, exactly as on the wire.                               *)
(***************************************************************************)
EXTENDS Naturals, Sequences

CONSTANTS LabelField,  \* 2^32: the width of a label's length field
          DataField    \* 2^64: the width of a payload's length field

ASSUME FieldAssumption ==
  LabelField \in Nat \ {0} /\ DataField \in Nat \ {0}

NoReader == [live |-> FALSE, of |-> <<>>, pos |-> 0]

NewXof(domain) == [hasher |-> domain, reader |-> NoReader]

\* Slips the runs are tried against: an absorb that leaves the stale stream
\* alive, a squeeze that forgets how far it read, and an unframed absorb.
StaleAbsorb(x, data) == [hasher |-> x.hasher \o data, reader |-> x.reader]

ForgetfulSqueeze(x, n) == x

UnframedAbsorb(x, label, data) ==
  [hasher |-> x.hasher \o label \o data, reader |-> NoReader]

\* New input invalidates the live output stream.
AbsorbInto(x, data) == [hasher |-> x.hasher \o data, reader |-> NoReader]

\* The stream the next squeeze reads: the live one, or a fresh finalisation.
Stream(x) == IF x.reader.live
             THEN x.reader
             ELSE [live |-> TRUE, of |-> x.hasher, pos |-> 0]

Squeezed(x, n) == [of |-> Stream(x).of, from |-> Stream(x).pos, len |-> n]

AfterSqueeze(x, n) ==
  [hasher |-> x.hasher, reader |-> [Stream(x) EXCEPT !.pos = @ + n]]

\* absorb_labeled: both parts behind their length.
AbsorbLabeled(x, label, data) ==
  LET x1 == AbsorbInto(x,  <<Len(label) % LabelField>>)
      x2 == AbsorbInto(x1, label)
      x3 == AbsorbInto(x2, <<Len(data) % DataField>>)
  IN  AbsorbInto(x3, data)

Cells == Seq(Nat)
Readers == [live : BOOLEAN, of : Cells, pos : Nat]
Xofs == [hasher : Cells, reader : Readers]
Blocks == [of : Cells, from : Nat, len : Nat]

\* Two blocks that share a byte of output.
Overlap(b, c) == /\ b.of = c.of
                 /\ b.from < c.from + c.len
                 /\ c.from < b.from + b.len

-----------------------------------------------------------------------------
(***************************************************************************)
(* The operations of the trait on a few live values, `Clone` included, and *)
(* the refinement that makes the cached reader invisible: the values       *)
(* behave as the sponge of module Sponge.                                  *)
(***************************************************************************)
CONSTANTS Handles,    \* live Xof values
          Domains,    \* domain labels, as cells
          Chunks,     \* inputs of one absorb, the empty one included
          Reads,      \* lengths of one squeeze
          MaxCells,   \* bound: cells absorbed by one value
          MaxDrawn    \* bound: bytes read from one live stream

ASSUME InputAssumption ==
  Domains \subseteq Cells /\ Chunks \subseteq Cells /\ Reads \subseteq Nat

VARIABLES xof,    \* handle -> Xof value
          bytes   \* the block the last squeeze returned

handleVars == <<xof, bytes>>

NoBlock == [of |-> <<>>, from |-> 0, len |-> 0]

HandlesTypeOK ==
  /\ xof \in [Handles -> Xofs]
  /\ bytes \in Blocks

HandlesInit ==
  /\ \E domain \in [Handles -> Domains] :
       xof = [h \in Handles |-> NewXof(domain[h])]
  /\ bytes = NoBlock

New(h, domain) == /\ xof' = [xof EXCEPT ![h] = NewXof(domain)]
                  /\ UNCHANGED bytes

Absorb(h, data) == /\ Len(xof[h].hasher) + Len(data) <= MaxCells
                   /\ xof' = [xof EXCEPT ![h] = AbsorbInto(@, data)]
                   /\ UNCHANGED bytes

Squeeze(h, n) == /\ xof[h].reader.pos + n <= MaxDrawn
                 /\ bytes' = Squeezed(xof[h], n)
                 /\ xof' = [xof EXCEPT ![h] = AfterSqueeze(@, n)]

CloneTo(h, g) == /\ xof' = [xof EXCEPT ![g] = xof[h]]
                 /\ UNCHANGED bytes

HandlesNext ==
        \E h \in Handles :
          \/ \E domain \in Domains : New(h, domain)
          \/ \E data \in Chunks : Absorb(h, data)
          \/ \E n \in Reads : Squeeze(h, n)
          \/ \E g \in Handles : CloneTo(h, g)

HandlesSpec == HandlesInit /\ [][HandlesNext]_handleVars

-----------------------------------------------------------------------------
\* A live reader was finalised from exactly what its hasher holds now, and a
\* dead one has read nothing: no squeeze can answer from an input that has
\* since been extended (xof.rs:77-80, "new input invalidates the stream").
ReaderIsCurrent ==
  \A h \in Handles :
    IF xof[h].reader.live THEN xof[h].reader.of = xof[h].hasher
                          ELSE xof[h].reader.pos = 0

Abstract == INSTANCE Sponge WITH
  message <- [h \in Handles |-> xof[h].hasher],
  drawn   <- [h \in Handles |-> xof[h].reader.pos],
  Lengths <- Reads

\* The cached reader (O(1) per squeeze, "no state replay", xof.rs:53-57) is
\* unobservable: every sequence of new, absorb, squeeze and clone returns
\* the bytes the replaying sponge returns.
ImplementsSponge == Abstract!Spec
=============================================================================
