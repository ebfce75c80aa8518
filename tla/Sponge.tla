------------------------------- MODULE Sponge -------------------------------
(***************************************************************************)
(* What an Xof promises, with no hasher, reader or cache: a handle has     *)
(* absorbed a message, and a squeeze returns the next bytes of the output  *)
(* of that whole message, restarting whenever the message was extended.    *)
(***************************************************************************)
EXTENDS Naturals, Sequences

CONSTANTS Handles, Domains, Chunks, Lengths

VARIABLES message,  \* handle -> everything it absorbed
          drawn,    \* handle -> bytes squeezed since its last absorb
          bytes     \* the block the last squeeze returned

NoBlock == [of |-> <<>>, from |-> 0, len |-> 0]

Init == /\ message \in [Handles -> Domains]
        /\ drawn = [h \in Handles |-> 0]
        /\ bytes = NoBlock

New(h, domain) == /\ message' = [message EXCEPT ![h] = domain]
                  /\ drawn' = [drawn EXCEPT ![h] = 0]
                  /\ UNCHANGED bytes

Absorb(h, data) == /\ message' = [message EXCEPT ![h] = @ \o data]
                   /\ drawn' = [drawn EXCEPT ![h] = 0]
                   /\ UNCHANGED bytes

Squeeze(h, n) == /\ bytes' = [of |-> message[h], from |-> drawn[h], len |-> n]
                 /\ drawn' = [drawn EXCEPT ![h] = @ + n]
                 /\ UNCHANGED message

CloneTo(h, g) == /\ message' = [message EXCEPT ![g] = message[h]]
                 /\ drawn' = [drawn EXCEPT ![g] = drawn[h]]
                 /\ UNCHANGED bytes

Next == \E h \in Handles :
          \/ \E domain \in Domains : New(h, domain)
          \/ \E data \in Chunks : Absorb(h, data)
          \/ \E n \in Lengths : Squeeze(h, n)
          \/ \E g \in Handles : CloneTo(h, g)

vars == <<message, drawn, bytes>>

Spec == Init /\ [][Next]_vars
=============================================================================
