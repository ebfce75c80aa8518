------------------------------- MODULE IdealKem -------------------------------
(***************************************************************************)
(* What a key encapsulation mechanism promises whoever holds a key pair as *)
(* it was generated: a table of answers in which, under one key, a         *)
(* ciphertext has one secret and a secret one ciphertext, whichever side   *)
(* asked first and whatever the network did in between.                    *)
(***************************************************************************)
VARIABLE table \* [key, c, ss] of every answer

Init == table = {}

Consistent(a, b) == a.key = b.key => (a.c = b.c <=> a.ss = b.ss)

Answer ==
  /\ \E e \in table' : table' = table \cup {e}
  /\ \A a, b \in table' : Consistent(a, b)

Spec == Init /\ [][Answer]_table
=============================================================================
