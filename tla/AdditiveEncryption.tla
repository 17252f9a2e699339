------------------------- MODULE AdditiveEncryption -------------------------
(***************************************************************************)
(* What bgv.cpp promises its users: two slots hold plaintexts that were    *)
(* put there, one can be added into the other, and the first one is        *)
(* revealed when every holder of a share has contributed.                  *)
(***************************************************************************)
CONSTANTS Plain, PlainAdd(_, _), Absent, Holders

VARIABLES first, second,   \* plaintexts behind the two ciphertexts
          helped,          \* holders that have contributed
          out,             \* the revealed plaintext
          asked            \* the plaintext that was last put

abstract == <<first, second, helped, out, asked>>

Start == first = Absent /\ second = Absent /\ helped = {} /\ out = Absent /\ asked = Absent

PutFirst ==
  first = Absent /\ asked' \in Plain /\ first' = asked' /\ UNCHANGED <<second, helped, out>>

PutSecond ==
  second = Absent /\ asked' \in Plain /\ second' = asked' /\ UNCHANGED <<first, helped, out>>

AddSecond ==
  /\ first # Absent /\ second # Absent /\ helped = {}
  /\ first' = PlainAdd(first, second)
  /\ UNCHANGED <<second, helped, out, asked>>

Help ==
  /\ first # Absent
  /\ \E j \in Holders \ helped : helped' = helped \cup {j}
  /\ UNCHANGED <<first, second, out, asked>>

Reveal == helped = Holders /\ out' = first /\ UNCHANGED <<first, second, helped, asked>>

Step == PutFirst \/ PutSecond \/ AddSecond \/ Help \/ Reveal

AbstractSpec == Start /\ [][Step]_abstract
=============================================================================
