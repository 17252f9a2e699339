---------------------------- MODULE RandomSource ----------------------------
(***************************************************************************)
(* What every protocol of the repository assumes of its randomness, and    *)
(* what nfl::fastrandombytes has to deliver through one global state: a    *)
(* secret draw never returns anything that was handed out before, and a    *)
(* challenge is a function of the digest it is derived from, whoever       *)
(* derives it and whenever.                                                *)
(***************************************************************************)
VARIABLES given,    \* blocks handed to secret samplers so far
          oracle,   \* the digests queried so far and the blocks they returned
          out       \* the last complete answer

vars == <<given, oracle, out>>

Init == given = {} /\ oracle = [h \in {} |-> {}] /\ out = {}

Revealed == UNION {oracle[h] : h \in DOMAIN oracle}

\* A secret sampler obtains blocks nobody has seen.
Secret ==
  /\ out' \cap (given \cup Revealed) = {}
  /\ given' = given \cup out'
  /\ UNCHANGED oracle

\* The first query of a digest: the answer is unrelated to everything before.
FirstChallenge ==
  /\ out' \cap (given \cup Revealed) = {}
  /\ \E h \in DOMAIN oracle' \ DOMAIN oracle :
       /\ oracle'[h] = out'
       /\ DOMAIN oracle' = DOMAIN oracle \cup {h}
  /\ \A g \in DOMAIN oracle : oracle'[g] = oracle[g]
  /\ UNCHANGED given

\* Every later query of a digest gives the first answer again.
RepeatedChallenge ==
  /\ \E h \in DOMAIN oracle : out' = oracle[h]
  /\ UNCHANGED <<given, oracle>>

Next == Secret \/ FirstChallenge \/ RepeatedChallenge

Spec == Init /\ [][Next]_vars
=============================================================================
