------------------------------ MODULE LinProof ------------------------------
(***************************************************************************)
(* Prod_LIN of shuffle.cpp: lin_prover with its rejection loop, lin_hash,  *)
(* and lin_verifier, for one relation alpha[0] * x + alpha[1] = _x between *)
(* the messages of two commitments under one key.                          *)
(*                                                                         *)
(* A randomness vector is an element of Vectors; of the key the proof      *)
(* needs only that its two rows are linear maps, which BdlopKey's are.     *)
(* The hash is ideal: the transcript of the attempt at hand has the        *)
(* challenge of that attempt, any other transcript may have any challenge. *)
(***************************************************************************)
EXTENDS RqRing

CONSTANTS
  Vectors, AddVec(_, _), ScaleVec(_, _),  \* vectors of WIDTH ring elements
  Keys, FirstRow(_, _), SecondRow(_, _),   \* c1 and c2 of a vector under a key
  Short,        \* randomness of commitments
  Gauss,        \* what sample_z fills a vector with
  Fits(_),      \* bdlop_test_norm on every component of a response
  Challenges,   \* values of bdlop_sample_chal
  Scalars       \* values of messages and of alpha

ASSUME VectorsClosed ==
  /\ Short \subseteq Vectors /\ Gauss \subseteq Vectors
  /\ Challenges \subseteq R /\ Scalars \subseteq R
  /\ \A v, w \in Vectors, b \in R : AddVec(v, w) \in Vectors /\ ScaleVec(b, v) \in Vectors
  /\ \A v \in Vectors : Fits(v) \in BOOLEAN

ASSUME RowsLinear ==
  \A k \in Keys, v, w \in Vectors, b \in R :
    /\ FirstRow(k, v) \in R
    /\ FirstRow(k, AddVec(v, ScaleVec(b, w))) = Plus(FirstRow(k, v), Times(b, FirstRow(k, w)))
    /\ SecondRow(k, v) \in R
    /\ SecondRow(k, AddVec(v, ScaleVec(b, w))) = Plus(SecondRow(k, v), Times(b, SecondRow(k, w)))

Unset == << >>

VARIABLES
  key, alpha,    \* the key, and the pair alpha[0], alpha[1] (here 1 and 2)
  msg, msg_,     \* committed messages
  r, r_,         \* their randomness
  y, y_,         \* Gaussian vectors, then responses, in the same arrays
  t, t_, u,      \* first message
  beta,          \* challenge of the prover's current attempt
  hashed,        \* the transcript it is the challenge of
  result,        \* of lin_verifier
  pc

vars == <<key, alpha, msg, msg_, r, r_, y, y_, t, t_, u, beta, hashed, result, pc>>

statement == <<key, alpha, msg, msg_, r, r_>>

Commit(k, x, rnd) == [c1 |-> FirstRow(k, rnd), c2 |-> Plus(SecondRow(k, rnd), x)]
com == Commit(key, msg, r)
com_ == Commit(key, msg_, r_)

\* What lin_hash absorbs.
Transcript == <<key, alpha, com, com_, u, t, t_>>

\* Row two of both vectors, combined as the relation combines the messages.
Combined(v, v_) == Minus(Times(alpha[1], SecondRow(key, v)), SecondRow(key, v_))

\* Fault: the relation is added to its first message with the other sign.
ClaimNegated == Minus(com_.c2, Plus(Times(alpha[1], com.c2), alpha[2]))

\* alpha[0] * x.c2[0] + alpha[1] - _x.c2[0]
Claim == Minus(Plus(Times(alpha[1], com.c2), alpha[2]), com_.c2)
-----------------------------------------------------------------------------
Init ==
  /\ key \in Keys /\ alpha \in Scalars \X Scalars
  /\ msg \in Scalars /\ msg_ \in Scalars
  /\ r \in Short /\ r_ \in Short
  /\ y = Unset /\ y_ = Unset /\ t = Unset /\ t_ = Unset /\ u = Unset
  /\ beta = Unset /\ hashed = Unset
  /\ result = TRUE
  /\ pc = "sample"

\* Fault: the second vector is never sampled, the first one is used twice.
SampleOnce ==
  /\ pc = "sample"
  /\ y' \in Gauss
  /\ t' = FirstRow(key, y') /\ t_' = FirstRow(key, y')
  /\ u' = Combined(y', y')
  /\ pc' = "hash"
  /\ UNCHANGED <<statement, y_, beta, hashed, result>>

\* Head of the loop: sample y and _y, compute t, _t and u.
Sample ==
  /\ pc = "sample"
  /\ y' \in Gauss /\ y_' \in Gauss
  /\ t' = FirstRow(key, y') /\ t_' = FirstRow(key, y_')
  /\ u' = Combined(y', y_')
  /\ pc' = "hash"
  /\ UNCHANGED <<statement, beta, hashed, result>>

\* lin_hash in the prover.
Hash ==
  /\ pc = "hash"
  /\ beta' \in Challenges
  /\ hashed' = Transcript
  /\ pc' = "respond"
  /\ UNCHANGED <<statement, y, y_, t, t_, u, result>>

\* Fault: the loop reads the tests as acceptance.
RespondInverted(rej0, rej1) ==
  /\ pc = "respond"
  /\ y' = AddVec(y, ScaleVec(beta, r))
  /\ y_' = AddVec(y_, ScaleVec(beta, r_))
  /\ pc' = IF rej0 /\ rej1 THEN "verify" ELSE "sample"
  /\ UNCHANGED <<statement, t, t_, u, beta, hashed, result>>

\* The responses overwrite the vectors; the two tests let them out or send the
\* prover back to sample afresh.
Respond(rej0, rej1) ==
  /\ pc = "respond"
  /\ y' = AddVec(y, ScaleVec(beta, r))
  /\ y_' = AddVec(y_, ScaleVec(beta, r_))
  /\ pc' = IF rej0 \/ rej1 THEN "sample" ELSE "verify"
  /\ UNCHANGED <<statement, t, t_, u, beta, hashed, result>>

\* lin_verifier: its own challenge, the norms, three equations.
Verify ==
  /\ pc = "verify"
  /\ \E b \in IF Transcript = hashed THEN {beta} ELSE Challenges :
       result' = /\ Fits(y) /\ Fits(y_)
                 /\ Minus(Plus(t, Times(b, com.c1)), FirstRow(key, y)) = Zero
                 /\ Minus(Plus(t_, Times(b, com_.c1)), FirstRow(key, y_)) = Zero
                 /\ Plus(Times(Claim, b), u) = Combined(y, y_)
  /\ pc' = "done"
  /\ UNCHANGED <<statement, y, y_, t, t_, u, beta, hashed>>

Stopped == pc = "done" /\ UNCHANGED vars

Next ==
  \/ Sample
  \/ Hash
  \/ \E rej0, rej1 \in BOOLEAN : Respond(rej0, rej1)
  \/ Verify
  \/ Stopped

\* Every attempt is accepted with the same positive probability, whatever the
\* earlier ones were: acceptance is strongly fair.
Fairness ==
  /\ WF_vars(Sample \/ Hash \/ Verify)
  /\ WF_vars(\E rej0, rej1 \in BOOLEAN : Respond(rej0, rej1))
  /\ SF_vars(Respond(FALSE, FALSE))

Spec == Init /\ [][Next]_vars /\ Fairness
-----------------------------------------------------------------------------
\* From the first sample on every array of the proof is set, in both vectors:
\* the code passes them uninitialised to lin_prover.
TypeOK ==
  /\ key \in Keys /\ alpha \in Scalars \X Scalars
  /\ msg \in Scalars /\ msg_ \in Scalars /\ r \in Short /\ r_ \in Short
  /\ result \in BOOLEAN
  /\ pc \in {"sample", "hash", "respond", "verify", "done"}
  /\ pc # "sample" =>
       y \in Vectors /\ y_ \in Vectors /\ t \in R /\ t_ \in R /\ u \in R
  /\ pc \in {"respond", "verify", "done"} => beta \in Challenges

\* What Shuffle takes from this proof: whatever attempts were rejected before,
\* the verdict on the proof that gets out is that both responses are short and
\* that the challenge times the relation between the messages is zero.
VerdictIsRelation ==
  pc = "done" =>
    (result <=>
       /\ Fits(y) /\ Fits(y_)
       /\ Times(beta, Minus(Plus(Times(alpha[1], msg), alpha[2]), msg_)) = Zero)

\* The rejection loop ends: an unlimited number of rejections has probability 0.
Terminates == <>(pc = "done")

\* The inductive invariant: the transcript that was hashed is the one the
\* verifier hashes, and the arrays hold y, or y plus the challenge times r.
FirstMessage(v, v_) == t = FirstRow(key, v) /\ t_ = FirstRow(key, v_) /\ u = Combined(v, v_)

Masked ==
  /\ pc \in {"hash", "respond"} => FirstMessage(y, y_)
  /\ pc = "respond" => hashed = Transcript
  /\ pc = "verify" =>
       /\ hashed = Transcript
       /\ \E v, v_ \in Vectors : /\ FirstMessage(v, v_)
                                 /\ y = AddVec(v, ScaleVec(beta, r))
                                 /\ y_ = AddVec(v_, ScaleVec(beta, r_))

IInv == TypeOK /\ Masked /\ VerdictIsRelation
=============================================================================
