------------------------------ MODULE Shuffle ------------------------------
(***************************************************************************)
(* The proof of shuffle of shuffle.cpp, from run() to its return value:    *)
(* collapsing the message vectors, shuffle_prover with its masks, its two  *)
(* kinds of Fiat-Shamir challenges and its chain of relation proofs with   *)
(* rejection, and shuffle_verifier.                                        *)
(*                                                                         *)
(* Ring arithmetic is exact, over the ring RqRing leaves open.  Commitments*)
(* are ideal: a commitment is the pair of what it commits to and the       *)
(* randomness, and the relation proof of Prod_LIN is the record of what    *)
(* its equations tie together.  Randomness is the generator of AesCtr:     *)
(* every draw has a position <<key, counter>> in some stream, draws at the *)
(* same position have the same value, and a digest is its transcript.      *)
(***************************************************************************)
EXTENDS RqRing, AesCtr, FiniteSets

CONSTANTS
  Statements,   \* pairs <<m, m_>> of MSGS message vectors the callers commit to
  LinChallenges,\* values the challenge of a relation proof can have
  MaxRejects    \* bound on the rejected attempts of one execution

ASSUME ShuffleAssumption ==
  /\ \A st \in Statements :
       /\ Cardinality(DOMAIN st[1]) \in Nat \ {0, 1}   \* theta[MSGS - 2] must exist
       /\ \A f \in {st[1], st[2]} :
            f \in [0 .. Cardinality(DOMAIN st[1]) - 1 -> R \X R]
  /\ LinChallenges \subseteq R
  /\ MaxRejects \in Nat

\* One key serves all masks of a shuffle: the 32-bit counter does not come round.
ASSUME CounterLasts == \A st \in Statements : 2 * Cardinality(DOMAIN st[1]) <= CtrMod

VARIABLES
  prng,      \* the process-wide generator
  stream,    \* ring elements found so far at stream positions
  secrets,   \* history: name of a secret draw -> its position
  m, m_,     \* message vectors before and after the shuffle
  rho,       \* combines the two components of a vector
  ms, ms_,   \* collapsed messages
  c, d,      \* collapsed input commitments, prover's commitments
  theta, s,  \* masks and the published masked quotients
  beta,      \* challenge of shuffle_hash, as the prover computed it
  beta_v,    \* the same, as the verifier computes it
  proof,     \* one relation proof per message
  i,         \* loop counter of the phase
  rejects,   \* rejected attempts so far
  result,    \* verdict accumulated by the verifier
  pc

vars == <<prng, stream, secrets, m, m_, rho, ms, ms_, c, d, theta, s, beta, beta_v,
          proof, i, rejects, result, pc>>

MSGS == Cardinality(DOMAIN m)
Index == 0 .. MSGS - 1
Last == MSGS - 1

inputs == <<m, m_>>
collapsed == <<rho, ms, ms_, c>>
-----------------------------------------------------------------------------
\* The position of the next draw, and the values it can have: a position that
\* was read before holds what it held then.
Position(p) == LET q == EnsureKeyed(p) IN <<q.key, q.iv>>
Values(pos, V) == IF pos \in DOMAIN stream THEN {stream[pos]} ELSE V

Learn(pos, v) == [x \in DOMAIN stream \cup {pos} |-> IF x = pos THEN v ELSE stream[x]]
Record(new) == [x \in DOMAIN secrets \cup DOMAIN new |->
                  IF x \in DOMAIN new THEN new[x] ELSE secrets[x]]

\* Hash a transcript, sample the challenge, give the generator back.
Keyed(p, transcript) == LoadKey(p, HashKey(transcript))
AfterChallenge(p, transcript) == Reseed(Advance(Keyed(p, transcript), 1))

Commit(msg, rnd) == [msg |-> msg, rnd |-> rnd]

\* A vector weighted with rho[0] = 1 and rho[1].
Weigh(v, w) == Plus(v[1], Times(v[2], w))

\* Fault: the hash absorbs s, which only exists when the verifier hashes.
ShuffleTranscriptLate == <<"shuffle", ms_, c, d, rho, s>>

ShuffleTranscript == <<"shuffle", ms_, c, d, rho>>

\* Fault: the sign of the last relation does not depend on the parity of MSGS.
AlphaOneNegated(b, l) ==
  IF l < Last THEN Times(s[l], ms_[l]) ELSE Minus(Zero, Times(b, ms_[l]))

\* alpha[0] and alpha[1] of relation l; both sides compute them alike.
AlphaZero(b, l) == IF l = 0 THEN b ELSE s[l - 1]
AlphaOne(b, l) ==
  IF l < Last THEN Times(s[l], ms_[l])
  ELSE IF MSGS % 2 = 1 THEN Minus(Zero, Times(b, ms_[l]))
  ELSE Times(b, ms_[l])

\* What lin_hash absorbs; "first" stands for t, _t and u, which y and _y determine.
LinTranscript(b, l, first) ==
  <<"lin", <<AlphaZero(b, l), AlphaOne(b, l)>>, c[l], d[l], first>>

\* alpha[0] * x + alpha[1] - _x on the committed values.
Residue(b, l) == Minus(Plus(Times(AlphaZero(b, l), c[l].msg), AlphaOne(b, l)), d[l].msg)

\* The last equation of lin_verifier on a response to the challenge ch.
RelationHolds(ch, b, l) == Times(ch, Residue(b, l)) = Zero

\* Fault: the mask of the quotient itself is left out.
NumeratorUnmasked(th, q, j) ==
  IF j = 0 THEN Minus(Zero, Times(beta, ms[0]))
  ELSE Minus(Times(th[j - 1], ms[j]), Times(q[j - 1], ms[j]))

\* What s[j] is before the division by _ms[j], for masks th and quotients q.
Numerator(th, q, j) ==
  IF j = 0 THEN Minus(Times(th[0], ms_[0]), Times(beta, ms[0]))
  ELSE Minus(Plus(Times(th[j - 1], ms[j]), Times(th[j], ms_[j])), Times(q[j - 1], ms[j]))
-----------------------------------------------------------------------------
Init ==
  /\ \E st \in Statements : m = st[1] /\ m_ = st[2]
  /\ prng = PrngInit
  /\ stream = [x \in {} |-> Zero] /\ secrets = [x \in {} |-> {}]
  /\ rho = Zero
  /\ ms = [j \in Index |-> Zero] /\ ms_ = [j \in Index |-> Zero]
  /\ c = [j \in Index |-> Commit(Zero, << >>)] /\ d = [j \in Index |-> Commit(Zero, << >>)]
  /\ theta = [j \in Index \ {Last} |-> Zero] /\ s = [j \in Index \ {Last} |-> Zero]
  /\ beta = Zero /\ beta_v = Zero
  /\ proof = << >>
  /\ i = 0 /\ rejects = 0 /\ result = TRUE
  /\ pc = "collapse"

\* run: sample rho[1], collapse messages and commitments with the same weights.
Collapse ==
  /\ pc = "collapse"
  /\ \E w \in Values(Position(prng), R) :
       /\ rho' = w
       /\ stream' = Learn(Position(prng), w)
       /\ ms' = [j \in Index |-> Weigh(m[j], w)]
       /\ ms_' = [j \in Index |-> Weigh(m_[j], w)]
       /\ c' = [j \in Index |-> Commit(Weigh(m[j], w), <<"input", j>>)]
  /\ secrets' = Record([x \in {<<"rho", 0, 0>>} |-> Position(prng)])
  /\ prng' = Advance(prng, 1)
  /\ pc' = "mask" /\ i' = 0
  /\ UNCHANGED <<inputs, d, theta, s, beta, beta_v, proof, rejects, result>>

\* shuffle_prover, first loop: theta[i], then the randomness of commitment d[i].
SampleMask ==
  LET next == Advance(prng, 1)
  IN  /\ pc = "mask"
      /\ i < Last
      /\ \E v \in Values(Position(prng), R) :
           /\ theta' = [theta EXCEPT ![i] = v]
           /\ stream' = Learn(Position(prng), v)
           /\ LET own == Times(v, ms_[i])
              IN  d' = [d EXCEPT ![i] =
                         Commit(IF i = 0 THEN own ELSE Plus(Times(theta[i - 1], ms[i]), own),
                                Position(next))]
      /\ secrets' = Record([x \in {<<"theta", i, 0>>, <<"r_", i, 0>>} |->
                              IF x[1] = "theta" THEN Position(prng) ELSE Position(next)])
      /\ prng' = Advance(next, 1)
      /\ i' = i + 1
      /\ UNCHANGED <<inputs, collapsed, s, beta, beta_v, proof, rejects, result, pc>>

\* The last commitment hides theta[MSGS - 2] * ms[MSGS - 1].
CommitLast ==
  /\ pc = "mask"
  /\ i = Last
  /\ d' = [d EXCEPT ![Last] = Commit(Times(theta[Last - 1], ms[Last]), Position(prng))]
  /\ secrets' = Record([x \in {<<"r_", Last, 0>>} |-> Position(prng)])
  /\ prng' = Advance(prng, 1)
  /\ pc' = "hash"
  /\ UNCHANGED <<inputs, collapsed, stream, theta, s, beta, beta_v, proof, i, rejects, result>>

\* shuffle_hash in the prover.
HashStatement ==
  LET pos == Position(Keyed(prng, ShuffleTranscript))
  IN  /\ pc = "hash"
      /\ \E b \in Values(pos, R) : beta' = b /\ stream' = Learn(pos, b)
      /\ prng' = AfterChallenge(prng, ShuffleTranscript)
      /\ pc' = "inverse"
      /\ UNCHANGED <<inputs, collapsed, secrets, d, theta, s, beta_v, proof, i, rejects, result>>

\* simul_inverse(inv, _ms): module SimulInverse shows that its assertion holds
\* exactly if every message is invertible, and that inv is then correct.
Invert ==
  /\ pc = "inverse"
  /\ pc' = IF \A j \in Index : Unit(ms_[j]) THEN "quotient" ELSE "abort"
  /\ i' = 0
  /\ UNCHANGED <<prng, stream, secrets, inputs, collapsed, d, theta, s, beta, beta_v,
                 proof, rejects, result>>

\* One iteration of the loop that computes s[0 .. MSGS - 2].
ComputeQuotient ==
  /\ pc = "quotient"
  /\ i < Last
  /\ s' = [s EXCEPT ![i] = Times(Numerator(theta, s, i), Inv(ms_[i]))]
  /\ i' = i + 1
  /\ UNCHANGED <<prng, stream, secrets, inputs, collapsed, d, theta, beta, beta_v, proof,
                 rejects, result, pc>>

StartRelations ==
  /\ pc = "quotient"
  /\ i = Last
  /\ i' = 0
  /\ pc' = "relation"
  /\ UNCHANGED <<prng, stream, secrets, inputs, collapsed, d, theta, s, beta, beta_v, proof,
                 rejects, result>>

\* One pass of lin_prover's loop: y and _y from the generator, lin_hash, and
\* the responses, which rej_sampling lets out or sends back.
Attempt(accepted) ==
  LET first == <<Position(prng), Position(Advance(prng, 1))>>
      transcript == LinTranscript(beta, i, first)
      pos == Position(Keyed(prng, transcript))
  IN  /\ pc = "relation"
      /\ i < MSGS
      /\ ~accepted => rejects < MaxRejects
      /\ \E b \in Values(pos, LinChallenges) :
           /\ stream' = Learn(pos, b)
           /\ proof' = IF ~accepted THEN proof
                       ELSE [x \in DOMAIN proof \cup {i} |->
                               IF x = i THEN [first |-> first, at |-> pos, chal |-> b,
                                              r |-> c[i].rnd, r_ |-> d[i].rnd]
                               ELSE proof[x]]
      /\ secrets' = Record([x \in {<<"y", i, rejects>>, <<"y_", i, rejects>>} |->
                              IF x[1] = "y" THEN first[1] ELSE first[2]])
      /\ prng' = AfterChallenge(Advance(prng, 2), transcript)
      /\ i' = IF accepted THEN i + 1 ELSE i
      /\ rejects' = IF accepted THEN rejects ELSE rejects + 1
      /\ UNCHANGED <<inputs, collapsed, d, theta, s, beta, beta_v, result, pc>>

\* shuffle_hash in the verifier.
Rehash ==
  LET pos == Position(Keyed(prng, ShuffleTranscript))
  IN  /\ pc = "relation"
      /\ i = MSGS
      /\ \E b \in Values(pos, R) : beta_v' = b /\ stream' = Learn(pos, b)
      /\ prng' = AfterChallenge(prng, ShuffleTranscript)
      /\ i' = 0
      /\ pc' = "verify"
      /\ UNCHANGED <<inputs, collapsed, secrets, d, theta, s, beta, proof, rejects, result>>

\* lin_verifier for relation i: the challenge is recomputed, both responses
\* answer it for the randomness of their commitment, and the relation holds.
VerifyRelation ==
  LET transcript == LinTranscript(beta_v, i, proof[i].first)
      pos == Position(Keyed(prng, transcript))
  IN  /\ pc = "verify"
      /\ i < MSGS
      /\ \E b \in Values(pos, LinChallenges) :
           /\ stream' = Learn(pos, b)
           /\ result' = (result /\ pos = proof[i].at
                                /\ proof[i].r = c[i].rnd /\ proof[i].r_ = d[i].rnd
                                /\ RelationHolds(b, beta_v, i))
      /\ prng' = AfterChallenge(prng, transcript)
      /\ i' = i + 1
      /\ UNCHANGED <<secrets, inputs, collapsed, d, theta, s, beta, beta_v, proof, rejects, pc>>

Finish ==
  /\ pc = "verify"
  /\ i = MSGS
  /\ pc' = "done"
  /\ UNCHANGED <<prng, stream, secrets, inputs, collapsed, d, theta, s, beta, beta_v, proof,
                 i, rejects, result>>

Stopped == pc \in {"done", "abort"} /\ UNCHANGED vars

Next ==
  \/ Collapse
  \/ SampleMask
  \/ CommitLast
  \/ HashStatement
  \/ Invert
  \/ ComputeQuotient
  \/ StartRelations
  \/ \E accepted \in BOOLEAN : Attempt(accepted)
  \/ Rehash
  \/ VerifyRelation
  \/ Finish
  \/ Stopped

Spec == Init /\ [][Next]_vars
-----------------------------------------------------------------------------
Phases == {"collapse", "mask", "hash", "inverse", "quotient", "relation", "verify",
           "done", "abort"}

\* Ranges of the state; the generator's counter stays in its 32-bit lane.
TypeOK ==
  /\ prng.init \in {-1, 0, 1} /\ prng.iv \in 0 .. CtrMod - 1
  /\ rho \in R /\ beta \in R /\ beta_v \in R
  /\ ms \in [Index -> R] /\ ms_ \in [Index -> R]
  /\ theta \in [Index \ {Last} -> R] /\ s \in [Index \ {Last} -> R]
  /\ \A j \in Index : c[j].msg \in R /\ d[j].msg \in R
  /\ DOMAIN proof \subseteq Index
  /\ i \in 0 .. MSGS /\ rejects \in 0 .. MaxRejects
  /\ result \in BOOLEAN /\ pc \in Phases

\* Masks, commitment randomness and Gaussian vectors never come from a stream
\* that a transcript keys: every challenge gives the generator back
\* (fastrandombytes_reseed) before the next secret is drawn, also in the retry
\* of a rejected attempt and after the verifier.
SecretsPrivate ==
  \A x \in DOMAIN secrets : secrets[x][1][1] = "os"

\* No two secrets share a position: in particular a retry masks the response
\* with fresh vectors, and y and _y are independent.
SecretsFresh ==
  \A x, y \in DOMAIN secrets : secrets[x] = secrets[y] => x = y

\* Prover and verifier derive the same challenges, in different states of the
\* generator and although the prover's arrays are overwritten in between.
ChallengesAgree ==
  pc \in {"verify", "done"} => beta_v = beta

\* The inductive invariant behind the three: outside of a challenge the generator
\* is not keyed or keyed by the system, every secret lies below the blocks drawn
\* under the key in use, and the stream remembers the prover's challenge.
Blocks == IF pc = "mask" THEN 1 + 2 * i ELSE IF pc = "hash" THEN 2 * MSGS ELSE 0

KeyDiscipline ==
  /\ prng = [init |-> prng.init, key |-> prng.key, iv |-> prng.iv, seeds |-> prng.seeds]
  /\ prng.init \in {0, 1} /\ prng.iv \in 0 .. CtrMod - 1 /\ prng.seeds \in Nat
  /\ prng.init = 1 => prng.seeds >= 1 /\ prng.key = OsKey(prng.seeds - 1)
  /\ IF pc \in {"mask", "hash"} THEN prng.init = 1 /\ prng.iv = Blocks % CtrMod
                                ELSE prng.init = 0

SecretsBelow ==
  \A x \in DOMAIN secrets : \E n \in 0 .. prng.seeds - 1, k \in 0 .. CtrMod - 1 :
    /\ secrets[x] = <<OsKey(n), k>>
    /\ n = prng.seeds - 1 /\ prng.init = 1 => k < Blocks

ChallengeRemembered ==
  pc \in {"inverse", "quotient", "relation", "verify", "done"} =>
    LET pos == <<HashKey(ShuffleTranscript), 0>>
    IN  pos \in DOMAIN stream /\ stream[pos] = beta

IInv ==
  /\ \E st \in Statements : m = st[1]
  /\ i \in Nat /\ (pc = "mask" => i <= Last) /\ pc \in Phases
  /\ KeyDiscipline /\ SecretsBelow /\ SecretsFresh /\ ChallengeRemembered /\ ChallengesAgree

Product(f) ==
  LET g[k \in Index] == IF k = 0 THEN f[0] ELSE Times(g[k - 1], f[k])
  IN  g[Last]

LastChallenge == proof[Last].chal

\* What the verdict means, exactly: the chain of relations telescopes to the
\* equality of the two products, blinded by the challenges.
VerdictIsProductEquality ==
  pc = "done" =>
    (result <=> Times(Times(LastChallenge, beta), Minus(Product(ms), Product(ms_))) = Zero)

\* "theta_i is the only mask on the s_i the prover publishes" (shuffle.cpp:408):
\* for the messages and the challenge of the run, each vector s comes from one
\* vector of masks only, so that s alone says nothing about the messages.
QuotientsOf(th) ==
  LET q[j \in Index \ {Last}] == Times(Numerator(th, q, j), Inv(ms_[j]))
  IN  q
QuotientsMasked ==
  pc = "relation" /\ i = 0 =>
    \A th \in [Index \ {Last} -> R] : QuotientsOf(th) = s <=> th = theta
=============================================================================
