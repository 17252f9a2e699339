------------------------------- MODULE Pibnd -------------------------------
(***************************************************************************)
(* The amortised proof of bounded norm of pibnd.cpp: TAU relations         *)
(* t[k] = A * s[k], answered in NTI parallel columns.  One action per loop *)
(* of prover and verifier, on the arrays they share: Z holds the mask and  *)
(* then the response, W and C are those of whoever ran last, and the       *)
(* verifier's norm test takes Z out of the NTT domain in place.            *)
(*                                                                         *)
(* The hash is ideal (a digest is its transcript), the challenge matrix of *)
(* a digest is drawn when the prover first derives it.  Matrices are       *)
(* functions on pairs of indices.                                          *)
(***************************************************************************)
EXTENDS RqRing

CONSTANTS
  ROWS, V,      \* rows and columns of A; R and V in pibnd.cpp
  TAU, NTI,     \* relations, parallel repetitions
  Keys,         \* values of A
  Witnesses,    \* values of s
  Statements,   \* values of t besides the true one
  Gauss,        \* values of sample_z for one polynomial
  Ternary,      \* values of pibnd_sample_chall
  InvNtt(_),    \* invntt_pow_invphi
  Fits(_, _),   \* pibnd_test_norm for row i on coefficients
  Leftovers     \* what W and C may hold when a verifier starts

RowIx == 0 .. ROWS - 1
ColIx == 0 .. V - 1
RelIx == 0 .. TAU - 1
RepIx == 0 .. NTI - 1

ASSUME PibndAssumption ==
  /\ ROWS \in Nat \ {0} /\ V \in Nat \ {0} /\ TAU \in Nat \ {0} /\ NTI \in Nat \ {0}
  /\ Keys \subseteq [RowIx \X ColIx -> R]
  /\ Witnesses \subseteq [RelIx \X ColIx -> R]
  /\ Statements \subseteq [RelIx \X RowIx -> R]
  /\ Gauss \subseteq R /\ Ternary \subseteq R /\ Leftovers \subseteq R
  /\ \A x \in R : InvNtt(x) \in R /\ \A i \in ColIx : Fits(i, x) \in BOOLEAN

VARIABLES
  A, s, t,    \* statement and witness
  Z, W, C,    \* the shared matrices
  SC,         \* witness times challenge
  h,          \* the prover's digest
  drawn,      \* history: the challenge matrix that digest stands for
  inNtt,      \* Z is in the NTT domain
  first,      \* no verifier has run on this Z before
  result,     \* of pibnd_verifier
  pc

vars == <<A, s, t, Z, W, C, SC, h, drawn, inNtt, first, result, pc>>
statement == <<A, s, t>>

Unset == << >>

\* A * X for a matrix X with V rows and NTI columns.
Apply(key, X) ==
  [x \in RowIx \X RepIx |-> Sum([k \in ColIx |-> Times(key[x[1], k], X[k, x[2]])], V)]

\* What the relations say t is.
Image(key, w) ==
  [x \in RelIx \X RowIx |-> Sum([k \in ColIx |-> Times(key[x[2], k], w[x[1], k])], V)]

\* Witness times challenge.
Masking(w, X) ==
  [x \in ColIx \X RepIx |-> Sum([k \in RelIx |-> Times(w[k, x[1]], X[k, x[2]])], TAU)]

\* Fault: W is not cleared before the products are added.
RecomputeDirty(X) ==
  [x \in RowIx \X RepIx |->
     Plus(W[x], Minus(Apply(A, X)[x], Sum([k \in RelIx |-> Times(t[k, x[1]], C[k, x[2]])], TAU)))]

\* W = A * Z - T * C.
Recompute(X) ==
  [x \in RowIx \X RepIx |->
     Minus(Apply(A, X)[x], Sum([k \in RelIx |-> Times(t[k, x[1]], C[k, x[2]])], TAU))]

Transcript == <<A, t, W>>
-----------------------------------------------------------------------------
Init ==
  /\ A \in Keys /\ s \in Witnesses
  /\ t \in {Image(A, s)} \cup Statements
  /\ Z = Unset /\ W = Unset /\ C = Unset /\ SC = Unset /\ h = Unset /\ drawn = Unset
  /\ inNtt = TRUE /\ first = TRUE /\ result = FALSE
  /\ pc = "sample"

\* Every entry of Y, written to Z and transformed.
SampleY ==
  /\ pc = "sample"
  /\ Z' \in [ColIx \X RepIx -> Gauss]
  /\ pc' = "commit"
  /\ UNCHANGED <<statement, W, C, SC, h, drawn, inNtt, first, result>>

ComputeW ==
  /\ pc = "commit"
  /\ W' = Apply(A, Z)
  /\ pc' = "hash"
  /\ UNCHANGED <<statement, Z, C, SC, h, drawn, inNtt, first, result>>

\* Hash, seed, sample C, give the generator back.
Challenge ==
  /\ pc = "hash"
  /\ h' = Transcript
  /\ C' \in [RelIx \X RepIx -> Ternary]
  /\ drawn' = C'
  /\ pc' = "respond"
  /\ UNCHANGED <<statement, Z, W, SC, inNtt, first, result>>

\* Fault: the loop goes on while both tests accept.
RespondInverted(rej0, rej1) ==
  /\ pc = "respond"
  /\ SC' = Masking(s, C)
  /\ Z' = [x \in ColIx \X RepIx |-> Plus(Z[x], SC'[x])]
  /\ pc' = IF rej0 \/ rej1 THEN "handover" ELSE "sample"
  /\ UNCHANGED <<statement, W, C, h, drawn, inNtt, first, result>>

\* Z = Y + S * C, and the two rejection tests.
Respond(rej0, rej1) ==
  /\ pc = "respond"
  /\ SC' = Masking(s, C)
  /\ Z' = [x \in ColIx \X RepIx |-> Plus(Z[x], SC'[x])]
  /\ pc' = IF rej0 \/ rej1 THEN "sample" ELSE "handover"
  /\ UNCHANGED <<statement, W, C, h, drawn, inNtt, first, result>>

\* A verifier starts on the proof (h, Z) with the arrays of the prover, as in
\* test(), or with others.
Handover ==
  /\ pc = "handover"
  /\ \/ UNCHANGED <<W, C>>
     \/ \E x \in Leftovers : /\ W' = [y \in RowIx \X RepIx |-> x]
                             /\ C' = [y \in RelIx \X RepIx |-> x]
  /\ pc' = "seed"
  /\ UNCHANGED <<statement, Z, SC, h, drawn, inNtt, first, result>>

\* The digest in the proof is the seed of the challenge matrix.
SeedChallenge ==
  /\ pc = "seed"
  /\ C' = drawn
  /\ pc' = "recompute"
  /\ UNCHANGED <<statement, Z, W, SC, h, drawn, inNtt, first, result>>

RecomputeW ==
  /\ pc = "recompute"
  /\ W' = Recompute(Z)
  /\ pc' = "compare"
  /\ UNCHANGED <<statement, Z, C, SC, h, drawn, inNtt, first, result>>

\* memcmp of the digests, then every entry of Z is transformed in place and tested.
Check ==
  /\ pc = "compare"
  /\ Z' = [x \in DOMAIN Z |-> InvNtt(Z[x])]
  /\ inNtt' = FALSE
  /\ result' = (Transcript = h /\ \A x \in DOMAIN Z : Fits(x[1], Z'[x]))
  /\ pc' = "done"
  /\ UNCHANGED <<statement, W, C, SC, h, drawn, first>>

\* The benchmark verifies the same proof again and again.
VerifyAgain ==
  /\ pc = "done"
  /\ first
  /\ first' = FALSE
  /\ pc' = "seed"
  /\ UNCHANGED <<statement, Z, W, C, SC, h, drawn, inNtt, result>>

Stopped == pc = "done" /\ ~first /\ UNCHANGED vars

Next ==
  \/ SampleY
  \/ ComputeW
  \/ Challenge
  \/ \E rej0, rej1 \in BOOLEAN : Respond(rej0, rej1)
  \/ Handover
  \/ SeedChallenge
  \/ RecomputeW
  \/ Check
  \/ VerifyAgain
  \/ Stopped

\* Each test lets a response out with positive probability, independently of
\* earlier attempts: acceptance is strongly fair.
Fairness ==
  /\ WF_vars(SampleY \/ ComputeW \/ Challenge \/ Handover \/ SeedChallenge \/ RecomputeW \/ Check)
  /\ WF_vars(\E rej0, rej1 \in BOOLEAN : Respond(rej0, rej1))
  /\ SF_vars(Respond(FALSE, FALSE))

Spec == Init /\ [][Next]_vars /\ Fairness
-----------------------------------------------------------------------------
\* Every matrix that a step reads has been filled before, and Z is in the NTT
\* domain up to the end of the first verification only.
TypeOK ==
  /\ A \in Keys /\ s \in Witnesses /\ t \in [RelIx \X RowIx -> R]
  /\ result \in BOOLEAN /\ first \in BOOLEAN
  /\ pc \in {"sample", "commit", "hash", "respond", "handover", "seed", "recompute",
             "compare", "done"}
  /\ pc # "sample" => Z \in [ColIx \X RepIx -> R]
  /\ pc \notin {"sample", "commit"} => W \in [RowIx \X RepIx -> R]
  /\ pc \notin {"sample", "commit", "hash"} => C \in [RelIx \X RepIx -> R]
  /\ pc \in {"handover", "seed", "recompute", "compare", "done"} => SC \in [ColIx \X RepIx -> R]
  /\ pc \notin {"sample", "commit", "hash"} => drawn \in [RelIx \X RepIx -> R]
  /\ inNtt <=> first /\ pc # "done"

\* The challenge combines the errors of the relations to zero.
ErrorsCancel ==
  \A i \in RowIx, j \in RepIx :
    Sum([k \in RelIx |-> Times(Minus(t[k, i], Image(A, s)[k, i]), drawn[k, j])], TAU) = Zero

\* The verdict of the first verification is exact: the digest matches if and only
\* if the errors cancel under the challenge, for whatever attempts were rejected
\* and whatever the shared arrays W and C held before
\* ("one copy of each is enough for both", pibnd.cpp:69).
VerdictIsRelation ==
  pc = "done" /\ first =>
    (result <=> ErrorsCancel /\ \A x \in DOMAIN Z : Fits(x[1], Z[x]))

\* The inductive invariant: a mask commits to what was hashed; after the response
\* some mask did, whose response Z is, and the verifier's challenge is the prover's.
Handed ==
  first /\ pc \in {"handover", "seed", "recompute", "compare"} =>
    \E Y \in [ColIx \X RepIx -> Gauss] :
      /\ h = <<A, t, Apply(A, Y)>>
      /\ Z = [x \in ColIx \X RepIx |-> Plus(Y[x], Masking(s, drawn)[x])]

Answered ==
  /\ pc \in {"commit", "hash", "respond"} => Z \in [ColIx \X RepIx -> Gauss]
  /\ pc = "hash" => W = Apply(A, Z)
  /\ pc = "respond" => h = <<A, t, Apply(A, Z)>>
  /\ pc \in {"respond", "recompute", "compare"} => C = drawn
  /\ pc = "compare" => W = Recompute(Z)

IInv == TypeOK /\ Answered /\ Handed /\ VerdictIsRelation

\* The rejection loop ends and a verdict is reached.
Terminates == <>(pc = "done")
=============================================================================
