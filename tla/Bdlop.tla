------------------------------- MODULE Bdlop -------------------------------
(***************************************************************************)
(* The life of a BDLOP commitment: key generation, commitment, the linear  *)
(* operations its users perform on it (subtracting a commitment without    *)
(* randomness, collapsing the rows with random weights as run() of         *)
(* shuffle.cpp does), and bdlop_open with a factor.                        *)
(***************************************************************************)
EXTENDS BdlopKey

CONSTANTS
  Short,       \* coefficients bdlop_sample_rand draws (-1, 0 and 1)
  Factors,     \* factors of an opening: 1 or a value of bdlop_sample_chal
  Messages,    \* message components a caller commits to
  Tails,       \* uniform entries of the key
  Fits(_),     \* bdlop_test_norm on one entry of a randomness vector
  MaxOps       \* bound on the linear operations on one commitment

ASSUME BdlopAssumption ==
  /\ Short \subseteq R /\ Factors \subseteq R /\ Messages \subseteq R /\ Tails \subseteq R
  /\ \A x \in R : Fits(x) \in BOOLEAN
  /\ MaxOps \in Nat

VARIABLES
  key,    \* A1 (one row) and A2 (rows of WIDTH entries)
  com,    \* c1 and the vector c2
  m, r,   \* what it commits to now, and the randomness it was made with
  ops,    \* linear operations so far
  factor, answer, \* factor and randomness of the opening
  claim,  \* messages of the opening
  opened, \* of bdlop_open
  stage   \* of the life of the commitment

bdlopVars == <<key, com, m, r, ops, factor, answer, claim, opened, stage>>

Commit(k, msg, rnd) ==
  [c1 |-> RowOne(k.A1, rnd),
   c2 |-> [i \in DOMAIN msg |-> Plus(RowTwo(k.A2[i], rnd), msg[i])]]

MessageVectors == [{0} -> Messages] \cup [Rows -> Messages]
-----------------------------------------------------------------------------
BdlopInit ==
  /\ key = << >> /\ com = << >> /\ m = << >> /\ r = << >> /\ answer = << >> /\ claim = << >>
  /\ factor = Zero /\ ops = 0 /\ opened = FALSE
  /\ stage = "keygen"

\* bdlop_keygen: [1 A1] on top of [0 I A2'], uniform outside the fixed part.
KeyGen ==
  /\ stage = "keygen"
  /\ \E a \in [0 .. WIDTH - HEIGHT - 1 -> Tails],
        tail \in [Rows -> [HEIGHT + SIZE .. WIDTH - 1 -> Tails]] :
       key' = [A1 |-> a,
               A2 |-> [i \in Rows |->
                         [j \in Cols |-> IF j = i + HEIGHT THEN One
                                         ELSE IF j < HEIGHT + SIZE THEN Zero
                                         ELSE tail[i][j]]]]
  /\ stage' = "commit"
  /\ UNCHANGED <<com, m, r, ops, factor, answer, claim, opened>>

\* bdlop_sample_rand and bdlop_commit on one or SIZE messages.
MakeCommitment ==
  /\ stage = "commit"
  /\ m' \in MessageVectors
  /\ r' \in [Cols -> Short]
  /\ com' = Commit(key, m', r')
  /\ stage' = "open"
  /\ UNCHANGED <<key, ops, factor, answer, claim, opened>>

\* Subtract a commitment to rho with randomness zero, component by component.
Subtract(rho) ==
  LET other == Commit(key, rho, [j \in Cols |-> Zero])
  IN  /\ stage = "open"
      /\ ops < MaxOps
      /\ DOMAIN rho = DOMAIN m
      /\ com' = [c1 |-> Minus(com.c1, other.c1),
                 c2 |-> [i \in DOMAIN m |-> Minus(com.c2[i], other.c2[i])]]
      /\ m' = [i \in DOMAIN m |-> Minus(m[i], rho[i])]
      /\ ops' = ops + 1
      /\ UNCHANGED <<key, r, factor, answer, claim, opened, stage>>

\* The sum of the rows of x, the first one as it is, the others weighted.
Weighted(x, w) ==
  Plus(x[0], Sum([i \in 0 .. SIZE - 2 |-> Times(x[i + 1], w[i + 1])], SIZE - 1))

\* Fault: the tail of the collapsed key keeps the first row only.
CollapsedRowShort(A2, w) ==
  [j \in Cols |-> IF j = 0 THEN Zero ELSE IF j <= SIZE THEN Weighted([i \in Rows |-> A2[i][j]], w)
                  ELSE A2[0][j]]

\* The only row of the collapsed key; columns 0 and 1 are set directly.
CollapsedRow(A2, w) ==
  [j \in Cols |-> IF j = 0 THEN Zero ELSE IF j = 1 THEN One
                  ELSE Weighted([i \in Rows |-> A2[i][j]], w)]

\* Fault: c2 is not resized.
CollapseKeepRows(w) ==
  /\ stage = "open"
  /\ ops < MaxOps
  /\ DOMAIN m = Rows
  /\ com' = [com EXCEPT !.c2[0] = Weighted(com.c2, w)]
  /\ m' = [i \in {0} |-> Weighted(m, w)]
  /\ key' = [key EXCEPT !.A2 = [i \in {0} |-> CollapsedRow(key.A2, w)]]
  /\ ops' = ops + 1
  /\ UNCHANGED <<r, factor, answer, claim, opened, stage>>

\* run() collapses commitment, message and key with the weights 1, w[1], ...
Collapse(w) ==
  /\ stage = "open"
  /\ ops < MaxOps
  /\ DOMAIN m = Rows
  /\ com' = [com EXCEPT !.c2 = [i \in {0} |-> Weighted(com.c2, w)]]
  /\ m' = [i \in {0} |-> Weighted(m, w)]
  /\ key' = [key EXCEPT !.A2 = [i \in {0} |-> CollapsedRow(key.A2, w)]]
  /\ ops' = ops + 1
  /\ UNCHANGED <<r, factor, answer, claim, opened, stage>>

\* The caller multiplies the randomness with a factor and names the messages.
PrepareOpening ==
  /\ stage = "open"
  /\ factor' \in Factors
  /\ answer' = VecScale(factor', r)
  /\ claim' \in {m} \cup MessageVectors
  /\ stage' = "check"
  /\ UNCHANGED <<key, com, m, r, ops, opened>>

\* bdlop_open(com, claim, key, s, f); key.A2 has as many rows as claim.
BdlopOpen ==
  /\ stage = "check"
  /\ opened' = /\ Times(factor, com.c1) = RowOne(key.A1, answer)
               /\ DOMAIN com.c2 = DOMAIN claim
               /\ \A i \in DOMAIN claim :
                    Times(factor, com.c2[i]) = Plus(RowTwo(key.A2[i], answer), Times(factor, claim[i]))
               /\ \A j \in Cols : Fits(answer[j])
  /\ stage' = "done"
  /\ UNCHANGED <<key, com, m, r, ops, factor, answer, claim>>

BdlopStopped == stage = "done" /\ UNCHANGED bdlopVars

BdlopNext ==
  \/ KeyGen
  \/ MakeCommitment
  \/ \E rho \in MessageVectors : Subtract(rho)
  \/ \E w \in [1 .. SIZE - 1 -> Tails] : Collapse(w)
  \/ PrepareOpening
  \/ BdlopOpen
  \/ BdlopStopped

BdlopSpec == BdlopInit /\ [][BdlopNext]_bdlopVars
-----------------------------------------------------------------------------
Made == stage \in {"open", "check", "done"}

\* A commitment always has as many components as it commits to messages and its
\* key has rows: bdlop_open compares the sizes, and indexes by them.
BdlopTypeOK ==
  /\ stage \in {"keygen", "commit", "open", "check", "done"}
  /\ ops \in 0 .. MaxOps /\ opened \in BOOLEAN
  /\ Made => /\ m \in [DOMAIN m -> R] /\ DOMAIN m \in {{0}, Rows}
             /\ com.c1 \in R /\ com.c2 \in [DOMAIN m -> R]
             /\ r \in [Cols -> Short]
             /\ DOMAIN m \subseteq DOMAIN key.A2
             /\ \A i \in DOMAIN key.A2 : key.A2[i] \in Vec

\* "Commitments for multiple messages are linearly homomorphic" (bdlop.cpp:331)
\* and binding in the opening: after any sequence of subtractions and a collapse,
\* the opening succeeds exactly for the messages the operations lead to (up to
\* what the factor annihilates) and for short randomness.
OpensExactly ==
  stage = "done" =>
    (opened <=> /\ DOMAIN claim = DOMAIN m
                /\ \A i \in DOMAIN m : Times(factor, claim[i]) = Times(factor, m[i])
                /\ \A j \in Cols : Fits(answer[j]))
=============================================================================
