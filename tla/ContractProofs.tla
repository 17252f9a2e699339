--------------------------- MODULE ContractProofs ---------------------------
(***************************************************************************)
(* The contracts that the protocols take from the functions they call: the *)
(* batch inversion, the verdict of one linear relation, and the hash.  The *)
(* first two hold for every commutative ring with an inversion that        *)
(* succeeds exactly on the units.                                          *)
(*                                                                         *)
(* simul_inverse: prefix products below the counter, inverses above it.    *)
(* The linear relation, for every width and every linear key: induction    *)
(* over the rejection loop with the invariant that the arrays hold the     *)
(* first message's vectors, or these plus the challenge times the          *)
(* randomness.                                                             *)
(* BLAKE3, for every chunk length, depth, processor and sequence of calls: *)
(* the hasher after n bytes is one of three shapes that n alone decides,   *)
(* and each shape folds to the reference's root over the n bytes.          *)
(***************************************************************************)
EXTENDS Blake3, SimulInverse, LinProof, RingTheorems

LEMMA Closed ==
  ASSUME NEW a \in R, NEW b \in R
  PROVE  Times(a, b) \in R /\ Times(a, b) = Times(b, a)
BY RingClosed, RingLaws

LEMMA Associative ==
  ASSUME NEW a \in R, NEW b \in R, NEW c \in R
  PROVE  Times(Times(a, b), c) = Times(a, Times(b, c))
BY RingLaws

LEMMA InverseMakesUnit ==
  ASSUME NEW a \in R, NEW b \in R, Times(a, b) = One
  PROVE  Unit(a) /\ Unit(b)
BY UnitLaws, Closed

\* A product of units is a unit.
LEMMA UnitProduct ==
  ASSUME NEW a \in R, NEW b \in R, Unit(a), Unit(b)
  PROVE  Unit(Times(a, b))
<1> DEFINE c == Inv(a)
           d == Inv(b)
<1>1. /\ c \in R /\ Times(a, c) = One
      /\ d \in R /\ Times(b, d) = One
  BY UnitLaws
<1> HIDE DEF c, d
<1>2. Times(Times(a, b), Times(d, c)) = Times(a, Times(Times(b, d), c))
  BY <1>1, Closed, Associative
<1>3. Times(Times(b, d), c) = c
  BY <1>1, Closed, RingClosed, RingLaws
<1>4. Times(Times(a, b), Times(d, c)) = One
  BY <1>1, <1>2, <1>3
<1>5. QED
  BY <1>1, <1>4, Closed, InverseMakesUnit

LEMMA InverseInitInv == InverseInit => InverseInv
<1> SUFFICES ASSUME InverseInit PROVE InverseInv
  OBVIOUS
<1>1. 0 \in Index
  BY MsgsAssumption DEF Index
<1>2. InverseTypeOK
  BY <1>1, MsgsAssumption, RingClosed DEF InverseInit, InverseTypeOK
<1>3. inv[0] = m[0] /\ inv_tmp[0] = m[0]
  BY <1>1 DEF InverseInit
<1>4. Forward
  BY <1>3, MsgsAssumption DEF InverseInit, Forward, PrefixProducts
<1>5. QED
  BY <1>2, <1>4 DEF InverseInit, InverseInv, Backward, InversesCorrect

LEMMA MultiplyStep == ASSUME InverseInv, Multiply PROVE InverseInv'
<1> USE MsgsAssumption
<1>1. /\ phase = "forward" /\ i \in 1 .. MSGS - 1 /\ i \in Index /\ i - 1 \in Index
      /\ m \in [Index -> R] /\ inv \in [Index -> R] /\ inv_tmp \in [Index -> R]
  BY DEF InverseInv, InverseTypeOK, Forward, Multiply, Index
<1>2. Times(inv[i - 1], m[i]) \in R
  BY <1>1, Closed
<1>3. /\ inv' \in [Index -> R] /\ inv_tmp' \in [Index -> R]
      /\ inv'[i] = Times(inv[i - 1], m[i]) /\ inv_tmp'[i] = m[i]
      /\ \A j \in Index : j # i => inv'[j] = inv[j] /\ inv_tmp'[j] = inv_tmp[j]
      /\ i' = i + 1 /\ m' = m /\ w' = w /\ phase' = phase
  BY <1>1, <1>2 DEF Multiply
<1>4. InverseTypeOK'
  BY <1>1, <1>3 DEF InverseInv, InverseTypeOK
<1>5. PrefixProducts(i) /\ \A j \in 0 .. i - 1 : inv_tmp[j] = m[j]
  BY <1>1 DEF InverseInv, Forward
<1>6. PrefixProducts(i)'
  BY <1>1, <1>3, <1>5 DEF PrefixProducts, Index
<1>7. Forward'
  <2>1. \A j \in 0 .. i : inv_tmp'[j] = m'[j]
    BY <1>1, <1>3, <1>5 DEF Index
  <2>2. (\A j \in 0 .. i : Unit(m[j])) => Unit(inv'[i])
    BY <1>1, <1>3, UnitProduct DEF InverseInv, Forward
  <2>3. inv'[0] = m'[0] /\ \A j \in 1 .. i : inv'[j] = Times(inv'[j - 1], m'[j])
    BY <1>1, <1>3, <1>5 DEF PrefixProducts, Index
  <2>4. QED
    BY <1>1, <1>3, <2>1, <2>2, <2>3 DEF Forward, PrefixProducts
<1>8. QED
  BY <1>1, <1>3, <1>4, <1>7 DEF InverseInv, Backward, InversesCorrect

LEMMA InvertStep == ASSUME InverseInv, InvertProduct PROVE InverseInv'
<1> DEFINE p == inv[MSGS - 1]
<1> USE MsgsAssumption
<1>1. /\ phase = "forward" /\ i = MSGS /\ MSGS - 1 \in Index
      /\ m \in [Index -> R] /\ inv \in [Index -> R] /\ inv_tmp \in [Index -> R]
      /\ p \in R
      /\ i' = MSGS - 1 /\ UNCHANGED <<m, inv, inv_tmp>>
  BY DEF InverseInv, InverseTypeOK, Forward, InvertProduct, Index
<1>2. PrefixProducts(MSGS) /\ inv_tmp = m
  BY <1>1 DEF InverseInv, Forward, Index
<1>3. CASE Unit(p) /\ w' = Inv(p) /\ phase' = "backward"
  <2>1. w' \in R /\ Times(w', p) = One
    BY <1>1, <1>3, UnitLaws, Closed
  <2>2. InverseTypeOK'
    BY <1>1, <1>3, <2>1 DEF InverseInv, InverseTypeOK
  <2>3. Backward'
    BY <1>1, <1>2, <2>1 DEF Backward, PrefixProducts
  <2>4. QED
    BY <1>3, <2>2, <2>3 DEF InverseInv, Forward, InversesCorrect
<1>4. CASE ~Unit(p) /\ w' = p /\ phase' = "abort"
  <2>1. InverseTypeOK'
    BY <1>1, <1>4 DEF InverseInv, InverseTypeOK
  <2>2. Forward'
    BY <1>1, <1>2, <1>4 DEF InverseInv, Forward, PrefixProducts
  <2>3. QED
    BY <1>4, <2>1, <2>2 DEF InverseInv, Backward, InversesCorrect
<1>5. QED
  BY <1>3, <1>4 DEF InvertProduct

LEMMA DivideStep == ASSUME InverseInv, Divide PROVE InverseInv'
<1> USE MsgsAssumption
<1>1. /\ phase = "backward" /\ i \in 1 .. MSGS - 1 /\ i \in Index /\ i - 1 \in Index
      /\ m \in [Index -> R] /\ inv \in [Index -> R] /\ inv_tmp = m /\ w \in R
      /\ Times(w, inv[i]) = One /\ PrefixProducts(i + 1)
      /\ \A j \in i + 1 .. MSGS - 1 : Times(inv[j], m[j]) = One
  BY DEF InverseInv, InverseTypeOK, Backward, Divide, Index
<1>2. inv[i] = Times(inv[i - 1], m[i]) /\ m[i] \in R /\ inv[i - 1] \in R
  BY <1>1 DEF PrefixProducts
<1>3. Times(w, inv[i - 1]) \in R /\ Times(w, m[i]) \in R
  BY <1>1, <1>2, Closed
<1>4. /\ inv' \in [Index -> R] /\ inv'[i] = Times(w, inv[i - 1])
      /\ \A j \in Index : j # i => inv'[j] = inv[j]
      /\ w' = Times(w, m[i]) /\ i' = i - 1
      /\ UNCHANGED <<m, inv_tmp, phase>>
  BY <1>1, <1>3 DEF Divide
<1>5. InverseTypeOK'
  BY <1>1, <1>3, <1>4 DEF InverseInv, InverseTypeOK
<1>6. Times(inv'[i], m[i]) = One
  BY <1>1, <1>2, <1>4, Associative
<1>7. Times(w', inv'[i - 1]) = One
  <2>1. Times(Times(w, m[i]), inv[i - 1]) = Times(w, Times(inv[i - 1], m[i]))
    BY <1>1, <1>2, Associative, Closed
  <2>2. QED
    BY <1>1, <1>2, <1>4, <2>1
<1>8. PrefixProducts(i)'
  BY <1>1, <1>4 DEF PrefixProducts, Index
<1>9. \A j \in i .. MSGS - 1 : Times(inv'[j], m'[j]) = One
  BY <1>1, <1>4, <1>6 DEF Index
<1>10. Backward'
  <2>1. inv'[0] = m'[0] /\ \A j \in 1 .. i - 1 : inv'[j] = Times(inv'[j - 1], m'[j])
    BY <1>1, <1>4 DEF PrefixProducts, Index
  <2>2. QED
    BY <1>1, <1>4, <1>7, <1>9, <2>1 DEF Backward, PrefixProducts
<1>11. QED
  BY <1>1, <1>4, <1>5, <1>10 DEF InverseInv, Forward, InversesCorrect

LEMMA FinishStep == ASSUME InverseInv, Finish PROVE InverseInv'
<1> USE MsgsAssumption
<1>1. /\ phase = "backward" /\ i = 0 /\ 0 \in Index
      /\ m \in [Index -> R] /\ inv \in [Index -> R] /\ w \in R
      /\ Times(w, inv[0]) = One /\ inv[0] = m[0]
      /\ \A j \in 1 .. MSGS - 1 : Times(inv[j], m[j]) = One
  BY DEF InverseInv, InverseTypeOK, Backward, PrefixProducts, Finish, Index
<1>2. /\ inv' \in [Index -> R] /\ inv'[0] = w
      /\ \A j \in Index : j # 0 => inv'[j] = inv[j]
      /\ phase' = "done" /\ UNCHANGED <<m, inv_tmp, w, i>>
  BY <1>1 DEF Finish
<1>3. InverseTypeOK'
  BY <1>2 DEF InverseInv, InverseTypeOK
<1>4. InversesCorrect'
  BY <1>1, <1>2 DEF InversesCorrect, Index
<1>5. QED
  BY <1>2, <1>3, <1>4 DEF InverseInv, Forward, Backward

LEMMA InverseNextInv == InverseInv /\ [InverseNext]_inverseVars => InverseInv'
<1> SUFFICES ASSUME InverseInv, [InverseNext]_inverseVars PROVE InverseInv'
  OBVIOUS
<1>1. CASE UNCHANGED inverseVars
  BY <1>1 DEF inverseVars, InverseInv, InverseTypeOK, Forward, Backward, PrefixProducts, InversesCorrect
<1>2. QED
  BY <1>1, MultiplyStep, InvertStep, DivideStep, FinishStep DEF InverseNext, Returned

\* The contents of the shared array on either side of the loop counter.
THEOREM InverseInvariantCorrect == InverseSpec => []InverseInv
<1>1. QED
  BY InverseInitInv, InverseNextInv, PTL DEF InverseSpec

\* simul_inverse returns the inverse of each of the messages.
THEOREM AllInverted == InverseSpec => []InversesCorrect
<1>1. InverseInv => InversesCorrect
  BY DEF InverseInv
<1>2. QED
  BY <1>1, InverseInvariantCorrect, PTL

\* The assertion fails exactly when one of the messages is a zero divisor.
THEOREM AbortIsZeroDivisor == InverseSpec => []AbortsIffZeroDivisor
<1>1. InverseInv => AbortsIffZeroDivisor
  <2> SUFFICES ASSUME InverseInv PROVE AbortsIffZeroDivisor
    OBVIOUS
  <2>1. ASSUME phase = "abort" PROVE \E j \in Index : ~Unit(m[j])
    BY <2>1 DEF InverseInv, Forward, Index
  <2>2. ASSUME phase = "done", NEW j \in Index PROVE Unit(m[j])
    BY <2>2, InverseMakesUnit DEF InverseInv, InverseTypeOK, InversesCorrect
  <2>3. QED
    BY <2>1, <2>2 DEF AbortsIffZeroDivisor
<1>2. QED
  BY <1>1, InverseInvariantCorrect, PTL
-----------------------------------------------------------------------------
\* A row of the key applied to a response.
LEMMA RowResponse ==
  ASSUME NEW k \in Keys, NEW v \in Vectors, NEW v2 \in Vectors, NEW b \in R
  PROVE  /\ AddVec(v, ScaleVec(b, v2)) \in Vectors
         /\ FirstRow(k, AddVec(v, ScaleVec(b, v2))) = Plus(FirstRow(k, v), Times(b, FirstRow(k, v2)))
         /\ SecondRow(k, AddVec(v, ScaleVec(b, v2))) = Plus(SecondRow(k, v), Times(b, SecondRow(k, v2)))
         /\ FirstRow(k, v) \in R /\ SecondRow(k, v) \in R
BY VectorsClosed, RowsLinear

\* a * (p + b * e) - (q + b * h) = (a * p - q) + b * (a * e - h).
LEMMA CombinedResponse ==
  ASSUME NEW a \in R, NEW b \in R, NEW p \in R, NEW q \in R, NEW e \in R, NEW h \in R
  PROVE  Minus(Times(a, Plus(p, Times(b, e))), Plus(q, Times(b, h)))
           = Plus(Minus(Times(a, p), q), Times(b, Minus(Times(a, e), h)))
<1>1. /\ Times(b, e) \in R /\ Times(b, h) \in R /\ Times(a, p) \in R
      /\ Times(a, e) \in R /\ Times(a, Times(b, e)) \in R /\ Times(b, Times(a, e)) \in R
  BY RingClosed
<1>2. Times(a, Plus(p, Times(b, e))) = Plus(Times(a, p), Times(a, Times(b, e)))
  BY <1>1, RingLaws
<1>3. Times(a, Times(b, e)) = Times(b, Times(a, e))
  <2>1. Times(a, Times(b, e)) = Times(Times(a, b), e)
    BY RingLaws
  <2>2. Times(a, b) = Times(b, a)
    BY RingLaws
  <2>3. Times(Times(b, a), e) = Times(b, Times(a, e))
    BY RingLaws
  <2> QED BY <2>1, <2>2, <2>3
<1>4. Minus(Plus(Times(a, p), Times(b, Times(a, e))), Plus(q, Times(b, h)))
        = Plus(Minus(Times(a, p), q), Minus(Times(b, Times(a, e)), Times(b, h)))
  BY <1>1, MinusSums, SMTT(20)
<1>5. Minus(Times(b, Times(a, e)), Times(b, h)) = Times(b, Minus(Times(a, e), h))
  BY <1>1, TimesMinus
<1> QED BY <1>2, <1>3, <1>4, <1>5

\* (a * (e + x) + c) - (h + z) = (a * e - h) + ((a * x + c) - z): the claim on
\* the commitments is the claim on the messages plus a part of the randomness.
LEMMA ClaimSplits ==
  ASSUME NEW a \in R, NEW c \in R, NEW x \in R, NEW z \in R, NEW e \in R, NEW h \in R
  PROVE  Minus(Plus(Times(a, Plus(e, x)), c), Plus(h, z))
           = Plus(Minus(Times(a, e), h), Minus(Plus(Times(a, x), c), z))
<1>1. Times(a, e) \in R /\ Times(a, x) \in R /\ Plus(Times(a, x), c) \in R
  BY RingClosed
<1>2. Times(a, Plus(e, x)) = Plus(Times(a, e), Times(a, x))
  BY RingLaws
<1>3. Plus(Plus(Times(a, e), Times(a, x)), c) = Plus(Times(a, e), Plus(Times(a, x), c))
  BY <1>1, RingLaws
<1>4. Minus(Plus(Times(a, e), Plus(Times(a, x), c)), Plus(h, z))
        = Plus(Minus(Times(a, e), h), Minus(Plus(Times(a, x), c), z))
  BY <1>1, MinusSums
<1> QED BY <1>2, <1>3, <1>4

\* (e + x) * b + u = u + b * e exactly if b * x is zero.
LEMMA RelationCancels ==
  ASSUME NEW e \in R, NEW x \in R, NEW b \in R, NEW v \in R
  PROVE  Plus(Times(Plus(e, x), b), v) = Plus(v, Times(b, e)) <=> Times(b, x) = Zero
<1> DEFINE be == Times(b, e)
           bx == Times(b, x)
<1>1. be \in R /\ bx \in R /\ Plus(e, x) \in R /\ Plus(v, be) \in R
  BY RingClosed
<1>2. Times(Plus(e, x), b) = Plus(be, bx)
  BY <1>1, RingLaws
<1> HIDE DEF be, bx
<1>3. Plus(Plus(be, bx), v) = Plus(bx, Plus(v, be))
  <2>1. Plus(be, bx) = Plus(bx, be) /\ Plus(be, v) = Plus(v, be)
    BY <1>1, RingLaws
  <2>2. Plus(Plus(bx, be), v) = Plus(bx, Plus(be, v))
    BY <1>1, RingLaws
  <2> QED BY <2>1, <2>2
<1>4. Plus(bx, Plus(v, be)) = Plus(v, be) <=> bx = Zero
  BY <1>1, Cancel
<1> QED BY <1>2, <1>3, <1>4 DEF be, bx
-----------------------------------------------------------------------------
\* The statement never changes, so neither do its commitments.
Fixed == statement' = statement

LEMMA FixedCommitments ==
  ASSUME Fixed
  PROVE  /\ com' = com /\ com_' = com_ /\ Claim' = Claim
         /\ \A v, v2 : Combined(v, v2)' = Combined(v, v2)
BY DEF Fixed, statement, com, com_, Claim, Combined, Commit

LEMMA StatementTyped ==
  ASSUME TypeOK
  PROVE  /\ key \in Keys /\ r \in Vectors /\ r_ \in Vectors
         /\ alpha[1] \in R /\ alpha[2] \in R /\ msg \in R /\ msg_ \in R
BY VectorsClosed DEF TypeOK

LEMMA CombinedTyped ==
  ASSUME TypeOK, NEW v \in Vectors, NEW v2 \in Vectors
  PROVE  Combined(v, v2) \in R
BY StatementTyped, RowsLinear, RingClosed DEF Combined

LEMMA InitIInv == Init => IInv
BY DEF Init, IInv, TypeOK, Masked, VerdictIsRelation

LEMMA SampleStep == ASSUME IInv, Sample PROVE IInv'
<1>1. Fixed
  BY DEF Sample, Fixed
<1>2. PICK v \in Gauss, v2 \in Gauss : y' = v /\ y_' = v2
  BY DEF Sample
<1>3. v \in Vectors /\ v2 \in Vectors /\ TypeOK
  BY <1>2, VectorsClosed DEF IInv
<1>4. t' = FirstRow(key, v) /\ t_' = FirstRow(key, v2) /\ u' = Combined(v, v2) /\ pc' = "hash"
  BY <1>2 DEF Sample, Combined
<1>5. t' \in R /\ t_' \in R /\ u' \in R
  BY <1>3, <1>4, CombinedTyped, StatementTyped, RowsLinear
<1>6. TypeOK'
  BY <1>2, <1>3, <1>4, <1>5 DEF TypeOK, Sample, statement
<1>7. FirstMessage(y, y_)'
  BY <1>2, <1>4, <1>1, FixedCommitments DEF FirstMessage, Fixed, statement, Combined
<1> QED BY <1>4, <1>6, <1>7 DEF IInv, Masked, VerdictIsRelation

LEMMA HashStep == ASSUME IInv, Hash PROVE IInv'
<1>1. TypeOK'
  BY DEF IInv, TypeOK, Hash, statement
<1>2. FirstMessage(y, y_)'
  BY DEF IInv, Masked, Hash, FirstMessage, statement, Combined
<1>3. hashed' = Transcript'
  BY DEF Hash, Transcript, statement, com, com_, Commit
<1> QED BY <1>1, <1>2, <1>3 DEF IInv, Masked, VerdictIsRelation, Hash

LEMMA RespondStep ==
  ASSUME IInv, NEW rej0 \in BOOLEAN, NEW rej1 \in BOOLEAN, Respond(rej0, rej1)
  PROVE  IInv'
<1>1. /\ pc = "respond" /\ TypeOK /\ FirstMessage(y, y_) /\ hashed = Transcript
      /\ beta \in R /\ y \in Vectors /\ y_ \in Vectors /\ pc' \in {"sample", "verify"}
  BY VectorsClosed DEF IInv, Masked, TypeOK, Respond
<1>2. y' \in Vectors /\ y_' \in Vectors
  BY <1>1, StatementTyped, VectorsClosed DEF Respond
<1>3. TypeOK'
  BY <1>1, <1>2 DEF TypeOK, Respond, statement
<1>4. hashed' = Transcript'
  BY <1>1 DEF Respond, Transcript, statement, com, com_, Commit
<1>5. \E v, v_ \in Vectors : /\ FirstMessage(v, v_)'
                             /\ y' = AddVec(v, ScaleVec(beta', r'))
                             /\ y_' = AddVec(v_, ScaleVec(beta', r_'))
  <2>1. FirstMessage(y, y_) /\ statement' = statement /\ t' = t /\ t_' = t_ /\ u' = u
    BY <1>1 DEF Respond
  <2>2. \A v, v2 : FirstMessage(v, v2)' <=> FirstMessage(v, v2)
    BY <2>1 DEF FirstMessage, Combined, statement
  <2>3. /\ y' = AddVec(y, ScaleVec(beta', r'))
        /\ y_' = AddVec(y_, ScaleVec(beta', r_'))
    BY DEF Respond, statement
  <2> QED BY <1>1, <2>1, <2>2, <2>3
<1> QED BY <1>1, <1>3, <1>4, <1>5 DEF IInv, Masked, VerdictIsRelation

\* The two equations on the first halves of the commitments hold for the
\* response of an honest prover.
LEMMA FirstHalf ==
  ASSUME NEW k \in Keys, NEW v \in Vectors, NEW v2 \in Vectors, NEW b \in R
  PROVE  Minus(Plus(FirstRow(k, v), Times(b, FirstRow(k, v2))),
               FirstRow(k, AddVec(v, ScaleVec(b, v2)))) = Zero
<1>1. Plus(FirstRow(k, v), Times(b, FirstRow(k, v2))) \in R
  BY RowResponse, RingClosed
<1> QED BY <1>1, MinusSelf, RowResponse

\* The last equation of the verifier, with the rows applied: the claim times
\* the challenge plus u is the combination of the responses exactly if the
\* challenge annihilates the relation between x and z.
Equation(a, c, x, z, b, e, h, p, q) ==
  Plus(Times(Minus(Plus(Times(a, Plus(e, x)), c), Plus(h, z)), b), Minus(Times(a, p), q))
    = Minus(Times(a, Plus(p, Times(b, e))), Plus(q, Times(b, h)))
  <=> Times(b, Minus(Plus(Times(a, x), c), z)) = Zero

LEMMA EquationIsRelation ==
  ASSUME NEW a \in R, NEW c \in R, NEW x \in R, NEW z \in R, NEW b \in R,
         NEW e \in R, NEW h \in R, NEW p \in R, NEW q \in R
  PROVE  Equation(a, c, x, z, b, e, h, p, q)
<1> DEFINE E == Minus(Times(a, e), h)
           X == Minus(Plus(Times(a, x), c), z)
           U == Minus(Times(a, p), q)
<1>1. E \in R /\ X \in R /\ U \in R
  BY RingClosed
<1>2. Minus(Plus(Times(a, Plus(e, x)), c), Plus(h, z)) = Plus(E, X)
  BY ClaimSplits, SMTT(60)
<1>3. Minus(Times(a, Plus(p, Times(b, e))), Plus(q, Times(b, h))) = Plus(U, Times(b, E))
  BY CombinedResponse, SMTT(60)
<1> HIDE DEF E, X, U
<1>4. Plus(Times(Plus(E, X), b), U) = Plus(U, Times(b, E)) <=> Times(b, X) = Zero
  BY <1>1, RelationCancels
<1> QED BY <1>2, <1>3, <1>4 DEF X, U, Equation

LEMMA SecondHalf ==
  ASSUME TypeOK, NEW b \in R, NEW v \in Vectors, NEW v_ \in Vectors, u = Combined(v, v_)
  PROVE  Plus(Times(Claim, b), u) = Combined(AddVec(v, ScaleVec(b, r)), AddVec(v_, ScaleVec(b, r_)))
           <=> Times(b, Minus(Plus(Times(alpha[1], msg), alpha[2]), msg_)) = Zero
<1>1. /\ key \in Keys /\ r \in Vectors /\ r_ \in Vectors
      /\ alpha[1] \in R /\ alpha[2] \in R /\ msg \in R /\ msg_ \in R
  BY StatementTyped
<1>2. /\ SecondRow(key, r) \in R /\ SecondRow(key, r_) \in R
      /\ SecondRow(key, v) \in R /\ SecondRow(key, v_) \in R
  BY <1>1, RowResponse
<1>3. Claim = Minus(Plus(Times(alpha[1], Plus(SecondRow(key, r), msg)), alpha[2]),
                    Plus(SecondRow(key, r_), msg_))
  BY DEF Claim, com, com_, Commit
<1>4. u = Minus(Times(alpha[1], SecondRow(key, v)), SecondRow(key, v_))
  BY DEF Combined
<1>5. Combined(AddVec(v, ScaleVec(b, r)), AddVec(v_, ScaleVec(b, r_)))
        = Minus(Times(alpha[1], Plus(SecondRow(key, v), Times(b, SecondRow(key, r)))),
                Plus(SecondRow(key, v_), Times(b, SecondRow(key, r_))))
  BY <1>1, RowResponse DEF Combined
<1>6. Equation(alpha[1], alpha[2], msg, msg_, b, SecondRow(key, r), SecondRow(key, r_),
                SecondRow(key, v), SecondRow(key, v_))
  BY <1>1, <1>2, EquationIsRelation
<1> QED BY <1>3, <1>4, <1>5, <1>6 DEF Equation


LEMMA VerifyStep == ASSUME IInv, Verify PROVE IInv'
<1>1. /\ pc = "verify" /\ TypeOK /\ hashed = Transcript /\ beta \in R
  BY VectorsClosed DEF IInv, Masked, TypeOK, Verify
<1>2. PICK v \in Vectors, v_ \in Vectors :
        /\ FirstMessage(v, v_)
        /\ y = AddVec(v, ScaleVec(beta, r)) /\ y_ = AddVec(v_, ScaleVec(beta, r_))
  BY <1>1 DEF IInv, Masked
<1>3. key \in Keys /\ r \in Vectors /\ r_ \in Vectors
  BY <1>1, StatementTyped
<1>4. result' <=> /\ Fits(y) /\ Fits(y_)
                  /\ Minus(Plus(t, Times(beta, com.c1)), FirstRow(key, y)) = Zero
                  /\ Minus(Plus(t_, Times(beta, com_.c1)), FirstRow(key, y_)) = Zero
                  /\ Plus(Times(Claim, beta), u) = Combined(y, y_)
  BY <1>1 DEF Verify
<1>5. /\ Minus(Plus(t, Times(beta, com.c1)), FirstRow(key, y)) = Zero
      /\ Minus(Plus(t_, Times(beta, com_.c1)), FirstRow(key, y_)) = Zero
  BY <1>1, <1>2, <1>3, FirstHalf DEF FirstMessage, com, com_, Commit
<1>6. Plus(Times(Claim, beta), u) = Combined(y, y_)
        <=> Times(beta, Minus(Plus(Times(alpha[1], msg), alpha[2]), msg_)) = Zero
  BY <1>1, <1>2, SecondHalf DEF FirstMessage
<1>7. VerdictIsRelation'
  BY <1>4, <1>5, <1>6 DEF VerdictIsRelation, Verify, statement
<1>8. result' \in BOOLEAN
  BY <1>1, VectorsClosed DEF Verify
<1>9. TypeOK'
  BY <1>1, <1>8 DEF TypeOK, Verify, statement
<1> QED BY <1>7, <1>9 DEF IInv, Masked, Verify

\* Every reachable state satisfies the inductive invariant.
THEOREM InvariantCorrect == Spec => []IInv
<1>1. Init => IInv
  BY InitIInv
<1>2. IInv /\ [Next]_vars => IInv'
  <2> SUFFICES ASSUME IInv, [Next]_vars PROVE IInv'
    OBVIOUS
  <2>1. CASE Sample
    BY <2>1, SampleStep
  <2>2. CASE Hash
    BY <2>2, HashStep
  <2>3. CASE \E rej0, rej1 \in BOOLEAN : Respond(rej0, rej1)
    BY <2>3, RespondStep
  <2>4. CASE Verify
    BY <2>4, VerifyStep
  <2>5. CASE Stopped \/ UNCHANGED vars
    <3>1. vars' = vars
      BY <2>5 DEF Stopped
    <3> QED BY <3>1 DEF vars, IInv, TypeOK, Masked, FirstMessage, VerdictIsRelation,
               Transcript, Combined, com, com_, Commit
  <2> QED BY <2>1, <2>2, <2>3, <2>4, <2>5 DEF Next
<1> QED BY <1>1, <1>2, PTL DEF Spec

\* The arrays of the proof are set whenever they are read, in both vectors.
THEOREM TypeCorrect == Spec => []TypeOK
<1>1. IInv => TypeOK
  BY DEF IInv
<1> QED BY <1>1, InvariantCorrect, PTL

\* For every ring, width, key, statement and number of rejected attempts, the
\* verifier's verdict is the relation between the messages (and the norms).
THEOREM VerdictCorrect == Spec => []VerdictIsRelation
<1>1. IInv => VerdictIsRelation
  BY DEF IInv
<1> QED BY <1>1, InvariantCorrect, PTL

\* The greatest number of a set of numbers below a bound.
LEMMA GreatestNumber ==
  ASSUME NEW n \in Nat, NEW S \in SUBSET (0 .. n), S # {}
  PROVE  \E x \in S : \A Y \in S : Y <= x
<1> DEFINE T == {n - Y : Y \in S}
<1>1. T \in SUBSET Nat /\ T # {}
  <2>1. \A Y \in S : Y \in 0 .. n /\ n - Y \in Nat
    OBVIOUS
  <2> QED BY <2>1
<1>2. PICK L \in T : \A Y \in T : L <= Y
  BY <1>1, LeastNumber
<1>3. PICK x \in S : L = n - x
  BY <1>2
<1>4. \A Y \in S : n - Y \in T /\ Y \in 0 .. n
  OBVIOUS
<1> HIDE DEF T
<1>5. \A Y \in S : Y <= x
  BY <1>2, <1>3, <1>4
<1> QED BY <1>3, <1>5

\* Strong induction.
LEMMA StrongInduction ==
  ASSUME NEW S, \A n \in Nat : (\A k \in 0 .. n - 1 : k \in S) => n \in S
  PROVE  Nat \subseteq S
<1> DEFINE Bad == {k \in Nat : k \notin S}
<1> SUFFICES ASSUME Bad # {} PROVE FALSE
  OBVIOUS
<1>1. Bad \in SUBSET Nat
  OBVIOUS
<1>2. PICK x \in Bad : \A Y \in Bad : x <= Y
  BY <1>1, LeastNumber
<1>3. \A k \in 0 .. x - 1 : k \in S
  BY <1>2
<1> QED BY <1>2, <1>3

\* The quotient and the remainder of a number given by them.
LEMMA Quotient ==
  ASSUME NEW d \in Nat \ {0}, NEW q \in Int, NEW e \in 0 .. d - 1
  PROVE  (e + d * q) % d = e /\ (e + d * q) \div d = q
<1> DEFINE x == e + d * q
           s == x \div d
           L == x % d
<1>1. x \in Int
  OBVIOUS
<1>2. s \in Int /\ L \in 0 .. d - 1 /\ x = L + d * s
  BY <1>1
<1> HIDE DEF s, L
<1>3. d * (q - s) = L - e
  BY <1>2
<1>4. q = s
  <2>1. q - s >= 1 => d * (q - s) >= d
    BY <1>2
  <2>2. q - s <= -1 => d * (q - s) <= -d
    BY <1>2
  <2> QED BY <1>2, <1>3, <2>1, <2>2
<1>5. e = L
  BY <1>2, <1>3, <1>4
<1> QED BY <1>4, <1>5 DEF s, L

\* A number is its remainder plus the multiple of the divisor.
LEMMA Division ==
  ASSUME NEW x \in Nat, NEW d \in Nat \ {0}
  PROVE  /\ x \div d \in Nat /\ x % d \in 0 .. d - 1
         /\ x = (x % d) + d * (x \div d)
<1>1. x \div d \in Int /\ x % d \in 0 .. d - 1 /\ x = (x % d) + d * (x \div d)
  OBVIOUS
<1>2. x \div d >= 0
  <2> DEFINE q == x \div d
  <2> SUFFICES ASSUME q <= -1 PROVE FALSE
    BY <1>1
  <2> HIDE DEF q
  <2>1. q \in Int /\ x % d \in 0 .. d - 1 /\ x = (x % d) + d * q
    BY <1>1 DEF q
  <2>2. d * q <= -d
    BY <2>1
  <2> QED BY <2>1, <2>2
<1> QED BY <1>1, <1>2

-----------------------------------------------------------------------------
(* Sequences as functions.                                                 *)

\* The operators on sequences under names the provers leave alone.
Joined(s, L) == s \o L
Added(s, x) == Append(s, x)
Slice(s, a, b) == SubSeq(s, a, b)

Listed(s, n) == n \in Nat /\ s = [I \in 1 .. n |-> s[I]]

\* A listed sequence is a sequence of the library, of its length.
LEMMA ListedIs ==
  ASSUME NEW n, NEW s, Listed(s, n)
  PROVE  n \in Nat /\ s \in Seq({s[I] : I \in 1 .. n}) /\ Len(s) = n /\ DOMAIN s = 1 .. n
<1> DEFINE S == {s[I] : I \in 1 .. n}
<1>1. n \in Nat /\ s = [I \in 1 .. n |-> s[I]]
  BY DEF Listed
<1>2. s \in [1 .. n -> S]
  BY <1>1
<1> HIDE DEF S
<1>3. s \in Seq(S) /\ Len(s) = n
  BY <1>1, <1>2
<1> QED BY <1>1, <1>3 DEF S

\* Sequences of one length with equal entries are equal.
LEMMA ListedEqual ==
  ASSUME NEW n, NEW s, NEW L, Listed(s, n), Listed(L, n), \A I \in 1 .. n : s[I] = L[I]
  PROVE  s = L
BY DEF Listed

\* n entries of s and then k of t.  The name keeps the provers from joining
\* what they joined.
Concat(U, s, n, L, k) ==
  /\ Listed(U, n + k)
  /\ \A I \in 1 .. n : U[I] = s[I]
  /\ \A I \in 1 .. k : U[n + I] = L[I]

\* The entries of a concatenation.
LEMMA ListedConcat ==
  ASSUME NEW n \in Nat, NEW s, NEW k \in Nat, NEW L, Listed(s, n), Listed(L, k)
  PROVE  Concat(Joined(s, L), s, n, L, k)
<1> DEFINE S == {s[I] : I \in 1 .. n} \cup {L[I] : I \in 1 .. k}
<1>1. n \in Nat /\ k \in Nat /\ s = [I \in 1 .. n |-> s[I]] /\ L = [I \in 1 .. k |-> L[I]]
  BY DEF Listed
<1>2. s \in [1 .. n -> S] /\ L \in [1 .. k -> S]
  BY <1>1
<1> HIDE DEF S
<1>3. s \in Seq(S) /\ Len(s) = n /\ L \in Seq(S) /\ Len(L) = k
  BY <1>1, <1>2
<1> DEFINE U == s \o L
<1>4. U \in Seq(S) /\ Len(U) = n + k
  BY <1>3
<1>5. \A I \in 1 .. n : U[I] = s[I]
  BY <1>1, <1>3
<1>6. \A I \in 1 .. k : U[n + I] = L[I]
  BY <1>1, <1>3
<1>7. n + k \in Nat /\ U = [I \in 1 .. n + k |-> U[I]]
  <2> HIDE DEF U
  <2> QED BY <1>1, <1>4
<1> QED BY <1>5, <1>6, <1>7 DEF Listed, Joined, Concat

Extended(U, s, n, x) ==
  /\ Listed(U, n + 1)
  /\ \A I \in 1 .. n : U[I] = s[I]
  /\ U[n + 1] = x

\* The entries of a sequence with one appended.
LEMMA ListedAppend ==
  ASSUME NEW n \in Nat, NEW s, NEW x, Listed(s, n)
  PROVE  Extended(Added(s, x), s, n, x)
<1> DEFINE S == {s[I] : I \in 1 .. n} \cup {x}
<1>1. n \in Nat /\ s = [I \in 1 .. n |-> s[I]] /\ x \in S
  BY DEF Listed
<1>2. s \in [1 .. n -> S]
  BY <1>1
<1> HIDE DEF S
<1>3. s \in Seq(S) /\ Len(s) = n
  BY <1>1, <1>2
<1> DEFINE U == Append(s, x)
<1>4. U \in Seq(S) /\ Len(U) = n + 1
  BY <1>1, <1>3
<1>5. \A I \in 1 .. n : U[I] = s[I]
  BY <1>1, <1>3
<1>6. U[n + 1] = x
  BY <1>1, <1>3
<1>7. n + 1 \in Nat /\ U = [I \in 1 .. n + 1 |-> U[I]]
  <2> HIDE DEF U
  <2> QED BY <1>1, <1>4
<1> QED BY <1>5, <1>6, <1>7 DEF Listed, Added, Extended

\* The entries of a piece of a sequence.
LEMMA ListedSubSeq ==
  ASSUME NEW n, NEW s, NEW a \in Nat \ {0}, NEW b \in Nat, Listed(s, n), a <= b + 1, b <= n
  PROVE  /\ Listed(Slice(s, a, b), b + 1 - a)
         /\ \A I \in 1 .. b + 1 - a : Slice(s, a, b)[I] = s[a + I - 1]
<1> DEFINE S == {s[I] : I \in 1 .. n}
<1>1. n \in Nat /\ s = [I \in 1 .. n |-> s[I]]
  BY DEF Listed
<1>2. s \in [1 .. n -> S]
  BY <1>1
<1> HIDE DEF S
<1>3. s \in Seq(S) /\ Len(s) = n
  BY <1>1, <1>2
<1> DEFINE U == SubSeq(s, a, b)
<1>4. U = [I \in 1 .. b + 1 - a |-> s[a + I - 1]]
  BY <1>1, <1>3
<1> HIDE DEF U
<1>5. b + 1 - a \in Nat
  OBVIOUS
<1>6. Listed(U, b + 1 - a) /\ \A I \in 1 .. b + 1 - a : U[I] = s[a + I - 1]
  BY <1>4, <1>5 DEF Listed
<1> QED BY <1>6 DEF U, Slice

\* The empty sequence has no entries.
LEMMA ListedEmpty == Listed(<< >>, 0)
BY DEF Listed

-----------------------------------------------------------------------------
(* The counters of the lanes.                                              *)

\* What the counters need of the word size.
LEMMA WordIs == WORD \in Nat /\ WORD >= 16 /\ WORD % 2 = 0
BY WordAssumption

\* The words of a sum whose second term is less than a word.
LEMMA CounterPlus ==
  ASSUME NEW c \in Nat, NEW d \in 0 .. WORD - 1
  PROVE  LET l == (Low(c) + d) % WORD
         IN /\ l \in 0 .. WORD - 1
            /\ Low(c + d) = l
            /\ High(c + d) = (High(c) + (IF l < d THEN 1 ELSE 0)) % WORD
<1> DEFINE q == c \div WORD
           K == c % WORD
<1>1. WORD \in Nat \ {0}
  BY WordIs
<1>2. q \in Nat /\ K \in 0 .. WORD - 1 /\ c = K + WORD * q
  BY <1>1, Division
<1>3. q \div WORD \in Nat /\ q % WORD \in 0 .. WORD - 1 /\ q = (q % WORD) + WORD * (q \div WORD)
  <2> HIDE DEF q
  <2> QED BY <1>1, <1>2, Division
<1> HIDE DEF q, K
<1>4. Low(c) = K /\ High(c) = q % WORD
  BY DEF Low, High, q, K
<1>5. CASE K + d < WORD
  <2>1. (K + d) % WORD = K + d
    BY <1>1, <1>2, <1>5, Quotient
  <2>2. c + d = (K + d) + WORD * q /\ K + d \in 0 .. WORD - 1
    BY <1>1, <1>2, <1>5
  <2>3. (c + d) % WORD = K + d /\ (c + d) \div WORD = q
    BY <1>1, <1>2, <2>2, Quotient
  <2>4. ((q % WORD) + 0) % WORD = q % WORD
    <3> DEFINE e == q % WORD
    <3>1. e \in 0 .. WORD - 1
      BY <1>3
    <3> HIDE DEF e
    <3>2. (e + WORD * 0) % WORD = e
      BY <1>1, <3>1, Quotient
    <3>3. e + WORD * 0 = e + 0
      BY <1>1, <3>1
    <3> QED BY <3>2, <3>3 DEF e
  <2>5. ~ (K + d < d)
    BY <1>2
  <2>6. Low(c) + d = K + d /\ Low(c + d) = K + d /\ High(c + d) = q % WORD
    BY <1>4, <2>3 DEF Low, High
  <2>7. K + d \in 0 .. WORD - 1
    BY <2>2
  <2> QED BY <1>4, <2>1, <2>4, <2>5, <2>6, <2>7
<1>6. CASE K + d >= WORD
  <2> DEFINE G == K + d - WORD
  <2>1. G \in 0 .. WORD - 1 /\ K + d = G + WORD * 1 /\ G < d
    BY <1>1, <1>2, <1>6
  <2>3. c + d = G + WORD * (q + 1) /\ q + 1 \in Int
    BY <1>1, <1>2
  <2> HIDE DEF G
  <2>2. (K + d) % WORD = G
    <3>1. \A f \in Int : (G + WORD * f) % WORD = G
      BY <1>1, <2>1, Quotient
    <3> QED BY <2>1, <3>1
  <2>4. (c + d) % WORD = G /\ (c + d) \div WORD = q + 1
    BY <1>1, <1>2, <2>1, <2>3, Quotient
  <2>5. ((q % WORD) + 1) % WORD = (q + 1) % WORD
    <3> DEFINE e == q % WORD
               f == q \div WORD
    <3>1. e \in 0 .. WORD - 1 /\ f \in Nat /\ q = e + WORD * f
      BY <1>3
    <3> HIDE DEF e, f
    <3>2. CASE e + 1 < WORD
      <4>1. e + 1 \in 0 .. WORD - 1
        BY <1>1, <3>1, <3>2
      <4>2. (e + 1 + WORD * f) % WORD = e + 1 /\ (e + 1 + WORD * 0) % WORD = e + 1
        BY <1>1, <3>1, <4>1, Quotient
      <4>3. e + 1 + WORD * f = q + 1 /\ e + 1 + WORD * 0 = e + 1
        BY <1>1, <3>1
      <4> QED BY <4>2, <4>3 DEF e
    <3>3. CASE e + 1 = WORD
      <4>1. (0 + WORD * (f + 1)) % WORD = 0 /\ (0 + WORD * 1) % WORD = 0
        BY <1>1, <3>1, Quotient
      <4>2. 0 + WORD * (f + 1) = q + 1 /\ 0 + WORD * 1 = e + 1
        BY <1>1, <3>1, <3>3
      <4> QED BY <4>1, <4>2 DEF e
    <3> QED BY <1>1, <3>1, <3>2, <3>3
  <2>6. Low(c) + d = K + d /\ Low(c + d) = G /\ High(c + d) = (q + 1) % WORD
    BY <1>4, <2>4 DEF Low, High
  <2> QED BY <1>4, <2>1, <2>2, <2>5, <2>6
<1> QED BY <1>1, <1>2, <1>5, <1>6

\* With the top bit flipped a signed comparison is the unsigned one.
LEMMA SignedFlip ==
  ASSUME NEW x \in 0 .. WORD - 1
  PROVE  Signed(Flip(x)) = x - WORD \div 2
<1> DEFINE h == WORD \div 2
<1>1. WORD \in Nat \ {0} /\ h \in Nat /\ WORD = h + h
  BY WordIs
<1> HIDE DEF h
<1>2. CASE x < h
  <2>1. x + h \in 0 .. WORD - 1 /\ x + h = x + h + WORD * 0
    BY <1>1, <1>2
  <2>2. (x + h) % WORD = x + h
    BY <1>1, <2>1, Quotient
  <2> QED BY <1>1, <1>2, <2>2 DEF Signed, Flip, h
<1>3. CASE x >= h
  <2>1. x - h \in 0 .. WORD - 1 /\ x + h = x - h + WORD * 1
    BY <1>1, <1>3
  <2>2. (x + h) % WORD = x - h
    BY <1>1, <2>1, Quotient
  <2>3. x - h < h
    BY <1>1
  <2> QED BY <1>1, <1>3, <2>2, <2>3 DEF Signed, Flip, h
<1> QED BY <1>1, <1>2, <1>3

\* The three ways of counting agree, for every lane of the widest kernel.
LEMMA CarriesAgree ==
  ASSUME NEW c \in Nat, NEW lane \in 0 .. 15, NEW inc
  PROVE  /\ SignedCarry(c, lane, inc) = Counter(c + Delta(lane, inc))
         /\ UnsignedCarry(c, lane, inc) = Counter(c + Delta(lane, inc))
         /\ WideSum(c, lane, inc) = Counter(c + Delta(lane, inc))
<1> DEFINE d == Delta(lane, inc)
           l == (Low(c) + d) % WORD
<1>1. d \in 0 .. WORD - 1
  BY WordIs DEF Delta
<1> HIDE DEF d
<1>2. /\ l \in 0 .. WORD - 1 /\ Low(c + d) = l
      /\ High(c + d) = (High(c) + (IF l < d THEN 1 ELSE 0)) % WORD
  BY <1>1, CounterPlus
<1> HIDE DEF l
<1>3. WORD \div 2 \in Int
  BY WordIs
<1>4. Signed(Flip(d)) = d - WORD \div 2 /\ Signed(Flip(l)) = l - WORD \div 2
  BY <1>1, <1>2, SignedFlip
<1>5. Signed(Flip(d)) > Signed(Flip(l)) <=> l < d
  BY <1>1, <1>2, <1>3, <1>4
<1>6. SignedCarry(c, lane, inc) = <<l, (High(c) + (IF l < d THEN 1 ELSE 0)) % WORD>>
  BY <1>5 DEF SignedCarry, d, l
<1>7. UnsignedCarry(c, lane, inc) = <<l, (High(c) + (IF l < d THEN 1 ELSE 0)) % WORD>>
  BY DEF UnsignedCarry, d, l
<1>8. WideSum(c, lane, inc) = <<Low(c + d), High(c + d)>>
  BY DEF WideSum, d
<1>9. Counter(c + d) = <<Low(c + d), High(c + d)>>
  BY DEF Counter
<1> QED BY <1>2, <1>6, <1>7, <1>8, <1>9 DEF d

\* The loops of a kernel, single inputs last.
Loops(kernel) == Append(Widths(kernel), 1)

\* The widths of each kernel, its last loop included.
LEMMA LoopsAre ==
  ASSUME NEW kernel \in Kernels
  PROVE  Loops(kernel) = CASE kernel = "portable" -> <<1>>
                           [] kernel = "avx2" -> <<8, 4, 1>>
                           [] kernel = "avx512" -> <<16, 8, 4, 1>>
                           [] kernel \in {"sse2", "sse41", "neon"} -> <<4, 1>>
<1>1. CASE kernel = "portable"
  BY <1>1 DEF Loops, Widths
<1>2. CASE kernel = "avx2"
  <2>1. Widths(kernel) = <<8>> \o <<4>>
    BY <1>2 DEF Widths, HashManyAvx2, HashManySse41
  <2>2. Loops(kernel) = Added(Joined(<<8>>, <<4>>), 1)
    BY <2>1 DEF Loops, Added, Joined
  <2>3. Listed(<<8>>, 1) /\ Listed(<<4>>, 1) /\ Listed(<<8, 4, 1>>, 3)
    BY DEF Listed
  <2>4. /\ Listed(Joined(<<8>>, <<4>>), 2)
        /\ Joined(<<8>>, <<4>>)[1] = 8 /\ Joined(<<8>>, <<4>>)[2] = 4
    <3> DEFINE a == <<8>>
               b == <<4>>
    <3>1. a[1] = 8 /\ b[1] = 4 /\ Listed(a, 1) /\ Listed(b, 1)
      BY <2>3
    <3> HIDE DEF a, b
    <3>2. /\ Listed(Joined(a, b), 1 + 1)
          /\ \A I \in 1 .. 1 : Joined(a, b)[I] = a[I]
          /\ \A I \in 1 .. 1 : Joined(a, b)[1 + I] = b[I]
      BY <3>1, ListedConcat DEF Concat
    <3> DEFINE U == Joined(a, b)
    <3> HIDE DEF U
    <3>3. Listed(U, 2) /\ U[1] = 8 /\ U[2] = 4
      BY <3>1, <3>2 DEF U
    <3> QED BY <3>3 DEF U, a, b
  <2>5. Listed(Loops(kernel), 3) /\ \A I \in 1 .. 3 : Loops(kernel)[I] = <<8, 4, 1>>[I]
    BY <2>2, <2>4, ListedAppend DEF Extended
  <2>6. Loops(kernel) = <<8, 4, 1>>
    BY <2>3, <2>5, ListedEqual
  <2> QED BY <1>2, <2>6
<1>3. CASE kernel = "avx512"
  <2>1. Loops(kernel) = Added(<<16, 8, 4>>, 1)
    BY <1>3 DEF Loops, Added, Widths, HashManyAvx512
  <2>2. Listed(<<16, 8, 4>>, 3) /\ Listed(<<16, 8, 4, 1>>, 4)
    BY DEF Listed
  <2>3. Listed(Loops(kernel), 4) /\ \A I \in 1 .. 4 : Loops(kernel)[I] = <<16, 8, 4, 1>>[I]
    <3> DEFINE s == <<16, 8, 4>>
    <3>1. s[1] = 16 /\ s[2] = 8 /\ s[3] = 4 /\ Listed(s, 3)
      BY <2>2
    <3> HIDE DEF s
    <3>2. /\ Listed(Added(s, 1), 3 + 1)
          /\ \A I \in 1 .. 3 : Added(s, 1)[I] = s[I]
          /\ Added(s, 1)[3 + 1] = 1
      BY <3>1, ListedAppend DEF Extended
    <3> QED BY <2>1, <3>1, <3>2 DEF s
  <2>4. Loops(kernel) = <<16, 8, 4, 1>>
    BY <2>2, <2>3, ListedEqual
  <2> QED BY <1>3, <2>4
<1>4. CASE kernel \in {"sse2", "sse41", "neon"}
  <2>1. Widths(kernel) = <<4>>
    BY <1>4 DEF Widths, HashManySse2, HashManySse41, HashManyNeon
  <2> DEFINE s == <<4>>
  <2>2. s[1] = 4 /\ Listed(s, 1) /\ Listed(<<4, 1>>, 2)
    BY DEF Listed
  <2> HIDE DEF s
  <2>3. /\ Listed(Added(s, 1), 1 + 1)
        /\ \A I \in 1 .. 1 : Added(s, 1)[I] = s[I]
        /\ Added(s, 1)[1 + 1] = 1
    BY <2>2, ListedAppend DEF Extended
  <2>4. Added(s, 1) = <<4, 1>>
    BY <2>2, <2>3, ListedEqual
  <2> QED BY <1>4, <2>1, <2>4 DEF Loops, Added, s
<1> QED BY <1>1, <1>2, <1>3, <1>4 DEF Kernels

\* Every lane of every loop is given the words of its counter.
LEMMA LaneCounts ==
  ASSUME NEW kernel \in Kernels, NEW k \in DOMAIN Loops(kernel), NEW c \in Nat,
         NEW lane \in 0 .. Loops(kernel)[k] - 1, NEW inc
  PROVE  LaneCounter(kernel, Loops(kernel)[k], c, lane, inc) = Counter(c + Delta(lane, inc))
<1> DEFINE V == Loops(kernel)[k]
<1>1. \/ V = 1
      \/ V = 4 /\ kernel \in {"sse2", "sse41", "neon", "avx2", "avx512"}
      \/ V = 8 /\ kernel \in {"avx2", "avx512"}
      \/ V = 16 /\ kernel = "avx512"
  BY LoopsAre DEF Kernels
<1> HIDE DEF V
<1>2. CASE V = 1
  <2>1. lane = 0 /\ c + Delta(lane, inc) = c
    BY <1>2 DEF Delta, V
  <2> QED BY <1>2, <2>1 DEF LaneCounter, Counter, V
<1>3. CASE V # 1
  <2>1. lane \in 0 .. 15
    BY <1>1, <1>3 DEF V
  <2>2. /\ SignedCarry(c, lane, inc) = Counter(c + Delta(lane, inc))
        /\ UnsignedCarry(c, lane, inc) = Counter(c + Delta(lane, inc))
        /\ WideSum(c, lane, inc) = Counter(c + Delta(lane, inc))
    BY <2>1, CarriesAgree
  <2>3. LaneCounter(kernel, V, c, lane, inc)
          \in {SignedCarry(c, lane, inc), UnsignedCarry(c, lane, inc), WideSum(c, lane, inc)}
    <3> USE DEF LaneCounter, CountersSse2, CountersSse41, CountersAvx2, Counters4Avx512,
                Counters8Avx512, Counters16Avx512, CountersNeon
    <3>1. CASE kernel = "sse2"
      BY <1>1, <1>3, <3>1
    <3>2. CASE kernel = "sse41"
      BY <1>1, <1>3, <3>2
    <3>3. CASE kernel = "avx2"
      BY <1>1, <1>3, <3>3
    <3>4. CASE kernel = "avx512"
      BY <1>1, <1>3, <3>4
    <3>5. CASE kernel = "neon"
      BY <1>1, <1>3, <3>5
    <3> QED BY <1>1, <1>3, <3>1, <3>2, <3>3, <3>4, <3>5
  <2> QED BY <2>2, <2>3 DEF V
<1> QED BY <1>2, <1>3

\* The inputs taken by the loops so far, one loop at a time.
LEMMA TakenUnfolds ==
  ASSUME NEW widths, NEW n
  PROVE  /\ Taken(widths, n, 0) = 0
         /\ \A l \in Nat : Taken(widths, n, l + 1) =
              Taken(widths, n, l) + widths[l + 1] * ((n - Taken(widths, n, l)) \div widths[l + 1])
<1> DEFINE Next1(x, k) == x + widths[k] * ((n - x) \div widths[k])
           Def(fn, l) == [k \in 0 .. l |-> IF k = 0 THEN 0 ELSE Next1(fn[k - 1], k)]
           Has == {l \in Nat : \E fn : fn = Def(fn, l)}
<1> HIDE DEF Next1
<1>1. 0 \in Has
  <2> DEFINE fn == [k \in 0 .. 0 |-> 0]
  <2>1. fn = Def(fn, 0)
    OBVIOUS
  <2> QED BY <2>1
<1>2. ASSUME NEW l \in Nat, l \in Has PROVE l + 1 \in Has
  <2>1. PICK fn : fn = Def(fn, l)
    BY <1>2
  <2> DEFINE G == [k \in 0 .. l + 1 |-> IF k <= l THEN fn[k] ELSE Next1(fn[l], l + 1)]
  <2>2. ASSUME NEW k \in 0 .. l + 1 PROVE G[k] = IF k = 0 THEN 0 ELSE Next1(G[k - 1], k)
    <3>1. CASE k = 0
      BY <2>1, <3>1
    <3>2. CASE k \in 1 .. l
      BY <2>1, <3>2
    <3>3. CASE k = l + 1
      BY <2>1, <3>3
    <3> QED BY <3>1, <3>2, <3>3
  <2>3. G = Def(G, l + 1)
    BY <2>2
  <2> HIDE DEF G
  <2> QED BY <2>3
<1> HIDE DEF Has
<1>3. \A l \in Nat : \E fn : fn = Def(fn, l)
  <2> SUFFICES ASSUME NEW l \in Nat PROVE l \in Has
    BY DEF Has
  <2>1. 0 .. l \subseteq Has
    BY <1>1, <1>2, Induction
  <2> QED BY <2>1
<1> DEFINE p(l) == CHOOSE fn : fn = Def(fn, l)
<1>4. ASSUME NEW l \in Nat
      PROVE  p(l) = Def(p(l), l) /\ Taken(widths, n, l) = p(l)[l]
  BY <1>3 DEF Taken, Next1
<1> HIDE DEF p
<1>5. ASSUME NEW l \in Nat PROVE \A k \in 0 .. l : p(l + 1)[k] = p(l)[k]
  <2> DEFINE S == {k \in 0 .. l : p(l + 1)[k] = p(l)[k]}
  <2> l + 1 \in Nat
    OBVIOUS
  <2>1. p(l) = Def(p(l), l) /\ p(l + 1) = Def(p(l + 1), l + 1)
    BY <1>4, Zenon
  <2>2. 0 \in S
    BY <2>1
  <2>3. ASSUME NEW k \in 0 .. l - 1, k \in S PROVE k + 1 \in S
    <3>1. k + 1 \in 0 .. l /\ k + 1 \in 0 .. l + 1 /\ k + 1 # 0 /\ k + 1 - 1 = k
      OBVIOUS
    <3>2. p(l)[k + 1] = Next1(p(l)[k], k + 1) /\ p(l + 1)[k + 1] = Next1(p(l + 1)[k], k + 1)
      BY <2>1, <3>1
    <3> QED BY <2>3, <3>1, <3>2
  <2> HIDE DEF S
  <2>4. 0 .. l \subseteq S
    BY <2>2, <2>3, Induction
  <2> QED BY <2>4 DEF S
<1>6. Taken(widths, n, 0) = 0
  BY <1>4
<1>7. ASSUME NEW l \in Nat
      PROVE  Taken(widths, n, l + 1) = Next1(Taken(widths, n, l), l + 1)
  <2>1. Taken(widths, n, l) = p(l)[l] /\ p(l + 1)[l] = p(l)[l]
    BY <1>4, <1>5
  <2>2. Taken(widths, n, l + 1) = p(l + 1)[l + 1] /\ p(l + 1) = Def(p(l + 1), l + 1)
    BY <1>4
  <2>3. p(l + 1)[l + 1] = Next1(p(l + 1)[l], l + 1)
    <3>1. l + 1 \in 0 .. l + 1 /\ l + 1 # 0 /\ l + 1 - 1 = l
      OBVIOUS
    <3> QED BY <2>2, <3>1
  <2> QED BY <2>1, <2>2, <2>3
<1> QED BY <1>6, <1>7 DEF Next1

\* A loop takes whole groups and no more inputs than there are.
LEMMA GroupsFit ==
  ASSUME NEW n \in Nat, NEW k \in 0 .. n, NEW V \in Nat \ {0}
  PROVE  k + V * ((n - k) \div V) \in 0 .. n
<1> DEFINE x == n - k
<1>1. x \in Nat /\ x = n - k
  OBVIOUS
<1> HIDE DEF x
<1>2. x \div V \in Nat /\ x % V \in Nat /\ x = (x % V) + V * (x \div V)
  BY <1>1, Division
<1>3. V * (x \div V) \in Nat
  BY <1>2
<1>4. k + V * (x \div V) \in 0 .. n
  BY <1>1, <1>2, <1>3
<1> QED BY <1>4 DEF x

\* Every loop takes some of the inputs, the loops of one input all that are left.
LEMMA TakenBounds ==
  ASSUME NEW kernel \in Kernels, NEW n \in Nat
  PROVE  LET loops == Loops(kernel)
         IN /\ \A k \in 0 .. Len(loops) : Taken(loops, n, k) \in 0 .. n
            /\ Taken(loops, n, Len(loops)) = n
            /\ Len(loops) \in Nat \ {0} /\ DOMAIN loops = 1 .. Len(loops)
            /\ \A k \in 1 .. Len(loops) : loops[k] \in Nat \ {0}
<1> DEFINE loops == Loops(kernel)
           last == Len(loops)
           L(k) == Taken(loops, n, k)
<1>1. /\ last \in 1 .. 4 /\ DOMAIN loops = 1 .. last /\ loops[last] = 1
      /\ \A k \in 1 .. last : loops[k] \in Nat \ {0}
  <2>1. loops \in {<<1>>, <<8, 4, 1>>, <<16, 8, 4, 1>>, <<4, 1>>}
    BY LoopsAre DEF Kernels
  <2> HIDE DEF loops
  <2>2. CASE loops = <<1>>
    BY <2>2
  <2>3. CASE loops = <<4, 1>>
    BY <2>3
  <2>4. CASE loops = <<8, 4, 1>>
    BY <2>4
  <2>5. CASE loops = <<16, 8, 4, 1>>
    BY <2>5
  <2> QED BY <2>1, <2>2, <2>3, <2>4, <2>5
<1> HIDE DEF loops, last
<1>2. L(0) = 0 /\ \A l \in Nat : L(l + 1) = L(l) + loops[l + 1] * ((n - L(l)) \div loops[l + 1])
  BY TakenUnfolds
<1> HIDE DEF L
<1>3. \A k \in 0 .. last : L(k) \in 0 .. n
  <2> DEFINE S == {k \in 0 .. last : L(k) \in 0 .. n}
  <2>1. 0 \in S
    <3>1. 0 \in 0 .. last /\ 0 \in 0 .. n
      BY <1>1
    <3> QED BY <1>2, <3>1
  <2>2. ASSUME NEW k \in 0 .. last - 1, k \in S PROVE k + 1 \in S
    <3>1. /\ k \in Nat /\ k + 1 \in 0 .. last /\ k + 1 \in 1 .. last
          /\ L(k) \in 0 .. n
      BY <1>1, <2>2
    <3>2. L(k + 1) = L(k) + loops[k + 1] * ((n - L(k)) \div loops[k + 1])
      BY <1>2, <3>1
    <3>3. loops[k + 1] \in Nat \ {0}
      BY <1>1, <3>1
    <3>4. L(k + 1) \in 0 .. n
      BY <3>1, <3>2, <3>3, GroupsFit
    <3> QED BY <3>1, <3>4
  <2> HIDE DEF S
  <2>3. 0 .. last \subseteq S
    BY <1>1, <2>1, <2>2, Induction
  <2> QED BY <2>3 DEF S
<1>4. L(last) = n
  <2> DEFINE l == last - 1
  <2>1. l \in Nat /\ l + 1 = last /\ l \in 0 .. last
    BY <1>1
  <2> HIDE DEF l
  <2>2. L(l) \in 0 .. n /\ L(l + 1) = L(l) + 1 * ((n - L(l)) \div 1)
    BY <1>1, <1>2, <1>3, <2>1
  <2> QED BY <2>1, <2>2
<1> QED BY <1>1, <1>3, <1>4 DEF L, last, loops

\* Every input is given the words of its own counter, on every processor: across
\* the groups of all widths, and across the boundary of the low word.
LEMMA CountersCorrect ==
  ASSUME NEW kernel \in Kernels, NEW counter \in Nat, NEW inc, NEW n \in Nat
  PROVE  ManyCounters(kernel, Widths(kernel), counter, inc, n) =
           [I \in 1 .. n |-> Counter(counter + Delta(I - 1, inc))]
<1> DEFINE loops == Loops(kernel)
           L(j) == Taken(loops, n, j)
           at(I) == CHOOSE j \in DOMAIN loops : L(j - 1) < I /\ I <= L(j)
           lane(I) == (I - 1 - L(at(I) - 1)) % loops[at(I)]
           words(I) == LaneCounter(kernel, loops[at(I)],
                         counter + Delta(I - 1 - lane(I), inc), lane(I), inc)
<1>1. ManyCounters(kernel, Widths(kernel), counter, inc, n) = [I \in 1 .. n |-> words(I)]
  BY DEF ManyCounters, Loops
<1>2. /\ \A k \in 0 .. Len(loops) : L(k) \in 0 .. n
      /\ L(Len(loops)) = n /\ L(0) = 0
      /\ Len(loops) \in Nat \ {0} /\ DOMAIN loops = 1 .. Len(loops)
      /\ \A k \in 1 .. Len(loops) : loops[k] \in Nat \ {0}
  BY TakenBounds, TakenUnfolds
<1> HIDE DEF L
<1>3. ASSUME NEW I \in 1 .. n PROVE words(I) = Counter(counter + Delta(I - 1, inc))
  <2>1. \E j \in DOMAIN loops : L(j - 1) < I /\ I <= L(j)
    <3> DEFINE S == {j \in 0 .. Len(loops) : I <= L(j)}
    <3>1. S \in SUBSET Nat /\ Len(loops) \in S
      BY <1>2
    <3>2. PICK j \in S : \A k \in S : j <= k
      BY <3>1, LeastNumber
    <3>3. j \in 0 .. Len(loops) /\ I <= L(j)
      BY <3>2
    <3>4. j # 0
      BY <1>2, <3>3
    <3>5. j - 1 \in 0 .. Len(loops) /\ j - 1 \notin S
      BY <3>2, <3>3, <3>4
    <3>6. ~ (I <= L(j - 1)) /\ L(j - 1) \in Nat
      BY <1>2, <3>5
    <3>7. j \in DOMAIN loops
      BY <1>2, <3>3, <3>4
    <3> QED BY <3>3, <3>6, <3>7
  <2>2. at(I) \in DOMAIN loops /\ L(at(I) - 1) < I
    BY <2>1
  <2> DEFINE k == at(I)
             V == loops[k]
             x == I - 1 - L(k - 1)
  <2> HIDE DEF at
  <2>3. k \in DOMAIN loops /\ V \in Nat \ {0} /\ L(k - 1) \in Nat /\ x \in Nat /\ x <= I - 1
    <3>1. k \in 1 .. Len(loops) /\ k - 1 \in 0 .. Len(loops)
      BY <1>2, <2>2
    <3>2. L(k - 1) \in 0 .. n /\ V \in Nat \ {0}
      BY <1>2, <3>1
    <3> QED BY <2>2, <3>2
  <2>4. lane(I) = x % V
    OBVIOUS
  <2> DEFINE l == lane(I)
  <2>5. l \in 0 .. V - 1 /\ l <= x
    <3> HIDE DEF V, x
    <3>1. x % V \in 0 .. V - 1 /\ x \div V \in Nat /\ x = (x % V) + V * (x \div V)
      BY <2>3, Division
    <3>2. V * (x \div V) \in Nat
      BY <2>3, <3>1
    <3> QED BY <2>3, <2>4, <3>1, <3>2
  <2> DEFINE c == counter + Delta(I - 1 - l, inc)
  <2> HIDE DEF V, x, l, k
  <2>6. l \in Nat /\ I - 1 - l \in Nat
    BY <2>3, <2>5
  <2>7. c \in Nat /\ c + Delta(l, inc) = counter + Delta(I - 1, inc)
    BY <2>6 DEF Delta
  <2> HIDE DEF c, loops
  <2>8. LaneCounter(kernel, V, c, l, inc) = Counter(c + Delta(l, inc))
    BY <2>3, <2>5, <2>7, LaneCounts DEF V, loops
  <2>9. words(I) = LaneCounter(kernel, V, c, l, inc)
    BY DEF c, l, V, k, loops
  <2> QED BY <2>7, <2>8, <2>9
<1> HIDE DEF words
<1> QED BY <1>1, <1>3

\* On every processor the widest loads, the carries between the words and the
\* groups of all widths give every input its own counter: the counters that the
\* run compares for one size of a word, for every size.
THEOREM LanesCount == \A kernel \in Kernels : CountsEveryInput(kernel)
<1> SUFFICES ASSUME NEW kernel \in Kernels, NEW counter \in 0 .. (3 * WORD),
                    NEW inc \in BOOLEAN, NEW n \in 0 .. 17
             PROVE  ManyCounters(kernel, Widths(kernel), counter, inc, n) =
                      [I \in 1 .. n |-> LET c == counter + (IF inc THEN I - 1 ELSE 0)
                                       IN <<c % WORD, (c \div WORD) % WORD>>]
  BY DEF CountsEveryInput
<1>1. counter \in Nat /\ n \in Nat
  OBVIOUS
<1>2. ManyCounters(kernel, Widths(kernel), counter, inc, n) =
        [I \in 1 .. n |-> Counter(counter + Delta(I - 1, inc))]
  BY <1>1, CountersCorrect
<1> QED BY <1>2, Zenon DEF Counter, Low, High, Delta

-----------------------------------------------------------------------------
(* Powers of two and lengths.                                              *)

\* The least of two numbers.
LEMMA MinIs ==
  ASSUME NEW a \in Int, NEW b \in Int
  PROVE  Min({a, b}) = IF a <= b THEN a ELSE b
<1> DEFINE M == IF a <= b THEN a ELSE b
<1>1. M \in {a, b} /\ \A Y \in {a, b} : M <= Y
  OBVIOUS
<1>2. \A x \in {a, b} : (\A Y \in {a, b} : x <= Y) => x = M
  OBVIOUS
<1> HIDE DEF M
<1>3. Min({a, b}) = M
  BY <1>1, <1>2 DEF Min
<1> QED BY <1>3 DEF M

\* The greatest of a set is any member that bounds it.
LEMMA MaxIs ==
  ASSUME NEW S \in SUBSET Int, NEW M \in S, \A Y \in S : Y <= M
  PROVE  Max(S) = M
<1>1. \A x \in S : (\A Y \in S : x >= Y) => x = M
  OBVIOUS
<1>2. \A Y \in S : M >= Y
  OBVIOUS
<1> QED BY <1>1, <1>2 DEF Max

\* Powers of two, from one to the next.
LEMMA PowerUnfolds ==
  /\ Power[0] = 1
  /\ \A I \in Nat : Power[I] \in Nat \ {0} /\ Power[I + 1] = 2 * Power[I]
<1> DEFINE Def(fn, l) == [k \in 0 .. l |-> IF k = 0 THEN 1 ELSE 2 * fn[k - 1]]
           Eq(fn, l) == fn \in [0 .. l -> Nat \ {0}] /\ fn = Def(fn, l)
           Has == {l \in Nat : \E fn : Eq(fn, l)}
<1>1. 0 \in Has
  <2>1. Eq([k \in 0 .. 0 |-> 1], 0)
    OBVIOUS
  <2> QED BY <2>1
<1>2. ASSUME NEW l \in Nat, l \in Has PROVE l + 1 \in Has
  <2>1. PICK fn : Eq(fn, l)
    BY <1>2
  <2> DEFINE G == [k \in 0 .. l + 1 |-> IF k <= l THEN fn[k] ELSE 2 * fn[l]]
  <2>2. G \in [0 .. l + 1 -> Nat \ {0}]
    BY <2>1
  <2>3. ASSUME NEW k \in 0 .. l + 1 PROVE G[k] = IF k = 0 THEN 1 ELSE 2 * G[k - 1]
    <3>1. CASE k = 0
      BY <2>1, <3>1
    <3>2. CASE k \in 1 .. l
      BY <2>1, <3>2
    <3>3. CASE k = l + 1
      BY <2>1, <3>3
    <3> QED BY <3>1, <3>2, <3>3
  <2>4. G = Def(G, l + 1)
    BY <2>3
  <2> HIDE DEF G
  <2> QED BY <2>2, <2>4, SMTT(30)
<1> HIDE DEF Has
<1>3. \A l \in Nat : \E fn : Eq(fn, l)
  <2> SUFFICES ASSUME NEW l \in Nat PROVE l \in Has
    BY DEF Has
  <2>1. 0 .. l \subseteq Has
    BY <1>1, <1>2, Induction
  <2> QED BY <2>1
<1> DEFINE p(l) == CHOOSE fn : Eq(fn, l)
<1>4. ASSUME NEW l \in Nat PROVE Eq(p(l), l)
  BY <1>3
<1> HIDE DEF p
<1>5. ASSUME NEW l \in Nat PROVE \A k \in 0 .. l : p(l + 1)[k] = p(l)[k]
  <2> DEFINE S == {k \in 0 .. l : p(l + 1)[k] = p(l)[k]}
  <2> l + 1 \in Nat
    OBVIOUS
  <2>1. p(l) = Def(p(l), l) /\ p(l + 1) = Def(p(l + 1), l + 1)
    BY <1>4, Zenon
  <2>2. 0 \in S
    BY <2>1
  <2>3. ASSUME NEW k \in 0 .. l - 1, k \in S PROVE k + 1 \in S
    <3>1. k + 1 \in 0 .. l /\ k + 1 \in 0 .. l + 1 /\ k + 1 # 0 /\ k + 1 - 1 = k
      OBVIOUS
    <3>2. p(l)[k + 1] = 2 * p(l)[k] /\ p(l + 1)[k + 1] = 2 * p(l + 1)[k]
      BY <2>1, <3>1
    <3> QED BY <2>3, <3>1, <3>2
  <2> HIDE DEF S
  <2>4. 0 .. l \subseteq S
    BY <2>2, <2>3, Induction
  <2> QED BY <2>4 DEF S
<1> DEFINE f == [I \in Nat |-> p(I)[I]]
<1>6. f \in [Nat -> Nat \ {0}]
  BY <1>4
<1>7. ASSUME NEW I \in Nat PROVE f[I] = IF I = 0 THEN 1 ELSE 2 * f[I - 1]
  <2>1. p(I) = Def(p(I), I)
    BY <1>4, Zenon
  <2>2. CASE I = 0
    BY <2>1, <2>2
  <2>3. CASE I # 0
    <3>1. I - 1 \in Nat /\ (I - 1) + 1 = I /\ I - 1 \in 0 .. I - 1
      BY <2>3
    <3>2. p(I)[I - 1] = p(I - 1)[I - 1]
      BY <1>5, <3>1
    <3>3. p(I)[I] = 2 * p(I)[I - 1]
      BY <2>1, <2>3
    <3> QED BY <2>3, <3>1, <3>2, <3>3
  <2> QED BY <2>2, <2>3
<1> HIDE DEF f
<1>8. f = [I \in Nat |-> IF I = 0 THEN 1 ELSE 2 * f[I - 1]]
  BY <1>6, <1>7
<1>9. Power = [I \in Nat |-> IF I = 0 THEN 1 ELSE 2 * Power[I - 1]]
  <2>1. \E G : G = [I \in Nat |-> IF I = 0 THEN 1 ELSE 2 * G[I - 1]]
    BY <1>8
  <2> DEFINE P(G) == G = [I \in Nat |-> IF I = 0 THEN 1 ELSE 2 * G[I - 1]]
  <2>2. Power = CHOOSE G : P(G)
    BY DEF Power
  <2>3. \E G : P(G)
    BY <2>1
  <2> HIDE DEF P
  <2>4. P(Power)
    BY <2>2, <2>3
  <2> QED BY <2>4 DEF P
<1>10. Power[0] = 1
  BY <1>9
<1>11. ASSUME NEW I \in Nat PROVE Power[I + 1] = 2 * Power[I]
  <2>1. I + 1 \in Nat /\ I + 1 # 0 /\ I + 1 - 1 = I
    OBVIOUS
  <2> QED BY <1>9, <2>1
<1>12. ASSUME NEW I \in Nat PROVE Power[I] \in Nat \ {0}
  <2> DEFINE S == {k \in Nat : Power[k] \in Nat \ {0}}
  <2>1. 0 \in S
    BY <1>10
  <2>2. ASSUME NEW k \in 0 .. I - 1, k \in S PROVE k + 1 \in S
    BY <1>11, <2>2
  <2> HIDE DEF S
  <2>3. 0 .. I \subseteq S
    BY <2>1, <2>2, Induction
  <2> QED BY <2>3 DEF S
<1> QED BY <1>10, <1>11, <1>12

\* Exponents add.
LEMMA PowerPlus ==
  ASSUME NEW a \in Nat, NEW b \in Nat
  PROVE  Power[a + b] = Power[a] * Power[b]
<1> DEFINE S == {k \in 0 .. b : Power[a + k] = Power[a] * Power[k]}
<1>1. 0 \in S
  <2>1. Power[a] \in Nat /\ Power[0] = 1 /\ a + 0 = a
    BY PowerUnfolds
  <2> QED BY <2>1
<1>2. ASSUME NEW k \in 0 .. b - 1, k \in S PROVE k + 1 \in S
  <2>1. k \in Nat /\ a + k \in Nat /\ k + 1 \in 0 .. b /\ a + (k + 1) = (a + k) + 1
    OBVIOUS
  <2>2. /\ Power[a + (k + 1)] = 2 * Power[a + k]
        /\ Power[k + 1] = 2 * Power[k]
        /\ Power[a] \in Nat /\ Power[k] \in Nat
    BY <2>1, PowerUnfolds
  <2>3. 2 * (Power[a] * Power[k]) = Power[a] * (2 * Power[k])
    BY <2>2
  <2> QED BY <1>2, <2>1, <2>2, <2>3
<1> HIDE DEF S
<1>3. 0 .. b \subseteq S
  BY <1>1, <1>2, Induction
<1> QED BY <1>3 DEF S

\* A greater exponent at least doubles the power.
LEMMA PowerGrows ==
  ASSUME NEW a \in Nat, NEW b \in Nat, a < b
  PROVE  2 * Power[a] <= Power[b]
<1> DEFINE c == b - a - 1
<1>1. c \in Nat /\ a + 1 \in Nat /\ (a + 1) + c = b
  OBVIOUS
<1> HIDE DEF c
<1>2. Power[b] = Power[a + 1] * Power[c]
  BY <1>1, PowerPlus
<1>3. Power[a + 1] = 2 * Power[a] /\ Power[a] \in Nat /\ Power[c] \in Nat \ {0}
  BY <1>1, PowerUnfolds
<1> DEFINE x == Power[a + 1]
           Y == Power[c]
<1>4. x \in Nat /\ Y \in Nat /\ Y >= 1
  BY <1>3
<1> HIDE DEF x, Y
<1>5. x * Y >= x
  BY <1>4
<1> QED BY <1>2, <1>3, <1>5 DEF x, Y

\* The order of the powers is that of their exponents.
LEMMA PowerOrder ==
  ASSUME NEW a \in Nat, NEW b \in Nat
  PROVE  /\ Power[a] <= Power[b] <=> a <= b
         /\ Power[a] = Power[b] <=> a = b
         /\ Power[a] > a
<1>1. Power[a] \in Nat \ {0} /\ Power[b] \in Nat \ {0}
  BY PowerUnfolds
<1>2. a < b => 2 * Power[a] <= Power[b]
  BY PowerGrows
<1>3. b < a => 2 * Power[b] <= Power[a]
  BY PowerGrows
<1>4. Power[a] > a
  <2> DEFINE S == {k \in 0 .. a : Power[k] > k}
  <2>1. 0 \in S
    BY PowerUnfolds
  <2>2. ASSUME NEW k \in 0 .. a - 1, k \in S PROVE k + 1 \in S
    <3>1. k \in Nat /\ Power[k] \in Nat /\ Power[k + 1] = 2 * Power[k] /\ Power[k] > k
      BY <2>2, PowerUnfolds
    <3> QED BY <3>1
  <2> HIDE DEF S
  <2>3. 0 .. a \subseteq S
    BY <2>1, <2>2, Induction
  <2> QED BY <2>3 DEF S
<1> QED BY <1>1, <1>2, <1>3, <1>4

\* Every number has a highest power of two.
LEMMA HighestPower ==
  ASSUME NEW x \in Nat \ {0}
  PROVE  \E I \in Nat : Power[I] <= x /\ x < Power[I + 1]
<1> DEFINE S == {I \in 0 .. x : Power[I] <= x}
<1>1. 0 \in S /\ S \in SUBSET (0 .. x)
  BY PowerUnfolds
<1>2. PICK I \in S : \A j \in S : j <= I
  BY <1>1, GreatestNumber
<1>3. I \in Nat /\ Power[I] <= x /\ I + 1 \in Nat
  BY <1>2
<1>4. ~ (x < Power[I + 1]) => FALSE
  <2> SUFFICES ASSUME ~ (x < Power[I + 1]) PROVE FALSE
    OBVIOUS
  <2>1. Power[I + 1] \in Nat /\ Power[I + 1] > I + 1
    BY <1>3, PowerUnfolds, PowerOrder
  <2>2. I + 1 \in S
    BY <1>3, <2>1
  <2> QED BY <1>2, <1>3, <2>2
<1> QED BY <1>3, <1>4

\* The assumption on the lengths, as the proofs use it.
LEMMA SizesAre ==
  /\ BLOCK_LEN = 2 /\ SIZE_BITS \in Nat /\ SIZE_BITS >= 2 /\ MAX_DEPTH \in Nat /\ MaxLen \in Nat
  /\ CHUNK_LEN \in Nat /\ CHUNK_LEN >= 2
  /\ CHUNK_LEN \div BLOCK_LEN \in Nat /\ CHUNK_LEN = 2 * (CHUNK_LEN \div BLOCK_LEN)
  /\ \E I \in Bits : CHUNK_LEN = Power[I]
  /\ Bits \subseteq Nat /\ 0 \in Bits /\ MaxLen < Power[SIZE_BITS]
  /\ MaxLen <= CHUNK_LEN * Power[MAX_DEPTH]
<1>1. PICK I \in Bits \ {0} : CHUNK_LEN = Power[I]
  BY LengthsAssumption
<1>2. SIZE_BITS \in Nat /\ I \in Nat /\ I >= 1 /\ I <= SIZE_BITS - 1
  BY LengthsAssumption DEF Bits
<1>3. I - 1 \in Nat /\ (I - 1) + 1 = I
  BY <1>2
<1>4. Power[I] = 2 * Power[I - 1] /\ Power[I - 1] \in Nat \ {0}
  BY <1>3, PowerUnfolds
<1> DEFINE x == Power[I - 1]
<1>5. CHUNK_LEN = 2 * x /\ x \in Nat \ {0}
  BY <1>1, <1>4
<1> HIDE DEF x
<1>6. CHUNK_LEN \div 2 = x
  BY <1>5
<1> QED BY <1>1, <1>2, <1>5, <1>6, LengthsAssumption DEF Bits

\* A power within the bound on messages is one a size_t holds.
LEMMA PowerInBits ==
  ASSUME NEW I \in Nat, Power[I] <= MaxLen
  PROVE  I \in Bits /\ Power[I] \in Powers
<1>1. Power[I] < Power[SIZE_BITS] /\ Power[I] \in Nat
  BY SizesAre, PowerUnfolds
<1>2. ~ (SIZE_BITS <= I)
  <2>1. SIZE_BITS \in Nat /\ MaxLen \in Nat /\ Power[SIZE_BITS] \in Nat
    BY SizesAre, PowerUnfolds
  <2>2. Power[SIZE_BITS] <= Power[I] <=> SIZE_BITS <= I
    BY <2>1, PowerOrder
  <2> QED BY <1>1, <2>1, <2>2
<1> QED BY <1>2, SizesAre DEF Bits, Powers

\* The powers a size_t holds are positive numbers.
LEMMA PowersAre ==
  /\ Powers \subseteq Nat \ {0}
  /\ \A p \in Powers : \E I \in Bits : p = Power[I]
  /\ \A I \in Bits : Power[I] \in Powers
BY PowerUnfolds, SizesAre DEF Powers

\* round_down_to_power_of_2 finds the power just below.
LEMMA RoundDownIs ==
  ASSUME NEW x \in Nat, NEW I \in Bits, Power[I] <= x, x < Power[I + 1]
  PROVE  round_down_to_power_of_2(x) = Power[I]
<1> DEFINE S == {p \in Powers : p <= x} \cup {1}
<1>1. I \in Nat /\ Power[I] \in Nat \ {0} /\ Power[I] \in Powers
  BY SizesAre, PowerUnfolds, PowersAre
<1>2. S \in SUBSET Int /\ Power[I] \in S
  <2>1. \A p \in Powers : p \in Int
    BY PowersAre
  <2>2. \A p \in S : p \in Int
    BY <2>1
  <2> QED BY <1>1, <2>2
<1>3. ASSUME NEW p \in S PROVE p <= Power[I]
  <2>1. CASE p = 1
    BY <1>1, <2>1
  <2>2. CASE p \in Powers /\ p <= x
    <3>1. PICK j \in Bits : p = Power[j]
      BY <2>2, PowersAre
    <3>2. j \in Nat /\ I + 1 \in Nat /\ Power[I + 1] \in Nat /\ Power[j] \in Nat
      BY <1>1, <3>1, SizesAre, PowerUnfolds
    <3>3. ~ (I + 1 <= j)
      BY <2>2, <3>1, <3>2, PowerOrder
    <3>4. j <= I
      BY <1>1, <3>2, <3>3
    <3> QED BY <1>1, <3>1, <3>2, <3>4, PowerOrder
  <2> QED BY <1>3, <2>1, <2>2
<1> HIDE DEF S
<1>4. Max(S) = Power[I]
  BY <1>2, <1>3, MaxIs
<1> QED BY <1>4 DEF S, round_down_to_power_of_2

\* The powers of two of chunks: order is kept.
LEMMA ChunksOrder ==
  ASSUME NEW x \in Nat, NEW Y \in Nat
  PROVE  /\ CHUNK_LEN * x \in Nat
         /\ CHUNK_LEN * x <= CHUNK_LEN * Y <=> x <= Y
         /\ CHUNK_LEN * x < CHUNK_LEN * Y <=> x < Y
         /\ CHUNK_LEN * x = CHUNK_LEN * Y <=> x = Y
         /\ x <= CHUNK_LEN * x
<1> DEFINE C == CHUNK_LEN
<1>1. C \in Nat /\ C >= 2
  BY SizesAre
<1> HIDE DEF C
<1>2. \A a, b \in Nat : a < b => C * a + C <= C * b
  <2> SUFFICES ASSUME NEW a \in Nat, NEW b \in Nat, a < b PROVE C * a + C <= C * b
    OBVIOUS
  <2> DEFINE d == b - a - 1
  <2>1. d \in Nat /\ b = a + 1 + d
    OBVIOUS
  <2> HIDE DEF d
  <2>2. C * b = C * a + C + C * d /\ C * d \in Nat /\ C * a \in Nat
    BY <1>1, <2>1
  <2> QED BY <1>1, <2>2
<1>3. C * x \in Nat /\ C * Y \in Nat
  BY <1>1
<1>4. x <= C * x
  <2>1. (C - 1) * x \in Nat /\ C * x = x + (C - 1) * x
    BY <1>1
  <2> QED BY <2>1
<1>5. (x < Y => C * x < C * Y) /\ (Y < x => C * Y < C * x)
  BY <1>1, <1>2, <1>3
<1> QED BY <1>3, <1>4, <1>5 DEF C

\* Code and reference cut a message at the same place.
LEMMA LeftIs ==
  ASSUME NEW n \in Nat, NEW I \in Bits, CHUNK_LEN * Power[I] < n, n <= CHUNK_LEN * Power[I + 1]
  PROVE  left_len(n) = CHUNK_LEN * Power[I] /\ RefLeft(n) = CHUNK_LEN * Power[I]
<1> DEFINE C == CHUNK_LEN
           x == (n - 1) \div C
           p == Power[I]
           q == Power[I + 1]
           S == {c \in {C * K : K \in Powers} : c < n} \cup {0}
<1>1. /\ C \in Nat \ {0} /\ C >= 2 /\ I \in Nat /\ p \in Nat \ {0} /\ q = 2 * p
      /\ C * p < n /\ n <= C * q /\ p \in Powers
  BY SizesAre, PowerUnfolds, PowersAre
<1>2. x \in Nat /\ (n - 1) % C \in 0 .. C - 1 /\ n - 1 = ((n - 1) % C) + C * x
  <2>1. n - 1 \in Nat
    BY <1>1, ChunksOrder
  <2> QED BY <1>1, <2>1, Division
<1>3. left_len(n) = round_down_to_power_of_2(x) * C
  BY DEF left_len
<1> HIDE DEF x
<1>4. p <= x
  <2>1. C * p < C * (x + 1)
    BY <1>1, <1>2
  <2> QED BY <1>1, <1>2, <2>1, ChunksOrder
<1>5. x < q
  <2>1. C * x < C * q /\ q \in Nat
    BY <1>1, <1>2
  <2> QED BY <1>1, <1>2, <2>1, ChunksOrder
<1>6. round_down_to_power_of_2(x) = p
  BY <1>2, <1>4, <1>5, RoundDownIs
<1>7. S \in SUBSET Int /\ C * p \in S
  <2>1. \A K \in Powers : C * K \in Nat
    BY <1>1, PowersAre, ChunksOrder
  <2> QED BY <1>1, <2>1
<1>8. ASSUME NEW c \in S PROVE c <= C * p
  <2>1. CASE c = 0
    BY <1>1, <2>1
  <2>2. CASE c # 0
    <3>1. PICK K \in Powers : c = C * K /\ C * K < n
      BY <2>2
    <3>2. PICK j \in Bits : K = Power[j]
      BY PowersAre
    <3>3. j \in Nat /\ K \in Nat /\ C * K < C * q /\ q \in Nat
      <4>1. j \in Nat /\ K \in Nat /\ q \in Nat
        BY <1>1, <3>2, SizesAre, PowersAre, PowerUnfolds
      <4>2. C * K \in Nat /\ C * q \in Nat
        BY <4>1, ChunksOrder
      <4> QED BY <1>1, <3>1, <4>1, <4>2
    <3>4. K < q
      BY <3>3, ChunksOrder
    <3>5. ~ (I + 1 <= j)
      BY <1>1, <3>2, <3>3, <3>4, PowerOrder
    <3>6. K <= p
      BY <1>1, <3>2, <3>3, <3>5, PowerOrder
    <3> QED BY <1>1, <3>1, <3>3, <3>6, ChunksOrder
  <2> QED BY <2>1, <2>2
<1> HIDE DEF S
<1>9. Max(S) = C * p
  BY <1>7, <1>8, MaxIs
<1>10. RefLeft(n) = C * p
  BY <1>9 DEF S, RefLeft
<1>11. p * C = C * p
  BY <1>1
<1> QED BY <1>3, <1>6, <1>10, <1>11

\* Every message of more than one chunk has such a left part.
LEMMA HasLeft ==
  ASSUME NEW n \in Nat, CHUNK_LEN < n, n <= MaxLen
  PROVE  \E I \in Bits : CHUNK_LEN * Power[I] < n /\ n <= CHUNK_LEN * Power[I + 1]
<1> DEFINE C == CHUNK_LEN
           x == (n - 1) \div C
<1>1. C \in Nat \ {0} /\ C >= 2 /\ n - 1 \in Nat
  BY SizesAre
<1>2. x \in Nat /\ (n - 1) % C \in 0 .. C - 1 /\ n - 1 = ((n - 1) % C) + C * x
  BY <1>1, Division
<1> HIDE DEF x
<1>3. x # 0
  BY <1>1, <1>2
<1>4. PICK I \in Nat : Power[I] <= x /\ x < Power[I + 1]
  BY <1>2, <1>3, HighestPower
<1>5. /\ Power[I] \in Nat /\ Power[I + 1] \in Nat /\ I + 1 \in Nat
      /\ C * Power[I] <= C * x /\ C * (x + 1) <= C * Power[I + 1]
  <2>1. Power[I] \in Nat /\ Power[I + 1] \in Nat /\ I + 1 \in Nat /\ x + 1 \in Nat
    BY <1>2, <1>4, PowerUnfolds
  <2>2. C * Power[I] <= C * x
    BY <1>2, <1>4, <2>1, ChunksOrder
  <2>3. x + 1 <= Power[I + 1]
    BY <1>2, <1>4, <2>1
  <2>4. C * (x + 1) <= C * Power[I + 1]
    BY <2>1, <2>3, ChunksOrder
  <2> QED BY <2>1, <2>2, <2>4
<1>6. C * Power[I] < n /\ n <= C * Power[I + 1]
  BY <1>1, <1>2, <1>5
<1>7. Power[I] <= C * Power[I]
  BY <1>5, ChunksOrder
<1>8. I \in Bits
  BY <1>1, <1>5, <1>6, <1>7, SizesAre, PowerInBits
<1> QED BY <1>6, <1>8

\* The next subtree: a power of two of chunks that fits and divides what came before.
LEMMA SubtreeLenIs ==
  ASSUME NEW h, NEW a \in Nat, h.chunk.counter = a, NEW n \in Nat, CHUNK_LEN < n, n <= MaxLen
  PROVE  \E k \in Bits : /\ SubtreeLen(h, n) = CHUNK_LEN * Power[k]
                         /\ CHUNK_LEN * Power[k] <= n
                         /\ a % Power[k] = 0
<1> DEFINE C == CHUNK_LEN
           S == {s \in Powers : s <= round_down_to_power_of_2(n) /\ (a * C) % s = 0}
<1>1. C \in Nat \ {0} /\ C >= 2 /\ n # 0
  BY SizesAre
<1>2. PICK I \in Nat : Power[I] <= n /\ n < Power[I + 1]
  BY <1>1, HighestPower
<1>3. I \in Bits /\ Power[I] \in Nat /\ Power[I + 1] \in Nat
  BY <1>2, PowerInBits, SizesAre, PowerUnfolds
<1>4. round_down_to_power_of_2(n) = Power[I]
  BY <1>2, <1>3, RoundDownIs
<1>5. PICK c \in Bits : C = Power[c]
  BY SizesAre
<1>6. C <= Power[I]
  <2>1. c \in Nat /\ Power[c] < Power[I + 1] /\ I + 1 \in Nat
    BY <1>1, <1>2, <1>3, <1>5, SizesAre
  <2>2. ~ (I + 1 <= c)
    BY <1>3, <1>5, <1>1, <2>1, PowerOrder
  <2>3. c <= I
    BY <2>1, <2>2
  <2> QED BY <1>5, <2>1, <2>3, PowerOrder
<1>7. (a * C) % C = 0
  <2>1. (0 + C * a) % C = 0
    BY <1>1, Quotient
  <2>2. 0 + C * a = a * C
    BY <1>1
  <2> QED BY <2>1, <2>2
<1>8. C \in S
  BY <1>4, <1>5, <1>6, <1>7, PowersAre
<1>9. S \in SUBSET (0 .. n)
  <2>1. \A s \in S : s \in Nat /\ s <= Power[I]
    BY <1>4, PowersAre
  <2> QED BY <1>2, <1>3, <2>1
<1>10. PICK s \in S : \A L \in S : L <= s
  BY <1>8, <1>9, GreatestNumber
<1>11. SubtreeLen(h, n) = s
  <2>1. S \in SUBSET Int
    BY <1>9
  <2> HIDE DEF S
  <2>2. Max(S) = s
    BY <1>10, <2>1, MaxIs
  <2> QED BY <2>2 DEF S, SubtreeLen
<1>12. PICK j \in Bits : s = Power[j]
  BY <1>10, PowersAre
<1>13. c \in Nat /\ j \in Nat /\ c <= j
  BY <1>5, <1>8, <1>10, <1>12, PowerOrder, SizesAre
<1> DEFINE k == j - c
           p == Power[k]
<1>14. k \in Nat /\ c + k = j
  BY <1>13
<1>15. s = C * p /\ p \in Nat \ {0}
  <2>1. Power[c + k] = Power[c] * Power[k]
    BY <1>13, <1>14, PowerPlus
  <2>2. Power[k] \in Nat \ {0}
    BY <1>14, PowerUnfolds
  <2> QED BY <1>5, <1>12, <1>14, <2>1, <2>2
<1>16. k \in Bits
  BY <1>12, <1>13, <1>14, SizesAre DEF Bits
<1> HIDE DEF k, p
<1>17. a % p = 0
  <2> DEFINE L == (a * C) \div s
             e == a % p
             f == a \div p
  <2>1. (a * C) % s = 0 /\ s \in Nat \ {0} /\ a * C \in Nat
    BY <1>1, <1>10, <1>12, PowersAre
  <2>2. L \in Nat /\ a * C = 0 + s * L
    <3> DEFINE z == a * C
    <3> HIDE DEF z
    <3>1. z \in Nat /\ z % s = 0 /\ L = z \div s
      BY <2>1 DEF z
    <3>2. z \div s \in Nat /\ z = (z % s) + s * (z \div s)
      BY <2>1, <3>1, Division
    <3> QED BY <3>1, <3>2 DEF z
  <2> HIDE DEF L
  <2>3. C * a = C * (p * L) /\ p * L \in Nat
    BY <1>1, <1>15, <2>2
  <2>4. a = p * L
    BY <2>3, ChunksOrder
  <2>5. (0 + p * L) % p = 0 /\ 0 + p * L = p * L
    BY <1>15, <2>2, <2>3, Quotient
  <2> QED BY <2>4, <2>5
<1>18. s <= n /\ s \in Nat
  BY <1>9, <1>10
<1> QED BY <1>11, <1>15, <1>16, <1>17, <1>18 DEF p

-----------------------------------------------------------------------------
(* Compressions.                                                           *)

\* cpuid selects one of the kernels, and its degree is a power of two.
LEMMA KernelIs ==
  ASSUME NEW c \in Cpus
  PROVE  /\ HashManyKernel(c) \in Kernels
         /\ \E e \in {0, 2, 3, 4} : simd_degree(c) = Power[e]
<1>1. c.arch \in {"x86", "portable", "neon"}
  BY LengthsAssumption
<1>2. HashManyKernel(c) \in {"portable", "neon", "avx512", "avx2", "sse41", "sse2"}
  BY <1>1 DEF HashManyKernel
<1>3. Power[0] = 1 /\ Power[1] = 2 /\ Power[2] = 4 /\ Power[3] = 8 /\ Power[4] = 16
  <2>1. /\ Power[0] = 1 /\ Power[0 + 1] = 2 * Power[0] /\ Power[1 + 1] = 2 * Power[1]
        /\ Power[2 + 1] = 2 * Power[2] /\ Power[3 + 1] = 2 * Power[3]
    BY PowerUnfolds
  <2> QED BY <2>1
<1>4. simd_degree(c) \in {1, 4, 8, 16}
  BY <1>2 DEF simd_degree
<1> QED BY <1>2, <1>3, <1>4 DEF Kernels

\* The chaining values cv of a lane.
Links(cv, n, blocks, kwd, counter, flags, start, end) ==
  /\ cv[0] = kwd
  /\ \A k \in 0 .. n - 1 :
       cv[k + 1] = Compress(cv[k], blocks[k + 1], BLOCK_LEN, counter,
                            flags \cup (IF k = 0 THEN start ELSE {})
                                  \cup (IF k + 1 = n THEN end ELSE {}))

\* hash_one is a chain over the blocks of its input.
LEMMA HashOneUnfolds ==
  ASSUME NEW n, NEW blocks, NEW kwd, NEW counter, NEW flags, NEW start, NEW end,
         Listed(blocks, n)
  PROVE  \E cv : /\ Links(cv, n, blocks, kwd, counter, flags, start, end)
                 /\ HashOne(blocks, kwd, counter, flags, start, end) = cv[n]
<1> DEFINE Step(x, k) == Compress(x, blocks[k], BLOCK_LEN, counter,
                                  flags \cup (IF k = 1 THEN start ELSE {})
                                        \cup (IF k = n THEN end ELSE {}))
           Def(fn, l) == [k \in 0 .. l |-> IF k = 0 THEN kwd ELSE Step(fn[k - 1], k)]
           Has == {l \in Nat : \E fn : fn = Def(fn, l)}
<1>0. n \in Nat /\ Len(blocks) = n
  BY ListedIs
<1> HIDE DEF Step
<1>1. 0 \in Has
  <2> DEFINE fn == [k \in 0 .. 0 |-> kwd]
  <2>1. fn = Def(fn, 0)
    OBVIOUS
  <2> QED BY <2>1
<1>2. ASSUME NEW l \in Nat, l \in Has PROVE l + 1 \in Has
  <2>1. PICK fn : fn = Def(fn, l)
    BY <1>2
  <2> DEFINE G == [k \in 0 .. l + 1 |-> IF k <= l THEN fn[k] ELSE Step(fn[l], l + 1)]
  <2>2. ASSUME NEW k \in 0 .. l + 1 PROVE G[k] = IF k = 0 THEN kwd ELSE Step(G[k - 1], k)
    <3>1. CASE k = 0
      BY <2>1, <3>1
    <3>2. CASE k \in 1 .. l
      BY <2>1, <3>2
    <3>3. CASE k = l + 1
      BY <2>1, <3>3
    <3> QED BY <3>1, <3>2, <3>3
  <2>3. G = Def(G, l + 1)
    BY <2>2
  <2> HIDE DEF G
  <2> QED BY <2>3
<1> HIDE DEF Has
<1>3. n \in Has
  <2>1. \A k \in 0 .. n - 1 : k \in Has => k + 1 \in Has
    BY <1>2
  <2>2. 0 .. n \subseteq Has
    BY Zenon, <1>0, <1>1, <2>1, Induction
  <2> QED BY <1>0, <2>2
<1> DEFINE cv == CHOOSE fn : fn = Def(fn, n)
<1>4. cv = Def(cv, n)
  BY <1>3 DEF Has
<1>5. HashOne(blocks, kwd, counter, flags, start, end) = cv[n]
  BY <1>0 DEF HashOne, Step
<1> HIDE DEF cv
<1>6. cv[0] = kwd
  BY <1>0, <1>4
<1>7. ASSUME NEW k \in 0 .. n - 1 PROVE cv[k + 1] = Step(cv[k], k + 1)
  <2>1. k + 1 \in 0 .. n /\ k + 1 # 0 /\ k + 1 - 1 = k
    BY <1>0
  <2>2. \A j \in 0 .. n : j # 0 => cv[j] = Step(cv[j - 1], j)
    BY <1>4
  <2> QED BY <2>1, <2>2
<1>8. ASSUME NEW k \in 0 .. n - 1 PROVE k + 1 = 1 <=> k = 0
  OBVIOUS
<1>9. Links(cv, n, blocks, kwd, counter, flags, start, end)
  BY <1>6, <1>7, <1>8 DEF Step, Links
<1> QED BY <1>5, <1>9

\* Each of n inputs, hashed in its lane with its counter.
Hashed(out, n, inputs, kwd, counter, inc, flags, start, end) ==
  /\ Listed(out, n)
  /\ \A I \in 1 .. n :
       out[I] = HashOne(inputs[I], kwd, Counter(counter + Delta(I - 1, inc)), flags, start, end)

\* hash_many hashes each input with its own counter, whatever the kernel.
LEMMA HashManyIs ==
  ASSUME cpu \in Cpus, NEW n, NEW inputs, Listed(inputs, n), NEW kwd, NEW counter \in Nat,
         NEW inc, NEW flags, NEW start, NEW end
  PROVE  Hashed(hash_many(inputs, kwd, counter, inc, flags, start, end),
                n, inputs, kwd, counter, inc, flags, start, end)
<1> DEFINE kernel == HashManyKernel(cpu)
           words == ManyCounters(kernel, Widths(kernel), counter, inc, n)
<1>1. kernel \in Kernels
  BY KernelIs
<1>2. n \in Nat /\ DOMAIN inputs = 1 .. n /\ Len(inputs) = n
  BY ListedIs
<1> HIDE DEF kernel
<1>3. words = [I \in 1 .. n |-> Counter(counter + Delta(I - 1, inc))]
  BY <1>1, <1>2, CountersCorrect
<1>4. hash_many(inputs, kwd, counter, inc, flags, start, end) =
        [I \in 1 .. n |-> HashOne(inputs[I], kwd, words[I], flags, start, end)]
  BY <1>2 DEF hash_many, kernel
<1> HIDE DEF words
<1> DEFINE out == [I \in 1 .. n |-> HashOne(inputs[I], kwd, Counter(counter + Delta(I - 1, inc)),
                                           flags, start, end)]
<1>5. hash_many(inputs, kwd, counter, inc, flags, start, end) = out
  BY <1>3, <1>4
<1>6. Hashed(out, n, inputs, kwd, counter, inc, flags, start, end)
  BY <1>2 DEF Hashed, Listed
<1> HIDE DEF out
<1> QED BY <1>5, <1>6

\* The code's chaining value of an output is the reference's.
LEMMA RefCvIs ==
  ASSUME NEW o
  PROVE  /\ RefCv(o) = Compress(o.cv, o.block, o.len, Counter(o.counter), o.flags)
         /\ ChainingValue(o) = RefCv(o)
BY DEF RefCv, Compress, ChainingValue, Counter, Low, High

\* The chain of a chunk, link by link.
LEMMA ChainUnfolds ==
  ASSUME NEW from, NEW kwd, NEW flags
  PROVE  /\ RefChain(from, kwd, flags)[0] = kwd
         /\ \A b \in 0 .. CHUNK_LEN \div BLOCK_LEN - 1 :
              RefChain(from, kwd, flags)[b + 1] =
                Compress(RefChain(from, kwd, flags)[b], Piece(from + 2 * b, 2), 2,
                         Counter(from \div CHUNK_LEN),
                         flags \cup (IF b = 0 THEN {"CHUNK_START"} ELSE {}))
<1> DEFINE n == CHUNK_LEN \div BLOCK_LEN
           Step(x, k) ==
             RefCv([cv |-> x, block |-> Piece(from + BLOCK_LEN * (k - 1), BLOCK_LEN),
                    len |-> BLOCK_LEN, counter |-> from \div CHUNK_LEN,
                    flags |-> flags \cup (IF k = 1 THEN {"CHUNK_START"} ELSE {})])
           Def(fn, l) == [k \in 0 .. l |-> IF k = 0 THEN kwd ELSE Step(fn[k - 1], k)]
           Has == {l \in Nat : \E fn : fn = Def(fn, l)}
<1>0. n \in Nat /\ BLOCK_LEN = 2
  BY SizesAre
<1> HIDE DEF Step, n
<1>1. 0 \in Has
  <2> DEFINE fn == [k \in 0 .. 0 |-> kwd]
  <2>1. fn = Def(fn, 0)
    OBVIOUS
  <2> QED BY <2>1
<1>2. ASSUME NEW l \in Nat, l \in Has PROVE l + 1 \in Has
  <2>1. PICK fn : fn = Def(fn, l)
    BY <1>2
  <2> DEFINE G == [k \in 0 .. l + 1 |-> IF k <= l THEN fn[k] ELSE Step(fn[l], l + 1)]
  <2>2. ASSUME NEW k \in 0 .. l + 1 PROVE G[k] = IF k = 0 THEN kwd ELSE Step(G[k - 1], k)
    <3>1. CASE k = 0
      BY <2>1, <3>1
    <3>2. CASE k \in 1 .. l
      BY <2>1, <3>2
    <3>3. CASE k = l + 1
      BY <2>1, <3>3
    <3> QED BY <3>1, <3>2, <3>3
  <2>3. G = Def(G, l + 1)
    BY <2>2
  <2> HIDE DEF G
  <2> QED BY <2>3
<1> HIDE DEF Has
<1>3. n \in Has
  <2>1. 0 .. n \subseteq Has
    BY <1>0, <1>1, <1>2, Induction
  <2> QED BY <1>0, <2>1
<1> DEFINE cv == CHOOSE fn : fn = Def(fn, n)
<1>4. cv = Def(cv, n)
  BY <1>3 DEF Has
<1>5. RefChain(from, kwd, flags) = cv
  BY DEF RefChain, Step, n
<1> HIDE DEF cv
<1>6. cv[0] = kwd
  BY <1>0, <1>4
<1>7. ASSUME NEW k \in 0 .. n - 1 PROVE cv[k + 1] = Step(cv[k], k + 1)
  <2>1. k + 1 \in 0 .. n /\ k + 1 # 0 /\ k + 1 - 1 = k
    BY <1>0
  <2>2. \A j \in 0 .. n : j # 0 => cv[j] = Step(cv[j - 1], j)
    BY <1>4
  <2> QED BY <2>1, <2>2
<1>8. ASSUME NEW x, NEW k \in 0 .. n - 1
      PROVE  Step(x, k + 1) = Compress(x, Piece(from + 2 * k, 2), 2, Counter(from \div CHUNK_LEN),
                                       flags \cup (IF k = 0 THEN {"CHUNK_START"} ELSE {}))
  <2> DEFINE j == k + 1
  <2>1. j - 1 = k /\ (j = 1 <=> k = 0) /\ k \in Int
    BY <1>0
  <2> HIDE DEF j
  <2>2. Step(x, j) =
          RefCv([cv |-> x, block |-> Piece(from + 2 * k, 2), len |-> 2,
                 counter |-> from \div CHUNK_LEN,
                 flags |-> flags \cup (IF k = 0 THEN {"CHUNK_START"} ELSE {})])
    BY <1>0, <2>1 DEF Step
  <2>3. Step(x, k + 1) =
          RefCv([cv |-> x, block |-> Piece(from + 2 * k, 2), len |-> 2,
                 counter |-> from \div CHUNK_LEN,
                 flags |-> flags \cup (IF k = 0 THEN {"CHUNK_START"} ELSE {})])
    BY <2>2 DEF j
  <2> QED BY <2>3, RefCvIs
<1> QED BY <1>5, <1>6, <1>7, <1>8 DEF n

-----------------------------------------------------------------------------
(* Pieces of the message.                                                  *)

\* The length and the bytes of a piece of the message.
LEMMA PieceIs ==
  ASSUME NEW f, NEW n \in Nat
  PROVE  /\ Listed(Piece(f, n), n) /\ Len(Piece(f, n)) = n
         /\ Piece(f, n) = << >> <=> n = 0
         /\ \A I \in 1 .. n : Piece(f, n)[I] = Byte(f + I - 1)
<1>1. Listed(Piece(f, n), n)
  BY DEF Piece, Listed
<1>2. Len(Piece(f, n)) = n
  BY <1>1, ListedIs
<1>3. \A I \in 1 .. n : Piece(f, n)[I] = Byte(f + I - 1)
  BY DEF Piece
<1>4. Piece(f, n) = << >> => n = 0
  BY <1>2
<1>5. n = 0 => Piece(f, n) = << >>
  <2> SUFFICES ASSUME n = 0 PROVE Piece(f, n) = << >>
    OBVIOUS
  <2>1. Listed(Piece(f, n), 0)
    BY <1>1
  <2> QED BY <2>1, ListedEmpty, ListedEqual
<1> QED BY <1>1, <1>2, <1>3, <1>4, <1>5

\* A piece of a piece of the message is a piece of the message.
LEMMA PieceSlice ==
  ASSUME NEW f \in Int, NEW n \in Nat, NEW a \in Nat \ {0}, NEW b \in Nat, a <= b + 1, b <= n
  PROVE  Slice(Piece(f, n), a, b) = Piece(f + a - 1, b + 1 - a)
<1>1. Listed(Piece(f, n), n) /\ \A I \in 1 .. n : Piece(f, n)[I] = Byte(f + I - 1)
  BY PieceIs
<1> DEFINE p == Piece(f, n)
           q == Piece(f + a - 1, b + 1 - a)
           M == b + 1 - a
<1>2. M \in Nat
  OBVIOUS
<1> HIDE DEF M
<1>3. Listed(q, M) /\ \A I \in 1 .. M : q[I] = Byte(f + a - 1 + I - 1)
  BY <1>2, PieceIs DEF M
<1> HIDE DEF p, q
<1>4. Listed(Slice(p, a, b), M) /\ \A I \in 1 .. M : Slice(p, a, b)[I] = p[a + I - 1]
  BY <1>1, ListedSubSeq DEF p, M
<1>5. ASSUME NEW I \in 1 .. M PROVE Slice(p, a, b)[I] = q[I]
  <2>1. a + I - 1 \in 1 .. n /\ f + (a + I - 1) - 1 = f + a - 1 + I - 1
    BY <1>2 DEF M
  <2>2. p[a + I - 1] = Byte(f + (a + I - 1) - 1)
    BY <1>1, <2>1 DEF p
  <2> QED BY <1>3, <1>4, <2>1, <2>2
<1>6. Slice(p, a, b) = q
  BY <1>3, <1>4, <1>5, ListedEqual
<1> QED BY <1>6 DEF p, q

-----------------------------------------------------------------------------
(* The state of a chunk: b whole blocks, and k bytes in the buffer.        *)

Buffered(at, k) == [I \in 1 .. 2 |-> IF I <= k THEN Byte(at + I - 1) ELSE <<"zero">>]

Chunk(cv, counter, buf, len, blocks, flags) ==
  [cv |-> cv, counter |-> counter, buf |-> buf, buf_len |-> len, blocks |-> blocks, flags |-> flags]

ChunkState(counter, b, k, kwd, flags) ==
  Chunk(RefChain(CHUNK_LEN * counter, kwd, flags)[b], counter,
        Buffered(CHUNK_LEN * counter + 2 * b, k), k, b, flags)

\* A block is compressed when another byte follows it.
WholeBlocks(n) == IF n = 0 THEN 0 ELSE (n - 1) \div 2
ChunkAt(counter, n, kwd, flags) ==
  ChunkState(counter, WholeBlocks(n), n - 2 * WholeBlocks(n), kwd, flags)

\* The two updates of it that set a pair of fields.
WithBuf(c, x, Y) == [c EXCEPT !.buf = x, !.buf_len = Y]
WithCv(c, x, Y) == [c EXCEPT !.cv = x, !.blocks = Y]

\* An update of the fields of a chunk state.
LEMMA ChunkExcept ==
  ASSUME NEW a, NEW b, NEW c, NEW d, NEW e, NEW f, NEW x, NEW Y
  PROVE  /\ WithBuf(Chunk(a, b, c, d, e, f), x, Y) = Chunk(a, b, x, Y, e, f)
         /\ WithCv(Chunk(a, b, c, d, e, f), x, Y) = Chunk(x, b, c, d, Y, f)
<1> DEFINE K == Chunk(a, b, c, d, e, f)
           s == Chunk(a, b, x, d, e, f)
           L == Chunk(x, b, c, d, e, f)
<1>1. s = [K EXCEPT !.buf = x] /\ L = [K EXCEPT !.cv = x]
  BY DEF Chunk
<1>2. [s EXCEPT !.buf_len = Y] = Chunk(a, b, x, Y, e, f)
  BY DEF Chunk
<1>3. [L EXCEPT !.blocks = Y] = Chunk(x, b, c, d, Y, f)
  BY DEF Chunk
<1> HIDE DEF K, s, L
<1>4. [K EXCEPT !.buf = x, !.buf_len = Y] = [s EXCEPT !.buf_len = Y]
  BY <1>1
<1>5. [K EXCEPT !.cv = x, !.blocks = Y] = [L EXCEPT !.blocks = Y]
  BY <1>1
<1> QED BY <1>2, <1>3, <1>4, <1>5 DEF K, WithBuf, WithCv

\* The fields of a chunk state.
LEMMA ChunkFields ==
  ASSUME NEW a, NEW b, NEW c, NEW d, NEW e, NEW f
  PROVE  LET K == Chunk(a, b, c, d, e, f)
         IN K.cv = a /\ K.counter = b /\ K.buf = c /\ K.buf_len = d /\ K.blocks = e /\ K.flags = f
BY DEF Chunk

\* fill_buf adds the next bytes of the message to the buffer.
LEMMA FillState ==
  ASSUME NEW counter \in Nat, NEW b \in Nat, NEW k \in 0 .. 2, NEW kwd, NEW flags, NEW n \in Nat
  PROVE  FillBuf(ChunkState(counter, b, k, kwd, flags),
                 Piece(CHUNK_LEN * counter + 2 * b + k, n)) =
           ChunkState(counter, b, IF 2 - k <= n THEN 2 ELSE k + n, kwd, flags)
<1> DEFINE c == ChunkState(counter, b, k, kwd, flags)
           at == CHUNK_LEN * counter + 2 * b
           p == Piece(at + k, n)
           take == Min({2 - k, n})
           v == RefChain(CHUNK_LEN * counter, kwd, flags)[b]
<1>1. at \in Nat
  BY SizesAre
<1>2. Len(p) = n /\ \A I \in 1 .. n : p[I] = Byte(at + k + I - 1)
  BY PieceIs
<1>3. c = Chunk(v, counter, Buffered(at, k), k, b, flags)
  BY DEF ChunkState
<1>4. ChunkState(counter, b, k + take, kwd, flags) =
        Chunk(v, counter, Buffered(at, k + take), k + take, b, flags)
  BY DEF ChunkState
<1>5. take = (IF 2 - k <= n THEN 2 - k ELSE n) /\ take \in Nat /\ take <= n
  BY MinIs
<1>6. k + take = IF 2 - k <= n THEN 2 ELSE k + n
  BY <1>5
<1> HIDE DEF c, at, p, take, v
<1>10. BLOCK_LEN = 2 /\ c.buf_len = k /\ c.buf = Buffered(at, k)
  BY <1>3, SizesAre, ChunkFields
<1>11. Min({BLOCK_LEN - c.buf_len, Len(p)}) = take
  BY <1>2, <1>10 DEF take
<1>7. FillBuf(c, p) =
        WithBuf(c, [I \in 1 .. 2 |-> IF I \in (k + 1) .. (k + take)
                                     THEN p[I - k] ELSE Buffered(at, k)[I]], k + take)
  BY <1>10, <1>11 DEF FillBuf, WithBuf
<1>8. [I \in 1 .. 2 |-> IF I \in (k + 1) .. (k + take) THEN p[I - k] ELSE Buffered(at, k)[I]]
        = Buffered(at, k + take)
  <2>1. ASSUME NEW I \in 1 .. 2
        PROVE  (IF I \in (k + 1) .. (k + take) THEN p[I - k] ELSE Buffered(at, k)[I])
                 = IF I <= k + take THEN Byte(at + I - 1) ELSE <<"zero">>
    <3>1. CASE I \in (k + 1) .. (k + take)
      <4>1. I - k \in 1 .. n /\ at + k + (I - k) - 1 = at + I - 1
        BY <1>1, <1>5, <3>1
      <4>2. p[I - k] = Byte(at + k + (I - k) - 1)
        BY <1>2, <4>1
      <4> QED BY <1>5, <3>1, <4>1, <4>2
    <3>2. CASE I \notin (k + 1) .. (k + take)
      BY <1>5, <3>2 DEF Buffered
    <3> QED BY <3>1, <3>2
  <2> QED BY <2>1 DEF Buffered
<1>9. FillBuf(c, p) =
        Chunk(v, counter, Buffered(at, k + take), k + take, b, flags)
  BY <1>3, <1>7, <1>8, ChunkExcept
<1> QED BY <1>4, <1>6, <1>9 DEF c, p, at

\* Compressing a block moves the chunk on by a block.
LEMMA CompressState ==
  ASSUME NEW counter \in Nat, NEW b \in 0 .. CHUNK_LEN \div BLOCK_LEN - 1, NEW kwd, NEW flags
  PROVE  /\ CompressBlock(ChunkState(counter, b, 0, kwd, flags),
                          Piece(CHUNK_LEN * counter + 2 * b, 2)) =
              ChunkState(counter, b + 1, 0, kwd, flags)
         /\ CompressBuf(ChunkState(counter, b, 2, kwd, flags)) =
              ChunkState(counter, b + 1, 0, kwd, flags)
<1> DEFINE from == CHUNK_LEN * counter
           at == from + 2 * b
           block == Piece(at, 2)
           start == IF b = 0 THEN {"CHUNK_START"} ELSE {}
           cv == RefChain(from, kwd, flags)[b]
           next == RefChain(from, kwd, flags)[b + 1]
           zero == [I \in 1 .. 2 |-> <<"zero">>]
<1>1. from \in Nat /\ at \in Nat /\ b \in Nat /\ from \div CHUNK_LEN = counter
  <2>1. CHUNK_LEN \in Nat \ {0}
    BY SizesAre
  <2>2. (0 + CHUNK_LEN * counter) \div CHUNK_LEN = counter
    BY <2>1, Quotient
  <2>3. 0 + CHUNK_LEN * counter = CHUNK_LEN * counter /\ CHUNK_LEN * counter \in Nat
    BY <2>1
  <2>4. 2 * b \in Nat /\ b \in Nat
    BY SizesAre
  <2> QED BY <2>2, <2>3, <2>4
<1>2. next = Compress(cv, block, 2, Counter(counter), flags \cup start)
  <2>1. next = Compress(cv, block, 2, Counter(from \div CHUNK_LEN), flags \cup start)
    <3> HIDE DEF from
    <3>1. b \in 0 .. CHUNK_LEN \div BLOCK_LEN - 1
      OBVIOUS
    <3> QED BY <3>1, ChainUnfolds
  <2> QED BY <1>1, <2>1
<1>3. Buffered(at, 2) = block
  <2>1. \A I \in 1 .. 2 : Buffered(at, 2)[I] = Byte(at + I - 1) /\ block[I] = Byte(at + I - 1)
    BY DEF Buffered, Piece
  <2> QED BY DEF Buffered, Piece
<1>4. \A x : Buffered(x, 0) = zero
  BY DEF Buffered
<1>5. ZeroBlock = zero
  BY SizesAre DEF ZeroBlock
<1> HIDE DEF cv, next, block, start, zero, at
<1>6. /\ ChunkState(counter, b, 0, kwd, flags) =
           Chunk(cv, counter, zero, 0, b, flags)
      /\ ChunkState(counter, b, 2, kwd, flags) =
           Chunk(cv, counter, block, 2, b, flags)
      /\ ChunkState(counter, b + 1, 0, kwd, flags) =
           Chunk(next, counter, zero, 0, b + 1, flags)
  BY <1>3, <1>4 DEF ChunkState, cv, next, at
<1>7. ASSUME NEW buf, NEW len
      PROVE  CompressBlock(Chunk(cv, counter, buf, len, b, flags), block) =
               Chunk(next, counter, buf, len, b + 1, flags)
  <2> DEFINE c == Chunk(cv, counter, buf, len, b, flags)
  <2>1. c.cv = cv /\ c.counter = counter /\ c.flags = flags /\ c.blocks = b
    BY ChunkFields
  <2>2. WithCv(c, next, b + 1) = Chunk(next, counter, buf, len, b + 1, flags)
    BY ChunkExcept
  <2> HIDE DEF c
  <2>3. StartFlag(c) = start
    BY <2>1 DEF StartFlag, start
  <2>4. Compress(c.cv, block, BLOCK_LEN, Counter(c.counter), c.flags \cup StartFlag(c)) = next
    BY <1>2, <2>1, <2>3, SizesAre
  <2>5. CompressBlock(c, block) = WithCv(c, next, b + 1)
    BY <2>1, <2>4 DEF CompressBlock, WithCv
  <2> QED BY <2>2, <2>5 DEF c
<1>8. CompressBlock(ChunkState(counter, b, 0, kwd, flags), block) =
        ChunkState(counter, b + 1, 0, kwd, flags)
  BY <1>6, <1>7
<1>9. CompressBuf(ChunkState(counter, b, 2, kwd, flags)) = ChunkState(counter, b + 1, 0, kwd, flags)
  <2> DEFINE c == ChunkState(counter, b, 2, kwd, flags)
             K == Chunk(next, counter, block, 2, b + 1, flags)
  <2>1. c.buf = block /\ CompressBlock(c, block) = K
    BY <1>6, <1>7, ChunkFields
  <2>2. WithBuf(K, zero, 0) = Chunk(next, counter, zero, 0, b + 1, flags)
    BY ChunkExcept
  <2> HIDE DEF c, K
  <2>3. CompressBuf(c) = WithBuf(K, zero, 0)
    BY <1>5, <2>1 DEF CompressBuf, WithBuf
  <2> QED BY <1>6, <2>2, <2>3 DEF c
<1> QED BY <1>8, <1>9 DEF block, at

\* All blocks but the last, which is kept in the buffer.
LEMMA WholeBlocksIs ==
  ASSUME NEW n \in Nat
  PROVE  /\ WholeBlocks(n) \in Nat /\ n - 2 * WholeBlocks(n) \in 0 .. 2
         /\ n # 0 => n - 2 * WholeBlocks(n) \in 1 .. 2
         /\ n = 0 => WholeBlocks(n) = 0
         /\ \A b \in Nat, k \in 1 .. 2 : n = 2 * b + k => b = WholeBlocks(n)
BY DEF WholeBlocks

\* Feeding blocks to a chunk whose buffer is empty.
LEMMA FeedState ==
  ASSUME NEW counter \in Nat, NEW b \in Nat, NEW kwd, NEW flags, NEW n \in Nat,
         2 * b + n <= CHUNK_LEN
  PROVE  FeedBlocks(ChunkState(counter, b, 0, kwd, flags),
                    Piece(CHUNK_LEN * counter + 2 * b, n)) =
           ChunkState(counter, b + WholeBlocks(n), n - 2 * WholeBlocks(n), kwd, flags)
<1> DEFINE at == CHUNK_LEN * counter + 2 * b
           p == Piece(at, n)
           c == ChunkState(counter, b, 0, kwd, flags)
           whole == WholeBlocks(n)
           Step(x, k) == CompressBlock(x, SubSeq(p, BLOCK_LEN * (k - 1) + 1, BLOCK_LEN * k))
           Def(fn, l) == [k \in 0 .. l |-> IF k = 0 THEN c ELSE Step(fn[k - 1], k)]
           fed(k) == ChunkState(counter, b + k, 0, kwd, flags)
<1>1. whole \in Nat /\ n - 2 * whole \in 0 .. 2 /\ at \in Nat /\ BLOCK_LEN = 2
  <2>1. CHUNK_LEN * counter \in Nat /\ BLOCK_LEN = 2
    BY SizesAre
  <2> QED BY <2>1, WholeBlocksIs
<1>2. whole = IF p = << >> THEN 0 ELSE (Len(p) - 1) \div BLOCK_LEN
  BY <1>1, PieceIs DEF WholeBlocks
<1>3. ASSUME NEW k \in 1 .. whole PROVE fed(k) = Step(fed(k - 1), k)
  <2>1. /\ 2 * (k - 1) + 1 \in Nat \ {0} /\ 2 * k \in Nat /\ 2 * (k - 1) + 1 <= 2 * k + 1
        /\ 2 * k <= n /\ b + (k - 1) \in 0 .. CHUNK_LEN \div BLOCK_LEN - 1
        /\ b + (k - 1) + 1 = b + k
    BY <1>1, SizesAre DEF WholeBlocks
  <2>2. SubSeq(p, 2 * (k - 1) + 1, 2 * k) = Piece(at + (2 * (k - 1) + 1) - 1, 2 * k + 1 - (2 * (k - 1) + 1))
    <3> DEFINE I == 2 * (k - 1) + 1
               j == 2 * k
    <3>1. I \in Nat \ {0} /\ j \in Nat /\ I <= j + 1 /\ j <= n /\ at \in Int
      BY <1>1, <2>1
    <3> HIDE DEF I, j, at
    <3>2. Slice(Piece(at, n), I, j) = Piece(at + I - 1, j + 1 - I)
      BY <3>1, PieceSlice
    <3> QED BY <3>2 DEF I, j, Slice
  <2>3. /\ at + (2 * (k - 1) + 1) - 1 = CHUNK_LEN * counter + 2 * (b + (k - 1))
        /\ 2 * k + 1 - (2 * (k - 1) + 1) = 2
    <3>1. CHUNK_LEN * counter \in Nat
      BY SizesAre
    <3> QED BY <1>1, <3>1
  <2>4. SubSeq(p, 2 * (k - 1) + 1, 2 * k) = Piece(CHUNK_LEN * counter + 2 * (b + (k - 1)), 2)
    BY <2>2, <2>3
  <2>5. CompressBlock(fed(k - 1), Piece(CHUNK_LEN * counter + 2 * (b + (k - 1)), 2)) = fed(k)
    BY <2>1, CompressState
  <2> QED BY <1>1, <2>4, <2>5
<1>4. fed(0) = c
  <2>1. b + 0 = b
    OBVIOUS
  <2> QED BY <2>1
<1>5. n - 2 * whole \in Nat /\ IF 2 - 0 <= n - 2 * whole THEN 2 = n - 2 * whole ELSE TRUE
  BY <1>1
<1>6. SubSeq(p, BLOCK_LEN * whole + 1, Len(p)) = Piece(at + 2 * whole, n - 2 * whole)
  <2>1. Len(p) = n
    BY PieceIs
  <2>2. 2 * whole + 1 \in Nat \ {0} /\ 2 * whole + 1 <= n + 1
    BY <1>1
  <2>3. SubSeq(p, 2 * whole + 1, n) = Piece(at + (2 * whole + 1) - 1, n + 1 - (2 * whole + 1))
    <3> DEFINE I == 2 * whole + 1
    <3>1. I \in Nat \ {0} /\ I <= n + 1 /\ at \in Int /\ n <= n
      BY <1>1, <2>2
    <3> HIDE DEF I, at
    <3>2. Slice(Piece(at, n), I, n) = Piece(at + I - 1, n + 1 - I)
      BY <3>1, PieceSlice
    <3> QED BY <3>2 DEF I, Slice
  <2>4. at + (2 * whole + 1) - 1 = at + 2 * whole /\ n + 1 - (2 * whole + 1) = n - 2 * whole
    BY <1>1
  <2> QED BY <1>1, <2>1, <2>3, <2>4
<1>7. FeedBlocks(c, p) =
        LET f == CHOOSE fn : fn = Def(fn, whole)
        IN FillBuf(f[whole], SubSeq(p, BLOCK_LEN * whole + 1, Len(p)))
  BY <1>2 DEF FeedBlocks
<1> HIDE DEF fed, Step, c, p, whole
<1> DEFINE f == CHOOSE fn : fn = Def(fn, whole)
           G == [k \in 0 .. whole |-> fed(k)]
<1>8. G = Def(G, whole)
  <2>1. ASSUME NEW k \in 0 .. whole PROVE G[k] = IF k = 0 THEN c ELSE Step(G[k - 1], k)
    <3>1. CASE k = 0
      BY <1>4, <3>1
    <3>2. CASE k # 0
      <4>1. k \in 1 .. whole /\ k - 1 \in 0 .. whole
        BY <1>1, <3>2
      <4> QED BY <1>3, <4>1
    <3> QED BY <3>1, <3>2
  <2> QED BY <2>1
<1>9. f = Def(f, whole)
  <2> HIDE DEF G
  <2> QED BY <1>8
<1> HIDE DEF f
<1>10. f[whole] = fed(whole)
  <2> DEFINE S == {k \in 0 .. whole : f[k] = fed(k)}
  <2>1. 0 \in S
    BY <1>1, <1>4, <1>9
  <2>2. ASSUME NEW k \in 0 .. whole - 1, k \in S PROVE k + 1 \in S
    <3>1. k + 1 \in 1 .. whole /\ k + 1 \in 0 .. whole /\ k + 1 # 0 /\ k + 1 - 1 = k
      BY <1>1
    <3>2. \A j \in 0 .. whole : j # 0 => f[j] = Step(f[j - 1], j)
      BY <1>9
    <3>3. f[k + 1] = Step(fed(k), k + 1)
      BY <2>2, <3>1, <3>2
    <3>4. fed(k + 1) = Step(fed(k), k + 1)
      BY <1>3, <3>1
    <3> QED BY <3>1, <3>3, <3>4
  <2> HIDE DEF S
  <2>3. 0 .. whole \subseteq S
    BY <1>1, <2>1, <2>2, Induction
  <2>4. whole \in S
    BY <1>1, <2>3
  <2> QED BY <2>4 DEF S
<1>11. FeedBlocks(c, p) = FillBuf(fed(whole), Piece(at + 2 * whole, n - 2 * whole))
  BY <1>6, <1>7, <1>10 DEF f
<1>12. FillBuf(fed(whole), Piece(at + 2 * whole, n - 2 * whole)) =
         ChunkState(counter, b + whole, n - 2 * whole, kwd, flags)
  <2> DEFINE k == n - 2 * whole
  <2>1. /\ b + whole \in Nat /\ k \in 0 .. 2
        /\ CHUNK_LEN * counter + 2 * (b + whole) + 0 = at + 2 * whole
    <3>1. CHUNK_LEN * counter \in Nat
      BY SizesAre
    <3> QED BY <1>1, <3>1
  <2> HIDE DEF k, at
  <2>2. FillBuf(fed(whole), Piece(CHUNK_LEN * counter + 2 * (b + whole) + 0, k)) =
          ChunkState(counter, b + whole, IF 2 - 0 <= k THEN 2 ELSE 0 + k, kwd, flags)
    BY <2>1, FillState DEF fed
  <2>3. (IF 2 - 0 <= k THEN 2 ELSE 0 + k) = k
    BY <2>1
  <2> QED BY <2>1, <2>2, <2>3 DEF k
<1> QED BY <1>11, <1>12 DEF c, p, whole

\* The fields of a chunk after some blocks.
LEMMA StateFields ==
  ASSUME NEW counter, NEW b, NEW k, NEW kwd, NEW flags
  PROVE  LET c == ChunkState(counter, b, k, kwd, flags)
         IN /\ c.cv = RefChain(CHUNK_LEN * counter, kwd, flags)[b] /\ c.counter = counter
            /\ c.buf = Buffered(CHUNK_LEN * counter + 2 * b, k) /\ c.buf_len = k
            /\ c.blocks = b /\ c.flags = flags
BY ChunkFields DEF ChunkState

\* More bytes of a chunk lead to its next state.
LEMMA UpdateAt ==
  ASSUME NEW counter \in Nat, NEW n \in Nat, NEW len \in Nat, n + len <= CHUNK_LEN,
         NEW kwd, NEW flags
  PROVE  ChunkUpdate(ChunkAt(counter, n, kwd, flags), Piece(CHUNK_LEN * counter + n, len)) =
           ChunkAt(counter, n + len, kwd, flags)
<1> DEFINE St(b, k) == ChunkState(counter, b, k, kwd, flags)
           from == CHUNK_LEN * counter
           b == WholeBlocks(n)
           k == n - 2 * b
           c == St(b, k)
           p == Piece(from + n, len)
           take == Min({2 - k, len})
           rest == SubSeq(p, take + 1, len)
<1>1. from \in Nat /\ BLOCK_LEN = 2 /\ CHUNK_LEN \in Nat /\ from = CHUNK_LEN * counter
  BY SizesAre
<1>2. b \in Nat /\ k \in 0 .. 2 /\ (n # 0 => k \in 1 .. 2) /\ (n = 0 => b = 0) /\ n = 2 * b + k
  BY WholeBlocksIs
<1>3. ChunkAt(counter, n, kwd, flags) = c
  BY DEF ChunkAt
<1>4. c.buf_len = k
  BY StateFields
<1>5. Len(p) = len
  BY PieceIs
<1>6. ASSUME NEW M \in Nat, NEW bb \in Nat, NEW kk \in 1 .. 2, M = 2 * bb + kk
      PROVE  ChunkAt(counter, M, kwd, flags) = St(bb, kk)
  <2>1. bb = WholeBlocks(M) /\ M - 2 * bb = kk
    BY <1>6, WholeBlocksIs
  <2> QED BY <2>1 DEF ChunkAt
<1> HIDE DEF b, k, from
<1>7. CASE n = 0
  <2>1. ChunkUpdate(c, p) = FeedBlocks(c, p)
    <3>1. c.buf_len = 0
      BY <1>2, <1>4, <1>7
    <3> HIDE DEF c, p
    <3> QED BY <3>1 DEF ChunkUpdate
  <2>2. /\ c = St(0, 0) /\ p = Piece(CHUNK_LEN * counter + 2 * 0, len) /\ 2 * 0 + len <= CHUNK_LEN
        /\ 0 \in Nat
    BY <1>1, <1>2, <1>7
  <2> HIDE DEF c, p
  <2>3. FeedBlocks(St(0, 0), Piece(CHUNK_LEN * counter + 2 * 0, len)) =
          St(0 + WholeBlocks(len), len - 2 * WholeBlocks(len))
    BY <2>2, FeedState
  <2>4. 0 + WholeBlocks(len) = WholeBlocks(len) /\ n + len = len
    BY <1>7, WholeBlocksIs
  <2>5. ChunkUpdate(c, p) = St(WholeBlocks(len), len - 2 * WholeBlocks(len))
    BY <2>1, <2>2, <2>3, <2>4
  <2>6. ChunkAt(counter, n + len, kwd, flags) = St(WholeBlocks(len), len - 2 * WholeBlocks(len))
    BY <2>4 DEF ChunkAt
  <2> QED BY <1>1, <1>3, <2>5, <2>6 DEF p
<1>8. CASE n # 0
  <2>1. take = (IF 2 - k <= len THEN 2 - k ELSE len) /\ take \in Nat /\ take <= len
    <3> DEFINE M == 2 - k
    <3>1. M \in Nat
      BY <1>2
    <3> HIDE DEF M
    <3>2. Min({M, len}) = IF M <= len THEN M ELSE len
      BY <3>1, MinIs
    <3> QED BY <3>1, <3>2 DEF M
  <2> HIDE DEF take
  <2>2. rest = Piece(from + n + take, len - take) /\ (rest = << >> <=> len = take)
    <3> DEFINE I == take + 1
    <3>1. I \in Nat \ {0} /\ I <= len + 1 /\ len <= len /\ from + n \in Int
      BY <1>1, <2>1
    <3> HIDE DEF I
    <3>2. Slice(Piece(from + n, len), I, len) = Piece(from + n + I - 1, len + 1 - I)
      BY <3>1, PieceSlice
    <3>3. from + n + I - 1 = from + n + take /\ len + 1 - I = len - take /\ len - take \in Nat
      BY <1>1, <2>1 DEF I
    <3>4. rest = Piece(from + n + take, len - take)
      BY <3>2, <3>3 DEF I, Slice
    <3>5. Piece(from + n + take, len - take) = << >> <=> len - take = 0
      BY <3>3, PieceIs
    <3>6. len - take = 0 <=> len = take
      BY <2>1
    <3> HIDE DEF rest
    <3> QED BY <3>4, <3>5, <3>6
  <2>3. FillBuf(c, p) = St(b, IF 2 - k <= len THEN 2 ELSE k + len)
    <3>1. from + n = CHUNK_LEN * counter + 2 * b + k
      BY <1>1, <1>2
    <3>2. FillBuf(St(b, k), Piece(CHUNK_LEN * counter + 2 * b + k, len)) =
            St(b, IF 2 - k <= len THEN 2 ELSE k + len)
      BY <1>2, FillState
    <3> QED BY <3>1, <3>2, Zenon
  <2>4. ChunkUpdate(c, p) =
          FeedBlocks(IF rest # << >> THEN CompressBuf(FillBuf(c, p)) ELSE FillBuf(c, p), rest)
    <3>1. Min({BLOCK_LEN - c.buf_len, Len(p)}) = take
      BY <1>1, <1>4, <1>5 DEF take
    <3>2. SubSeq(p, Min({BLOCK_LEN - c.buf_len, Len(p)}) + 1, Len(p)) = rest
      BY <1>5, <3>1
    <3>3. c.buf_len # 0
      BY <1>2, <1>4, <1>8
    <3> HIDE DEF c, p, rest
    <3> QED BY <3>2, <3>3 DEF ChunkUpdate
  <2> HIDE DEF rest, c, p
  <2>5. CASE len = take
    <3>1. /\ rest = Piece(from + n + take, 0) /\ rest = << >> /\ k + len \in 1 .. 2
          /\ (IF 2 - k <= len THEN 2 ELSE k + len) = k + len
      BY <1>2, <1>8, <2>1, <2>2, <2>5
    <3>2. ChunkUpdate(c, p) = FeedBlocks(St(b, k + len), << >>)
      BY <2>3, <2>4, <3>1
    <3>3. FeedBlocks(St(b, k + len), << >>) = FillBuf(St(b, k + len), << >>)
      <4> DEFINE s == St(b, k + len)
                 Step(x, j) == CompressBlock(x, SubSeq(<< >>, BLOCK_LEN * (j - 1) + 1, BLOCK_LEN * j))
                 Def(fn) == [j \in 0 .. 0 |-> IF j = 0 THEN s ELSE Step(fn[j - 1], j)]
                 f == CHOOSE fn : fn = Def(fn)
      <4> HIDE DEF s, Step
      <4>1. f[0] = s
        <5>1. [j \in 0 .. 0 |-> s] = Def([j \in 0 .. 0 |-> s])
          OBVIOUS
        <5>2. f = Def(f)
          BY <5>1
        <5> HIDE DEF f
        <5> QED BY <5>2
      <4>2. SubSeq(<< >>, BLOCK_LEN * 0 + 1, 0) = << >>
        <5>1. BLOCK_LEN * 0 + 1 = 1 /\ Listed(<< >>, 0) /\ 0 + 1 - 1 = 0 /\ 1 <= 0 + 1
          BY <1>1, ListedEmpty
        <5>2. Listed(Slice(<< >>, 1, 0), 0 + 1 - 1)
          BY <5>1, ListedSubSeq
        <5>3. Slice(<< >>, 1, 0) = << >>
          BY <5>1, <5>2, ListedEqual
        <5> QED BY <5>1, <5>3 DEF Slice
      <4>3. FeedBlocks(s, << >>) = FillBuf(f[0], SubSeq(<< >>, BLOCK_LEN * 0 + 1, Len(<< >>)))
        BY DEF FeedBlocks, Step
      <4>4. Len(<< >>) = 0
        OBVIOUS
      <4> QED BY <4>1, <4>2, <4>3, <4>4 DEF s
    <3>4. FillBuf(St(b, k + len), << >>) = St(b, k + len)
      <4> DEFINE kk == k + len
      <4>1. kk \in 0 .. 2 /\ kk \in 1 .. 2 /\ Piece(CHUNK_LEN * counter + 2 * b + kk, 0) = << >>
        BY <3>1, PieceIs
      <4> HIDE DEF kk
      <4>2. FillBuf(St(b, kk), Piece(CHUNK_LEN * counter + 2 * b + kk, 0)) =
              St(b, IF 2 - kk <= 0 THEN 2 ELSE kk + 0)
        BY <1>2, <4>1, FillState
      <4>3. (IF 2 - kk <= 0 THEN 2 ELSE kk + 0) = kk
        BY <4>1
      <4> QED BY <4>1, <4>2, <4>3 DEF kk
    <3>5. n + len \in Nat /\ n + len = 2 * b + (k + len)
      BY <1>2
    <3>6. ChunkAt(counter, n + len, kwd, flags) = St(b, k + len)
      BY <1>2, <1>6, <3>1, <3>5
    <3> QED BY <1>1, <1>3, <3>2, <3>3, <3>4, <3>6 DEF p
  <2>6. CASE len # take
    <3> DEFINE K == len - take
               V == WholeBlocks(K)
    <3>0. K \in Nat \ {0} /\ K = len - take
      BY <2>1, <2>6
    <3> HIDE DEF K
    <3>1. /\ take = 2 - k /\ rest # << >> /\ K \in Nat \ {0} /\ 2 - k <= len
          /\ b + 1 \in Nat /\ 2 * (b + 1) + K <= CHUNK_LEN /\ b \in 0 .. CHUNK_LEN \div BLOCK_LEN - 1
          /\ from + n + take = CHUNK_LEN * counter + 2 * (b + 1)
          /\ n + len = 2 * (b + 1) + K
      <4>1. take = 2 - k /\ 2 - k <= len /\ rest # << >> /\ k \in 1 .. 2
        BY <1>2, <1>8, <2>1, <2>2, <2>6
      <4>2. b + 1 \in Nat /\ n + len = 2 * (b + 1) + K /\ n + take = 2 * (b + 1)
        BY <1>2, <3>0, <4>1
      <4>3. 2 * (b + 1) + K <= CHUNK_LEN
        BY <4>2
      <4>4. b \in 0 .. CHUNK_LEN \div BLOCK_LEN - 1
        BY <1>2, <3>0, <4>3, SizesAre
      <4>5. from + n + take = from + 2 * (b + 1)
        BY <1>1, <2>1, <4>2
      <4> QED BY <1>1, <3>0, <4>1, <4>2, <4>3, <4>4, <4>5
    <3>2. FillBuf(c, p) = St(b, 2)
      BY <2>3, <3>1
    <3>3. CompressBuf(St(b, 2)) = St(b + 1, 0)
      BY <3>1, CompressState
    <3>4. ChunkUpdate(c, p) = FeedBlocks(St(b + 1, 0), Piece(CHUNK_LEN * counter + 2 * (b + 1), K))
      BY <2>2, <2>4, <3>0, <3>1, <3>2, <3>3
    <3>5. FeedBlocks(St(b + 1, 0), Piece(CHUNK_LEN * counter + 2 * (b + 1), K)) =
            St(b + 1 + V, K - 2 * V)
      <4> DEFINE bb == b + 1
      <4>1. bb \in Nat /\ K \in Nat /\ 2 * bb + K <= CHUNK_LEN
        BY <3>1
      <4> HIDE DEF bb
      <4> QED BY <4>1, FeedState DEF bb
    <3>6. V \in Nat /\ K - 2 * V \in 1 .. 2
      BY <3>1, WholeBlocksIs
    <3> HIDE DEF V
    <3>7. n + len \in Nat /\ b + 1 + V \in Nat /\ n + len = 2 * (b + 1 + V) + (K - 2 * V)
      BY <1>2, <3>1, <3>6
    <3>8. ChunkAt(counter, n + len, kwd, flags) = St(b + 1 + V, K - 2 * V)
      <4> DEFINE bb == b + 1 + V
                 kk == K - 2 * V
                 M == n + len
      <4> HIDE DEF bb, kk, M
      <4>1. M \in Nat /\ bb \in Nat /\ kk \in 1 .. 2 /\ M = 2 * bb + kk
        BY <3>6, <3>7 DEF bb, kk, M
      <4>2. ChunkAt(counter, M, kwd, flags) = St(bb, kk)
        BY <1>6, <4>1
      <4> QED BY <4>2 DEF bb, kk, M
    <3> QED BY <1>1, <1>3, <3>4, <3>5, <3>8 DEF p
  <2> QED BY <2>5, <2>6
<1> QED BY <1>7, <1>8

\* The reference of a chunk, its definition spelled out.
LEMMA RefChunkIs ==
  ASSUME NEW from, NEW to, NEW kwd, NEW flags
  PROVE  LET b == IF to = from THEN 0 ELSE (to - from - 1) \div BLOCK_LEN
             last == from + BLOCK_LEN * b
         IN RefChunk(from, to, kwd, flags) =
              [cv |-> RefChain(from, kwd, flags)[b],
               block |-> [I \in 1 .. BLOCK_LEN |-> IF last + I <= to THEN Byte(last + I - 1)
                                                   ELSE <<"zero">>],
               len |-> to - last, counter |-> from \div CHUNK_LEN,
               flags |-> flags \cup (IF b = 0 THEN {"CHUNK_START"} ELSE {}) \cup {"CHUNK_END"}]
BY Zenon DEF RefChunk

\* A chunk that is finished is the reference's.
LEMMA OutputAt ==
  ASSUME NEW counter \in Nat, NEW n \in Nat, NEW kwd, NEW flags
  PROVE  /\ ChunkOutput(ChunkAt(counter, n, kwd, flags)) =
              RefChunk(CHUNK_LEN * counter, CHUNK_LEN * counter + n, kwd, flags)
         /\ ChunkLen(ChunkAt(counter, n, kwd, flags)) = n
         /\ ChunkInit(kwd, flags, counter) = ChunkAt(counter, 0, kwd, flags)
<1> DEFINE from == CHUNK_LEN * counter
           b == WholeBlocks(n)
           k == n - 2 * b
           c == ChunkAt(counter, n, kwd, flags)
           start == IF b = 0 THEN {"CHUNK_START"} ELSE {}
<1>1. BLOCK_LEN = 2 /\ from \in Nat /\ from \div CHUNK_LEN = counter
  <2>1. CHUNK_LEN \in Nat \ {0}
    BY SizesAre
  <2>2. (0 + CHUNK_LEN * counter) \div CHUNK_LEN = counter
    BY <2>1, Quotient
  <2>3. 0 + CHUNK_LEN * counter = CHUNK_LEN * counter /\ CHUNK_LEN * counter \in Nat
    BY <2>1
  <2> QED BY <2>2, <2>3, SizesAre
<1>2. b \in Nat /\ k \in 0 .. 2 /\ n = 2 * b + k
  BY WholeBlocksIs
<1>3. /\ c.cv = RefChain(from, kwd, flags)[b] /\ c.counter = counter
      /\ c.buf = Buffered(from + 2 * b, k) /\ c.buf_len = k
      /\ c.blocks = b /\ c.flags = flags
  BY StateFields DEF ChunkAt
<1>4. ChunkLen(c) = n
  BY <1>1, <1>2, <1>3 DEF ChunkLen
<1>5. ChunkInit(kwd, flags, counter) = ChunkAt(counter, 0, kwd, flags)
  <2>1. WholeBlocks(0) = 0
    BY WholeBlocksIs
  <2>2. ChunkAt(counter, 0, kwd, flags) =
          Chunk(RefChain(from, kwd, flags)[0], counter, Buffered(from + 2 * 0, 0), 0, 0, flags)
    BY <2>1 DEF ChunkAt, ChunkState
  <2>3. RefChain(from, kwd, flags)[0] = kwd
    BY ChainUnfolds
  <2>4. Buffered(from + 2 * 0, 0) = ZeroBlock
    BY <1>1 DEF Buffered, ZeroBlock
  <2> QED BY <2>2, <2>3, <2>4 DEF ChunkInit, Chunk
<1> HIDE DEF c, from
<1>6. ChunkOutput(c) =
        [cv |-> RefChain(from, kwd, flags)[b], block |-> Buffered(from + 2 * b, k), len |-> k,
         counter |-> counter, flags |-> flags \cup start \cup {"CHUNK_END"}]
  BY <1>3 DEF ChunkOutput, StartFlag
<1>7. RefChunk(from, from + n, kwd, flags) =
        [cv |-> RefChain(from, kwd, flags)[b], block |-> Buffered(from + 2 * b, k), len |-> k,
         counter |-> counter, flags |-> flags \cup start \cup {"CHUNK_END"}]
  <2>1. (IF from + n = from THEN 0 ELSE ((from + n) - from - 1) \div BLOCK_LEN) = b
    BY <1>1 DEF WholeBlocks
  <2>2. BLOCK_LEN * b = 2 * b /\ (from + n) - (from + 2 * b) = k
    BY <1>1, <1>2
  <2>3. [I \in 1 .. BLOCK_LEN |-> IF from + 2 * b + I <= from + n THEN Byte(from + 2 * b + I - 1)
                                   ELSE <<"zero">>] = Buffered(from + 2 * b, k)
    <3>1. ASSUME NEW I \in 1 .. 2 PROVE from + 2 * b + I <= from + n <=> I <= k
      BY <1>1, <1>2
    <3> HIDE DEF k, b
    <3> QED BY <1>1, <3>1 DEF Buffered
  <2> HIDE DEF b, k, start
  <2> DEFINE x == IF from + n = from THEN 0 ELSE ((from + n) - from - 1) \div BLOCK_LEN
             last == from + BLOCK_LEN * x
  <2>4. RefChunk(from, from + n, kwd, flags) =
          [cv |-> RefChain(from, kwd, flags)[x],
           block |-> [I \in 1 .. BLOCK_LEN |-> IF last + I <= from + n THEN Byte(last + I - 1)
                                               ELSE <<"zero">>],
           len |-> (from + n) - last, counter |-> from \div CHUNK_LEN,
           flags |-> flags \cup (IF x = 0 THEN {"CHUNK_START"} ELSE {}) \cup {"CHUNK_END"}]
    BY RefChunkIs, Zenon
  <2>5. x = b /\ last = from + 2 * b
    BY <2>1, <2>2
  <2>6. (IF x = 0 THEN {"CHUNK_START"} ELSE {}) = start
    BY <2>5 DEF start
  <2> HIDE DEF x, last
  <2> QED BY <1>1, <2>2, <2>3, <2>4, <2>5, <2>6
<1> QED BY <1>4, <1>5, <1>6, <1>7 DEF c, from

\* A whole chunk, hashed in its lane.
LEMMA FullChunk ==
  ASSUME NEW a \in Nat, NEW kwd, NEW flags, NEW blocks, Listed(blocks, CHUNK_LEN \div BLOCK_LEN),
         \A b \in 0 .. CHUNK_LEN \div BLOCK_LEN - 1 :
           blocks[b + 1] = Piece(CHUNK_LEN * a + 2 * b, 2)
  PROVE  HashOne(blocks, kwd, Counter(a), flags, {"CHUNK_START"}, {"CHUNK_END"}) =
           RefCv(RefChunk(CHUNK_LEN * a, CHUNK_LEN * a + CHUNK_LEN, kwd, flags))
<1> DEFINE from == CHUNK_LEN * a
           B == CHUNK_LEN \div BLOCK_LEN
           chain == RefChain(from, kwd, flags)
           Start(k) == IF k = 0 THEN {"CHUNK_START"} ELSE {}
           End(k) == IF k + 1 = B THEN {"CHUNK_END"} ELSE {}
           Link(x, k) == Compress(x, Piece(from + 2 * k, 2), 2, Counter(a), flags \cup Start(k))
<1>1. /\ BLOCK_LEN = 2 /\ B \in Nat \ {0} /\ CHUNK_LEN = 2 * B /\ from \in Nat
      /\ from \div CHUNK_LEN = a
  <2>1. CHUNK_LEN \in Nat \ {0}
    BY SizesAre
  <2>2. (0 + CHUNK_LEN * a) \div CHUNK_LEN = a
    BY <2>1, Quotient
  <2>3. 0 + CHUNK_LEN * a = CHUNK_LEN * a /\ CHUNK_LEN * a \in Nat
    BY <2>1
  <2>4. BLOCK_LEN = 2 /\ B \in Nat /\ CHUNK_LEN = 2 * B /\ CHUNK_LEN >= 2
    BY SizesAre
  <2> HIDE DEF B
  <2>5. B # 0
    BY <2>4
  <2> QED BY <2>2, <2>3, <2>4, <2>5
<1>0. Listed(blocks, B)
  OBVIOUS
<1> HIDE DEF B
<1>2. PICK cv : /\ cv[0] = kwd
                /\ \A k \in 0 .. B - 1 :
                     cv[k + 1] = Compress(cv[k], blocks[k + 1], BLOCK_LEN, Counter(a),
                                          flags \cup Start(k) \cup End(k))
                /\ HashOne(blocks, kwd, Counter(a), flags, {"CHUNK_START"}, {"CHUNK_END"}) = cv[B]
  <2>1. PICK cv : /\ Links(cv, B, blocks, kwd, Counter(a), flags, {"CHUNK_START"}, {"CHUNK_END"})
                  /\ HashOne(blocks, kwd, Counter(a), flags, {"CHUNK_START"}, {"CHUNK_END"}) = cv[B]
    BY <1>0, HashOneUnfolds
  <2> QED BY <2>1, Zenon DEF Links
<1>3. chain[0] = kwd /\ \A k \in 0 .. B - 1 : chain[k + 1] = Link(chain[k], k)
  <2> HIDE DEF from
  <2>1. /\ chain[0] = kwd
        /\ \A k \in 0 .. B - 1 :
             chain[k + 1] = Compress(chain[k], Piece(from + 2 * k, 2), 2, Counter(from \div CHUNK_LEN),
                                     flags \cup Start(k))
    BY ChainUnfolds DEF B
  <2> QED BY <1>1, <2>1
<1>4. \A k \in 0 .. B - 1 : blocks[k + 1] = Piece(from + 2 * k, 2)
  BY DEF B
<1> HIDE DEF chain, from
<1>5. B - 1 \in Nat /\ cv[B - 1] = chain[B - 1]
  <2> DEFINE S == {k \in 0 .. B - 1 : cv[k] = chain[k]}
  <2>1. 0 \in S
    BY <1>1, <1>2, <1>3
  <2>2. ASSUME NEW k \in 0 .. (B - 1) - 1, k \in S PROVE k + 1 \in S
    <3>1. k \in 0 .. B - 1 /\ k + 1 \in 0 .. B - 1 /\ k + 1 # B
      BY <1>1
    <3>2. End(k) = {}
      BY <3>1
    <3>3. cv[k + 1] = Compress(cv[k], Piece(from + 2 * k, 2), 2, Counter(a),
                               flags \cup Start(k) \cup {})
      BY <1>1, <1>2, <1>4, <3>1, <3>2
    <3>4. flags \cup Start(k) \cup {} = flags \cup Start(k)
      OBVIOUS
    <3>5. cv[k + 1] = chain[k + 1]
      BY <1>3, <2>2, <3>1, <3>3, <3>4
    <3> QED BY <3>1, <3>5
  <2> HIDE DEF S
  <2>3. 0 .. B - 1 \subseteq S
    BY <1>1, <2>1, <2>2, Induction
  <2>4. B - 1 \in S
    BY <1>1, <2>3
  <2> QED BY <1>1, <2>4 DEF S
<1> DEFINE last == from + 2 * (B - 1)
           end == flags \cup Start(B - 1) \cup {"CHUNK_END"}
<1>6. cv[B] = Compress(chain[B - 1], Piece(last, 2), 2, Counter(a), end)
  <2> DEFINE k == B - 1
  <2>1. k \in 0 .. B - 1 /\ k + 1 = B
    BY <1>1
  <2> HIDE DEF k
  <2>2. cv[k + 1] = Compress(cv[k], Piece(from + 2 * k, 2), 2, Counter(a),
                             flags \cup Start(k) \cup End(k))
    BY <1>1, <1>2, <1>4, <2>1
  <2>3. End(k) = {"CHUNK_END"}
    BY <2>1
  <2> QED BY <1>5, <2>1, <2>2, <2>3 DEF k
<1>7. RefChunk(from, from + CHUNK_LEN, kwd, flags) =
        [cv |-> chain[B - 1], block |-> Piece(last, 2), len |-> 2, counter |-> a, flags |-> end]
  <2>1. (IF from + CHUNK_LEN = from THEN 0 ELSE ((from + CHUNK_LEN) - from - 1) \div BLOCK_LEN) = B - 1
    <3>1. from + CHUNK_LEN # from /\ (from + CHUNK_LEN) - from - 1 = 1 + 2 * (B - 1)
      BY <1>1
    <3>2. (1 + 2 * (B - 1)) \div 2 = B - 1
      BY <1>1, Quotient
    <3> QED BY <1>1, <3>1, <3>2
  <2>2. BLOCK_LEN * (B - 1) = 2 * (B - 1) /\ (from + CHUNK_LEN) - last = 2 /\ last \in Nat
    BY <1>1
  <2>3. [I \in 1 .. BLOCK_LEN |-> IF last + I <= from + CHUNK_LEN THEN Byte(last + I - 1)
                                   ELSE <<"zero">>] = Piece(last, 2)
    <3>1. ASSUME NEW I \in 1 .. 2 PROVE last + I <= from + CHUNK_LEN
      BY <1>1, <2>2
    <3> HIDE DEF last
    <3> QED BY <1>1, <3>1 DEF Piece
  <2> DEFINE x == IF from + CHUNK_LEN = from THEN 0 ELSE ((from + CHUNK_LEN) - from - 1) \div BLOCK_LEN
             at == from + BLOCK_LEN * x
  <2>4. RefChunk(from, from + CHUNK_LEN, kwd, flags) =
          [cv |-> RefChain(from, kwd, flags)[x],
           block |-> [I \in 1 .. BLOCK_LEN |-> IF at + I <= from + CHUNK_LEN THEN Byte(at + I - 1)
                                               ELSE <<"zero">>],
           len |-> (from + CHUNK_LEN) - at, counter |-> from \div CHUNK_LEN,
           flags |-> flags \cup (IF x = 0 THEN {"CHUNK_START"} ELSE {}) \cup {"CHUNK_END"}]
    BY RefChunkIs, Zenon
  <2>5. x = B - 1 /\ at = last
    BY <2>1, <2>2
  <2>6. (IF x = 0 THEN {"CHUNK_START"} ELSE {}) = Start(B - 1)
    BY <2>5
  <2> HIDE DEF x, at, last, Start
  <2> QED BY <1>1, <2>2, <2>3, <2>4, <2>5, <2>6 DEF chain
<1> HIDE DEF last, end
<1> DEFINE K == RefChunk(from, from + CHUNK_LEN, kwd, flags)
<1>8. K.cv = chain[B - 1] /\ K.block = Piece(last, 2) /\ K.len = 2 /\ K.counter = a /\ K.flags = end
  BY <1>7
<1> HIDE DEF K
<1>9. RefCv(K) = Compress(chain[B - 1], Piece(last, 2), 2, Counter(a), end)
  BY <1>8, RefCvIs
<1> QED BY <1>2, <1>6, <1>9 DEF K, from

-----------------------------------------------------------------------------
(* The reference.                                                          *)

\* What is left of a message of more than one chunk is a part of it.
LEMMA LeftInside ==
  ASSUME NEW n \in Nat, CHUNK_LEN < n
  PROVE  RefLeft(n) \in 1 .. n - 1
<1> DEFINE S == {c \in {CHUNK_LEN * p : p \in Powers} : c < n} \cup {0}
<1>1. CHUNK_LEN \in Nat \ {0} /\ 1 \in Powers
  BY SizesAre, PowersAre, PowerUnfolds
<1>2. CHUNK_LEN \in S
  <2>1. CHUNK_LEN * 1 = CHUNK_LEN
    BY <1>1
  <2> QED BY <1>1, <2>1
<1>3. S \in SUBSET (0 .. n - 1)
  <2>1. ASSUME NEW p \in Powers, CHUNK_LEN * p < n PROVE CHUNK_LEN * p \in 0 .. n - 1
    <3>1. CHUNK_LEN * p \in Nat
      BY PowersAre, ChunksOrder
    <3> QED BY <2>1, <3>1
  <2> QED BY <2>1, <1>1
<1> HIDE DEF S
<1>4. n - 1 \in Nat
  BY <1>1
<1>5. PICK M \in S : \A Y \in S : Y <= M
  BY <1>2, <1>3, <1>4, GreatestNumber
<1>6. S \in SUBSET Int
  BY <1>3
<1>7. Max(S) = M
  BY <1>5, <1>6, MaxIs
<1>8. CHUNK_LEN <= M
  BY <1>2, <1>5
<1> QED BY <1>1, <1>3, <1>5, <1>7, <1>8 DEF RefLeft, S

RefStep(from, n, kwd, flags) ==
  IF n <= CHUNK_LEN THEN RefChunk(from, from + n, kwd, flags)
  ELSE ParentOutput(<<RefCv(RefOutput(from, from + RefLeft(n), kwd, flags)),
                      RefCv(RefOutput(from + RefLeft(n), from + n, kwd, flags))>>, kwd, flags)

\* The recursion of the reference, one step.
LEMMA RefUnfolds ==
  ASSUME NEW from \in Nat, NEW n \in Nat, NEW kwd, NEW flags
  PROVE  RefOutput(from, from + n, kwd, flags) = RefStep(from, n, kwd, flags)
<1> DEFINE Parent(x, Y) == [cv |-> kwd, block |-> <<RefCv(x), RefCv(Y)>>, len |-> BLOCK_LEN,
                            counter |-> 0, flags |-> flags \cup {"PARENT"}]
           Out(fn, k) == [a \in Nat |-> IF k <= CHUNK_LEN THEN RefChunk(a, a + k, kwd, flags)
                                        ELSE Parent(fn[RefLeft(k)][a],
                                                    fn[k - RefLeft(k)][a + RefLeft(k)])]
           Def(fn, l) == [k \in 0 .. l |-> Out(fn, k)]
           Has == {l \in Nat : \E fn : fn = Def(fn, l)}
<1>0. CHUNK_LEN \in Nat
  BY SizesAre
<1>1. ASSUME NEW k \in Nat, NEW f, NEW G, \A j \in 0 .. k - 1 : f[j] = G[j]
      PROVE  Out(f, k) = Out(G, k)
  <2>1. CASE k <= CHUNK_LEN
    BY <2>1
  <2>2. CASE ~ (k <= CHUNK_LEN)
    <3>1. RefLeft(k) \in 0 .. k - 1 /\ k - RefLeft(k) \in 0 .. k - 1
      BY <1>0, <2>2, LeftInside
    <3>2. f[RefLeft(k)] = G[RefLeft(k)] /\ f[k - RefLeft(k)] = G[k - RefLeft(k)]
      BY <1>1, <3>1
    <3> QED BY <3>2
  <2> QED BY <2>1, <2>2
<1> HIDE DEF Out
<1>2. 0 \in Has
  <2> DEFINE G == [k \in 0 .. 0 |-> Out(<< >>, k)]
  <2>1. Out(G, 0) = Out(<< >>, 0)
    <3>1. \A j \in 0 .. 0 - 1 : G[j] = << >>[j]
      OBVIOUS
    <3> HIDE DEF G
    <3> QED BY <1>1, <3>1
  <2>2. G = Def(G, 0)
    <3>1. \A k \in 0 .. 0 : k = 0
      OBVIOUS
    <3> QED BY <2>1, <3>1
  <2> QED BY <2>2
<1>3. ASSUME NEW l \in Nat, l \in Has PROVE l + 1 \in Has
  <2>1. PICK fn : fn = Def(fn, l)
    BY <1>3
  <2> DEFINE G == [k \in 0 .. l + 1 |-> IF k <= l THEN fn[k] ELSE Out(fn, l + 1)]
  <2>2. \A j \in 0 .. l : G[j] = fn[j]
    OBVIOUS
  <2>3. G[l + 1] = Out(fn, l + 1)
    OBVIOUS
  <2> HIDE DEF G
  <2>4. ASSUME NEW k \in 0 .. l + 1 PROVE G[k] = Out(G, k)
    <3>1. Out(G, k) = Out(fn, k)
      <4>1. k \in Nat /\ \A j \in 0 .. k - 1 : G[j] = fn[j]
        BY <2>2
      <4> QED BY <1>1, <4>1
    <3>2. CASE k <= l
      <4>1. k \in 0 .. l
        BY <3>2
      <4> QED BY <2>1, <2>2, <3>1, <4>1
    <3>3. CASE k = l + 1
      BY <2>3, <3>1, <3>3
    <3> QED BY <3>2, <3>3
  <2>5. G = Def(G, l + 1)
    <3>1. DOMAIN G = 0 .. l + 1 /\ G = [k \in 0 .. l + 1 |-> G[k]]
      BY DEF G
    <3> QED BY <2>4, <3>1
  <2> QED BY <2>5
<1> HIDE DEF Has
<1>4. \A l \in Nat : \E fn : fn = Def(fn, l)
  <2> SUFFICES ASSUME NEW l \in Nat PROVE l \in Has
    BY DEF Has
  <2>1. 0 .. l \subseteq Has
    BY <1>2, <1>3, Induction
  <2> QED BY <2>1
<1> DEFINE p(l) == CHOOSE fn : fn = Def(fn, l)
<1>5. ASSUME NEW l \in Nat PROVE p(l) = Def(p(l), l)
  BY <1>4, Zenon
<1> HIDE DEF p
<1>6. ASSUME NEW l \in Nat, NEW k \in 0 .. l PROVE p(l)[k] = Out(p(l), k)
  BY <1>5
<1> HIDE DEF Def
<1> DEFINE f == [k \in Nat |-> p(k)[k]]
           S == {k \in Nat : \A l \in Nat : k <= l => p(l)[k] = f[k]}
<1>7. \A k \in Nat : f[k] = p(k)[k]
  OBVIOUS
<1> HIDE DEF f
<1>8. ASSUME NEW k \in Nat, \A j \in 0 .. k - 1 : j \in S PROVE k \in S
  <2>1. ASSUME NEW l \in Nat, k <= l PROVE p(l)[k] = Out(f, k)
    <3>1. \A j \in 0 .. k - 1 : p(l)[j] = f[j]
      BY <1>8, <2>1
    <3>2. Out(p(l), k) = Out(f, k)
      BY <1>1, <3>1
    <3>3. p(l)[k] = Out(p(l), k)
      BY <1>6, <2>1
    <3> QED BY <3>2, <3>3
  <2>2. f[k] = Out(f, k)
    BY <1>7, <2>1
  <2> QED BY <2>1, <2>2
<1>9. Nat \subseteq S
  <2> HIDE DEF S
  <2> QED BY <1>8, StrongInduction
<1>10. ASSUME NEW k \in Nat PROVE f[k] = Out(f, k)
  <2>1. \A j \in 0 .. k - 1 : p(k)[j] = f[j]
    BY <1>9
  <2>2. Out(p(k), k) = Out(f, k)
    BY <1>1, <2>1
  <2> QED BY <1>6, <1>7, <2>2
<1> DEFINE Eq(G) == G = [k \in Nat |-> Out(G, k)]
           ref == CHOOSE G : Eq(G)
<1>11. Eq(f)
  <2>1. f = [k \in Nat |-> f[k]]
    BY DEF f
  <2> QED BY <1>10, <2>1
<1>12. Eq(ref)
  <2> HIDE DEF Eq
  <2> QED BY <1>11
<1>13. ASSUME NEW a, NEW b PROVE RefOutput(a, b, kwd, flags) = ref[b - a][a]
  BY Zenon DEF RefOutput, Out
<1> HIDE DEF ref
<1>14. ASSUME NEW k \in Nat PROVE ref[k] = Out(ref, k)
  BY <1>12
<1>15. ASSUME NEW a \in Nat, NEW k \in Nat PROVE RefOutput(a, a + k, kwd, flags) = ref[k][a]
  <2>1. (a + k) - a = k
    OBVIOUS
  <2> QED BY <1>13, <2>1
<1>16. n <= CHUNK_LEN =>
         RefOutput(from, from + n, kwd, flags) = RefChunk(from, from + n, kwd, flags)
  <2> SUFFICES ASSUME n <= CHUNK_LEN
               PROVE  RefOutput(from, from + n, kwd, flags) = RefChunk(from, from + n, kwd, flags)
    OBVIOUS
  <2>1. ref[n][from] = RefChunk(from, from + n, kwd, flags)
    BY <1>14 DEF Out
  <2> QED BY <1>15, <2>1
<1>17. ASSUME CHUNK_LEN < n
       PROVE  RefOutput(from, from + n, kwd, flags) =
                Parent(RefOutput(from, from + RefLeft(n), kwd, flags),
                       RefOutput(from + RefLeft(n), from + n, kwd, flags))
  <2> DEFINE left == RefLeft(n)
             right == n - left
             mid == from + left
  <2>1. left \in Nat /\ right \in Nat /\ mid \in Nat /\ mid + right = from + n /\ ~ (n <= CHUNK_LEN)
    BY <1>0, <1>17, LeftInside
  <2>2. ref[n][from] = Parent(ref[left][from], ref[right][mid])
    BY <1>14, <2>1 DEF Out
  <2> HIDE DEF right, mid, Parent
  <2>3. ref[left][from] = RefOutput(from, from + left, kwd, flags)
    BY <1>15, <2>1
  <2>4. ref[right][mid] = RefOutput(mid, from + n, kwd, flags)
    BY <1>15, <2>1
  <2> QED BY <1>15, <2>2, <2>3, <2>4 DEF mid
<1>18. n <= CHUNK_LEN \/ CHUNK_LEN < n
  BY <1>0
<1> HIDE DEF ref, f
<1>19. CASE n <= CHUNK_LEN
  BY <1>16, <1>19 DEF RefStep
<1>20. CASE CHUNK_LEN < n
  <2>1. ~ (n <= CHUNK_LEN)
    BY <1>0, <1>20
  <2>2. RefStep(from, n, kwd, flags) =
          ParentOutput(<<RefCv(RefOutput(from, from + RefLeft(n), kwd, flags)),
                         RefCv(RefOutput(from + RefLeft(n), from + n, kwd, flags))>>, kwd, flags)
    BY <2>1, Zenon DEF RefStep
  <2> QED BY <1>17, <1>20, <2>2 DEF ParentOutput
<1> QED BY <1>18, <1>19, <1>20

-----------------------------------------------------------------------------
(* Complete subtrees.                                                      *)

\* The node over one chunk.
LEMMA LeafNode ==
  ASSUME NEW a \in Nat, NEW kwd, NEW flags
  PROVE  Node(0, a, kwd, flags) =
           RefCv(RefChunk(CHUNK_LEN * a, CHUNK_LEN * a + CHUNK_LEN, kwd, flags))
<1> DEFINE from == CHUNK_LEN * a
<1>1. CHUNK_LEN \in Nat /\ from \in Nat /\ CHUNK_LEN * (a + Power[0]) = from + CHUNK_LEN
  <2>1. CHUNK_LEN \in Nat /\ Power[0] = 1
    BY SizesAre, PowerUnfolds
  <2> QED BY <2>1
<1>2. Node(0, a, kwd, flags) = RefCv(RefOutput(from, from + CHUNK_LEN, kwd, flags))
  BY <1>1 DEF Node
<1> HIDE DEF from
<1>3. CHUNK_LEN <= CHUNK_LEN
  BY <1>1
<1>4. RefOutput(from, from + CHUNK_LEN, kwd, flags) = RefChunk(from, from + CHUNK_LEN, kwd, flags)
  <2>1. RefOutput(from, from + CHUNK_LEN, kwd, flags) = RefStep(from, CHUNK_LEN, kwd, flags)
    BY <1>1, RefUnfolds
  <2> QED BY <1>3, <2>1, Zenon DEF RefStep
<1> QED BY <1>2, <1>4 DEF from

\* The output of complete subtrees of 2^l chunks with more behind the first.
LEMMA RefJoins ==
  ASSUME NEW l \in Bits, NEW a \in Nat, NEW to \in Nat, NEW kwd, NEW flags,
         CHUNK_LEN * (a + Power[l]) < to, to <= CHUNK_LEN * (a + Power[l + 1])
  PROVE  RefOutput(CHUNK_LEN * a, to, kwd, flags) =
           ParentOutput(<<Node(l, a, kwd, flags),
                          RefCv(RefOutput(CHUNK_LEN * (a + Power[l]), to, kwd, flags))>>, kwd, flags)
<1> DEFINE from == CHUNK_LEN * a
           left == CHUNK_LEN * Power[l]
           n == to - from
<1>1. /\ l \in Nat /\ Power[l] \in Nat \ {0} /\ Power[l + 1] \in Nat /\ CHUNK_LEN \in Nat \ {0}
      /\ from \in Nat /\ left \in Nat
  <2>1. l \in Nat /\ CHUNK_LEN \in Nat \ {0}
    BY SizesAre
  <2>2. Power[l] \in Nat \ {0} /\ Power[l + 1] \in Nat
    BY <2>1, PowerUnfolds
  <2> QED BY <2>1, <2>2
<1>2. CHUNK_LEN * (a + Power[l]) = from + left
  BY <1>1
<1>3. CHUNK_LEN * (a + Power[l + 1]) = from + CHUNK_LEN * Power[l + 1]
  BY <1>1
<1>4. n \in Nat /\ left < n /\ n <= CHUNK_LEN * Power[l + 1] /\ from + n = to
  <2>1. CHUNK_LEN * Power[l + 1] \in Nat
    BY <1>1
  <2> HIDE DEF from, left
  <2> QED BY <1>1, <1>2, <1>3, <2>1
<1>5. CHUNK_LEN < n
  <2>1. CHUNK_LEN * 1 <= left
    BY <1>1, ChunksOrder
  <2> HIDE DEF left, n
  <2> QED BY <1>1, <1>4, <2>1
<1> HIDE DEF n
<1>6. RefLeft(n) = left
  BY <1>4, LeftIs
<1>7. Node(l, a, kwd, flags) = RefCv(RefOutput(from, from + left, kwd, flags))
  BY <1>2 DEF Node
<1> HIDE DEF from, left
<1>8. RefOutput(from, from + n, kwd, flags) =
        ParentOutput(<<RefCv(RefOutput(from, from + RefLeft(n), kwd, flags)),
                       RefCv(RefOutput(from + RefLeft(n), from + n, kwd, flags))>>, kwd, flags)
  <2>1. RefOutput(from, from + n, kwd, flags) = RefStep(from, n, kwd, flags)
    BY <1>1, <1>4, RefUnfolds
  <2>2. ~ (n <= CHUNK_LEN)
    BY <1>1, <1>4, <1>5
  <2> QED BY <2>1, <2>2, Zenon DEF RefStep
<1>9. RefOutput(from, to, kwd, flags) =
        ParentOutput(<<Node(l, a, kwd, flags),
                       RefCv(RefOutput(from + left, to, kwd, flags))>>, kwd, flags)
  BY <1>4, <1>6, <1>7, <1>8
<1> QED BY <1>2, <1>9 DEF from

\* The node over twice as many chunks is the parent of its halves.
LEMMA ParentNode ==
  ASSUME NEW l \in Bits, NEW a \in Nat, NEW kwd, NEW flags
  PROVE  /\ RefOutput(CHUNK_LEN * a, CHUNK_LEN * (a + 2 * Power[l]), kwd, flags) =
              ParentOutput(<<Node(l, a, kwd, flags), Node(l, a + Power[l], kwd, flags)>>, kwd, flags)
         /\ Node(l + 1, a, kwd, flags) =
              RefCv(ParentOutput(<<Node(l, a, kwd, flags), Node(l, a + Power[l], kwd, flags)>>,
                                 kwd, flags))
<1> DEFINE mid == a + Power[l]
           to == CHUNK_LEN * (a + 2 * Power[l])
<1>1. /\ l \in Nat /\ Power[l] \in Nat \ {0} /\ Power[l + 1] = 2 * Power[l]
      /\ mid \in Nat /\ mid + Power[l] = a + 2 * Power[l] /\ a + 2 * Power[l] \in Nat
  BY SizesAre, PowerUnfolds
<1>2. to \in Nat /\ CHUNK_LEN * mid < to /\ to <= CHUNK_LEN * (a + Power[l + 1])
  <2>1. mid < a + 2 * Power[l]
    BY <1>1
  <2> HIDE DEF mid
  <2>2. CHUNK_LEN * mid < to /\ to \in Nat
    BY <1>1, <2>1, ChunksOrder
  <2> QED BY <1>1, <2>2
<1>3. RefCv(RefOutput(CHUNK_LEN * mid, to, kwd, flags)) = Node(l, mid, kwd, flags)
  <2> HIDE DEF mid
  <2> QED BY <1>1 DEF Node
<1>4. RefOutput(CHUNK_LEN * a, to, kwd, flags) =
        ParentOutput(<<Node(l, a, kwd, flags),
                       RefCv(RefOutput(CHUNK_LEN * (a + Power[l]), to, kwd, flags))>>, kwd, flags)
  <2> HIDE DEF to
  <2> QED BY <1>2, RefJoins DEF mid
<1>5. Node(l + 1, a, kwd, flags) = RefCv(RefOutput(CHUNK_LEN * a, to, kwd, flags))
  BY <1>1 DEF Node
<1> QED BY <1>3, <1>4, <1>5

-----------------------------------------------------------------------------
(* Layers: the nodes of the q subtrees of 2^l chunks behind chunk a.       *)

Layer(l, a, q, kwd, flags) == [I \in 1 .. q |-> Node(l, a + (I - 1) * Power[l], kwd, flags)]

\* The entries of a layer of nodes.
LEMMA LayerIs ==
  ASSUME NEW l, NEW a, NEW q \in Nat, NEW kwd, NEW flags
  PROVE  /\ Listed(Layer(l, a, q, kwd, flags), q) /\ Len(Layer(l, a, q, kwd, flags)) = q
         /\ \A I \in 1 .. q : Layer(l, a, q, kwd, flags)[I] =
                                Node(l, a + (I - 1) * Power[l], kwd, flags)
<1>1. Listed(Layer(l, a, q, kwd, flags), q)
  BY DEF Layer, Listed
<1>2. Len(Layer(l, a, q, kwd, flags)) = q
  BY <1>1, ListedIs
<1> QED BY <1>1, <1>2 DEF Layer

\* A layer over the chunks of two subtrees.
LEMMA LayersJoin ==
  ASSUME NEW l \in Nat, NEW a \in Nat, NEW q \in Nat, NEW K \in Nat, NEW kwd, NEW flags,
         NEW mid, mid = a + q * Power[l], NEW n, n = q + K
  PROVE  Joined(Layer(l, a, q, kwd, flags), Layer(l, mid, K, kwd, flags)) =
           Layer(l, a, n, kwd, flags)
<1> DEFINE s == Layer(l, a, q, kwd, flags)
           L == Layer(l, mid, K, kwd, flags)
           U == Layer(l, a, q + K, kwd, flags)
<1>1. /\ Listed(s, q) /\ Listed(L, K)
      /\ \A I \in 1 .. q : s[I] = Node(l, a + (I - 1) * Power[l], kwd, flags)
      /\ \A I \in 1 .. K : L[I] = Node(l, mid + (I - 1) * Power[l], kwd, flags)
  BY LayerIs
<1>2. /\ Listed(U, q + K)
      /\ \A I \in 1 .. q + K : U[I] = Node(l, a + (I - 1) * Power[l], kwd, flags)
  <2>1. q + K \in Nat
    OBVIOUS
  <2> QED BY <2>1, LayerIs
<1>3. Power[l] \in Nat
  BY PowerUnfolds
<1>4. ASSUME NEW I \in 1 .. K
      PROVE  mid + (I - 1) * Power[l] = a + ((q + I) - 1) * Power[l] /\ q + I \in 1 .. q + K
  BY <1>3
<1> HIDE DEF s, L, U
<1>0. Listed(s, q) /\ Listed(L, K)
  BY <1>1
<1>5. /\ Listed(Joined(s, L), q + K)
      /\ \A I \in 1 .. q : Joined(s, L)[I] = s[I]
      /\ \A I \in 1 .. K : Joined(s, L)[q + I] = L[I]
  <2>1. Concat(Joined(s, L), s, q, L, K)
    BY <1>0, ListedConcat
  <2> QED BY <2>1 DEF Concat
<1>6. ASSUME NEW I \in 1 .. q + K PROVE Joined(s, L)[I] = U[I]
  <2>1. CASE I \in 1 .. q
    <3>1. Joined(s, L)[I] = s[I]
      BY <1>5, <2>1
    <3>2. s[I] = Node(l, a + (I - 1) * Power[l], kwd, flags)
      BY <1>1, <2>1
    <3> QED BY <1>2, <3>1, <3>2
  <2>2. CASE I \notin 1 .. q
    <3> DEFINE j == I - q
    <3>1. j \in 1 .. K /\ q + j = I
      BY <2>2
    <3> HIDE DEF j
    <3>2. Joined(s, L)[q + j] = L[j]
      BY <1>5, <3>1
    <3>3. L[j] = Node(l, mid + (j - 1) * Power[l], kwd, flags)
      BY <1>1, <3>1
    <3>4. mid + (j - 1) * Power[l] = a + ((q + j) - 1) * Power[l]
      BY <1>4, <3>1
    <3>5. U[I] = Node(l, a + (I - 1) * Power[l], kwd, flags)
      BY <1>2
    <3> QED BY <3>1, <3>2, <3>3, <3>4, <3>5
  <2> QED BY <2>1, <2>2
<1>7. Joined(s, L) = U
  BY <1>2, <1>5, <1>6, ListedEqual
<1> QED BY <1>7 DEF s, L, U

\* The first two of a layer.
LEMMA LayerPair ==
  ASSUME NEW l \in Nat, NEW a \in Nat, NEW kwd, NEW flags
  PROVE  /\ Slice(Layer(l, a, 2, kwd, flags), 1, 2) = Layer(l, a, 2, kwd, flags)
         /\ Layer(l, a, 2, kwd, flags) =
              <<Node(l, a, kwd, flags), Node(l, a + Power[l], kwd, flags)>>
<1> DEFINE s == Layer(l, a, 2, kwd, flags)
<1>1. Listed(s, 2) /\ \A I \in 1 .. 2 : s[I] = Node(l, a + (I - 1) * Power[l], kwd, flags)
  BY LayerIs
<1>2. Power[l] \in Nat
  BY PowerUnfolds
<1>3. s[1] = Node(l, a, kwd, flags)
  <2>1. 1 \in 1 .. 2 /\ a + (1 - 1) * Power[l] = a
    BY <1>2
  <2> HIDE DEF s
  <2>2. s[1] = Node(l, a + (1 - 1) * Power[l], kwd, flags)
    BY <1>1, <2>1
  <2> QED BY <2>1, <2>2
<1>4. s[2] = Node(l, a + Power[l], kwd, flags)
  <2>1. 2 \in 1 .. 2 /\ a + (2 - 1) * Power[l] = a + Power[l]
    BY <1>2
  <2> HIDE DEF s
  <2>2. s[2] = Node(l, a + (2 - 1) * Power[l], kwd, flags)
    BY <1>1, <2>1
  <2> QED BY <2>1, <2>2
<1> HIDE DEF s
<1>5. Slice(s, 1, 2) = s
  <2>1. Listed(Slice(s, 1, 2), 2 + 1 - 1) /\ \A I \in 1 .. 2 + 1 - 1 : Slice(s, 1, 2)[I] = s[1 + I - 1]
    BY <1>1, ListedSubSeq
  <2>2. 2 + 1 - 1 = 2 /\ \A I \in 1 .. 2 : 1 + I - 1 = I
    OBVIOUS
  <2> QED BY <1>1, <2>1, <2>2, ListedEqual
<1>6. s = <<s[1], s[2]>>
  <2> DEFINE x == s[1]
             Y == s[2]
             L == <<x, Y>>
  <2>1. L[1] = x /\ L[2] = Y /\ L = [I \in 1 .. 2 |-> L[I]]
    OBVIOUS
  <2>2. Listed(L, 2)
    BY <2>1 DEF Listed
  <2>3. \A I \in 1 .. 2 : s[I] = L[I]
    <3>1. \A I \in 1 .. 2 : I = 1 \/ I = 2
      OBVIOUS
    <3> HIDE DEF L
    <3> QED BY <2>1, <3>1
  <2> HIDE DEF L
  <2> QED BY <1>1, <2>2, <2>3, ListedEqual DEF L
<1> QED BY <1>3, <1>4, <1>5, <1>6 DEF s

\* Nothing is added by an empty sequence.
LEMMA ConcatEmpty ==
  ASSUME NEW n \in Nat, NEW s, Listed(s, n)
  PROVE  s \o << >> = s
<1> DEFINE e == << >>
<1>1. Listed(e, 0)
  BY ListedEmpty
<1> HIDE DEF e
<1>2. Concat(Joined(s, e), s, n, e, 0)
  BY <1>1, ListedConcat
<1>3. Listed(Joined(s, e), n + 0) /\ \A I \in 1 .. n : Joined(s, e)[I] = s[I]
  BY <1>2 DEF Concat
<1>4. n + 0 = n
  OBVIOUS
<1>5. Joined(s, e) = s
  BY <1>3, <1>4, ListedEqual
<1> QED BY <1>5 DEF Joined, e

\* The parent of two chaining values, in its lane.
LEMMA HashPair ==
  ASSUME NEW x, NEW Y, NEW kwd, NEW flags
  PROVE  HashOne(<< <<x, Y>> >>, kwd, Counter(0), flags \cup {"PARENT"}, {}, {}) =
           RefCv(ParentOutput(<<x, Y>>, kwd, flags))
<1> DEFINE b == <<x, Y>>
           s == <<b>>
           all == flags \cup {"PARENT"}
<1> HIDE DEF b
<1>1. Listed(s, 1) /\ s[1] = b
  BY DEF Listed
<1> HIDE DEF s, all
<1>2. PICK cv : /\ Links(cv, 1, s, kwd, Counter(0), all, {}, {})
                /\ HashOne(s, kwd, Counter(0), all, {}, {}) = cv[1]
  BY <1>1, HashOneUnfolds
<1>3. /\ cv[0] = kwd
      /\ \A k \in 0 .. 1 - 1 :
           cv[k + 1] = Compress(cv[k], s[k + 1], BLOCK_LEN, Counter(0),
                                all \cup (IF k = 0 THEN {} ELSE {})
                                    \cup (IF k + 1 = 1 THEN {} ELSE {}))
  BY <1>2, Zenon DEF Links
<1>4. cv[1] = Compress(kwd, b, BLOCK_LEN, Counter(0), all)
  <2>1. 0 \in 0 .. 1 - 1 /\ 0 + 1 = 1
    OBVIOUS
  <2>2. cv[0 + 1] = Compress(cv[0], s[0 + 1], BLOCK_LEN, Counter(0),
                             all \cup (IF 0 = 0 THEN {} ELSE {}) \cup (IF 0 + 1 = 1 THEN {} ELSE {}))
    BY <1>3, <2>1
  <2>3. all \cup (IF 0 = 0 THEN {} ELSE {}) \cup (IF 0 + 1 = 1 THEN {} ELSE {}) = all
    OBVIOUS
  <2> QED BY <1>1, <1>3, <2>1, <2>2, <2>3
<1> DEFINE o == ParentOutput(b, kwd, flags)
<1>5. o.cv = kwd /\ o.block = b /\ o.len = BLOCK_LEN /\ o.counter = 0 /\ o.flags = all
  BY DEF ParentOutput, all
<1> HIDE DEF o
<1>6. RefCv(o) = Compress(kwd, b, BLOCK_LEN, Counter(0), all)
  BY <1>5, RefCvIs
<1> QED BY <1>2, <1>4, <1>6 DEF o, s, b, all

\* A layer of parents.
LEMMA ParentsOf ==
  ASSUME cpu \in Cpus, NEW l \in Bits, NEW a \in Nat, NEW K \in Nat, NEW kwd, NEW flags
  PROVE  compress_parents_parallel(Layer(l, a, 2 * K, kwd, flags), kwd, flags) =
           Layer(l + 1, a, K, kwd, flags)
<1> DEFINE cvs == Layer(l, a, 2 * K, kwd, flags)
           up == Layer(l + 1, a, K, kwd, flags)
           pairs == [p \in 1 .. K |-> << <<cvs[2 * p - 1], cvs[2 * p]>> >>]
           all == flags \cup {"PARENT"}
<1>1. l \in Nat /\ Power[l] \in Nat /\ Power[l + 1] = 2 * Power[l]
  BY SizesAre, PowerUnfolds
<1>2. /\ Listed(cvs, 2 * K) /\ Len(cvs) = 2 * K
      /\ \A I \in 1 .. 2 * K : cvs[I] = Node(l, a + (I - 1) * Power[l], kwd, flags)
  BY LayerIs
<1>3. (2 * K) \div 2 = K
  <2>1. (0 + 2 * K) \div 2 = K
    BY Quotient
  <2> QED BY <2>1
<1>4. Listed(up, K) /\ \A I \in 1 .. K : up[I] = Node(l + 1, a + (I - 1) * Power[l + 1], kwd, flags)
  BY LayerIs
<1> HIDE DEF cvs, up
<1>5. SubSeq(cvs, 2 * K + 1, 2 * K) = << >>
  <2> DEFINE I == 2 * K + 1
             n == 2 * K
  <2>1. I \in Nat \ {0} /\ n \in Nat /\ I <= n + 1 /\ n <= n /\ n + 1 - I = 0 /\ Listed(cvs, n)
    BY <1>2
  <2> HIDE DEF I, n
  <2>2. Listed(Slice(cvs, I, n), n + 1 - I)
    BY <2>1, ListedSubSeq
  <2>3. Listed(Slice(cvs, I, n), 0)
    BY <2>1, <2>2
  <2>4. Slice(cvs, I, n) = << >>
    BY <2>3, ListedEmpty, ListedEqual
  <2> QED BY <2>4 DEF Slice, I, n
<1>6. Listed(pairs, K)
  BY DEF Listed
<1>7. compress_parents_parallel(cvs, kwd, flags) = hash_many(pairs, kwd, 0, FALSE, all, {}, {}) \o << >>
  BY <1>2, <1>3, <1>5 DEF compress_parents_parallel
<1> DEFINE out == hash_many(pairs, kwd, 0, FALSE, all, {}, {})
<1>8. /\ Listed(out, K)
      /\ \A I \in 1 .. K :
           out[I] = HashOne(pairs[I], kwd, Counter(0 + Delta(I - 1, FALSE)), all, {}, {})
  <2> HIDE DEF pairs, all
  <2>1. Hashed(out, K, pairs, kwd, 0, FALSE, all, {}, {})
    BY <1>6, HashManyIs
  <2> QED BY <2>1, Zenon DEF Hashed
<1>9. Listed(out, K)
  BY <1>8
<1>10. ASSUME NEW I \in 1 .. K PROVE out[I] = up[I]
  <2> DEFINE x == cvs[2 * I - 1]
             Y == cvs[2 * I]
             at == a + (I - 1) * Power[l + 1]
  <2>1. 0 + Delta(I - 1, FALSE) = 0
    BY DEF Delta
  <2>2. pairs[I] = << <<x, Y>> >>
    OBVIOUS
  <2>3. out[I] = HashOne(<< <<x, Y>> >>, kwd, Counter(0), all, {}, {})
    <3> HIDE DEF pairs, out, all
    <3> QED BY <1>8, <2>1, <2>2
  <2>4. out[I] = RefCv(ParentOutput(<<x, Y>>, kwd, flags))
    <3> HIDE DEF x, Y, out
    <3> QED BY <2>3, HashPair
  <2>5. /\ 2 * I - 1 \in 1 .. 2 * K /\ 2 * I \in 1 .. 2 * K /\ at \in Nat
        /\ a + ((2 * I - 1) - 1) * Power[l] = at /\ a + (2 * I - 1) * Power[l] = at + Power[l]
    <3> DEFINE p == Power[l]
               j == I - 1
    <3>1. j \in Nat /\ p \in Nat /\ j * (2 * p) = 2 * (j * p) /\ j * p \in Nat
      BY <1>1
    <3>2. ((2 * I - 1) - 1) * p = 2 * (j * p) /\ (2 * I - 1) * p = 2 * (j * p) + p
      BY <3>1
    <3> HIDE DEF p, j
    <3> QED BY <1>1, <3>1, <3>2 DEF p, j
  <2> HIDE DEF at
  <2>6. x = Node(l, at, kwd, flags)
    <3> DEFINE k == 2 * I - 1
    <3>1. k \in 1 .. 2 * K /\ a + (k - 1) * Power[l] = at
      BY <2>5
    <3> HIDE DEF k
    <3>2. cvs[k] = Node(l, a + (k - 1) * Power[l], kwd, flags)
      BY <1>2, <3>1
    <3> QED BY <3>1, <3>2 DEF k
  <2>7. Y = Node(l, at + Power[l], kwd, flags)
    <3> DEFINE k == 2 * I
    <3>1. k \in 1 .. 2 * K /\ a + (k - 1) * Power[l] = at + Power[l]
      BY <2>5
    <3> HIDE DEF k
    <3>2. cvs[k] = Node(l, a + (k - 1) * Power[l], kwd, flags)
      BY <1>2, <3>1
    <3> QED BY <3>1, <3>2 DEF k
  <2>8. Node(l + 1, at, kwd, flags) = RefCv(ParentOutput(<<x, Y>>, kwd, flags))
    <3> HIDE DEF x, Y
    <3>1. Node(l + 1, at, kwd, flags) =
            RefCv(ParentOutput(<<Node(l, at, kwd, flags), Node(l, at + Power[l], kwd, flags)>>,
                               kwd, flags))
      BY <2>5, ParentNode
    <3> QED BY <2>6, <2>7, <3>1
  <2>9. up[I] = Node(l + 1, at, kwd, flags)
    BY <1>4 DEF at
  <2> HIDE DEF out, x, Y
  <2> QED BY <2>4, <2>8, <2>9
<1> HIDE DEF out
<1>11. out = up
  BY <1>4, <1>9, <1>10, ListedEqual
<1>12. out \o << >> = out
  BY <1>9, ConcatEmpty
<1> QED BY <1>7, <1>11, <1>12 DEF out, cvs, up

\* Whole chunks, each in its lane.
LEMMA ChunksOf ==
  ASSUME cpu \in Cpus, NEW a \in Nat, NEW q \in Nat, NEW kwd, NEW flags
  PROVE  compress_chunks_parallel(Piece(CHUNK_LEN * a, CHUNK_LEN * q), kwd, a, flags) =
           Layer(0, a, q, kwd, flags)
<1> DEFINE C == CHUNK_LEN
           B == CHUNK_LEN \div BLOCK_LEN
           from == C * a
           n == C * q
           input == Piece(from, n)
           blocks(c) == [b \in 1 .. B |-> SubSeq(input, C * (c - 1) + BLOCK_LEN * (b - 1) + 1,
                                                        C * (c - 1) + BLOCK_LEN * b)]
           inputs == [c \in 1 .. q |-> blocks(c)]
           layer == Layer(0, a, q, kwd, flags)
<1>1. /\ C \in Nat \ {0} /\ BLOCK_LEN = 2 /\ B \in Nat /\ C = 2 * B /\ n \in Nat /\ from \in Nat
      /\ Power[0] = 1
  BY SizesAre, PowerUnfolds
<1>2. n \div C = q
  <2>1. (0 + C * q) \div C = q
    BY <1>1, Quotient
  <2> QED BY <1>1, <2>1
<1>3. Len(input) = n
  BY <1>1, PieceIs
<1>4. SubSeq(input, C * q + 1, n) = << >>
  <2> HIDE DEF n, from
  <2> DEFINE I == n + 1
  <2>1. I \in Nat \ {0} /\ n \in Nat /\ from \in Int /\ I <= n + 1 /\ n <= n /\ n + 1 - I = 0
    BY <1>1
  <2> HIDE DEF I
  <2>2. Slice(Piece(from, n), I, n) = Piece(from + I - 1, n + 1 - I)
    BY <2>1, PieceSlice
  <2>3. Piece(from + I - 1, 0) = << >>
    BY PieceIs
  <2> QED BY <2>1, <2>2, <2>3 DEF I, n, Slice
<1>5. compress_chunks_parallel(input, kwd, a, flags) =
        hash_many(inputs, kwd, a, TRUE, flags, {"CHUNK_START"}, {"CHUNK_END"}) \o << >>
  <2>1. Len(input) \div C = q /\ SubSeq(input, C * (Len(input) \div C) + 1, Len(input)) = << >>
    BY <1>2, <1>3, <1>4
  <2> HIDE DEF input
  <2> QED BY <2>1 DEF compress_chunks_parallel
<1>6. ASSUME NEW c \in 1 .. q
      PROVE  HashOne(blocks(c), kwd, Counter(a + (c - 1)), flags, {"CHUNK_START"}, {"CHUNK_END"}) =
               layer[c]
  <2> DEFINE s == blocks(c)
             M == a + (c - 1)
  <2>1. M \in Nat /\ C * M = from + C * (c - 1) /\ C * (c - 1) \in Nat /\ C * c <= n
        /\ C * c = C * (c - 1) + C
    <3>1. c \in Nat /\ c <= q /\ c - 1 \in Nat
      OBVIOUS
    <3>2. C * c <= C * q
      BY <3>1, ChunksOrder
    <3> QED BY <1>1, <3>1, <3>2
  <2>2. Listed(s, B)
    BY <1>1 DEF Listed
  <2>3. ASSUME NEW b \in 0 .. B - 1 PROVE s[b + 1] = Piece(C * M + 2 * b, 2)
    <3> DEFINE I == C * (c - 1) + 2 * b + 1
               j == C * (c - 1) + 2 * (b + 1)
    <3>1. s[b + 1] = SubSeq(input, I, j)
      <4>1. b + 1 \in 1 .. B /\ (b + 1) - 1 = b
        BY <1>1
      <4> QED BY <1>1, <4>1
    <3>2. /\ I \in Nat \ {0} /\ j \in Nat /\ I <= j + 1 /\ j <= n /\ j + 1 - I = 2
          /\ from + I - 1 = C * M + 2 * b
      <4> HIDE DEF from, n
      <4>1. 2 * (b + 1) <= C /\ b \in Nat
        BY <1>1
      <4> DEFINE x == C * (c - 1)
      <4>2. x \in Nat /\ x + C <= n /\ C * M = from + x
        BY <2>1
      <4> HIDE DEF x
      <4>3. /\ x + 2 * b + 1 \in Nat \ {0} /\ x + 2 * (b + 1) \in Nat
            /\ x + 2 * b + 1 <= x + 2 * (b + 1) + 1 /\ x + 2 * (b + 1) <= n
            /\ x + 2 * (b + 1) + 1 - (x + 2 * b + 1) = 2
            /\ from + (x + 2 * b + 1) - 1 = C * M + 2 * b
        BY <1>1, <4>1, <4>2
      <4> QED BY <4>3 DEF x
    <3> HIDE DEF I, j, s, from, n
    <3>0. I \in Nat \ {0} /\ j \in Nat /\ I <= j + 1 /\ j <= n /\ n \in Nat /\ from \in Int
      BY <1>1, <3>2
    <3>3. Slice(Piece(from, n), I, j) = Piece(from + I - 1, j + 1 - I)
      BY <3>0, PieceSlice
    <3> QED BY <3>1, <3>2, <3>3 DEF Slice
  <2> HIDE DEF M, s
  <2>4. HashOne(s, kwd, Counter(M), flags, {"CHUNK_START"}, {"CHUNK_END"}) =
          RefCv(RefChunk(CHUNK_LEN * M, CHUNK_LEN * M + CHUNK_LEN, kwd, flags))
    BY <2>1, <2>2, <2>3, FullChunk
  <2>5. Node(0, M, kwd, flags) = RefCv(RefChunk(CHUNK_LEN * M, CHUNK_LEN * M + CHUNK_LEN, kwd, flags))
    BY <2>1, LeafNode
  <2>6. layer[c] = Node(0, M, kwd, flags)
    <3>1. layer[c] = Node(0, a + (c - 1) * Power[0], kwd, flags)
      BY LayerIs
    <3>2. a + (c - 1) * Power[0] = M
      BY <1>1 DEF M
    <3> HIDE DEF layer
    <3> QED BY <3>1, <3>2
  <2> HIDE DEF layer
  <2> QED BY <2>4, <2>5, <2>6 DEF s, M
<1>7. Listed(layer, q)
  BY LayerIs
<1>8. Listed(inputs, q) /\ \A c \in 1 .. q : inputs[c] = blocks(c)
  BY DEF Listed
<1> HIDE DEF inputs, layer, blocks
<1> DEFINE out == hash_many(inputs, kwd, a, TRUE, flags, {"CHUNK_START"}, {"CHUNK_END"})
<1>9. /\ Listed(out, q)
      /\ \A I \in 1 .. q : out[I] = HashOne(inputs[I], kwd, Counter(a + Delta(I - 1, TRUE)), flags,
                                            {"CHUNK_START"}, {"CHUNK_END"})
  <2>1. Hashed(out, q, inputs, kwd, a, TRUE, flags, {"CHUNK_START"}, {"CHUNK_END"})
    BY <1>8, HashManyIs
  <2> QED BY <2>1, Zenon DEF Hashed
<1>10. Listed(out, q)
  BY <1>9
<1>11. ASSUME NEW I \in 1 .. q PROVE out[I] = layer[I]
  <2>1. Delta(I - 1, TRUE) = I - 1
    BY DEF Delta
  <2> HIDE DEF out
  <2>2. out[I] = HashOne(inputs[I], kwd, Counter(a + Delta(I - 1, TRUE)), flags,
                         {"CHUNK_START"}, {"CHUNK_END"})
    BY <1>9
  <2> QED BY <1>6, <1>8, <2>1, <2>2
<1> HIDE DEF out
<1>12. out = layer
  BY <1>7, <1>10, <1>11, ListedEqual
<1>13. out \o << >> = out
  BY <1>10, ConcatEmpty
<1> QED BY <1>5, <1>12, <1>13 DEF out, layer

-----------------------------------------------------------------------------
(* A subtree.                                                              *)

\* A processor never hashes exactly two inputs at once.
LEMMA DegreeIs ==
  ASSUME cpu \in Cpus
  PROVE  \E e \in Nat : e # 1 /\ simd_degree(cpu) = Power[e] /\ Power[e] \in Nat \ {0}
<1>1. PICK e \in {0, 2, 3, 4} : simd_degree(cpu) = Power[e]
  BY KernelIs
<1>2. e \in Nat /\ e # 1
  BY <1>1
<1> QED BY <1>1, <1>2, PowerUnfolds

\* One step of the recursion over a subtree.
WideStep(V, n, from, input, kwd, counter, flags) ==
  IF n <= simd_degree(cpu) * CHUNK_LEN
  THEN compress_chunks_parallel(SubSeq(input, from + 1, from + n), kwd,
                                counter + from \div CHUNK_LEN, flags)
  ELSE JoinLayers(V[left_len(n)][from], V[n - left_len(n)][from + left_len(n)], kwd, flags)

\* What compress_subtree_wide computes for every piece of its input.
WideTable(V, len, input, kwd, counter, flags) ==
  /\ \A n \in 0 .. len : \A from \in 0 .. len :
       V[n][from] = WideStep(V, n, from, input, kwd, counter, flags)
  /\ compress_subtree_wide(input, kwd, counter, flags) = V[len][0]

\* The recursion of compress_subtree_wide, one step.
LEMMA WideUnfolds ==
  ASSUME cpu \in Cpus, NEW len \in Nat, len <= MaxLen, NEW input, Len(input) = len,
         NEW kwd, NEW counter, NEW flags
  PROVE  \E V : WideTable(V, len, input, kwd, counter, flags)
<1> DEFINE Step(fn, n, from) == WideStep(fn, n, from, input, kwd, counter, flags)
           Out(fn, n) == [from \in 0 .. len |-> Step(fn, n, from)]
           Def(fn, l) == [n \in 0 .. l |-> Out(fn, n)]
           Has == {l \in 0 .. len : \E fn : fn = Def(fn, l)}
<1>1. ASSUME NEW n \in 0 .. len, NEW f, NEW G, \A j \in 0 .. n - 1 : f[j] = G[j]
      PROVE  Out(f, n) = Out(G, n)
  <2>1. CASE n <= simd_degree(cpu) * CHUNK_LEN
    BY <2>1 DEF WideStep
  <2>2. CASE ~ (n <= simd_degree(cpu) * CHUNK_LEN)
    <3>1. CHUNK_LEN < n
      <4>1. PICK e \in Nat : simd_degree(cpu) = Power[e] /\ Power[e] \in Nat \ {0}
        BY DegreeIs
      <4> DEFINE d == simd_degree(cpu)
      <4>2. d \in Nat \ {0} /\ CHUNK_LEN \in Nat /\ ~ (n <= d * CHUNK_LEN)
        BY <2>2, <4>1, SizesAre
      <4> HIDE DEF d
      <4>3. CHUNK_LEN * 1 <= CHUNK_LEN * d /\ d * CHUNK_LEN = CHUNK_LEN * d /\ CHUNK_LEN * d \in Nat
        BY <4>2, ChunksOrder
      <4> QED BY <4>2, <4>3
    <3>2. n \in Nat /\ n <= MaxLen
      BY SizesAre
    <3>3. PICK I \in Bits : CHUNK_LEN * Power[I] < n /\ n <= CHUNK_LEN * Power[I + 1]
      BY <3>1, <3>2, HasLeft
    <3>4. left_len(n) = CHUNK_LEN * Power[I]
      BY <3>2, <3>3, LeftIs
    <3>5. CHUNK_LEN * Power[I] \in Nat \ {0}
      <4>1. I \in Nat /\ CHUNK_LEN \in Nat \ {0}
        BY SizesAre
      <4>2. Power[I] \in Nat \ {0}
        BY <4>1, PowerUnfolds
      <4> QED BY <4>1, <4>2
    <3>6. left_len(n) \in 0 .. n - 1 /\ n - left_len(n) \in 0 .. n - 1
      BY <3>2, <3>3, <3>4, <3>5
    <3>7. f[left_len(n)] = G[left_len(n)] /\ f[n - left_len(n)] = G[n - left_len(n)]
      BY <1>1, <3>6
    <3> QED BY <2>2, <3>7 DEF WideStep
  <2> QED BY <2>1, <2>2
<1> HIDE DEF Out
<1>2. 0 \in Has
  <2> DEFINE G == [k \in 0 .. 0 |-> Out(<< >>, k)]
  <2>1. Out(G, 0) = Out(<< >>, 0)
    <3>1. 0 \in 0 .. len /\ \A j \in 0 .. 0 - 1 : G[j] = << >>[j]
      OBVIOUS
    <3> HIDE DEF G
    <3> QED BY <1>1, <3>1
  <2>2. G = Def(G, 0)
    <3>1. \A k \in 0 .. 0 : k = 0
      OBVIOUS
    <3> QED BY <2>1, <3>1
  <2> QED BY <2>2
<1>3. ASSUME NEW l \in 0 .. len - 1, l \in Has PROVE l + 1 \in Has
  <2>1. PICK fn : fn = Def(fn, l)
    BY <1>3
  <2> DEFINE G == [k \in 0 .. l + 1 |-> IF k <= l THEN fn[k] ELSE Out(fn, l + 1)]
  <2>2. \A j \in 0 .. l : G[j] = fn[j]
    OBVIOUS
  <2>3. G[l + 1] = Out(fn, l + 1)
    OBVIOUS
  <2> HIDE DEF G
  <2>4. ASSUME NEW k \in 0 .. l + 1 PROVE G[k] = Out(G, k)
    <3>1. Out(G, k) = Out(fn, k)
      <4>1. k \in 0 .. len /\ \A j \in 0 .. k - 1 : G[j] = fn[j]
        BY <2>2
      <4> QED BY <1>1, <4>1
    <3>2. CASE k <= l
      <4>1. k \in 0 .. l
        BY <3>2
      <4> QED BY <2>1, <2>2, <3>1, <4>1
    <3>3. CASE k = l + 1
      BY <2>3, <3>1, <3>3
    <3> QED BY <3>2, <3>3
  <2>5. G = Def(G, l + 1)
    <3>1. DOMAIN G = 0 .. l + 1 /\ G = [k \in 0 .. l + 1 |-> G[k]]
      BY DEF G
    <3> QED BY <2>4, <3>1
  <2> QED BY <2>5
<1> HIDE DEF Has
<1>4. \E fn : fn = Def(fn, len)
  <2>1. 0 .. len \subseteq Has
    BY <1>2, <1>3, Induction
  <2>2. len \in Has
    BY <2>1
  <2> QED BY <2>2 DEF Has
<1> DEFINE V == CHOOSE fn : fn = Def(fn, len)
<1>5. V = Def(V, len)
  BY <1>4, Zenon
<1>6. compress_subtree_wide(input, kwd, counter, flags) = V[len][0]
  BY Zenon DEF compress_subtree_wide, WideStep, Out
<1> HIDE DEF V
<1>7. ASSUME NEW n \in 0 .. len, NEW from \in 0 .. len PROVE V[n][from] = Step(V, n, from)
  <2> HIDE DEF Step
  <2>1. V[n] = Out(V, n)
    BY <1>5
  <2> QED BY <2>1 DEF Out
<1>8. WideTable(V, len, input, kwd, counter, flags)
  <2>1. \A n \in 0 .. len : \A from \in 0 .. len : V[n][from] = Step(V, n, from)
    BY <1>7
  <2> QED BY Zenon, <1>6, <2>1 DEF WideTable
<1> QED BY <1>8

\* The layer a subtree of 2^j chunks is compressed to by a processor that
\* hashes 2^m chunks at once, but never to less than two.
Level(j, M) == IF j <= M THEN 0 ELSE j - M

\* Layers of both halves of a subtree.
LEMMA JoinIs ==
  ASSUME cpu \in Cpus, NEW l \in Bits, NEW a \in Nat, NEW q \in Nat \ {0}, NEW kwd, NEW flags
  PROVE  JoinLayers(Layer(l, a, q, kwd, flags), Layer(l, a + q * Power[l], q, kwd, flags),
                    kwd, flags) =
           IF q = 1 THEN Layer(l, a, 2, kwd, flags) ELSE Layer(l + 1, a, q, kwd, flags)
<1> DEFINE s == Layer(l, a, q, kwd, flags)
           L == Layer(l, a + q * Power[l], q, kwd, flags)
<1>1. l \in Nat /\ q \in Nat
  BY SizesAre
<1>2. Len(s) = q
  BY <1>1, LayerIs
<1>3. Joined(s, L) = Layer(l, a, 2 * q, kwd, flags)
  <2> DEFINE mid == a + q * Power[l]
             n == 2 * q
  <2>1. mid = a + q * Power[l] /\ n = q + q
    BY <1>1
  <2> HIDE DEF mid, n
  <2>2. Joined(Layer(l, a, q, kwd, flags), Layer(l, mid, q, kwd, flags)) = Layer(l, a, n, kwd, flags)
    BY <1>1, <2>1, LayersJoin
  <2> QED BY <2>2 DEF mid, n
<1> HIDE DEF s, L
<1>4. CASE q = 1
  <2>1. Joined(s, L) = Layer(l, a, 2, kwd, flags)
    BY <1>3, <1>4
  <2>2. Slice(Layer(l, a, 2, kwd, flags), 1, 2) = Layer(l, a, 2, kwd, flags)
    BY <1>1, LayerPair
  <2>3. JoinLayers(s, L, kwd, flags) = Slice(Joined(s, L), 1, 2)
    BY <1>2, <1>4, Zenon DEF JoinLayers, Joined, Slice
  <2> QED BY <1>4, <2>1, <2>2, <2>3 DEF s, L
<1>5. CASE q # 1
  <2>1. JoinLayers(s, L, kwd, flags) = compress_parents_parallel(Joined(s, L), kwd, flags)
    BY <1>2, <1>5, Zenon DEF JoinLayers, Joined
  <2>2. compress_parents_parallel(Layer(l, a, 2 * q, kwd, flags), kwd, flags) =
          Layer(l + 1, a, q, kwd, flags)
    BY <1>1, ParentsOf
  <2> QED BY <1>3, <1>5, <2>1, <2>2 DEF s, L
<1> QED BY <1>4, <1>5

\* A subtree of complete chunks comes back as a layer of it: at least two
\* nodes, at most as many as the processor hashes at once.
LEMMA WideIs ==
  ASSUME cpu \in Cpus, NEW a \in Nat, NEW k \in Nat, CHUNK_LEN * Power[k] <= MaxLen,
         NEW kwd, NEW flags
  PROVE  \E K \in 0 .. k : /\ k >= 1 => K >= 1
                           /\ K <= 1 \/ Power[K] <= simd_degree(cpu)
                           /\ compress_subtree_wide(Piece(CHUNK_LEN * a, CHUNK_LEN * Power[k]),
                                                    kwd, a, flags) =
                                Layer(k - K, a, Power[K], kwd, flags)
<1> DEFINE C == CHUNK_LEN
           len == C * Power[k]
           input == Piece(C * a, len)
<1>1. PICK e \in Nat : e # 1 /\ simd_degree(cpu) = Power[e] /\ Power[e] \in Nat \ {0}
  BY DegreeIs
<1> DEFINE M == IF e = 0 THEN 1 ELSE e
           F(j) == j - Level(j, M)
           At(j, x) == Layer(Level(j, M), a + x, Power[F(j)], kwd, flags)
<1>2. M \in Nat /\ M >= 1 /\ e <= M /\ (M = 1 \/ M = e) /\ (M = 1 => e = 0)
  BY <1>1
<1> HIDE DEF M
<1>3. ASSUME NEW j \in Nat
      PROVE  /\ Level(j, M) \in Nat /\ F(j) \in Nat /\ F(j) <= M /\ Level(j, M) <= j
             /\ F(j) + Level(j, M) = j
             /\ (F(j) = 0 <=> j = 0)
             /\ j <= M => Level(j, M) = 0 /\ F(j) = j
             /\ j > M => Level(j, M) = j - M /\ F(j) = M
  BY <1>2 DEF Level
<1>4. /\ C \in Nat \ {0} /\ Power[k] \in Nat \ {0} /\ len \in Nat /\ len <= MaxLen /\ C * a \in Nat
      /\ MaxLen \in Nat
  BY SizesAre, PowerUnfolds
<1>5. ASSUME NEW j \in 0 .. k
      PROVE  /\ Power[j] \in Nat \ {0} /\ Power[j] <= Power[k] /\ C * Power[j] \in Nat
             /\ C * Power[j] <= len /\ j \in Bits
  <2>1. j \in Nat /\ j <= k /\ Power[j] \in Nat \ {0}
    BY PowerUnfolds
  <2>2. Power[j] <= Power[k]
    BY <2>1, PowerOrder
  <2>3. C * Power[j] \in Nat /\ C * Power[j] <= len
    BY <1>4, <2>1, <2>2, ChunksOrder
  <2>4. Power[j] <= MaxLen
    <3>1. Power[j] <= C * Power[j]
      BY <2>1, ChunksOrder
    <3> HIDE DEF len
    <3> QED BY <1>4, <2>1, <2>3, <3>1
  <2>5. j \in Bits
    BY <2>1, <2>4, PowerInBits
  <2> QED BY <2>1, <2>2, <2>3, <2>5
<1> HIDE DEF len
<1>6. Len(input) = len
  BY <1>4, PieceIs
<1>6a. PICK V : WideTable(V, len, input, kwd, a, flags)
  <2> HIDE DEF input
  <2>1. len \in Nat /\ len <= MaxLen
    BY <1>4
  <2> QED BY <1>6, <2>1, WideUnfolds
<1>7. /\ \A n \in 0 .. len : \A from \in 0 .. len :
           V[n][from] = WideStep(V, n, from, input, kwd, a, flags)
      /\ compress_subtree_wide(input, kwd, a, flags) = V[len][0]
  BY Zenon, <1>6a DEF WideTable
<1>8. ASSUME NEW j \in 0 .. k, j <= e, NEW x \in Nat, x + Power[j] <= Power[k]
      PROVE  V[C * Power[j]][C * x] = At(j, x)
  <2> DEFINE n == C * Power[j]
             from == C * x
  <2>1. /\ n \in Nat /\ from \in Nat /\ from + n <= len /\ n \in 0 .. len /\ from \in 0 .. len
        /\ from \div C = x /\ C * a + from = C * (a + x) /\ a + x \in Nat
    <3>1. C * (x + Power[j]) <= C * Power[k] /\ C * (x + Power[j]) = from + n
      <4>1. x + Power[j] \in Nat /\ Power[j] \in Nat
        BY <1>5
      <4> QED BY <1>4, <1>8, <4>1, ChunksOrder
    <3>2. n \in Nat /\ from \in Nat
      BY <1>4, <1>5
    <3>3. (0 + C * x) \div C = x
      BY <1>4, Quotient
    <3>4. 0 + C * x = from
      BY <1>4
    <3>5. C * a + from = C * (a + x)
      BY <1>4
    <3> HIDE DEF n, from
    <3> QED BY <1>4, <3>1, <3>2, <3>3, <3>4, <3>5 DEF len
  <2>2. n <= simd_degree(cpu) * CHUNK_LEN
    <3>1. j \in Nat /\ Power[j] <= Power[e]
      BY <1>1, <1>8, PowerOrder
    <3> DEFINE p == Power[j]
               d == Power[e]
    <3>2. p \in Nat /\ d \in Nat /\ p <= d
      BY <1>1, <1>5, <3>1
    <3> HIDE DEF p, d
    <3>3. C * p <= C * d /\ C * d = d * C
      BY <1>4, <3>2, ChunksOrder
    <3> QED BY <1>1, <3>3 DEF p, d
  <2>3. SubSeq(input, from + 1, from + n) = Piece(C * (a + x), n)
    <3> DEFINE I == from + 1
               L == from + n
               at == C * a
    <3>1. /\ I \in Nat \ {0} /\ L \in Nat /\ I <= L + 1 /\ L <= len /\ len \in Nat /\ at \in Int
          /\ at + I - 1 = C * (a + x) /\ L + 1 - I = n
      <4> HIDE DEF n, from
      <4> QED BY <1>4, <2>1
    <3> HIDE DEF I, L, at, n, from
    <3>0. I \in Nat \ {0} /\ L \in Nat /\ I <= L + 1 /\ L <= len /\ len \in Nat /\ at \in Int
      BY <3>1
    <3>2. Slice(Piece(at, len), I, L) = Piece(at + I - 1, L + 1 - I)
      BY <3>0, PieceSlice
    <3> QED BY <3>1, <3>2 DEF at, I, L, Slice
  <2> HIDE DEF input
  <2>4. V[n][from] = compress_chunks_parallel(Piece(C * (a + x), n), kwd, a + x, flags)
    <3>1. V[n][from] = WideStep(V, n, from, input, kwd, a, flags)
      BY <1>7, <2>1
    <3> HIDE DEF n, from
    <3>2. WideStep(V, n, from, input, kwd, a, flags) =
            compress_chunks_parallel(SubSeq(input, from + 1, from + n), kwd,
                                     a + from \div CHUNK_LEN, flags)
      BY <2>2, Zenon DEF WideStep
    <3> QED BY <2>1, <2>3, <3>1, <3>2
  <2>5. V[n][from] = Layer(0, a + x, Power[j], kwd, flags)
    <3> DEFINE b == a + x
               p == Power[j]
    <3>1. b \in Nat /\ p \in Nat
      BY <1>5, <2>1
    <3> HIDE DEF b, p
    <3>2. compress_chunks_parallel(Piece(CHUNK_LEN * b, CHUNK_LEN * p), kwd, b, flags) =
            Layer(0, b, p, kwd, flags)
      BY <3>1, ChunksOf
    <3> QED BY <2>4, <3>2 DEF b, p
  <2>6. Level(j, M) = 0 /\ F(j) = j
    <3>1. j <= M => Level(j, M) = 0 /\ F(j) = j
      BY <1>3
    <3> HIDE DEF F
    <3> QED BY <1>1, <1>2, <1>8, <3>1
  <2> HIDE DEF n, from
  <2> QED BY <2>5, <2>6 DEF n, from
<1> DEFINE S == {j \in 0 .. k : \A x \in Nat : x + Power[j] <= Power[k] =>
                                  V[C * Power[j]][C * x] = At(j, x)}
<1>9. 0 \in S
  <2>1. 0 \in 0 .. k /\ 0 <= e
    BY <1>1
  <2> HIDE DEF At
  <2> QED BY <1>8, <2>1
<1>10. ASSUME NEW j \in 0 .. k - 1, j \in S PROVE j + 1 \in S
  <2> SUFFICES ASSUME NEW x \in Nat, x + Power[j + 1] <= Power[k]
               PROVE  V[C * Power[j + 1]][C * x] = At(j + 1, x)
    BY DEF S
  <2>1. j \in Nat /\ j \in 0 .. k /\ j + 1 \in 0 .. k
    OBVIOUS
  <2>2. CASE j + 1 <= e
    <3> HIDE DEF At
    <3> QED BY <1>8, <2>1, <2>2
  <2>3. CASE ~ (j + 1 <= e)
    <3> DEFINE p == Power[j]
               n == C * Power[j + 1]
               left == C * p
               from == C * x
               l == Level(j, M)
               q == Power[F(j)]
               b == a + x
    <3>1. /\ p \in Nat \ {0} /\ Power[j + 1] = 2 * p /\ j \in Bits /\ n \in Nat /\ n <= len
          /\ left \in Nat
      BY <1>5, <2>1, PowerUnfolds
    <3>2. /\ n = 2 * left /\ left < n /\ n - left = left /\ from + left = C * (x + p)
          /\ from \in 0 .. len /\ from + left <= len
      <4>1. C * (x + 2 * p) <= C * Power[k]
        <5>1. x + 2 * p \in Nat /\ x + 2 * p <= Power[k]
          BY <3>1
        <5> QED BY <1>4, <5>1, ChunksOrder
      <4>2. n = 2 * left /\ left # 0
        BY <1>4, <3>1
      <4>3. C * (x + 2 * p) = from + 2 * left /\ C * (x + p) = from + left /\ from \in Nat
        BY <1>4, <3>1
      <4> HIDE DEF n, left, from, p
      <4> QED BY <1>4, <3>1, <4>1, <4>2, <4>3 DEF len
    <3>3. left_len(n) = left
      <4>1. n <= CHUNK_LEN * Power[j + 1] /\ CHUNK_LEN * Power[j] < n
        BY <3>1, <3>2
      <4> HIDE DEF n
      <4> QED BY <3>1, <4>1, LeftIs
    <3>4. ~ (n <= simd_degree(cpu) * CHUNK_LEN)
      <4>1. e \in Nat /\ e < j + 1 /\ j + 1 \in Nat
        BY <1>1, <2>1, <2>3
      <4>2. Power[e] < Power[j + 1]
        <5>1. 2 * Power[e] <= Power[j + 1]
          BY <4>1, PowerGrows
        <5> QED BY <1>1, <3>1, <5>1
      <4> DEFINE d == Power[e]
                 G == Power[j + 1]
      <4>3. d \in Nat /\ G \in Nat /\ d < G
        BY <1>1, <3>1, <4>2
      <4> HIDE DEF d, G
      <4>4. C * d < C * G /\ d * C = C * d /\ C * d \in Nat /\ C * G \in Nat
        BY <1>4, <4>3, ChunksOrder
      <4>5. ~ (C * G <= d * C)
        BY <4>4
      <4> QED BY <1>1, <4>5 DEF d, G
    <3>5. V[n][from] = JoinLayers(V[left][from], V[left][C * (x + p)], kwd, flags)
      <4>1. V[n][from] = WideStep(V, n, from, input, kwd, a, flags)
        <5>1. n \in 0 .. len /\ from \in 0 .. len
          BY <1>4, <3>1, <3>2
        <5> HIDE DEF n, from
        <5> QED BY <1>7, <5>1
      <4> HIDE DEF n, from, left, input
      <4>2. WideStep(V, n, from, input, kwd, a, flags) =
              JoinLayers(V[left_len(n)][from], V[n - left_len(n)][from + left_len(n)], kwd, flags)
        BY <3>4, Zenon DEF WideStep
      <4> QED BY <3>2, <3>3, <4>1, <4>2
    <3>6. V[left][from] = Layer(l, b, q, kwd, flags)
      <4>1. x + Power[j] <= Power[k]
        BY <1>4, <3>1
      <4>2. \A Y \in Nat : Y + Power[j] <= Power[k] => V[C * Power[j]][C * Y] = At(j, Y)
        BY <1>10
      <4> HIDE DEF At, S
      <4>3. V[C * Power[j]][C * x] = At(j, x)
        BY <4>1, <4>2
      <4> QED BY <4>3 DEF At
    <3>7. V[left][C * (x + p)] = Layer(l, a + (x + p), q, kwd, flags)
      <4>1. x + p \in Nat /\ (x + p) + Power[j] <= Power[k]
        BY <1>4, <3>1
      <4>2. \A Y \in Nat : Y + Power[j] <= Power[k] => V[C * Power[j]][C * Y] = At(j, Y)
        BY <1>10
      <4> HIDE DEF At, S
      <4>3. V[C * Power[j]][C * (x + p)] = At(j, x + p)
        BY <4>1, <4>2
      <4> QED BY <4>3 DEF At
    <3>8. /\ l \in Nat /\ F(j) \in Nat /\ q \in Nat \ {0} /\ q * Power[l] = p /\ l \in Bits
          /\ (q = 1 <=> j = 0)
      <4> DEFINE K == F(j)
      <4>1. l \in Nat /\ K \in Nat /\ K + l = j /\ l <= j /\ (K = 0 <=> j = 0)
        BY <1>3, <2>1
      <4> HIDE DEF K, l
      <4>2. Power[K + l] = Power[K] * Power[l] /\ Power[K] \in Nat \ {0}
        BY <4>1, PowerPlus, PowerUnfolds
      <4>3. Power[K] = Power[0] <=> K = 0
        BY <4>1, PowerOrder
      <4>4. Power[0] = 1
        BY PowerUnfolds
      <4>5. l \in 0 .. k
        BY <2>1, <4>1
      <4>6. l \in Bits
        BY <1>5, <4>5
      <4> QED BY <4>1, <4>2, <4>3, <4>4, <4>6 DEF K, l
    <3>9. a + (x + p) = b + q * Power[l]
      BY <3>1, <3>8
    <3> HIDE DEF l, q, b, p, left, from, n
    <3>10. V[n][from] = IF q = 1 THEN Layer(l, b, 2, kwd, flags) ELSE Layer(l + 1, b, q, kwd, flags)
      <4>1. b \in Nat
        BY DEF b
      <4>2. JoinLayers(Layer(l, b, q, kwd, flags), Layer(l, b + q * Power[l], q, kwd, flags), kwd, flags) =
              IF q = 1 THEN Layer(l, b, 2, kwd, flags) ELSE Layer(l + 1, b, q, kwd, flags)
        BY <3>8, <4>1, JoinIs
      <4> QED BY <3>5, <3>6, <3>7, <3>9, <4>2
    <3>11. CASE j = 0
      <4>1. Level(j + 1, M) = 0 /\ F(j + 1) = j + 1 /\ l = 0
        BY <1>2, <1>3, <3>11 DEF l
      <4>2. Power[j + 1] = 2
        <5>1. Power[0] = 1 /\ p = Power[0]
          BY <3>11, PowerUnfolds DEF p
        <5> QED BY <3>1, <5>1
      <4>3. V[n][from] = Layer(l, b, 2, kwd, flags)
        BY <3>8, <3>10, <3>11
      <4> QED BY <4>1, <4>2, <4>3 DEF n, from, b
    <3>12. CASE j # 0
      <4>1. j >= M
        BY <1>1, <1>2, <2>1, <2>3, <3>12
      <4>2. l = j - M /\ F(j) = M
        <5>1. (j <= M => l = 0 /\ F(j) = j) /\ (j > M => l = j - M /\ F(j) = M)
          BY <1>3, <2>1 DEF l
        <5> HIDE DEF F
        <5> QED BY <1>2, <2>1, <4>1, <5>1
      <4>3. Level(j + 1, M) = l + 1 /\ F(j + 1) = M
        BY <1>2, <1>3, <2>1, <4>1, <4>2
      <4>4. V[n][from] = Layer(l + 1, b, q, kwd, flags)
        BY <3>8, <3>10, <3>12
      <4>5. q = Power[M]
        BY <4>2 DEF q
      <4> QED BY <4>3, <4>4, <4>5 DEF n, from, b
    <3> QED BY <3>11, <3>12
  <2> QED BY <2>2, <2>3
<1> HIDE DEF S
<1>11. k \in S
  <2>1. 0 .. k \subseteq S
    BY <1>9, <1>10, Induction
  <2> QED BY <2>1
<1>12. V[len][0] = Layer(Level(k, M), a, Power[F(k)], kwd, flags)
  <2>1. 0 \in Nat /\ 0 + Power[k] <= Power[k] /\ C * 0 = 0 /\ a + 0 = a
    BY <1>4
  <2> HIDE DEF At
  <2>2. \A x \in Nat : x + Power[k] <= Power[k] => V[C * Power[k]][C * x] = At(k, x)
    BY <1>11 DEF S
  <2>3. V[C * Power[k]][C * 0] = At(k, 0)
    BY <2>1, <2>2
  <2>4. At(k, 0) = Layer(Level(k, M), a + 0, Power[F(k)], kwd, flags)
    BY DEF At
  <2> QED BY <2>1, <2>3, <2>4 DEF len
<1>13. F(k) \in 0 .. k /\ (k >= 1 => F(k) >= 1) /\ k - F(k) = Level(k, M) /\ F(k) <= M /\ F(k) \in Nat
  <2>1. /\ Level(k, M) \in Nat /\ F(k) \in Nat /\ F(k) <= M /\ Level(k, M) <= k
        /\ F(k) + Level(k, M) = k /\ (F(k) = 0 <=> k = 0)
    BY <1>3
  <2> HIDE DEF F
  <2> QED BY <2>1
<1>14. F(k) <= 1 \/ Power[F(k)] <= simd_degree(cpu)
  <2> DEFINE K == F(k)
  <2> HIDE DEF K
  <2>1. K \in Nat /\ K <= M
    BY <1>13 DEF K
  <2>2. CASE M = 1
    BY <2>1, <2>2 DEF K
  <2>3. CASE M = e
    <3>1. Power[K] <= Power[e]
      BY <2>1, <2>3, PowerOrder
    <3> QED BY <1>1, <3>1 DEF K
  <2> QED BY <1>2, <2>2, <2>3
<1> HIDE DEF F, input
<1>15. compress_subtree_wide(input, kwd, a, flags) = Layer(k - F(k), a, Power[F(k)], kwd, flags)
  BY <1>7, <1>12, <1>13
<1> QED BY <1>13, <1>14, <1>15 DEF input, len

\* A smaller power fits where a greater one does.
LEMMA BitsBelow ==
  ASSUME NEW k \in Nat, Power[k] <= MaxLen, NEW l \in 0 .. k
  PROVE  l \in Bits /\ Power[l] <= MaxLen
<1>1. l \in Nat /\ l <= k /\ Power[l] \in Nat /\ Power[k] \in Nat /\ MaxLen \in Nat
  BY PowerUnfolds, SizesAre
<1>2. Power[l] <= Power[k]
  BY <1>1, PowerOrder
<1>3. Power[l] <= MaxLen
  BY <1>1, <1>2
<1> QED BY <1>1, <1>3, PowerInBits

\* Layer by layer, the two halves of a subtree are left.
LEMMA CondenseIs ==
  ASSUME cpu \in Cpus, NEW l \in Nat, NEW K \in Nat \ {0}, Power[l + K] <= MaxLen, NEW a \in Nat,
         NEW kwd, NEW flags
  PROVE  Condense(Layer(l, a, Power[K], kwd, flags), kwd, flags) = Layer(l + K - 1, a, 2, kwd, flags)
<1> DEFINE cvs == Layer(l, a, Power[K], kwd, flags)
           n == Power[K]
           top == Layer(l + K - 1, a, 2, kwd, flags)
           G(k) == IF k <= K - 1 THEN Layer(l + k, a, Power[K - k], kwd, flags) ELSE top
           Step(x) == IF Len(x) > 2 THEN compress_parents_parallel(x, kwd, flags) ELSE x
           Def(fn) == [k \in 0 .. n |-> IF k = 0 THEN cvs ELSE Step(fn[k - 1])]
<1>1. K \in Nat /\ K >= 1 /\ n \in Nat /\ K < n /\ Power[0] = 1 /\ Power[1] = 2 /\ l + K - 1 \in Nat
  <2>1. K \in Nat /\ K >= 1 /\ Power[0] = 1 /\ Power[0 + 1] = 2 * Power[0] /\ n \in Nat
    BY PowerUnfolds
  <2>2. K < n
    BY <2>1, PowerOrder
  <2> QED BY <2>1, <2>2
<1>2. Len(cvs) = n
  BY <1>1, LayerIs
<1>3. G(0) = cvs
  <2>1. 0 <= K - 1 /\ l + 0 = l /\ K - 0 = K
    BY <1>1
  <2> QED BY <2>1
<1>4. Len(top) = 2 /\ Slice(top, 1, 2) = top
  BY <1>1, LayerIs, LayerPair
<1>5. G(K - 1) = top
  <2>1. K - 1 <= K - 1 /\ l + (K - 1) = l + K - 1 /\ K - (K - 1) = 1
    BY <1>1
  <2> QED BY <1>1, <2>1
<1>6. ASSUME NEW k \in 1 .. n PROVE G(k) = Step(G(k - 1))
  <2>1. CASE k <= K - 1
    <3> DEFINE j == k - 1
               M == l + j
               q == Power[K - k]
    <3>1. j \in Nat /\ j <= K - 1 /\ M \in 0 .. l + K /\ K - k \in Nat /\ K - k >= 1
          /\ K - j = (K - k) + 1 /\ M + 1 = l + k
      BY <1>1, <2>1
    <3>2. M \in Bits
      <4>1. l + K \in Nat
        OBVIOUS
      <4> QED BY <3>1, <4>1, BitsBelow
    <3>3. Power[K - j] = 2 * q /\ q \in Nat /\ q >= 2
      <4> DEFINE I == K - k
      <4>1. I \in Nat /\ I >= 1 /\ K - j = I + 1
        BY <3>1
      <4> HIDE DEF I, j
      <4>2. Power[I + 1] = 2 * Power[I] /\ Power[I] \in Nat
        BY <4>1, PowerUnfolds
      <4>3. Power[I] > I
        BY <4>1, PowerOrder
      <4> QED BY <4>1, <4>2, <4>3 DEF I
    <3> HIDE DEF q
    <3>4. G(j) = Layer(M, a, 2 * q, kwd, flags)
      <4>1. G(j) = Layer(l + j, a, Power[K - j], kwd, flags)
        BY <3>1
      <4> QED BY <3>3, <4>1
    <3> DEFINE s == Layer(M, a, 2 * q, kwd, flags)
    <3>5. Len(s) = 2 * q
      <4>1. 2 * q \in Nat
        BY <3>3
      <4> QED BY <4>1, LayerIs
    <3>6. compress_parents_parallel(s, kwd, flags) = Layer(M + 1, a, q, kwd, flags)
      BY <3>2, <3>3, ParentsOf
    <3> HIDE DEF s, M
    <3>7. Step(s) = Layer(M + 1, a, q, kwd, flags)
      BY <3>3, <3>5, <3>6
    <3>8. G(k) = Layer(M + 1, a, q, kwd, flags)
      BY <2>1, <3>1 DEF q
    <3> HIDE DEF G, Step
    <3> QED BY <3>4, <3>7, <3>8 DEF j, s
  <2>2. CASE ~ (k <= K - 1)
    <3>1. G(k) = top /\ G(k - 1) = top
      <4>1. G(k) = top
        BY <2>2
      <4>2. CASE k - 1 = K - 1
        BY <1>5, <4>1, <4>2
      <4>3. CASE ~ (k - 1 <= K - 1)
        BY <4>1, <4>3
      <4>4. k - 1 = K - 1 \/ ~ (k - 1 <= K - 1)
        BY <1>1, <2>2
      <4> QED BY <4>2, <4>3, <4>4
    <3> HIDE DEF top, G
    <3>2. Step(top) = top
      BY <1>4
    <3> HIDE DEF Step
    <3> QED BY <3>1, <3>2
  <2> QED BY <2>1, <2>2
<1>7. G(n) = top
  BY <1>1
<1>8. Condense(cvs, kwd, flags) = LET f == CHOOSE fn : fn = Def(fn) IN Slice(f[n], 1, 2)
  <2> HIDE DEF cvs, n
  <2> QED BY <1>2 DEF Condense, Slice
<1> HIDE DEF G, Step, cvs, top, n
<1> DEFINE f == CHOOSE fn : fn = Def(fn)
           h == [k \in 0 .. n |-> G(k)]
<1>9. h = Def(h)
  <2>1. ASSUME NEW k \in 0 .. n PROVE h[k] = IF k = 0 THEN cvs ELSE Step(h[k - 1])
    <3>1. CASE k = 0
      BY <1>3, <3>1
    <3>2. CASE k # 0
      <4>1. k \in 1 .. n /\ k - 1 \in 0 .. n
        BY <1>1, <3>2
      <4> QED BY <1>6, <3>2, <4>1
    <3> QED BY <3>1, <3>2
  <2> QED BY <2>1
<1>10. f = Def(f)
  <2> HIDE DEF h
  <2> QED BY <1>9
<1> HIDE DEF f
<1>11. f[n] = G(n)
  <2> DEFINE S == {k \in 0 .. n : f[k] = G(k)}
  <2>1. 0 \in S
    BY <1>1, <1>3, <1>10
  <2>2. ASSUME NEW k \in 0 .. n - 1, k \in S PROVE k + 1 \in S
    <3>1. k + 1 \in 1 .. n /\ k + 1 \in 0 .. n /\ k + 1 # 0 /\ k + 1 - 1 = k
      BY <1>1
    <3>2. \A j \in 0 .. n : j # 0 => f[j] = Step(f[j - 1])
      BY <1>10
    <3>3. f[k + 1] = Step(G(k))
      BY <2>2, <3>1, <3>2
    <3>4. G(k + 1) = Step(G(k))
      BY <1>6, <3>1
    <3> QED BY <3>1, <3>3, <3>4
  <2> HIDE DEF S
  <2>3. 0 .. n \subseteq S
    BY <1>1, <2>1, <2>2, Induction
  <2>4. n \in S
    BY <1>1, <2>3
  <2> QED BY <2>4 DEF S
<1>12. Condense(cvs, kwd, flags) = Slice(f[n], 1, 2)
  BY <1>8 DEF f
<1> QED BY <1>4, <1>7, <1>11, <1>12 DEF cvs, top, n

\* The subtree of 2^k chunks behind chunk a comes back as its two halves.
Halved(a, k, kwd, flags) ==
  compress_subtree_to_parent_node(Piece(CHUNK_LEN * a, CHUNK_LEN * Power[k]), kwd, a, flags) =
    <<Node(k - 1, a, kwd, flags), Node(k - 1, a + Power[k - 1], kwd, flags)>>

\* A subtree of more than one chunk comes back as its two halves.
LEMMA PairIs ==
  ASSUME cpu \in Cpus, NEW a \in Nat, NEW k \in Nat \ {0}, CHUNK_LEN * Power[k] <= MaxLen,
         NEW kwd, NEW flags
  PROVE  Halved(a, k, kwd, flags)
<1>1. k \in Nat /\ k >= 1 /\ k - 1 \in Nat
  OBVIOUS
<1>2. PICK K \in 0 .. k : /\ K >= 1
                          /\ compress_subtree_wide(Piece(CHUNK_LEN * a, CHUNK_LEN * Power[k]),
                                                   kwd, a, flags) =
                               Layer(k - K, a, Power[K], kwd, flags)
  BY <1>1, WideIs
<1> DEFINE l == k - K
<1>3. l \in Nat /\ K \in Nat \ {0} /\ l + K = k /\ l + K - 1 = k - 1
  BY <1>1, <1>2
<1>4. Power[k] <= MaxLen
  <2>1. Power[k] \in Nat /\ MaxLen \in Nat
    BY <1>1, PowerUnfolds, SizesAre
  <2>2. CHUNK_LEN * Power[k] \in Nat /\ Power[k] <= CHUNK_LEN * Power[k]
    BY <2>1, ChunksOrder
  <2> QED BY <2>1, <2>2
<1> HIDE DEF l
<1>5. Condense(Layer(l, a, Power[K], kwd, flags), kwd, flags) = Layer(l + K - 1, a, 2, kwd, flags)
  <2>1. l \in Nat /\ K \in Nat \ {0} /\ Power[l + K] <= MaxLen
    BY <1>3, <1>4
  <2> QED BY <2>1, CondenseIs
<1>6. Layer(k - 1, a, 2, kwd, flags) =
        <<Node(k - 1, a, kwd, flags), Node(k - 1, a + Power[k - 1], kwd, flags)>>
  BY <1>1, LayerPair
<1>7. compress_subtree_to_parent_node(Piece(CHUNK_LEN * a, CHUNK_LEN * Power[k]), kwd, a, flags) =
        Condense(Layer(l, a, Power[K], kwd, flags), kwd, flags)
  BY <1>2 DEF l, compress_subtree_to_parent_node
<1>8. compress_subtree_to_parent_node(Piece(CHUNK_LEN * a, CHUNK_LEN * Power[k]), kwd, a, flags) =
        <<Node(k - 1, a, kwd, flags), Node(k - 1, a + Power[k - 1], kwd, flags)>>
  BY <1>3, <1>5, <1>6, <1>7
<1> QED BY Zenon, <1>8 DEF Halved

-----------------------------------------------------------------------------
(* The stack.                                                              *)

\* Even and odd numbers and their halves.
LEMMA Halves ==
  /\ \A q \in Nat : /\ (2 * q) \div 2 = q /\ (2 * q) % 2 = 0
                    /\ (2 * q + 1) \div 2 = q /\ (2 * q + 1) % 2 = 1
  /\ \A n \in Nat : n # 0 => n \div 2 \in 0 .. n - 1
  /\ \A n \in Nat : \E q \in Nat : (n = 2 * q \/ n = 2 * q + 1) /\ (n # 0 => q < n)
<1>1. ASSUME NEW q \in Nat
      PROVE  /\ (2 * q) \div 2 = q /\ (2 * q) % 2 = 0
             /\ (2 * q + 1) \div 2 = q /\ (2 * q + 1) % 2 = 1
  OBVIOUS
<1>2. ASSUME NEW n \in Nat, n # 0 PROVE n \div 2 \in 0 .. n - 1
  BY <1>2
<1>3. ASSUME NEW n \in Nat PROVE \E q \in Nat : (n = 2 * q \/ n = 2 * q + 1) /\ (n # 0 => q < n)
  <2> DEFINE q == n \div 2
  <2>1. q \in Nat /\ (n = 2 * q \/ n = 2 * q + 1) /\ (n # 0 => q < n)
    OBVIOUS
  <2> HIDE DEF q
  <2> QED BY <2>1
<1> QED BY <1>1, <1>2, <1>3

\* The 1-bits of a number, by its last bit.
LEMMA OnesUnfolds ==
  /\ Ones[0] = 0
  /\ \A q \in Nat : Ones[q] \in Nat /\ Ones[2 * q] = Ones[q] /\ Ones[2 * q + 1] = Ones[q] + 1
<1> DEFINE Out(fn, k) == IF k = 0 THEN 0 ELSE (k % 2) + fn[k \div 2]
           Def(fn, l) == [k \in 0 .. l |-> Out(fn, k)]
           Has == {l \in Nat : \E fn : fn = Def(fn, l)}
<1>1. ASSUME NEW k \in Nat, NEW f, NEW G, \A j \in 0 .. k - 1 : f[j] = G[j]
      PROVE  Out(f, k) = Out(G, k)
  <2>1. CASE k = 0
    BY <2>1
  <2>2. CASE k # 0
    <3>1. k \div 2 \in 0 .. k - 1
      BY <2>2, Halves
    <3>2. f[k \div 2] = G[k \div 2]
      BY <1>1, <3>1
    <3> QED BY <2>2, <3>2
  <2> QED BY <2>1, <2>2
<1> HIDE DEF Out
<1>2. 0 \in Has
  <2> DEFINE G == [k \in 0 .. 0 |-> Out(<< >>, k)]
  <2>1. Out(G, 0) = Out(<< >>, 0)
    <3>1. \A j \in 0 .. 0 - 1 : G[j] = << >>[j]
      OBVIOUS
    <3> HIDE DEF G
    <3> QED BY <1>1, <3>1
  <2>2. G = Def(G, 0)
    <3>1. \A k \in 0 .. 0 : k = 0
      OBVIOUS
    <3> QED BY <2>1, <3>1
  <2> QED BY <2>2
<1>3. ASSUME NEW l \in Nat, l \in Has PROVE l + 1 \in Has
  <2>1. PICK fn : fn = Def(fn, l)
    BY <1>3
  <2> DEFINE G == [k \in 0 .. l + 1 |-> IF k <= l THEN fn[k] ELSE Out(fn, l + 1)]
  <2>2. \A j \in 0 .. l : G[j] = fn[j]
    OBVIOUS
  <2>3. G[l + 1] = Out(fn, l + 1)
    OBVIOUS
  <2> HIDE DEF G
  <2>4. ASSUME NEW k \in 0 .. l + 1 PROVE G[k] = Out(G, k)
    <3>1. Out(G, k) = Out(fn, k)
      <4>1. k \in Nat /\ \A j \in 0 .. k - 1 : G[j] = fn[j]
        BY <2>2
      <4> QED BY <1>1, <4>1
    <3>2. CASE k <= l
      <4>1. k \in 0 .. l
        BY <3>2
      <4> QED BY <2>1, <2>2, <3>1, <4>1
    <3>3. CASE k = l + 1
      BY <2>3, <3>1, <3>3
    <3> QED BY <3>2, <3>3
  <2>5. G = Def(G, l + 1)
    <3>1. DOMAIN G = 0 .. l + 1 /\ G = [k \in 0 .. l + 1 |-> G[k]]
      BY DEF G
    <3> QED BY <2>4, <3>1
  <2> QED BY <2>5
<1> HIDE DEF Has
<1>4. \A l \in Nat : \E fn : fn = Def(fn, l)
  <2> SUFFICES ASSUME NEW l \in Nat PROVE l \in Has
    BY DEF Has
  <2>1. 0 .. l \subseteq Has
    BY <1>2, <1>3, Induction
  <2> QED BY <2>1
<1> DEFINE p(l) == CHOOSE fn : fn = Def(fn, l)
<1>5. ASSUME NEW l \in Nat PROVE p(l) = Def(p(l), l)
  BY <1>4, Zenon
<1> HIDE DEF p
<1>6. ASSUME NEW l \in Nat, NEW k \in 0 .. l PROVE p(l)[k] = Out(p(l), k)
  BY <1>5
<1> HIDE DEF Def
<1> DEFINE f == [k \in Nat |-> p(k)[k]]
           S == {k \in Nat : \A l \in Nat : k <= l => p(l)[k] = f[k]}
<1>7. \A k \in Nat : f[k] = p(k)[k]
  OBVIOUS
<1> HIDE DEF f
<1>8. ASSUME NEW k \in Nat, \A j \in 0 .. k - 1 : j \in S PROVE k \in S
  <2>1. ASSUME NEW l \in Nat, k <= l PROVE p(l)[k] = Out(f, k)
    <3>1. \A j \in 0 .. k - 1 : p(l)[j] = f[j]
      BY <1>8, <2>1
    <3>2. Out(p(l), k) = Out(f, k)
      BY <1>1, <3>1
    <3>3. p(l)[k] = Out(p(l), k)
      BY <1>6, <2>1
    <3> QED BY <3>2, <3>3
  <2>2. f[k] = Out(f, k)
    BY <1>7, <2>1
  <2> QED BY <2>1, <2>2
<1>9. Nat \subseteq S
  <2> HIDE DEF S
  <2> QED BY <1>8, StrongInduction
<1>10. ASSUME NEW k \in Nat PROVE f[k] = Out(f, k)
  <2>1. \A j \in 0 .. k - 1 : p(k)[j] = f[j]
    BY <1>9
  <2>2. Out(p(k), k) = Out(f, k)
    BY <1>1, <2>1
  <2> QED BY <1>6, <1>7, <2>2
<1> DEFINE Eq(G) == G = [k \in Nat |-> Out(G, k)]
           ones == CHOOSE G : Eq(G)
<1>11. Eq(f)
  <2>1. f = [k \in Nat |-> f[k]]
    BY DEF f
  <2> QED BY <1>10, <2>1
<1>12. Eq(ones)
  <2> HIDE DEF Eq
  <2> QED BY <1>11
<1>13. Ones = ones
  BY DEF Ones, Out
<1> HIDE DEF ones
<1>14. ASSUME NEW k \in Nat PROVE ones[k] = IF k = 0 THEN 0 ELSE (k % 2) + ones[k \div 2]
  BY <1>12 DEF Out
<1> HIDE DEF Eq
<1>15. ones[0] = 0
  BY <1>14
<1>16. ASSUME NEW k \in Nat PROVE ones[k] \in Nat
  <2> DEFINE T == {j \in Nat : ones[j] \in Nat}
  <2>1. ASSUME NEW n \in Nat, \A j \in 0 .. n - 1 : j \in T PROVE n \in T
    <3>1. CASE n = 0
      BY <1>15, <3>1
    <3>2. CASE n # 0
      <4>1. n \div 2 \in 0 .. n - 1
        BY <3>2, Halves
      <4>2. ones[n \div 2] \in Nat
        BY <2>1, <4>1
      <4>3. n % 2 \in Nat
        OBVIOUS
      <4> QED BY <1>14, <3>2, <4>2, <4>3
    <3> QED BY <3>1, <3>2
  <2> HIDE DEF T
  <2>2. Nat \subseteq T
    BY <2>1, StrongInduction
  <2> QED BY <2>2 DEF T
<1>17. ASSUME NEW q \in Nat PROVE ones[2 * q] = ones[q] /\ ones[2 * q + 1] = ones[q] + 1
  <2>1. /\ (2 * q) \div 2 = q /\ (2 * q) % 2 = 0 /\ 2 * q \in Nat
        /\ (2 * q + 1) \div 2 = q /\ (2 * q + 1) % 2 = 1 /\ 2 * q + 1 \in Nat
    BY Halves
  <2> DEFINE x == 2 * q
             Y == 2 * q + 1
  <2>2. x \in Nat /\ x \div 2 = q /\ x % 2 = 0 /\ Y \in Nat /\ Y # 0 /\ Y \div 2 = q /\ Y % 2 = 1
        /\ (x = 0 => q = 0)
    BY <2>1
  <2> HIDE DEF x, Y
  <2>3. ones[x] = ones[q]
    BY <1>14, <1>15, <1>16, <2>2
  <2>4. ones[Y] = ones[q] + 1
    BY <1>14, <1>16, <2>2
  <2> QED BY <2>3, <2>4 DEF x, Y
<1> QED BY <1>13, <1>15, <1>16, <1>17

Trees(q, l, kwd, flags) == Subtrees(kwd, flags)[q][l]

\* The trees for twice as many groups of half the size, and for one more.
TreesStep(q, l, kwd, flags) ==
  /\ Trees(0, l, kwd, flags) = << >>
  /\ Trees(2 * q, l, kwd, flags) = Trees(q, l + 1, kwd, flags)
  /\ Trees(2 * q + 1, l, kwd, flags) =
       Added(Trees(q, l + 1, kwd, flags), Node(l, (2 * q) * Power[l], kwd, flags))

\* The complete subtrees for a count, by its last bit.
LEMMA TreesUnfold ==
  ASSUME NEW U \in Nat, NEW v \in Nat, NEW kwd, NEW flags
  PROVE  TreesStep(U, v, kwd, flags)
<1> DEFINE Out(fn, k) ==
             [l \in Nat |->
               IF k = 0 THEN << >>
               ELSE IF k % 2 = 0 THEN fn[k \div 2][l + 1]
               ELSE Append(fn[k \div 2][l + 1], Node(l, (k - 1) * Power[l], kwd, flags))]
           Def(fn, l) == [k \in 0 .. l |-> Out(fn, k)]
           Has == {l \in Nat : \E fn : fn = Def(fn, l)}
<1>1. ASSUME NEW k \in Nat, NEW f, NEW G, \A j \in 0 .. k - 1 : f[j] = G[j]
      PROVE  Out(f, k) = Out(G, k)
  <2>1. CASE k = 0
    BY <2>1
  <2>2. CASE k # 0
    <3>1. k \div 2 \in 0 .. k - 1
      BY <2>2, Halves
    <3>2. f[k \div 2] = G[k \div 2]
      BY <1>1, <3>1
    <3> QED BY <2>2, <3>2
  <2> QED BY <2>1, <2>2
<1> HIDE DEF Out
<1>2. 0 \in Has
  <2> DEFINE G == [k \in 0 .. 0 |-> Out(<< >>, k)]
  <2>1. Out(G, 0) = Out(<< >>, 0)
    <3>1. \A j \in 0 .. 0 - 1 : G[j] = << >>[j]
      OBVIOUS
    <3> HIDE DEF G
    <3> QED BY <1>1, <3>1
  <2>2. G = Def(G, 0)
    <3>1. \A k \in 0 .. 0 : k = 0
      OBVIOUS
    <3> QED BY <2>1, <3>1
  <2> QED BY <2>2
<1>3. ASSUME NEW l \in Nat, l \in Has PROVE l + 1 \in Has
  <2>1. PICK fn : fn = Def(fn, l)
    BY <1>3
  <2> DEFINE G == [k \in 0 .. l + 1 |-> IF k <= l THEN fn[k] ELSE Out(fn, l + 1)]
  <2>2. \A j \in 0 .. l : G[j] = fn[j]
    OBVIOUS
  <2>3. G[l + 1] = Out(fn, l + 1)
    OBVIOUS
  <2> HIDE DEF G
  <2>4. ASSUME NEW k \in 0 .. l + 1 PROVE G[k] = Out(G, k)
    <3>1. Out(G, k) = Out(fn, k)
      <4>1. k \in Nat /\ \A j \in 0 .. k - 1 : G[j] = fn[j]
        BY <2>2
      <4> QED BY <1>1, <4>1
    <3>2. CASE k <= l
      <4>1. k \in 0 .. l
        BY <3>2
      <4> QED BY <2>1, <2>2, <3>1, <4>1
    <3>3. CASE k = l + 1
      BY <2>3, <3>1, <3>3
    <3> QED BY <3>2, <3>3
  <2>5. G = Def(G, l + 1)
    <3>1. DOMAIN G = 0 .. l + 1 /\ G = [k \in 0 .. l + 1 |-> G[k]]
      BY DEF G
    <3> QED BY <2>4, <3>1
  <2> QED BY <2>5
<1> HIDE DEF Has
<1>4. \A l \in Nat : \E fn : fn = Def(fn, l)
  <2> SUFFICES ASSUME NEW l \in Nat PROVE l \in Has
    BY DEF Has
  <2>1. 0 .. l \subseteq Has
    BY <1>2, <1>3, Induction
  <2> QED BY <2>1
<1> DEFINE p(l) == CHOOSE fn : fn = Def(fn, l)
<1>5. ASSUME NEW l \in Nat PROVE p(l) = Def(p(l), l)
  BY <1>4, Zenon
<1> HIDE DEF p
<1>6. ASSUME NEW l \in Nat, NEW k \in 0 .. l PROVE p(l)[k] = Out(p(l), k)
  BY <1>5
<1> HIDE DEF Def
<1> DEFINE f == [k \in Nat |-> p(k)[k]]
           S == {k \in Nat : \A l \in Nat : k <= l => p(l)[k] = f[k]}
<1>7. \A k \in Nat : f[k] = p(k)[k]
  OBVIOUS
<1> HIDE DEF f
<1>8. ASSUME NEW k \in Nat, \A j \in 0 .. k - 1 : j \in S PROVE k \in S
  <2>1. ASSUME NEW l \in Nat, k <= l PROVE p(l)[k] = Out(f, k)
    <3>1. \A j \in 0 .. k - 1 : p(l)[j] = f[j]
      BY <1>8, <2>1
    <3>2. Out(p(l), k) = Out(f, k)
      BY <1>1, <3>1
    <3>3. p(l)[k] = Out(p(l), k)
      BY <1>6, <2>1
    <3> QED BY <3>2, <3>3
  <2>2. f[k] = Out(f, k)
    BY <1>7, <2>1
  <2> QED BY <2>1, <2>2
<1>9. Nat \subseteq S
  <2> HIDE DEF S
  <2> QED BY <1>8, StrongInduction
<1>10. ASSUME NEW k \in Nat PROVE f[k] = Out(f, k)
  <2>1. \A j \in 0 .. k - 1 : p(k)[j] = f[j]
    BY <1>9
  <2>2. Out(p(k), k) = Out(f, k)
    BY <1>1, <2>1
  <2> QED BY <1>6, <1>7, <2>2
<1> DEFINE Eq(G) == G = [k \in Nat |-> Out(G, k)]
           trees == CHOOSE G : Eq(G)
<1>11. Eq(f)
  <2>1. f = [k \in Nat |-> f[k]]
    BY DEF f
  <2> QED BY <1>10, <2>1
<1>12. Eq(trees)
  <2> HIDE DEF Eq
  <2> QED BY <1>11
<1>13. Subtrees(kwd, flags) = trees
  BY DEF Subtrees, Out
<1> HIDE DEF trees
<1>14. ASSUME NEW k \in Nat, NEW l \in Nat
       PROVE  trees[k][l] =
                IF k = 0 THEN << >>
                ELSE IF k % 2 = 0 THEN trees[k \div 2][l + 1]
                ELSE Added(trees[k \div 2][l + 1], Node(l, (k - 1) * Power[l], kwd, flags))
  <2>1. trees[k] = Out(trees, k)
    BY <1>12
  <2> HIDE DEF Eq
  <2> QED BY <2>1 DEF Out, Added
<1> HIDE DEF Eq
<1>15. ASSUME NEW l \in Nat PROVE trees[0][l] = << >>
  BY <1>14
<1>16. ASSUME NEW l \in Nat, NEW q \in Nat
       PROVE  /\ trees[2 * q][l] = trees[q][l + 1]
              /\ trees[2 * q + 1][l] =
                   Added(trees[q][l + 1], Node(l, (2 * q) * Power[l], kwd, flags))
  <2> DEFINE x == 2 * q
             Y == 2 * q + 1
  <2>1. /\ x \in Nat /\ x \div 2 = q /\ x % 2 = 0 /\ (x = 0 => q = 0)
        /\ Y \in Nat /\ Y # 0 /\ Y \div 2 = q /\ Y % 2 = 1 /\ Y - 1 = x /\ l + 1 \in Nat
    BY Halves
  <2> HIDE DEF x, Y
  <2>2. trees[x][l] = trees[q][l + 1]
    <3>1. CASE x = 0
      BY <1>15, <2>1, <3>1
    <3>2. CASE x # 0
      BY <1>14, <2>1, <3>2
    <3> QED BY <3>1, <3>2
  <2>3. trees[Y][l] = Added(trees[q][l + 1], Node(l, x * Power[l], kwd, flags))
    <3>1. (Y - 1) * Power[l] = x * Power[l]
      BY <2>1
    <3>2. trees[Y][l] = Added(trees[Y \div 2][l + 1], Node(l, (Y - 1) * Power[l], kwd, flags))
      <4>1. trees[Y][l] =
              IF Y = 0 THEN << >>
              ELSE IF Y % 2 = 0 THEN trees[Y \div 2][l + 1]
              ELSE Added(trees[Y \div 2][l + 1], Node(l, (Y - 1) * Power[l], kwd, flags))
        BY <1>14, <2>1, Zenon
      <4>2. Y # 0 /\ ~ (Y % 2 = 0)
        BY <2>1
      <4> QED BY <4>1, <4>2, Zenon
    <3> QED BY <2>1, <3>1, <3>2
  <2> QED BY <2>2, <2>3 DEF x, Y
<1>17. /\ trees[0][v] = << >>
       /\ trees[2 * U][v] = trees[U][v + 1]
       /\ trees[2 * U + 1][v] =
            Added(trees[U][v + 1], Node(v, (2 * U) * Power[v], kwd, flags))
  BY <1>15, <1>16
<1> QED BY <1>13, <1>17 DEF TreesStep, Trees

\* Multiples of neighbouring powers.
LEMMA PowerTimes ==
  ASSUME NEW l \in Nat, NEW q \in Nat
  PROVE  /\ Power[l] * q \in Nat
         /\ Power[l + 1] * q = 2 * (Power[l] * q)
         /\ Power[l + 1] * q = Power[l] * (2 * q)
         /\ Power[l + 1] * q + Power[l] = Power[l] * (2 * q + 1)
         /\ (2 * q) * Power[l] = Power[l + 1] * q
<1> DEFINE p == Power[l]
<1>1. p \in Nat /\ Power[l + 1] = 2 * p
  BY PowerUnfolds
<1> HIDE DEF p
<1>2. p * q \in Nat /\ (2 * p) * q = 2 * (p * q) /\ p * (2 * q) = 2 * (p * q)
      /\ p * (2 * q + 1) = 2 * (p * q) + p /\ (2 * q) * p = 2 * (p * q)
  BY <1>1
<1> QED BY <1>1, <1>2 DEF p

\* Zeros at the end of a count only make its subtrees greater.
LEMMA Shifted ==
  ASSUME NEW I \in Nat, NEW q \in Nat, NEW j \in Nat, NEW kwd, NEW flags
  PROVE  /\ Trees(Power[I] * q, j, kwd, flags) = Trees(q, I + j, kwd, flags)
         /\ Ones[Power[I] * q] = Ones[q]
<1> DEFINE T(x, Y) == Trees(x, Y, kwd, flags)
           S == {k \in 0 .. I : /\ \A Y \in Nat : T(Power[k] * q, Y) = T(q, k + Y)
                                /\ Ones[Power[k] * q] = Ones[q]}
<1>1. 0 \in S
  <2>1. Power[0] * q = q /\ 0 \in 0 .. I
    <3>1. Power[0] = 1
      BY PowerUnfolds
    <3> QED BY <3>1
  <2>2. ASSUME NEW Y \in Nat PROVE 0 + Y = Y
    OBVIOUS
  <2> HIDE DEF T
  <2> QED BY <2>1, <2>2
<1>2. ASSUME NEW k \in 0 .. I - 1, k \in S PROVE k + 1 \in S
  <2> DEFINE x == Power[k] * q
  <2>1. k \in Nat /\ x \in Nat /\ Power[k + 1] * q = 2 * x /\ k + 1 \in 0 .. I
    <3>1. k \in Nat /\ k + 1 \in 0 .. I
      OBVIOUS
    <3>2. x \in Nat /\ Power[k + 1] * q = 2 * x
      BY <3>1, PowerTimes
    <3> QED BY <3>1, <3>2
  <2>2. \A Y \in Nat : T(x, Y) = T(q, k + Y)
    BY <1>2
  <2>3. Ones[x] = Ones[q]
    BY <1>2
  <2> HIDE DEF x
  <2>4. ASSUME NEW Y \in Nat PROVE T(Power[k + 1] * q, Y) = T(q, (k + 1) + Y)
    <3>1. T(2 * x, Y) = T(x, Y + 1)
      <4>1. TreesStep(x, Y, kwd, flags)
        BY <2>1, TreesUnfold
      <4> QED BY <4>1, Zenon DEF TreesStep
    <3> HIDE DEF T
    <3>2. Y + 1 \in Nat /\ k + (Y + 1) = (k + 1) + Y
      BY <2>1
    <3>3. T(x, Y + 1) = T(q, k + (Y + 1))
      BY <2>2, <3>2
    <3> QED BY <2>1, <3>1, <3>2, <3>3
  <2>5. Ones[Power[k + 1] * q] = Ones[q]
    BY <2>1, <2>3, OnesUnfolds
  <2> HIDE DEF T
  <2> QED BY <2>1, <2>4, <2>5
<1> HIDE DEF S
<1>3. 0 .. I \subseteq S
  BY <1>1, <1>2, Induction
<1>4. I \in S
  BY <1>3
<1> QED BY <1>4 DEF S

\* There is one subtree for every 1-bit.
LEMMA TreesListed ==
  ASSUME NEW q \in Nat, NEW l \in Nat, NEW kwd, NEW flags
  PROVE  Listed(Trees(q, l, kwd, flags), Ones[q])
<1> DEFINE T(x, Y) == Trees(x, Y, kwd, flags)
           S == {x \in Nat : \A Y \in Nat : Listed(T(x, Y), Ones[x])}
<1>1. ASSUME NEW n \in Nat, \A k \in 0 .. n - 1 : k \in S PROVE n \in S
  <2> SUFFICES ASSUME NEW Y \in Nat PROVE Listed(T(n, Y), Ones[n])
    OBVIOUS
  <2>1. PICK x \in Nat : (n = 2 * x \/ n = 2 * x + 1) /\ (n # 0 => x < n)
    BY Halves
  <2>2. Ones[0] = 0 /\ Ones[x] \in Nat /\ Ones[2 * x] = Ones[x] /\ Ones[2 * x + 1] = Ones[x] + 1
    BY OnesUnfolds
  <2>3. /\ T(0, Y) = << >> /\ T(2 * x, Y) = T(x, Y + 1)
        /\ T(2 * x + 1, Y) = Added(T(x, Y + 1), Node(Y, (2 * x) * Power[Y], kwd, flags))
    <3>1. TreesStep(x, Y, kwd, flags)
      BY TreesUnfold
    <3> QED BY <3>1, Zenon DEF TreesStep
  <2>4. Y + 1 \in Nat
    OBVIOUS
  <2> HIDE DEF T
  <2>5. CASE n = 0
    BY <2>2, <2>3, <2>5, ListedEmpty
  <2>6. CASE n # 0
    <3>1. x \in S
      BY <1>1, <2>1, <2>6
    <3>2. Listed(T(x, Y + 1), Ones[x])
      BY <2>4, <3>1
    <3>3. CASE n = 2 * x
      BY <2>2, <2>3, <3>2, <3>3
    <3>4. CASE n = 2 * x + 1
      <4> DEFINE node == Node(Y, (2 * x) * Power[Y], kwd, flags)
                 s == T(x, Y + 1)
                 k == Ones[x]
      <4>1. Listed(s, k) /\ k \in Nat
        BY <2>2, <3>2
      <4> HIDE DEF node, s, k
      <4>2. Extended(Added(s, node), s, k, node)
        BY <4>1, ListedAppend
      <4>3. Listed(Added(s, node), k + 1)
        BY <4>2 DEF Extended
      <4> QED BY <2>2, <2>3, <3>4, <4>3 DEF node, s, k
    <3> QED BY <2>1, <3>3, <3>4
  <2> QED BY <2>5, <2>6
<1> HIDE DEF S
<1>2. Nat \subseteq S
  BY <1>1, StrongInduction
<1>3. q \in S
  BY <1>2
<1> QED BY <1>3 DEF S

\* One more subtree, no larger than any before it.
TreeAdded(l, M, kwd, flags) ==
  /\ M \in Nat /\ M + Power[l] \in Nat
  /\ Trees(M + Power[l], 0, kwd, flags) =
       Added(Trees(M, 0, kwd, flags), Node(l, M, kwd, flags))
  /\ Ones[M + Power[l]] = Ones[M] + 1

\* A subtree is added where its bit was 0.
LEMMA TreeAdd ==
  ASSUME NEW l \in Nat, NEW q \in Nat, NEW M, M = Power[l + 1] * q, NEW kwd, NEW flags
  PROVE  TreeAdded(l, M, kwd, flags)
<1> DEFINE T(x, Y) == Trees(x, Y, kwd, flags)
<1>1. /\ M \in Nat /\ M + Power[l] = Power[l] * (2 * q + 1) /\ (2 * q) * Power[l] = M
      /\ 2 * q + 1 \in Nat /\ l + 1 \in Nat /\ Power[l] \in Nat
  <2>1. /\ Power[l + 1] * q = Power[l] * (2 * q)
        /\ Power[l + 1] * q + Power[l] = Power[l] * (2 * q + 1)
        /\ (2 * q) * Power[l] = Power[l + 1] * q
    BY PowerTimes, Zenon
  <2>2. Power[l] \in Nat /\ l + 1 \in Nat /\ 2 * q + 1 \in Nat /\ 2 * q \in Nat
    BY PowerUnfolds
  <2>3. Power[l + 1] * q \in Nat
    BY <2>2, PowerTimes, Zenon
  <2> HIDE DEF T
  <2> QED BY <2>1, <2>2, <2>3
<1>2. T(M, 0) = T(q, l + 1) /\ Ones[M] = Ones[q]
  <2> DEFINE I == l + 1
  <2>1. I \in Nat /\ I + 0 = I /\ M = Power[I] * q
    OBVIOUS
  <2> HIDE DEF I
  <2>2. T(Power[I] * q, 0) = T(q, I + 0) /\ Ones[Power[I] * q] = Ones[q]
    BY <2>1, Shifted
  <2> HIDE DEF T
  <2> QED BY <2>1, <2>2 DEF I
<1>3. T(M + Power[l], 0) = T(2 * q + 1, l) /\ Ones[M + Power[l]] = Ones[2 * q + 1]
  <2> DEFINE x == 2 * q + 1
  <2>1. x \in Nat /\ l + 0 = l /\ M + Power[l] = Power[l] * x
    BY <1>1
  <2> HIDE DEF x
  <2>2. T(Power[l] * x, 0) = T(x, l + 0) /\ Ones[Power[l] * x] = Ones[x]
    <3> DEFINE I == l
    <3>1. I \in Nat /\ I + 0 = I
      OBVIOUS
    <3> HIDE DEF I
    <3>2. T(Power[I] * x, 0) = T(x, I + 0) /\ Ones[Power[I] * x] = Ones[x]
      BY <2>1, <3>1, Shifted
    <3> QED BY <3>2 DEF I
  <2> HIDE DEF T
  <2> QED BY <2>1, <2>2 DEF x
<1>4. T(2 * q + 1, l) = Added(T(q, l + 1), Node(l, (2 * q) * Power[l], kwd, flags))
  <2>1. TreesStep(q, l, kwd, flags)
    BY TreesUnfold
  <2> QED BY <2>1, Zenon DEF TreesStep
<1>5. Ones[2 * q + 1] = Ones[q] + 1
  BY OnesUnfolds
<1> HIDE DEF T
<1>6. T(M + Power[l], 0) = Added(T(M, 0), Node(l, M, kwd, flags)) /\ Ones[M + Power[l]] = Ones[M] + 1
  BY <1>1, <1>2, <1>3, <1>4, <1>5
<1>7. M + Power[l] \in Nat
  BY <1>1
<1> QED BY <1>1, <1>6, <1>7, Zenon DEF T, TreeAdded

\* A positive number has a lowest 1-bit.
LEMMA LowBit ==
  ASSUME NEW M \in Nat \ {0}
  PROVE  \E l, q \in Nat : M = Power[l] * (2 * q + 1)
<1> DEFINE S == {x \in Nat : x # 0 => \E l, q \in Nat : x = Power[l] * (2 * q + 1)}
<1>1. ASSUME NEW n \in Nat, \A k \in 0 .. n - 1 : k \in S PROVE n \in S
  <2> SUFFICES ASSUME n # 0 PROVE \E l, q \in Nat : n = Power[l] * (2 * q + 1)
    OBVIOUS
  <2>1. PICK x \in Nat : (n = 2 * x \/ n = 2 * x + 1) /\ (n # 0 => x < n)
    BY Halves
  <2>2. CASE n = 2 * x + 1
    <3>1. n = Power[0] * (2 * x + 1)
      <4>1. Power[0] = 1
        BY PowerUnfolds
      <4> QED BY <2>2, <4>1
    <3> QED BY <3>1
  <2>3. CASE n = 2 * x
    <3>1. x # 0 /\ x \in S
      BY <1>1, <2>1, <2>3
    <3>2. PICK l \in Nat, q \in Nat : x = Power[l] * (2 * q + 1)
      BY <3>1
    <3> DEFINE z == 2 * q + 1
    <3>3. z \in Nat /\ x = Power[l] * z
      BY <3>2
    <3> HIDE DEF z
    <3>4. Power[l + 1] * z = 2 * (Power[l] * z)
      BY <3>3, PowerTimes
    <3>5. n = Power[l + 1] * z /\ l + 1 \in Nat
      BY <2>3, <3>3, <3>4
    <3> QED BY <3>5 DEF z
  <2> QED BY <2>1, <2>2, <2>3
<1> HIDE DEF S
<1>2. Nat \subseteq S
  BY <1>1, StrongInduction
<1>3. M \in S
  BY <1>2
<1> QED BY <1>3 DEF S

\* A positive number has a 1-bit.
LEMMA OnesPositive ==
  ASSUME NEW M \in Nat \ {0}
  PROVE  Ones[M] \in Nat \ {0}
<1>1. PICK l \in Nat, q \in Nat : M = Power[l] * (2 * q + 1)
  BY LowBit
<1> DEFINE x == 2 * q + 1
<1>2. x \in Nat
  OBVIOUS
<1>3. Ones[x] = Ones[q] + 1 /\ Ones[q] \in Nat
  BY OnesUnfolds
<1> HIDE DEF x
<1>4. Ones[Power[l] * x] = Ones[x]
  BY <1>2, Shifted
<1> QED BY <1>1, <1>3, <1>4 DEF x

\* Counting one more adds at most one 1-bit.
LEMMA OnesNext ==
  ASSUME NEW M \in Nat
  PROVE  Ones[M + 1] <= Ones[M] + 1
<1> DEFINE S == {x \in Nat : Ones[x + 1] <= Ones[x] + 1}
<1>1. ASSUME NEW n \in Nat, \A k \in 0 .. n - 1 : k \in S PROVE n \in S
  <2>1. PICK x \in Nat : (n = 2 * x \/ n = 2 * x + 1) /\ (n # 0 => x < n)
    BY Halves
  <2>2. Ones[x] \in Nat /\ Ones[2 * x] = Ones[x] /\ Ones[2 * x + 1] = Ones[x] + 1
    BY OnesUnfolds
  <2>3. CASE n = 2 * x
    BY <2>2, <2>3
  <2>4. CASE n = 2 * x + 1
    <3>1. x \in S
      BY <1>1, <2>1, <2>4
    <3>2. Ones[x + 1] \in Nat /\ Ones[2 * (x + 1)] = Ones[x + 1] /\ n + 1 = 2 * (x + 1)
      BY <2>4, OnesUnfolds
    <3> QED BY <2>2, <2>4, <3>1, <3>2
  <2> QED BY <2>1, <2>3, <2>4
<1> HIDE DEF S
<1>2. Nat \subseteq S
  BY <1>1, StrongInduction
<1> QED BY <1>2 DEF S

\* A number below a power has at most as many 1-bits as its exponent.
LEMMA OnesBound ==
  ASSUME NEW d \in Nat, NEW M \in Nat, M < Power[d]
  PROVE  Ones[M] <= d
<1> DEFINE S == {k \in 0 .. d : \A x \in Nat : x < Power[k] => Ones[x] <= k}
<1>1. 0 \in S
  <2>1. Power[0] = 1 /\ Ones[0] = 0 /\ \A x \in Nat : x < 1 => x = 0
    BY PowerUnfolds, OnesUnfolds
  <2> QED BY <2>1
<1>2. ASSUME NEW k \in 0 .. d - 1, k \in S PROVE k + 1 \in S
  <2> SUFFICES ASSUME NEW n \in Nat, n < Power[k + 1] PROVE Ones[n] <= k + 1
    OBVIOUS
  <2>1. PICK x \in Nat : n = 2 * x \/ n = 2 * x + 1
    BY Halves
  <2>2. Ones[x] \in Nat /\ Ones[2 * x] = Ones[x] /\ Ones[2 * x + 1] = Ones[x] + 1
    BY OnesUnfolds
  <2>3. Power[k] \in Nat /\ Power[k + 1] = 2 * Power[k]
    BY PowerUnfolds
  <2>4. x < Power[k]
    BY <2>1, <2>3
  <2>5. Ones[x] <= k
    BY <1>2, <2>4
  <2> QED BY <2>1, <2>2, <2>5
<1> HIDE DEF S
<1>3. 0 .. d \subseteq S
  BY <1>1, <1>2, Induction
<1>4. d \in S
  BY <1>3
<1> QED BY <1>4 DEF S

HasherAt(kwd, chunk, stack) == [key |-> kwd, chunk |-> chunk, cv_stack |-> stack]
WithStack(h, s) == [h EXCEPT !.cv_stack = s]
WithChunk(h, c) == [h EXCEPT !.chunk = c]

\* The fields of a hasher.
LEMMA HasherFields ==
  ASSUME NEW kwd, NEW chunk, NEW stack
  PROVE  /\ HasherAt(kwd, chunk, stack).key = kwd
         /\ HasherAt(kwd, chunk, stack).chunk = chunk
         /\ HasherAt(kwd, chunk, stack).cv_stack = stack
BY DEF HasherAt

\* An update of a field of a hasher.
LEMMA HasherUpdates ==
  ASSUME NEW kwd, NEW chunk, NEW stack, NEW s, NEW c
  PROVE  /\ WithStack(HasherAt(kwd, chunk, stack), s) = HasherAt(kwd, chunk, s)
         /\ WithChunk(HasherAt(kwd, chunk, stack), c) = HasherAt(kwd, c, stack)
<1> DEFINE h == HasherAt(kwd, chunk, stack)
<1>2. [h EXCEPT !.cv_stack = s] = HasherAt(kwd, chunk, s)
  BY DEF HasherAt
<1>3. [h EXCEPT !.chunk = c] = HasherAt(kwd, c, stack)
  BY DEF HasherAt
<1> HIDE DEF h
<1>4. WithStack(h, s) = HasherAt(kwd, chunk, s) /\ WithChunk(h, c) = HasherAt(kwd, c, stack)
  BY <1>2, <1>3 DEF WithStack, WithChunk
<1> QED BY <1>4 DEF h

\* The two entries on top of a stack, and the rest.
Topped(s, K, k, x, Y) ==
  /\ Listed(s, k + 2)
  /\ Slice(s, k + 1, k + 2) = <<x, Y>>
  /\ Slice(s, 1, k) = K

\* The entries of a pair.
LEMMA PairListed ==
  ASSUME NEW x, NEW Y
  PROVE  Listed(<<x, Y>>, 2) /\ <<x, Y>>[1] = x /\ <<x, Y>>[2] = Y
<1> DEFINE L == <<x, Y>>
<1>1. L[1] = x /\ L[2] = Y /\ L = [I \in 1 .. 2 |-> L[I]]
  OBVIOUS
<1>2. Listed(L, 2)
  BY <1>1 DEF Listed
<1> QED BY <1>1, <1>2

\* The two entries added last are on top.
LEMMA AddTwo ==
  ASSUME NEW k \in Nat, NEW K, Listed(K, k), NEW x, NEW Y
  PROVE  Topped(Added(Added(K, x), Y), K, k, x, Y)
<1> DEFINE U == Added(K, x)
           s == Added(U, Y)
<1>1. Listed(U, k + 1) /\ (\A I \in 1 .. k : U[I] = K[I]) /\ U[k + 1] = x
  <2>1. Extended(U, K, k, x)
    BY ListedAppend
  <2> QED BY <2>1, Zenon DEF Extended
<1> HIDE DEF U
<1>2. k + 1 \in Nat /\ (k + 1) + 1 = k + 2
  OBVIOUS
<1>3. Extended(s, U, k + 1, Y)
  BY <1>1, <1>2, ListedAppend
<1> HIDE DEF s
<1>4. Listed(s, k + 2) /\ (\A I \in 1 .. k + 1 : s[I] = U[I]) /\ s[k + 2] = Y
  BY <1>2, <1>3 DEF Extended
<1>5. (\A I \in 1 .. k : s[I] = K[I]) /\ s[k + 1] = x
  BY <1>1, <1>4
<1>6. Slice(s, k + 1, k + 2) = <<x, Y>>
  <2> DEFINE a == k + 1
             b == k + 2
             L == <<x, Y>>
             v == Slice(s, a, b)
  <2>1. a \in Nat \ {0} /\ b \in Nat /\ a <= b + 1 /\ b <= b /\ b + 1 - a = 2 /\ Listed(s, b)
    BY <1>4
  <2>2. a + 1 - 1 = k + 1 /\ a + 2 - 1 = k + 2
    OBVIOUS
  <2> HIDE DEF a, b
  <2>3. Listed(v, b + 1 - a) /\ \A I \in 1 .. b + 1 - a : v[I] = s[a + I - 1]
    BY <2>1, ListedSubSeq
  <2>4. Listed(v, 2) /\ \A I \in 1 .. 2 : v[I] = s[a + I - 1]
    BY <2>1, <2>3
  <2>5. Listed(L, 2) /\ L[1] = x /\ L[2] = Y
    BY PairListed
  <2> HIDE DEF v, L
  <2>6. \A I \in 1 .. 2 : v[I] = L[I]
    <3>1. v[1] = x /\ v[2] = Y
      BY <1>4, <1>5, <2>2, <2>4
    <3>2. \A I \in 1 .. 2 : I = 1 \/ I = 2
      OBVIOUS
    <3> QED BY <2>5, <3>1, <3>2
  <2>7. v = L
    BY <2>4, <2>5, <2>6, ListedEqual
  <2> QED BY <2>7 DEF a, b, L, v
<1>7. Slice(s, 1, k) = K
  <2> DEFINE b == k + 2
             v == Slice(s, 1, k)
  <2>1. 1 \in Nat \ {0} /\ k \in Nat /\ 1 <= k + 1 /\ k <= b /\ k + 1 - 1 = k /\ Listed(s, b)
    BY <1>4
  <2> HIDE DEF b
  <2>2. Listed(v, k + 1 - 1) /\ \A I \in 1 .. k + 1 - 1 : v[I] = s[1 + I - 1]
    BY <2>1, ListedSubSeq
  <2> HIDE DEF v
  <2>3. Listed(v, k) /\ \A I \in 1 .. k : v[I] = K[I]
    <3>1. \A I \in 1 .. k : 1 + I - 1 = I
      OBVIOUS
    <3> QED BY <1>5, <2>1, <2>2, <3>1
  <2>4. v = K
    BY <2>3, ListedEqual
  <2> QED BY <2>4 DEF v
<1> QED BY <1>4, <1>6, <1>7 DEF Topped, s, U

\* The last entry of the stack has not been merged.
Ready(s, c, kwd, flags) ==
  \/ c = 0 /\ s = << >>
  \/ \E l, q \in Nat : /\ c = Power[l] * q + Power[l]
                       /\ s = Added(Trees(Power[l] * q, 0, kwd, flags),
                                    Node(l, Power[l] * q, kwd, flags))

\* Either nothing is left to merge, or the top two entries are halves of a
\* complete subtree.
LEMMA ReadyStep ==
  ASSUME NEW c \in Nat, c <= MaxLen, NEW kwd, NEW chunk, NEW flags, chunk.flags = flags,
         NEW s, Ready(s, c, kwd, flags)
  PROVE  \E n \in Nat :
           /\ Listed(s, n)
           /\ \/ n = Ones[c] /\ s = Trees(c, 0, kwd, flags)
              \/ /\ n > Ones[c]
                 /\ \E L : /\ Ready(L, c, kwd, flags) /\ Listed(L, n - 1)
                           /\ MergeTop(HasherAt(kwd, chunk, s)) = HasherAt(kwd, chunk, L)
<1> DEFINE T(x) == Trees(x, 0, kwd, flags)
           N(l, M) == Node(l, M, kwd, flags)
<1>1. CASE c = 0 /\ s = << >>
  <2>1. TreesStep(0, 0, kwd, flags)
    BY TreesUnfold
  <2>2. T(0) = << >>
    BY <2>1, Zenon DEF TreesStep
  <2>3. Ones[0] = 0 /\ Listed(s, 0)
    BY <1>1, OnesUnfolds, ListedEmpty
  <2> HIDE DEF T
  <2> QED BY <1>1, <2>2, <2>3 DEF T
<1>2. CASE \E l, q \in Nat : /\ c = Power[l] * q + Power[l]
                             /\ s = Added(T(Power[l] * q), N(l, Power[l] * q))
  <2>1. PICK l \in Nat, q \in Nat : /\ c = Power[l] * q + Power[l]
                                    /\ s = Added(T(Power[l] * q), N(l, Power[l] * q))
    BY <1>2
  <2> DEFINE M == Power[l] * q
  <2>2. M \in Nat /\ Ones[M] \in Nat
    <3>1. M \in Nat
      BY PowerTimes, Zenon
    <3> HIDE DEF M
    <3> QED BY <3>1, OnesUnfolds
  <2>3. Listed(T(M), Ones[M])
    BY <2>2, TreesListed
  <2>4. Listed(s, Ones[M] + 1)
    <3> DEFINE K == T(M)
               x == N(l, M)
               k == Ones[M]
    <3>1. k \in Nat /\ Listed(K, k) /\ s = Added(K, x)
      BY <2>1, <2>2, <2>3
    <3> HIDE DEF K, x, k
    <3>2. Extended(Added(K, x), K, k, x)
      BY <3>1, ListedAppend
    <3> QED BY <3>1, <3>2 DEF k, Extended
  <2>5. PICK z \in Nat : q = 2 * z \/ q = 2 * z + 1
    BY Halves
  <2> DEFINE V == Power[l + 1] * z
  <2>6. /\ V \in Nat /\ V + Power[l] \in Nat
        /\ T(V + Power[l]) = Added(T(V), N(l, V))
        /\ Ones[V + Power[l]] = Ones[V] + 1
    <3>1. V = Power[l + 1] * z
      OBVIOUS
    <3> HIDE DEF V, M, T, N
    <3>2. TreeAdded(l, V, kwd, flags)
      BY <3>1, TreeAdd
    <3> QED BY <3>2, Zenon DEF T, N, TreeAdded
  <2>7. V = Power[l] * (2 * z) /\ V + Power[l] = Power[l] * (2 * z + 1)
    BY PowerTimes, Zenon
  <2>8. Power[l] \in Nat
    BY PowerUnfolds
  <2> HIDE DEF T, N, V, M
  <2>9. CASE q = 2 * z
    <3>1. M = V
      BY <2>7, <2>9 DEF M
    <3>2. c = V + Power[l]
      BY <2>1, <3>1 DEF M
    <3>3. s = T(c) /\ Ones[c] = Ones[M] + 1
      BY <2>1, <2>6, <3>1, <3>2 DEF M
    <3> QED BY <2>2, <2>4, <3>3 DEF T
  <2>10. CASE q = 2 * z + 1
    <3>1. M = V + Power[l]
      BY <2>7, <2>10 DEF M
    <3> DEFINE k == Ones[V]
               K == T(V)
               p == Power[l]
    <3>2. k \in Nat /\ Listed(K, k)
      BY <2>6, OnesUnfolds, TreesListed DEF T
    <3>3. Ones[M] = k + 1
      BY <2>6, <3>1
    <3>4. s = Added(Added(K, N(l, V)), N(l, M))
      <4>1. T(M) = Added(K, N(l, V))
        BY <2>6, <3>1
      <4> QED BY <2>1, <4>1 DEF M
    <3>5. Topped(s, K, k, N(l, V), N(l, M))
      <4> HIDE DEF k, K
      <4> QED BY <3>2, <3>4, AddTwo
    <3>6. Listed(s, k + 2) /\ Slice(s, k + 1, k + 2) = <<N(l, V), N(l, M)>> /\ Slice(s, 1, k) = K
      BY <3>5 DEF Topped
    <3>7. c = V + 2 * p /\ Power[l + 1] = 2 * p
      <4>1. c = M + p
        BY <2>1 DEF M
      <4>2. Power[l + 1] = 2 * p
        BY PowerUnfolds
      <4> QED BY <2>6, <2>8, <3>1, <4>1, <4>2
    <3>8. l \in Bits
      <4>1. Power[l] <= MaxLen
        BY <2>6, <2>8, <3>7, SizesAre
      <4> QED BY <4>1, PowerInBits
    <3> DEFINE parent == RefCv(ParentOutput(<<N(l, V), N(l, M)>>, kwd, flags))
               L == Added(K, parent)
    <3>9. parent = N(l + 1, V)
      <4>1. Node(l + 1, V, kwd, flags) =
              RefCv(ParentOutput(<<Node(l, V, kwd, flags), Node(l, V + Power[l], kwd, flags)>>,
                                 kwd, flags))
        BY <2>6, <3>8, ParentNode
      <4>2. parent = RefCv(ParentOutput(<<Node(l, V, kwd, flags), Node(l, V + Power[l], kwd, flags)>>,
                                        kwd, flags))
        BY <3>1, Zenon DEF N
      <4> QED BY <4>1, <4>2, Zenon DEF N
    <3>10. Ready(L, c, kwd, flags)
      <4>1. l + 1 \in Nat /\ c = Power[l + 1] * z + Power[l + 1]
        BY <3>7 DEF V
      <4>2. L = Added(T(Power[l + 1] * z), N(l + 1, Power[l + 1] * z))
        BY <3>9 DEF V
      <4> HIDE DEF L, K, parent
      <4> QED BY <4>1, <4>2 DEF Ready, T, N
    <3>11. Listed(L, k + 1)
      <4> HIDE DEF parent, K, k
      <4>1. Extended(Added(K, parent), K, k, parent)
        BY <3>2, ListedAppend
      <4> QED BY <4>1 DEF Extended
    <3>12. MergeTop(HasherAt(kwd, chunk, s)) = HasherAt(kwd, chunk, L)
      <4> DEFINE h == HasherAt(kwd, chunk, s)
      <4>1. h.key = kwd /\ h.chunk = chunk /\ h.cv_stack = s /\ WithStack(h, L) = HasherAt(kwd, chunk, L)
        <5> HIDE DEF L
        <5> QED BY HasherFields, HasherUpdates
      <4> HIDE DEF h
      <4>2. MergeTop(h) =
              WithStack(h, Added(Slice(h.cv_stack, 1, Len(h.cv_stack) - 2),
                                 ChainingValue(ParentOutput(
                                   Slice(h.cv_stack, Len(h.cv_stack) - 1, Len(h.cv_stack)),
                                   h.key, h.chunk.flags))))
        BY DEF MergeTop, WithStack, Added, Slice
      <4>3. Len(s) = k + 2 /\ (k + 2) - 1 = k + 1 /\ (k + 2) - 2 = k
        <5>1. Len(s) = k + 2
          BY <3>6, ListedIs
        <5> HIDE DEF k
        <5> QED BY <3>2, <5>1
      <4> DEFINE pair == <<N(l, V), N(l, M)>>
      <4> HIDE DEF k, K, pair
      <4>4. MergeTop(h) = WithStack(h, Added(K, ChainingValue(ParentOutput(pair, kwd, flags))))
        BY <3>6, <4>1, <4>2, <4>3 DEF pair
      <4>5. ChainingValue(ParentOutput(pair, kwd, flags)) = parent
        BY RefCvIs, Zenon DEF pair
      <4> HIDE DEF parent, L
      <4>6. WithStack(h, Added(K, parent)) = HasherAt(kwd, chunk, L)
        BY <4>1 DEF L
      <4> QED BY <4>4, <4>5, <4>6 DEF h
    <3>13. Ones[c] <= k + 1 /\ Ones[c] \in Nat
      <4>1. c = Power[l] * (q + 1)
        <5>1. p \in Nat /\ q \in Nat /\ p * (q + 1) = p * q + p
          BY <2>8
        <5> QED BY <2>1, <5>1
      <4>2. q + 1 \in Nat /\ 0 \in Nat
        OBVIOUS
      <4>3. Ones[Power[l] * (q + 1)] = Ones[q + 1]
        BY <4>2, Shifted, Zenon
      <4>4. Ones[Power[l] * q] = Ones[q]
        BY <4>2, Shifted, Zenon
      <4>5. Ones[q + 1] <= Ones[q] + 1 /\ Ones[q] \in Nat /\ Ones[q + 1] \in Nat
        BY <4>2, OnesNext, OnesUnfolds
      <4>6. k + 1 = Ones[q]
        BY <3>3, <4>4 DEF M
      <4>7. Ones[q + 1] <= k + 1
        <5>1. z \in Nat /\ z + 1 \in Nat
          OBVIOUS
        <5>2. Ones[q] = Ones[z] + 1 /\ Ones[z] \in Nat
          BY <2>10, OnesUnfolds
        <5>3. q + 1 = 2 * (z + 1)
          BY <2>10
        <5>4. Ones[q + 1] = Ones[z + 1]
          <6> DEFINE Y == z + 1
          <6>1. Y \in Nat /\ q + 1 = 2 * Y
            BY <5>1, <5>3
          <6> HIDE DEF Y
          <6>2. Ones[2 * Y] = Ones[Y]
            BY <6>1, OnesUnfolds
          <6> QED BY <6>1, <6>2 DEF Y
        <5>5. Ones[z + 1] <= Ones[z] + 1
          BY OnesNext
        <5> HIDE DEF k
        <5> QED BY <4>6, <5>2, <5>4, <5>5
      <4> HIDE DEF k
      <4> QED BY <4>1, <4>3, <4>5, <4>7
    <3> HIDE DEF k, L
    <3>14. k + 2 \in Nat /\ k + 2 > Ones[c] /\ (k + 2) - 1 = k + 1
      BY <3>2, <3>13
    <3> QED BY <3>6, <3>10, <3>11, <3>12, <3>14
  <2> QED BY <2>5, <2>9, <2>10
<1> QED BY <1>1, <1>2 DEF Ready

\* Merging leaves one entry for every 1-bit of the chunks before the current one.
LEMMA MergeIs ==
  ASSUME NEW c \in Nat, c <= MaxLen, NEW kwd, NEW chunk, NEW flags, chunk.flags = flags,
         NEW s, Ready(s, c, kwd, flags)
  PROVE  merge_cv_stack(HasherAt(kwd, chunk, s), c) = HasherAt(kwd, chunk, Trees(c, 0, kwd, flags))
<1> DEFINE h == HasherAt(kwd, chunk, s)
           top == Trees(c, 0, kwd, flags)
<1>1. PICK n \in Nat : Listed(s, n) /\ (n >= Ones[c])
  <2>1. \E n \in Nat : Listed(s, n) /\ (n = Ones[c] \/ n > Ones[c])
    BY ReadyStep
  <2>2. Ones[c] \in Nat
    BY OnesUnfolds
  <2> QED BY <2>1, <2>2
<1> DEFINE e == n - Ones[c]
           Def(fn, l) == [k \in 0 .. l |-> IF k = 0 THEN h ELSE MergeTop(fn[k - 1])]
           Has == {l \in 0 .. e : \E fn : fn = Def(fn, l)}
<1>2. e \in Nat /\ Ones[c] \in Nat /\ Max({Len(s) - popcnt(c), 0}) = e
  <2>1. Ones[c] \in Nat /\ Len(s) = n
    BY <1>1, OnesUnfolds, ListedIs
  <2>2. e \in Nat
    BY <1>1, <2>1
  <2> HIDE DEF e
  <2>3. {e, 0} \in SUBSET Int /\ e \in {e, 0} /\ \A Y \in {e, 0} : Y <= e
    BY <2>2
  <2>4. Max({e, 0}) = e
    BY <2>3, MaxIs
  <2> QED BY <2>1, <2>2, <2>4 DEF popcnt, e
<1>3. merge_cv_stack(h, c) = (CHOOSE fn : fn = Def(fn, e))[e]
  <2>1. h.cv_stack = s
    BY HasherFields
  <2> HIDE DEF h, e
  <2>2. merge_cv_stack(h, c) =
          LET x == Max({Len(h.cv_stack) - popcnt(c), 0})
          IN (CHOOSE fn : fn = Def(fn, x))[x]
    BY Zenon DEF merge_cv_stack
  <2> HIDE DEF Def
  <2> QED BY <1>2, <2>1, <2>2
<1> HIDE DEF e, h
<1>4. 0 \in Has
  <2> DEFINE G == [k \in 0 .. 0 |-> h]
  <2>1. G = Def(G, 0)
    <3>1. \A k \in 0 .. 0 : k = 0
      OBVIOUS
    <3> QED BY <3>1
  <2> HIDE DEF G, Def
  <2> QED BY <1>2, <2>1
<1>5. ASSUME NEW l \in 0 .. e - 1, l \in Has PROVE l + 1 \in Has
  <2>1. PICK fn : fn = Def(fn, l)
    BY <1>5
  <2> DEFINE G == [k \in 0 .. l + 1 |-> IF k <= l THEN fn[k] ELSE MergeTop(fn[l])]
  <2>2. ASSUME NEW k \in 0 .. l + 1 PROVE G[k] = IF k = 0 THEN h ELSE MergeTop(G[k - 1])
    <3>1. CASE k = 0
      <4>1. G[k] = fn[k] /\ fn[k] = h
        BY <1>2, <2>1, <3>1
      <4> QED BY <3>1, <4>1
    <3>2. CASE k # 0 /\ k <= l
      <4>1. k \in 0 .. l /\ k - 1 \in 0 .. l /\ k - 1 \in 0 .. l + 1 /\ k - 1 <= l
        BY <1>2, <3>2
      <4>2. G[k] = fn[k] /\ G[k - 1] = fn[k - 1] /\ fn[k] = MergeTop(fn[k - 1])
        BY <2>1, <3>2, <4>1
      <4> QED BY <3>2, <4>2
    <3>3. CASE k = l + 1
      <4>1. k # 0 /\ k - 1 = l /\ l \in 0 .. l + 1 /\ l <= l /\ ~ (k <= l)
        BY <1>2, <3>3
      <4>2. G[k] = MergeTop(fn[l]) /\ G[l] = fn[l]
        BY <4>1
      <4> QED BY <4>1, <4>2
    <3> QED BY <1>2, <3>1, <3>2, <3>3
  <2>3. G = Def(G, l + 1)
    <3>1. DOMAIN G = 0 .. l + 1 /\ G = [k \in 0 .. l + 1 |-> G[k]]
      OBVIOUS
    <3> HIDE DEF G
    <3> QED BY <2>2, <3>1
  <2>4. l + 1 \in 0 .. e
    BY <1>2
  <2> QED BY <2>3, <2>4
<1> HIDE DEF Has
<1>6. \E fn : fn = Def(fn, e)
  <2>1. 0 .. e \subseteq Has
    BY <1>2, <1>4, <1>5, Induction
  <2>2. e \in Has
    BY <1>2, <2>1
  <2> QED BY <2>2 DEF Has
<1> DEFINE f == CHOOSE fn : fn = Def(fn, e)
<1>7. f = Def(f, e)
  BY <1>6, Zenon
<1> HIDE DEF f
<1>8. f[0] = h /\ \A k \in 0 .. e - 1 : f[k + 1] = MergeTop(f[k])
  <2>1. f[0] = h
    BY <1>2, <1>7
  <2>2. ASSUME NEW k \in 0 .. e - 1 PROVE f[k + 1] = MergeTop(f[k])
    <3>1. k + 1 \in 0 .. e /\ k + 1 # 0 /\ (k + 1) - 1 = k
      BY <1>2
    <3> QED BY <1>7, <3>1
  <2> QED BY <2>1, <2>2
<1> HIDE DEF Def
<1> DEFINE At(k) == \E L : /\ f[k] = HasherAt(kwd, chunk, L)
                           /\ Ready(L, c, kwd, flags) /\ Listed(L, n - k)
           S == {k \in 0 .. e : At(k)}
<1>9. 0 \in S
  <2>1. n - 0 = n
    OBVIOUS
  <2>2. f[0] = HasherAt(kwd, chunk, s) /\ Listed(s, n - 0)
    BY <1>1, <1>8, <2>1 DEF h
  <2> QED BY <1>2, <2>2
<1>10. ASSUME NEW k \in 0 .. e - 1, k \in S PROVE k + 1 \in S
  <2>1. PICK L : /\ f[k] = HasherAt(kwd, chunk, L)
                 /\ Ready(L, c, kwd, flags) /\ Listed(L, n - k)
    BY <1>10
  <2>2. PICK j \in Nat :
          /\ Listed(L, j)
          /\ \/ j = Ones[c] /\ L = Trees(c, 0, kwd, flags)
             \/ /\ j > Ones[c]
                /\ \E U : /\ Ready(U, c, kwd, flags) /\ Listed(U, j - 1)
                          /\ MergeTop(HasherAt(kwd, chunk, L)) = HasherAt(kwd, chunk, U)
    BY <2>1, ReadyStep
  <2>3. j = n - k
    <3> DEFINE d == n - k
    <3>1. Listed(L, d)
      BY <2>1
    <3> HIDE DEF d
    <3>2. Len(L) = d
      BY <3>1, ListedIs
    <3>3. Len(L) = j
      BY <2>2, ListedIs
    <3> QED BY <3>2, <3>3 DEF d
  <2>4. j > Ones[c] /\ j - 1 = n - (k + 1)
    BY <1>2, <2>3 DEF e
  <2>5. PICK U : /\ Ready(U, c, kwd, flags) /\ Listed(U, j - 1)
                 /\ MergeTop(HasherAt(kwd, chunk, L)) = HasherAt(kwd, chunk, U)
    BY <1>2, <2>2, <2>4
  <2>6. f[k + 1] = HasherAt(kwd, chunk, U)
    BY <1>8, <2>1, <2>5
  <2>7. At(k + 1)
    BY <2>4, <2>5, <2>6
  <2>8. k + 1 \in 0 .. e
    BY <1>2
  <2> HIDE DEF At
  <2> QED BY <2>7, <2>8
<1> HIDE DEF S
<1>11. e \in S
  <2>1. 0 .. e \subseteq S
    BY <1>2, <1>9, <1>10, Induction
  <2> QED BY <1>2, <2>1
<1>12. PICK L : /\ f[e] = HasherAt(kwd, chunk, L)
                /\ Ready(L, c, kwd, flags) /\ Listed(L, n - e)
  BY <1>11 DEF S
<1>13. L = Trees(c, 0, kwd, flags)
  <2>1. PICK j \in Nat :
          /\ Listed(L, j)
          /\ \/ j = Ones[c] /\ L = Trees(c, 0, kwd, flags)
             \/ /\ j > Ones[c]
                /\ \E U : /\ Ready(U, c, kwd, flags) /\ Listed(U, j - 1)
                          /\ MergeTop(HasherAt(kwd, chunk, L)) = HasherAt(kwd, chunk, U)
    BY <1>12, ReadyStep
  <2>2. j = n - e
    <3> DEFINE d == n - e
    <3>1. Listed(L, d)
      BY <1>12
    <3> HIDE DEF d
    <3>2. Len(L) = d
      BY <3>1, ListedIs
    <3>3. Len(L) = j
      BY <2>1, ListedIs
    <3> QED BY <3>2, <3>3 DEF d
  <2>3. n - e = Ones[c]
    BY <1>2 DEF e
  <2> QED BY <1>2, <2>1, <2>2, <2>3
<1> QED BY <1>3, <1>12, <1>13 DEF f, h

\* A stack that is merged stays as it is.
LEMMA TreesReady ==
  ASSUME NEW c \in Nat, NEW kwd, NEW flags
  PROVE  Ready(Trees(c, 0, kwd, flags), c, kwd, flags)
<1>1. CASE c = 0
  <2>1. TreesStep(0, 0, kwd, flags)
    BY TreesUnfold
  <2>2. Trees(0, 0, kwd, flags) = << >>
    BY <2>1, Zenon DEF TreesStep
  <2> QED BY <1>1, <2>2 DEF Ready
<1>2. CASE c # 0
  <2>1. PICK l \in Nat, q \in Nat : c = Power[l] * (2 * q + 1)
    BY <1>2, LowBit
  <2> DEFINE M == Power[l + 1] * q
  <2>2. /\ M \in Nat
        /\ Trees(M + Power[l], 0, kwd, flags) =
             Added(Trees(M, 0, kwd, flags), Node(l, M, kwd, flags))
    <3>1. M = Power[l + 1] * q
      OBVIOUS
    <3> HIDE DEF M
    <3>2. TreeAdded(l, M, kwd, flags)
      BY <3>1, TreeAdd
    <3> QED BY <3>2, Zenon DEF TreeAdded
  <2>3. M = Power[l] * (2 * q) /\ M + Power[l] = Power[l] * (2 * q + 1)
    BY PowerTimes, Zenon
  <2> DEFINE x == 2 * q
  <2>4. x \in Nat
    OBVIOUS
  <2> HIDE DEF M, x
  <2>5. c = Power[l] * x + Power[l] /\ M = Power[l] * x
    BY <2>1, <2>3 DEF x
  <2>6. Trees(c, 0, kwd, flags) = Added(Trees(Power[l] * x, 0, kwd, flags), Node(l, Power[l] * x, kwd, flags))
    BY <2>2, <2>5
  <2> QED BY <2>4, <2>5, <2>6 DEF Ready
<1> QED BY <1>1, <1>2

\* Lengths of chunks add.
LEMMA ChunksAdd ==
  ASSUME NEW x \in Nat, NEW Y \in Nat
  PROVE  /\ CHUNK_LEN * (x + Y) = CHUNK_LEN * x + CHUNK_LEN * Y
         /\ CHUNK_LEN * x \in Nat /\ CHUNK_LEN * Y \in Nat
         /\ CHUNK_LEN * 0 = 0 /\ CHUNK_LEN * 1 = CHUNK_LEN
<1> DEFINE c == CHUNK_LEN
<1>1. c \in Nat
  BY SizesAre
<1> HIDE DEF c
<1>2. c * (x + Y) = c * x + c * Y /\ c * x \in Nat /\ c * Y \in Nat /\ c * 0 = 0 /\ c * 1 = c
  BY <1>1
<1> QED BY <1>2 DEF c

\* A chunk before its first byte.
LEMMA FreshChunk ==
  ASSUME NEW c \in Nat, NEW d \in Nat, NEW kwd, NEW flags
  PROVE  /\ ChunkAt(c, 0, kwd, flags) = ChunkInit(kwd, flags, c)
         /\ [ChunkAt(c, 0, kwd, flags) EXCEPT !.counter = d] = ChunkAt(d, 0, kwd, flags)
<1>1. ChunkAt(c, 0, kwd, flags) = ChunkInit(kwd, flags, c) /\ ChunkAt(d, 0, kwd, flags) = ChunkInit(kwd, flags, d)
  <2>1. 0 \in Nat
    OBVIOUS
  <2> QED BY <2>1, OutputAt
<1>2. [ChunkInit(kwd, flags, c) EXCEPT !.counter = d] = ChunkInit(kwd, flags, d)
  BY DEF ChunkInit
<1> QED BY <1>1, <1>2

\* The counter and the flags of a chunk.
LEMMA ChunkAtFields ==
  ASSUME NEW c \in Nat, NEW n \in Nat, NEW kwd, NEW flags
  PROVE  ChunkAt(c, n, kwd, flags).counter = c /\ ChunkAt(c, n, kwd, flags).flags = flags
<1> DEFINE b == WholeBlocks(n)
           k == n - 2 * b
<1>1. ChunkState(c, b, k, kwd, flags).counter = c /\ ChunkState(c, b, k, kwd, flags).flags = flags
  <2> HIDE DEF b, k
  <2> QED BY StateFields
<1> QED BY <1>1, Zenon DEF ChunkAt

\* push_cv merges the stack to the count before it pushes.
LEMMA PushCvIs ==
  ASSUME NEW c \in Nat, c <= MaxLen, NEW kwd, NEW chunk, NEW flags, chunk.flags = flags,
         NEW s, Ready(s, c, kwd, flags), NEW cv
  PROVE  push_cv(HasherAt(kwd, chunk, s), cv, c) =
           HasherAt(kwd, chunk, Added(Trees(c, 0, kwd, flags), cv))
<1> DEFINE h == HasherAt(kwd, chunk, s)
           L == Trees(c, 0, kwd, flags)
           U == Added(L, cv)
<1>1. merge_cv_stack(h, c) = HasherAt(kwd, chunk, L)
  BY MergeIs
<1> HIDE DEF h, L
<1> DEFINE K == HasherAt(kwd, chunk, L)
<1>2. push_cv(h, cv, c) = WithStack(merge_cv_stack(h, c), Added(merge_cv_stack(h, c).cv_stack, cv))
  BY DEF push_cv, WithStack, Added
<1>3. K.cv_stack = L
  BY HasherFields
<1> HIDE DEF U
<1>4. WithStack(K, U) = HasherAt(kwd, chunk, U)
  BY HasherUpdates
<1>5. push_cv(h, cv, c) = WithStack(K, U)
  BY <1>1, <1>2, <1>3 DEF U
<1> QED BY <1>4, <1>5 DEF h, L, U

\* The halves of the last subtree are kept apart.
Paired(s, c, kwd, flags) ==
  \E l, q \in Nat :
    /\ c = Power[l + 1] * q + Power[l + 1]
    /\ s = Added(Added(Trees(Power[l + 1] * q, 0, kwd, flags), Node(l, Power[l + 1] * q, kwd, flags)),
                 Node(l, Power[l + 1] * q + Power[l], kwd, flags))

\* A stack with a pair on top can be merged.
LEMMA PairedReady ==
  ASSUME NEW c, NEW kwd, NEW flags, NEW s, Paired(s, c, kwd, flags)
  PROVE  Ready(s, c, kwd, flags)
<1>1. PICK l \in Nat, q \in Nat :
        /\ c = Power[l + 1] * q + Power[l + 1]
        /\ s = Added(Added(Trees(Power[l + 1] * q, 0, kwd, flags),
                           Node(l, Power[l + 1] * q, kwd, flags)),
                     Node(l, Power[l + 1] * q + Power[l], kwd, flags))
  BY DEF Paired
<1> DEFINE M == Power[l + 1] * q
           x == 2 * q + 1
<1>2. M + Power[l] = Power[l] * x
  BY PowerTimes, Zenon
<1>3. Power[l] \in Nat /\ Power[l + 1] = 2 * Power[l] /\ x \in Nat
  BY PowerUnfolds
<1>4. M \in Nat
  <2>1. l + 1 \in Nat
    OBVIOUS
  <2> QED BY <2>1, PowerTimes, Zenon
<1>5. M = Power[l + 1] * q
  OBVIOUS
<1> HIDE DEF M, x
<1>6. TreeAdded(l, M, kwd, flags)
  BY <1>5, TreeAdd
<1>7. Trees(M + Power[l], 0, kwd, flags) = Added(Trees(M, 0, kwd, flags), Node(l, M, kwd, flags))
  BY <1>6, Zenon DEF TreeAdded
<1>8. c = Power[l] * x + Power[l]
  <2>1. c = M + Power[l + 1]
    BY <1>1 DEF M
  <2> QED BY <1>2, <1>3, <1>4, <2>1
<1>9. s = Added(Trees(M + Power[l], 0, kwd, flags), Node(l, M + Power[l], kwd, flags))
  BY <1>1, <1>7 DEF M
<1>10. s = Added(Trees(Power[l] * x, 0, kwd, flags), Node(l, Power[l] * x, kwd, flags))
  BY <1>2, <1>9
<1> QED BY <1>3, <1>8, <1>10 DEF Ready

\* A leaf after complete subtrees.
LEMMA LeafReady ==
  ASSUME NEW c \in Nat, NEW kwd, NEW flags
  PROVE  Ready(Added(Trees(c, 0, kwd, flags), Node(0, c, kwd, flags)), c + 1, kwd, flags)
<1> DEFINE s == Added(Trees(c, 0, kwd, flags), Node(0, c, kwd, flags))
<1>1. Power[0] = 1 /\ Power[0] * c = c /\ 0 \in Nat /\ c + 1 = c + Power[0]
  BY PowerUnfolds
<1>2. c + 1 = Power[0] * c + Power[0]
  BY <1>1
<1>3. s = Added(Trees(Power[0] * c, 0, kwd, flags), Node(0, Power[0] * c, kwd, flags))
  BY <1>1
<1> HIDE DEF s
<1>4. Ready(s, c + 1, kwd, flags)
  BY <1>1, <1>2, <1>3 DEF Ready
<1> QED BY <1>4 DEF s

\* The chaining value of a whole chunk.
LEMMA LeafIs ==
  ASSUME NEW c \in Nat, NEW kwd, NEW flags
  PROVE  ChainingValue(ChunkOutput(ChunkAt(c, CHUNK_LEN, kwd, flags))) = Node(0, c, kwd, flags)
<1>1. CHUNK_LEN \in Nat
  BY SizesAre
<1>2. ChunkOutput(ChunkAt(c, CHUNK_LEN, kwd, flags)) =
        RefChunk(CHUNK_LEN * c, CHUNK_LEN * c + CHUNK_LEN, kwd, flags)
  BY <1>1, OutputAt
<1>3. Node(0, c, kwd, flags) = RefCv(RefChunk(CHUNK_LEN * c, CHUNK_LEN * c + CHUNK_LEN, kwd, flags))
  BY LeafNode
<1> DEFINE o == RefChunk(CHUNK_LEN * c, CHUNK_LEN * c + CHUNK_LEN, kwd, flags)
<1> HIDE DEF o
<1>4. ChainingValue(o) = RefCv(o)
  BY RefCvIs
<1> QED BY <1>2, <1>3, <1>4 DEF o

\* One subtree more.
LEMMA PushIs ==
  ASSUME cpu \in Cpus, NEW a \in Nat, NEW q \in Nat, NEW k \in Nat, a = Power[k] * q,
         CHUNK_LEN * (a + Power[k]) <= MaxLen, NEW kwd, NEW flags,
         NEW s, Ready(s, a, kwd, flags)
  PROVE  \E L : /\ PushSubtree(HasherAt(kwd, ChunkAt(a, 0, kwd, flags), s),
                               Piece(CHUNK_LEN * a, CHUNK_LEN * Power[k])) =
                     HasherAt(kwd, ChunkAt(a + Power[k], 0, kwd, flags), L)
                /\ Ready(L, a + Power[k], kwd, flags)
                /\ k # 0 => Paired(L, a + Power[k], kwd, flags)
<1> DEFINE chunk == ChunkAt(a, 0, kwd, flags)
           h == HasherAt(kwd, chunk, s)
           n == CHUNK_LEN * Power[k]
           input == Piece(CHUNK_LEN * a, n)
           p == Power[k]
           next == ChunkAt(a + p, 0, kwd, flags)
<1>1. p \in Nat \ {0} /\ CHUNK_LEN \in Nat /\ CHUNK_LEN >= 2 /\ MaxLen \in Nat
  BY PowerUnfolds, SizesAre
<1>2. n \in Nat /\ CHUNK_LEN * a \in Nat /\ CHUNK_LEN * a + n <= MaxLen /\ n = CHUNK_LEN * p
  BY <1>1, ChunksAdd
<1>3. a + p \in Nat /\ a + p <= MaxLen
  <2> DEFINE x == a + p
  <2>1. x \in Nat /\ CHUNK_LEN * x <= MaxLen
    BY <1>1
  <2> HIDE DEF x
  <2>2. CHUNK_LEN * x \in Nat /\ x <= CHUNK_LEN * x
    BY <2>1, ChunksOrder
  <2> DEFINE Y == CHUNK_LEN * x
  <2>3. Y \in Nat /\ x <= Y /\ Y <= MaxLen /\ MaxLen \in Nat /\ x \in Nat
    BY <1>1, <2>1, <2>2
  <2> HIDE DEF Y
  <2>4. x <= MaxLen
    BY <2>3
  <2> QED BY <2>1, <2>4 DEF x
<1>4. Len(input) = n
  BY <1>2, PieceIs
<1>5. n \div CHUNK_LEN = p
  <2> DEFINE c == CHUNK_LEN
  <2>1. c \in Nat \ {0} /\ p \in Int /\ 0 \in 0 .. c - 1
    BY <1>1
  <2> HIDE DEF c, p
  <2>2. (0 + c * p) \div c = p
    BY <2>1, Quotient
  <2>3. 0 + c * p = c * p
    BY <2>1
  <2> QED BY <1>2, <2>2, <2>3 DEF c
<1>6. chunk.counter = a /\ chunk.flags = flags
  <2>1. 0 \in Nat
    OBVIOUS
  <2> QED BY <2>1, ChunkAtFields
<1>7. chunk = ChunkInit(kwd, flags, a) /\ [chunk EXCEPT !.counter = a + p] = next
  BY <1>3, FreshChunk
<1>8. h.key = kwd /\ h.chunk = chunk /\ h.cv_stack = s
  BY HasherFields
<1>9. a <= MaxLen
  BY <1>1, <1>3
<1>10. ASSUME NEW L
       PROVE  [HasherAt(kwd, chunk, L) EXCEPT !.chunk.counter = @ + p] = HasherAt(kwd, next, L)
  <2> HIDE DEF chunk, next, p
  <2> DEFINE K == HasherAt(kwd, chunk, L)
  <2>1. K.chunk = chunk
    BY HasherFields
  <2>2. WithChunk(K, next) = HasherAt(kwd, next, L)
    BY HasherUpdates
  <2> HIDE DEF K
  <2>3. [K EXCEPT !.chunk.counter = @ + p] = WithChunk(K, [K.chunk EXCEPT !.counter = K.chunk.counter + p])
    BY DEF WithChunk
  <2>4. [K EXCEPT !.chunk.counter = @ + p] = HasherAt(kwd, next, L)
    BY <1>6, <1>7, <2>1, <2>2, <2>3
  <2> QED BY <2>4 DEF K
<1>11. CASE k = 0
  <2> DEFINE L == Added(Trees(a, 0, kwd, flags), Node(0, a, kwd, flags))
  <2>1. p = 1 /\ n = CHUNK_LEN
    BY <1>1, <1>11, PowerUnfolds
  <2>2. ChunkUpdate(chunk, input) = ChunkAt(a, CHUNK_LEN, kwd, flags)
    <3>1. 0 \in Nat /\ 0 + CHUNK_LEN <= CHUNK_LEN /\ 0 + CHUNK_LEN = CHUNK_LEN
          /\ CHUNK_LEN * a + 0 = CHUNK_LEN * a
      BY <1>1, <1>2
    <3>2. ChunkUpdate(ChunkAt(a, 0, kwd, flags), Piece(CHUNK_LEN * a + 0, CHUNK_LEN)) =
            ChunkAt(a, 0 + CHUNK_LEN, kwd, flags)
      BY <1>1, <3>1, UpdateAt
    <3> QED BY <2>1, <3>1, <3>2
  <2>3. ChainingValue(ChunkOutput(ChunkUpdate(chunk, input))) = Node(0, a, kwd, flags)
    BY <2>2, LeafIs
  <2>4. push_cv(h, Node(0, a, kwd, flags), a) = HasherAt(kwd, chunk, L)
    <3> HIDE DEF chunk
    <3> QED BY <1>6, <1>9, PushCvIs
  <2>5. Ready(L, a + p, kwd, flags)
    BY <2>1, LeafReady
  <2> HIDE DEF L, h, chunk, next, input, p, n
  <2>6. PushSubtree(h, input) =
          [push_cv(h, ChainingValue(ChunkOutput(ChunkUpdate(ChunkInit(h.key, h.chunk.flags, h.chunk.counter), input))),
                   h.chunk.counter)
             EXCEPT !.chunk.counter = @ + (Len(input) \div CHUNK_LEN)]
    <3>1. Len(input) <= CHUNK_LEN
      BY <1>1, <1>4, <2>1
    <3> QED BY <3>1, Zenon DEF PushSubtree
  <2>7. PushSubtree(h, input) = [push_cv(h, Node(0, a, kwd, flags), a) EXCEPT !.chunk.counter = @ + p]
    BY <1>4, <1>5, <1>6, <1>7, <1>8, <2>3, <2>6
  <2>8. PushSubtree(h, input) = HasherAt(kwd, next, L)
    BY <1>10, <2>4, <2>7
  <2> QED BY <1>11, <2>5, <2>8 DEF h, chunk, next, input, n, p
<1>12. CASE k # 0
  <2> DEFINE l == k - 1
             half == Power[l]
             b == a + half
             low == Node(l, a, kwd, flags)
             high == Node(l, b, kwd, flags)
             L == Added(Added(Trees(a, 0, kwd, flags), low), high)
  <2>1. l \in Nat /\ l + 1 = k /\ k \in Nat \ {0}
    BY <1>12
  <2>2. half \in Nat /\ p = 2 * half /\ half # 0
    BY <2>1, PowerUnfolds
  <2>3. compress_subtree_to_parent_node(input, kwd, a, flags) = <<low, high>>
    <3>1. CHUNK_LEN * Power[k] <= MaxLen
      <4>1. n <= MaxLen
        <5> HIDE DEF n
        <5> QED BY <1>1, <1>2
      <4> QED BY <4>1
    <3>2. k \in Nat \ {0}
      BY <2>1
    <3>4. k - 1 = l
      OBVIOUS
    <3> HIDE DEF l, n, input, p, half, b, low, high
    <3>3. Halved(a, k, kwd, flags)
      BY <3>1, <3>2, PairIs
    <3>5. compress_subtree_to_parent_node(Piece(CHUNK_LEN * a, CHUNK_LEN * Power[k]), kwd, a, flags) =
            <<Node(k - 1, a, kwd, flags), Node(k - 1, a + Power[k - 1], kwd, flags)>>
      BY Zenon, <3>3 DEF Halved
    <3> QED BY <3>4, <3>5 DEF input, n, low, high, b, half
  <2>4. TreeAdded(l, a, kwd, flags)
    <3>1. a = Power[l + 1] * q
      BY <2>1
    <3> HIDE DEF l
    <3> QED BY <2>1, <3>1, TreeAdd
  <2>5. Trees(b, 0, kwd, flags) = Added(Trees(a, 0, kwd, flags), low) /\ b \in Nat
    BY <2>4, Zenon DEF TreeAdded
  <2>6. b + half = a + p /\ b <= MaxLen
    <3> HIDE DEF p, half
    <3> QED BY <1>1, <1>3, <2>2
  <2>7. Paired(L, a + p, kwd, flags)
    <3>1. a + p = Power[l + 1] * q + Power[l + 1]
      BY <2>1
    <3>2. L = Added(Added(Trees(Power[l + 1] * q, 0, kwd, flags), Node(l, Power[l + 1] * q, kwd, flags)),
                    Node(l, Power[l + 1] * q + Power[l], kwd, flags))
      BY <2>1
    <3> HIDE DEF l, L, p
    <3> QED BY <2>1, <3>1, <3>2 DEF Paired
  <2>8. Ready(L, a + p, kwd, flags)
    <3> HIDE DEF L
    <3> QED BY <2>7, PairedReady
  <2> DEFINE G == HasherAt(kwd, chunk, Trees(b, 0, kwd, flags))
  <2>9. push_cv(h, low, a) = G
    <3> HIDE DEF chunk, low
    <3> QED BY <1>6, <1>9, <2>5, PushCvIs
  <2>10. push_cv(G, high, b) = HasherAt(kwd, chunk, L)
    <3> HIDE DEF chunk, high, b, low
    <3>1. Ready(Trees(b, 0, kwd, flags), b, kwd, flags)
      BY <2>5, TreesReady
    <3>2. push_cv(HasherAt(kwd, chunk, Trees(b, 0, kwd, flags)), high, b) =
            HasherAt(kwd, chunk, Added(Trees(b, 0, kwd, flags), high))
      BY <1>6, <2>5, <2>6, <3>1, PushCvIs
    <3> QED BY <2>5, <3>2
  <2>11. p \div 2 = half
    BY <2>2, Halves
  <2>12. ~ (n <= CHUNK_LEN)
    <3>1. CHUNK_LEN * 1 < CHUNK_LEN * p
      <4>1. 1 \in Nat /\ p \in Nat /\ 1 < p
        BY <2>2
      <4> HIDE DEF p
      <4> QED BY <4>1, ChunksOrder
    <3> HIDE DEF p, n
    <3> QED BY <1>1, <1>2, <3>1
  <2> HIDE DEF L, h, chunk, next, input, p, n, G, low, high
  <2> DEFINE pair == compress_subtree_to_parent_node(input, h.key, h.chunk.counter, h.chunk.flags)
  <2>13. PushSubtree(h, input) =
          [push_cv(push_cv(h, pair[1], h.chunk.counter), pair[2],
                   h.chunk.counter + (Len(input) \div CHUNK_LEN) \div 2)
             EXCEPT !.chunk.counter = @ + (Len(input) \div CHUNK_LEN)]
    <3>1. ~ (Len(input) <= CHUNK_LEN)
      BY <1>4, <2>12
    <3> QED BY <3>1, Zenon DEF PushSubtree
  <2>14. pair = <<low, high>>
    BY <1>6, <1>8, <2>3
  <2>15. pair[1] = low /\ pair[2] = high
    BY <2>14, PairListed
  <2> HIDE DEF pair
  <2>16. PushSubtree(h, input) = [push_cv(push_cv(h, low, a), high, a + p \div 2) EXCEPT !.chunk.counter = @ + p]
    BY <1>4, <1>5, <1>6, <1>8, <2>13, <2>15
  <2>17. PushSubtree(h, input) = [push_cv(G, high, b) EXCEPT !.chunk.counter = @ + p]
    BY <2>9, <2>11, <2>16
  <2>18. PushSubtree(h, input) = HasherAt(kwd, next, L)
    BY <1>10, <2>10, <2>17
  <2> QED BY <2>7, <2>8, <2>18 DEF h, chunk, next, input, n, p
<1> QED BY <1>11, <1>12

\* The hasher after n bytes: nothing yet, a chunk with at least one byte, or
\* a whole number of chunks taken as subtrees.
StateAt(h, n, kwd, flags) ==
  \/ n = 0 /\ h = HasherAt(kwd, ChunkAt(0, 0, kwd, flags), << >>)
  \/ \E c \in Nat, K \in 1 .. CHUNK_LEN :
       /\ n = CHUNK_LEN * c + K
       /\ h = HasherAt(kwd, ChunkAt(c, K, kwd, flags), Trees(c, 0, kwd, flags))
  \/ \E c \in Nat \ {0} : \E s : /\ n = CHUNK_LEN * c /\ Paired(s, c, kwd, flags)
                             /\ h = HasherAt(kwd, ChunkAt(c, 0, kwd, flags), s)

\* What the loop has done after some passes.
Absorbed(x, a, L, c, len, kwd, flags) ==
  /\ a \in Nat
  /\ x = [hasher |-> HasherAt(kwd, ChunkAt(c + a, 0, kwd, flags), L), taken |-> CHUNK_LEN * a]
  /\ Ready(L, c + a, kwd, flags)
  /\ CHUNK_LEN * a <= len
  /\ CHUNK_LEN * a = len => Paired(L, c + a, kwd, flags)

\* One pass of the loop leaves a hasher of the same shape, or nothing to take.
LEMMA AbsorbOne ==
  ASSUME cpu \in Cpus, NEW c \in Nat, NEW len \in Nat, CHUNK_LEN * c + len <= MaxLen,
         NEW kwd, NEW flags, NEW x, NEW a, NEW L, Absorbed(x, a, L, c, len, kwd, flags)
  PROVE  \/ /\ len - CHUNK_LEN * a <= CHUNK_LEN
            /\ AbsorbPass(x, Piece(CHUNK_LEN * c, len)) = x
         \/ \E b \in Nat : \E U : /\ b > a
                              /\ Absorbed(AbsorbPass(x, Piece(CHUNK_LEN * c, len)), b, U, c, len, kwd, flags)
<1> DEFINE input == Piece(CHUNK_LEN * c, len)
           at == CHUNK_LEN * a
           h == HasherAt(kwd, ChunkAt(c + a, 0, kwd, flags), L)
           left == len - at
<1>1. /\ a \in Nat /\ x = [hasher |-> h, taken |-> at]
      /\ Ready(L, c + a, kwd, flags) /\ at <= len
  BY DEF Absorbed
<1>2. x.hasher = h /\ x.taken = at
  <2> HIDE DEF h, at
  <2> QED BY <1>1
<1>3. at \in Nat /\ CHUNK_LEN * c \in Nat /\ CHUNK_LEN \in Nat /\ CHUNK_LEN >= 2 /\ MaxLen \in Nat
  BY <1>1, ChunksAdd, SizesAre
<1>4. Len(input) = len
  BY PieceIs
<1>5. left \in Nat /\ left <= len /\ len = at + left
  <2> HIDE DEF at
  <2> QED BY <1>1, <1>3
<1> DEFINE size == SubtreeLen(h, left)
           to == at + size
<1>6. AbsorbPass(x, input) =
        IF left > CHUNK_LEN
        THEN [hasher |-> PushSubtree(h, Slice(input, at + 1, to)), taken |-> to]
        ELSE x
  <2> HIDE DEF h, at
  <2> QED BY <1>2, <1>4 DEF AbsorbPass, Slice
<1> HIDE DEF size, h
<1>7. CASE left > CHUNK_LEN
  <2>1. h.chunk.counter = c + a
    <3>1. c + a \in Nat /\ 0 \in Nat
      BY <1>1
    <3>2. ChunkAt(c + a, 0, kwd, flags).counter = c + a
      BY <3>1, ChunkAtFields
    <3>3. h.chunk = ChunkAt(c + a, 0, kwd, flags)
      BY HasherFields DEF h
    <3> QED BY <3>2, <3>3
  <2>2. left <= MaxLen
    <3> HIDE DEF at, left
    <3> DEFINE Y == CHUNK_LEN * c
    <3>1. Y \in Nat /\ Y + len <= MaxLen
      BY <1>3
    <3> HIDE DEF Y
    <3> QED BY <1>3, <1>5, <3>1
  <2> DEFINE M == c + a
  <2>3. M \in Nat
    BY <1>1
  <2>4. PICK k \in Bits : /\ size = CHUNK_LEN * Power[k]
                          /\ CHUNK_LEN * Power[k] <= left
                          /\ M % Power[k] = 0
    <3> HIDE DEF M, left
    <3> QED BY <1>5, <1>7, <2>1, <2>2, <2>3, SubtreeLenIs DEF size, M
  <2> DEFINE p == Power[k]
             b == a + p
  <2>5. k \in Nat /\ p \in Nat \ {0}
    BY SizesAre, PowerUnfolds
  <2>6. PICK q \in Nat : M = p * q
    <3> HIDE DEF p, M
    <3>1. M \div p \in Nat /\ M = (M % p) + p * (M \div p)
      BY <2>3, <2>5, Division
    <3>2. p * (M \div p) \in Nat
      BY <2>5, <3>1
    <3>3. M = p * (M \div p)
      BY <2>4, <3>1, <3>2 DEF p
    <3> QED BY <3>1, <3>3
  <2>7. b \in Nat /\ b > a /\ M + p = c + b
    <3> HIDE DEF p
    <3> QED BY <1>1, <2>5
  <2>8. /\ CHUNK_LEN * b = at + CHUNK_LEN * p /\ CHUNK_LEN * M = CHUNK_LEN * c + at
        /\ CHUNK_LEN * (M + p) = CHUNK_LEN * M + CHUNK_LEN * p
        /\ CHUNK_LEN * p \in Nat /\ CHUNK_LEN * M \in Nat
    <3>1. p \in Nat
      BY <2>5
    <3> HIDE DEF p
    <3>2. CHUNK_LEN * (a + p) = CHUNK_LEN * a + CHUNK_LEN * p /\ CHUNK_LEN * p \in Nat
      BY <1>1, <3>1, ChunksAdd
    <3>3. CHUNK_LEN * (c + a) = CHUNK_LEN * c + CHUNK_LEN * a
      BY <1>1, ChunksAdd
    <3>4. CHUNK_LEN * (M + p) = CHUNK_LEN * M + CHUNK_LEN * p /\ CHUNK_LEN * M \in Nat
      <4> HIDE DEF M
      <4> QED BY <2>3, <3>1, ChunksAdd
    <3> QED BY <3>2, <3>3, <3>4
  <2> DEFINE cp == CHUNK_LEN * p
             cc == CHUNK_LEN * c
             cm == CHUNK_LEN * M
             cb == CHUNK_LEN * b
  <2>9. /\ cp \in Nat /\ cc \in Nat /\ cm \in Nat /\ cm = cc + at /\ cb = at + cp /\ size = cp
        /\ cp <= left /\ CHUNK_LEN * (M + p) = cm + cp /\ cc + len <= MaxLen
    BY <1>3, <2>4, <2>8
  <2>10. to = cb /\ cb <= len /\ cm + cp <= MaxLen /\ (cb = len => cp = left)
    <3> HIDE DEF cp, cc, cm, cb, at, left
    <3> QED BY <1>3, <1>5, <2>9 DEF left
  <2>11. Slice(input, at + 1, to) = Piece(cm, cp)
    <3> DEFINE I == at + 1
    <3> HIDE DEF cp, cc, cm, cb, at, left, to
    <3>1. cc \in Int /\ I \in Nat \ {0} /\ to \in Nat /\ I <= to + 1 /\ to <= len
          /\ cc + I - 1 = cm /\ to + 1 - I = cp
      BY <1>3, <2>9, <2>10
    <3> HIDE DEF I
    <3>2. Slice(Piece(cc, len), I, to) = Piece(cc + I - 1, to + 1 - I)
      BY <3>1, PieceSlice
    <3> QED BY <3>1, <3>2 DEF I, cc
  <2>12. PICK U : /\ PushSubtree(HasherAt(kwd, ChunkAt(M, 0, kwd, flags), L), Piece(CHUNK_LEN * M, CHUNK_LEN * Power[k])) =
                       HasherAt(kwd, ChunkAt(M + Power[k], 0, kwd, flags), U)
                  /\ Ready(U, M + Power[k], kwd, flags)
                  /\ k # 0 => Paired(U, M + Power[k], kwd, flags)
    <3>1. M = Power[k] * q /\ CHUNK_LEN * (M + Power[k]) <= MaxLen
      BY <2>6, <2>9, <2>10
    <3>2. Ready(L, M, kwd, flags)
      BY <1>1
    <3> HIDE DEF M
    <3> QED BY <2>3, <2>5, <3>1, <3>2, PushIs
  <2>13. PushSubtree(h, Piece(cm, cp)) = HasherAt(kwd, ChunkAt(c + b, 0, kwd, flags), U)
    BY <2>7, <2>12 DEF h
  <2>14. AbsorbPass(x, input) = [hasher |-> HasherAt(kwd, ChunkAt(c + b, 0, kwd, flags), U), taken |-> cb]
    <3> HIDE DEF cp, cc, cm, cb, at, left, to, input, b, M, p
    <3> QED BY <1>6, <1>7, <2>10, <2>11, <2>13
  <2>15. cb = len => Paired(U, c + b, kwd, flags)
    <3> SUFFICES ASSUME cb = len PROVE Paired(U, c + b, kwd, flags)
      OBVIOUS
    <3>1. cp = left
      BY <2>10
    <3>2. k # 0
      <4> SUFFICES ASSUME k = 0 PROVE FALSE
        OBVIOUS
      <4>1. p = 1
        BY PowerUnfolds
      <4>2. cp = CHUNK_LEN
        BY <1>3, <4>1
      <4> HIDE DEF cp, left
      <4> QED BY <1>3, <1>5, <1>7, <3>1, <4>2
    <3> QED BY <2>7, <2>12, <3>2
  <2>16. Ready(U, c + b, kwd, flags)
    BY <2>7, <2>12
  <2> HIDE DEF input, b
  <2>17. Absorbed(AbsorbPass(x, input), b, U, c, len, kwd, flags)
    BY <2>7, <2>10, <2>14, <2>15, <2>16 DEF Absorbed
  <2> QED BY <2>7, <2>17 DEF input
<1>8. CASE ~ (left > CHUNK_LEN)
  <2>1. AbsorbPass(x, input) = x
    BY <1>6, <1>8
  <2>2. left <= CHUNK_LEN
    <3> HIDE DEF left
    <3> QED BY <1>3, <1>5, <1>8
  <2> QED BY <2>1, <2>2
<1> QED BY <1>7, <1>8

\* The loop and the rest after it leave the hasher of the whole input.
LEMMA AbsorbIs ==
  ASSUME cpu \in Cpus, NEW c \in Nat, NEW len \in Nat \ {0}, CHUNK_LEN * c + len <= MaxLen,
         NEW kwd, NEW flags, NEW s, Ready(s, c, kwd, flags)
  PROVE  StateAt(AbsorbSubtrees(HasherAt(kwd, ChunkAt(c, 0, kwd, flags), s),
                                Piece(CHUNK_LEN * c, len)),
                 CHUNK_LEN * c + len, kwd, flags)
<1> DEFINE input == Piece(CHUNK_LEN * c, len)
           h == HasherAt(kwd, ChunkAt(c, 0, kwd, flags), s)
           start == [hasher |-> h, taken |-> 0]
           Def(fn, l) == [k \in 0 .. l |-> IF k = 0 THEN start ELSE AbsorbPass(fn[k - 1], input)]
           Has == {l \in 0 .. len : \E fn : fn = Def(fn, l)}
           f == CHOOSE fn : fn = Def(fn, len)
           rest == Slice(input, f[len].taken + 1, Len(input))
<1>1. Len(input) = len /\ len \in Nat
  BY PieceIs
<1>2. AbsorbSubtrees(h, input) =
        IF rest = << >> THEN f[len].hasher
        ELSE merge_cv_stack([f[len].hasher EXCEPT !.chunk = ChunkUpdate(@, rest)],
                            f[len].hasher.chunk.counter)
  <2> HIDE DEF input, h
  <2>1. AbsorbSubtrees(h, input) =
          LET n == Len(input)
              D(fn) == [k \in 0 .. n |-> IF k = 0 THEN start ELSE AbsorbPass(fn[k - 1], input)]
              after == CHOOSE fn : fn = D(fn)
              K == Slice(input, after[n].taken + 1, n)
          IN IF K = << >> THEN after[n].hasher
             ELSE merge_cv_stack([after[n].hasher EXCEPT !.chunk = ChunkUpdate(@, K)],
                                 after[n].hasher.chunk.counter)
    BY Zenon DEF AbsorbSubtrees, OpenRest, OpenChunk, Slice
  <2> QED BY <1>1, <2>1, Zenon
<1> HIDE DEF start, h, input
<1>3. 0 \in Has
  <2> DEFINE G == [k \in 0 .. 0 |-> start]
  <2>1. G = Def(G, 0)
    <3>1. \A k \in 0 .. 0 : k = 0
      OBVIOUS
    <3> QED BY <3>1
  <2> HIDE DEF G, Def
  <2> QED BY <1>1, <2>1
<1>4. ASSUME NEW l \in 0 .. len - 1, l \in Has PROVE l + 1 \in Has
  <2>1. PICK fn : fn = Def(fn, l)
    BY <1>4
  <2> DEFINE G == [k \in 0 .. l + 1 |-> IF k <= l THEN fn[k] ELSE AbsorbPass(fn[l], input)]
  <2>2. ASSUME NEW k \in 0 .. l + 1 PROVE G[k] = IF k = 0 THEN start ELSE AbsorbPass(G[k - 1], input)
    <3>1. CASE k = 0
      <4>1. G[k] = fn[k] /\ fn[k] = start
        BY <1>1, <2>1, <3>1
      <4> QED BY <3>1, <4>1
    <3>2. CASE k # 0 /\ k <= l
      <4>1. k \in 0 .. l /\ k - 1 \in 0 .. l /\ k - 1 \in 0 .. l + 1 /\ k - 1 <= l
        BY <1>1, <3>2
      <4>2. G[k] = fn[k] /\ G[k - 1] = fn[k - 1] /\ fn[k] = AbsorbPass(fn[k - 1], input)
        BY <2>1, <3>2, <4>1
      <4> QED BY <3>2, <4>2
    <3>3. CASE k = l + 1
      <4>1. k # 0 /\ k - 1 = l /\ l \in 0 .. l + 1 /\ l <= l /\ ~ (k <= l)
        BY <1>1, <3>3
      <4>2. G[k] = AbsorbPass(fn[l], input) /\ G[l] = fn[l]
        BY <4>1
      <4> QED BY <4>1, <4>2
    <3> QED BY <1>1, <3>1, <3>2, <3>3
  <2>3. G = Def(G, l + 1)
    <3>1. DOMAIN G = 0 .. l + 1 /\ G = [k \in 0 .. l + 1 |-> G[k]]
      OBVIOUS
    <3> HIDE DEF G
    <3> QED BY <2>2, <3>1
  <2>4. l + 1 \in 0 .. len
    BY <1>1
  <2> QED BY <2>3, <2>4
<1> HIDE DEF Has
<1>5. \E fn : fn = Def(fn, len)
  <2>1. 0 .. len \subseteq Has
    BY <1>1, <1>3, <1>4, Induction
  <2>2. len \in Has
    BY <1>1, <2>1
  <2> QED BY <2>2 DEF Has
<1>6. f = Def(f, len)
  BY <1>5, Zenon
<1> HIDE DEF f
<1>7. f[0] = start /\ \A k \in 0 .. len - 1 : f[k + 1] = AbsorbPass(f[k], input)
  <2>1. f[0] = start
    BY <1>1, <1>6
  <2>2. ASSUME NEW k \in 0 .. len - 1 PROVE f[k + 1] = AbsorbPass(f[k], input)
    <3>1. k + 1 \in 0 .. len /\ k + 1 # 0 /\ (k + 1) - 1 = k
      BY <1>1
    <3> QED BY <1>6, <3>1
  <2> QED BY <2>1, <2>2
<1> HIDE DEF Def
<1> DEFINE At(k) == \E a, L : /\ Absorbed(f[k], a, L, c, len, kwd, flags)
                              /\ len - CHUNK_LEN * a <= CHUNK_LEN \/ a >= k
           S == {k \in 0 .. len : At(k)}
<1>8. 0 \in S
  <2>1. c + 0 = c /\ CHUNK_LEN * 0 = 0 /\ 0 <= len /\ 0 # len /\ 0 \in Nat /\ 0 >= 0
    BY <1>1, SizesAre
  <2>2. Absorbed(f[0], 0, s, c, len, kwd, flags)
    BY <1>7, <2>1 DEF Absorbed, start, h
  <2>3. At(0)
    BY <2>1, <2>2
  <2> HIDE DEF At
  <2> QED BY <1>1, <2>3
<1>9. ASSUME NEW k \in 0 .. len - 1, k \in S PROVE k + 1 \in S
  <2>1. PICK a, L : /\ Absorbed(f[k], a, L, c, len, kwd, flags)
                    /\ len - CHUNK_LEN * a <= CHUNK_LEN \/ a >= k
    BY <1>9
  <2>2. \/ /\ len - CHUNK_LEN * a <= CHUNK_LEN
           /\ AbsorbPass(f[k], input) = f[k]
        \/ \E b \in Nat : \E U : /\ b > a
                             /\ Absorbed(AbsorbPass(f[k], input), b, U, c, len, kwd, flags)
    BY <1>1, <2>1, AbsorbOne DEF input
  <2>3. f[k + 1] = AbsorbPass(f[k], input)
    BY <1>7
  <2>4. a \in Nat /\ k \in Nat
    BY <1>1, <2>1 DEF Absorbed
  <2>5. At(k + 1)
    <3>1. CASE len - CHUNK_LEN * a <= CHUNK_LEN /\ AbsorbPass(f[k], input) = f[k]
      BY <2>1, <2>3, <3>1
    <3>2. CASE ~ (len - CHUNK_LEN * a <= CHUNK_LEN)
      <4>1. PICK b \in Nat : \E U : /\ b > a
                                /\ Absorbed(AbsorbPass(f[k], input), b, U, c, len, kwd, flags)
        BY <2>2, <3>2
      <4>2. b >= k + 1
        BY <2>1, <2>4, <3>2, <4>1
      <4> QED BY <2>3, <4>1, <4>2
    <3>3. CASE /\ len - CHUNK_LEN * a <= CHUNK_LEN
               /\ \E b \in Nat : \E U : /\ b > a
                                    /\ Absorbed(AbsorbPass(f[k], input), b, U, c, len, kwd, flags)
      <4>1. PICK b \in Nat : \E U : /\ b > a
                                /\ Absorbed(AbsorbPass(f[k], input), b, U, c, len, kwd, flags)
        BY <3>3
      <4>2. CHUNK_LEN * a <= CHUNK_LEN * b /\ CHUNK_LEN * a \in Nat /\ CHUNK_LEN * b \in Nat
        BY <2>4, <4>1, ChunksOrder
      <4> DEFINE x == CHUNK_LEN * a
                 Y == CHUNK_LEN * b
      <4>3. x \in Nat /\ Y \in Nat /\ x <= Y /\ len - x <= CHUNK_LEN /\ CHUNK_LEN \in Nat
        BY <3>3, <4>2, SizesAre
      <4> HIDE DEF x, Y
      <4>4. len - Y <= CHUNK_LEN
        BY <1>1, <4>3
      <4> QED BY <2>3, <4>1, <4>4 DEF Y
    <3> QED BY <2>2, <3>1, <3>2, <3>3
  <2>6. k + 1 \in 0 .. len
    BY <1>1
  <2> HIDE DEF At
  <2> QED BY <2>5, <2>6
<1> HIDE DEF S
<1>10. len \in S
  <2>1. 0 .. len \subseteq S
    BY <1>1, <1>8, <1>9, Induction
  <2> QED BY <1>1, <2>1
<1>11. PICK a, L : /\ Absorbed(f[len], a, L, c, len, kwd, flags)
                   /\ len - CHUNK_LEN * a <= CHUNK_LEN \/ a >= len
  BY <1>10 DEF S
<1> DEFINE M == c + a
           ca == CHUNK_LEN * a
           cc == CHUNK_LEN * c
           cm == CHUNK_LEN * M
           left == len - ca
           last == HasherAt(kwd, ChunkAt(M, 0, kwd, flags), L)
<1>12. /\ a \in Nat /\ M \in Nat /\ f[len] = [hasher |-> last, taken |-> ca]
       /\ Ready(L, M, kwd, flags) /\ ca <= len /\ (ca = len => Paired(L, M, kwd, flags))
  BY <1>11 DEF Absorbed
<1>13. /\ ca \in Nat /\ cc \in Nat /\ cm \in Nat /\ cm = cc + ca /\ a <= ca /\ M <= cm
       /\ cc + len <= MaxLen /\ MaxLen \in Nat /\ CHUNK_LEN \in Nat /\ CHUNK_LEN >= 2
  <2>1. CHUNK_LEN * (c + a) = CHUNK_LEN * c + CHUNK_LEN * a /\ ca \in Nat /\ cc \in Nat
    BY <1>12, ChunksAdd
  <2>2. a <= ca
    BY <1>12, ChunksOrder
  <2>3. M <= cm /\ cm \in Nat
    <3> HIDE DEF M
    <3> QED BY <1>12, ChunksOrder
  <2> QED BY <2>1, <2>2, <2>3, SizesAre
<1>14. left \in Nat /\ left <= CHUNK_LEN
  <2> HIDE DEF ca
  <2>1. left \in Nat
    BY <1>12, <1>13
  <2>2. CASE a >= len
    BY <1>12, <1>13, <2>1, <2>2
  <2> QED BY <1>11, <1>12, <2>1, <2>2 DEF ca
<1>15. f[len].hasher = last /\ f[len].taken = ca
  <2> HIDE DEF last, ca
  <2> QED BY <1>12
<1>16. rest = Piece(cm, left)
  <2> DEFINE I == ca + 1
  <2>1. rest = Slice(Piece(cc, len), I, len)
    BY <1>1, <1>15 DEF input
  <2> HIDE DEF cc, ca, cm, left
  <2>2. cc \in Int /\ I \in Nat \ {0} /\ I <= len + 1 /\ len <= len /\ cc + I - 1 = cm /\ len + 1 - I = left
    BY <1>1, <1>12, <1>13, <1>14 DEF left
  <2> HIDE DEF I, rest
  <2>3. Slice(Piece(cc, len), I, len) = Piece(cc + I - 1, len + 1 - I)
    BY <1>1, <2>2, PieceSlice
  <2> QED BY <2>1, <2>2, <2>3
<1>17. rest = << >> <=> left = 0
  <2> HIDE DEF left, rest
  <2> QED BY <1>14, <1>16, PieceIs
<1> HIDE DEF rest
<1>18. CASE left = 0
  <2>1. ca = len
    <3> HIDE DEF ca
    <3> QED BY <1>1, <1>13, <1>18
  <2>2. AbsorbSubtrees(h, input) = last
    BY <1>2, <1>15, <1>17, <1>18
  <2>3. M # 0 /\ cc + len = cm
    <3> HIDE DEF ca, cc, cm
    <3>1. a # 0
      <4> SUFFICES ASSUME a = 0 PROVE FALSE
        OBVIOUS
      <4>1. ca = 0
        BY <1>13 DEF ca
      <4> QED BY <1>1, <2>1, <4>1
    <3> QED BY <1>12, <1>13, <2>1, <3>1
  <2>4. Paired(L, M, kwd, flags)
    BY <1>12, <2>1
  <2> HIDE DEF M
  <2>5. M \in Nat \ {0}
    BY <1>12, <2>3
  <2>6. StateAt(last, cm, kwd, flags)
    BY <2>4, <2>5, Zenon DEF StateAt
  <2> QED BY <2>2, <2>3, <2>6 DEF h, input
<1>19. CASE left # 0
  <2> DEFINE chunk == ChunkAt(M, 0, kwd, flags)
             full == ChunkAt(M, left, kwd, flags)
  <2>1. last.chunk = chunk /\ WithChunk(last, full) = HasherAt(kwd, full, L)
    BY HasherFields, HasherUpdates
  <2>2. chunk.counter = M
    <3>1. 0 \in Nat
      OBVIOUS
    <3> HIDE DEF M
    <3> QED BY <1>12, <3>1, ChunkAtFields
  <2>3. ChunkUpdate(chunk, rest) = full
    <3> HIDE DEF M, left
    <3>1. 0 \in Nat /\ 0 + left <= CHUNK_LEN /\ 0 + left = left /\ CHUNK_LEN * M + 0 = CHUNK_LEN * M
      BY <1>13, <1>14
    <3>2. ChunkUpdate(ChunkAt(M, 0, kwd, flags), Piece(CHUNK_LEN * M + 0, left)) =
            ChunkAt(M, 0 + left, kwd, flags)
      BY <1>12, <1>14, <3>1, UpdateAt
    <3> QED BY <1>16, <3>1, <3>2
  <2>4. full.flags = flags
    <3> HIDE DEF M, left
    <3> QED BY <1>12, <1>14, ChunkAtFields
  <2>5. M <= MaxLen
    <3> HIDE DEF M, ca, cc, cm
    <3> QED BY <1>12, <1>13
  <2>6. merge_cv_stack(HasherAt(kwd, full, L), M) = HasherAt(kwd, full, Trees(M, 0, kwd, flags))
    <3> HIDE DEF M, full
    <3> QED BY <1>12, <2>4, <2>5, MergeIs
  <2> HIDE DEF chunk, full, last, M
  <2>7. AbsorbSubtrees(h, input) = merge_cv_stack([last EXCEPT !.chunk = ChunkUpdate(@, rest)], last.chunk.counter)
    BY <1>2, <1>15, <1>17, <1>19
  <2>8. [last EXCEPT !.chunk = ChunkUpdate(@, rest)] = WithChunk(last, ChunkUpdate(last.chunk, rest))
    BY DEF WithChunk
  <2>9. AbsorbSubtrees(h, input) = HasherAt(kwd, full, Trees(M, 0, kwd, flags))
    BY <2>1, <2>2, <2>3, <2>6, <2>7, <2>8
  <2>10. left \in 1 .. CHUNK_LEN /\ cc + len = cm + left
    <3> HIDE DEF ca, cc, cm
    <3> QED BY <1>1, <1>12, <1>13, <1>14, <1>19
  <2> HIDE DEF left
  <2>11. StateAt(HasherAt(kwd, ChunkAt(M, left, kwd, flags), Trees(M, 0, kwd, flags)), CHUNK_LEN * M + left, kwd, flags)
    BY <1>12, <2>10, Zenon DEF StateAt
  <2> QED BY <2>9, <2>10, <2>11 DEF h, input, full
<1> QED BY <1>18, <1>19

\* A new hasher is the one for the empty message.
LEMMA InitIs ==
  ASSUME NEW kwd, NEW flags
  PROVE  /\ HasherInit(kwd, flags) = HasherAt(kwd, ChunkAt(0, 0, kwd, flags), << >>)
         /\ StateAt(HasherInit(kwd, flags), 0, kwd, flags)
<1>1. 0 \in Nat
  OBVIOUS
<1>2. ChunkAt(0, 0, kwd, flags) = ChunkInit(kwd, flags, 0)
  BY <1>1, FreshChunk
<1>3. HasherInit(kwd, flags) = HasherAt(kwd, ChunkInit(kwd, flags, 0), << >>)
  BY Zenon DEF HasherInit, HasherAt
<1> QED BY <1>2, <1>3 DEF StateAt

\* A chunk that is closed is pushed as a leaf.
LEMMA CloseIs ==
  ASSUME NEW c \in Nat, CHUNK_LEN * c <= MaxLen, NEW kwd, NEW flags
  PROVE  CloseChunk(HasherAt(kwd, ChunkAt(c, CHUNK_LEN, kwd, flags), Trees(c, 0, kwd, flags))) =
           HasherAt(kwd, ChunkAt(c + 1, 0, kwd, flags),
                    Added(Trees(c, 0, kwd, flags), Node(0, c, kwd, flags)))
<1> DEFINE chunk == ChunkAt(c, CHUNK_LEN, kwd, flags)
           s == Trees(c, 0, kwd, flags)
           h == HasherAt(kwd, chunk, s)
           L == Added(s, Node(0, c, kwd, flags))
           next == ChunkAt(c + 1, 0, kwd, flags)
           p == HasherAt(kwd, chunk, L)
<1>1. chunk.counter = c /\ chunk.flags = flags
  BY SizesAre, ChunkAtFields
<1>2. h.key = kwd /\ h.chunk = chunk /\ p.chunk = chunk /\ WithChunk(p, next) = HasherAt(kwd, next, L)
  BY HasherFields, HasherUpdates
<1>3. ChainingValue(ChunkOutput(chunk)) = Node(0, c, kwd, flags)
  BY LeafIs
<1>4. c <= MaxLen
  <2> DEFINE Y == CHUNK_LEN * c
  <2>1. Y \in Nat /\ c <= Y /\ Y <= MaxLen /\ MaxLen \in Nat
    BY ChunksOrder, SizesAre
  <2> HIDE DEF Y
  <2> QED BY <2>1
<1>5. Ready(s, c, kwd, flags)
  BY TreesReady
<1>6. push_cv(h, Node(0, c, kwd, flags), c) = p
  <2> DEFINE cv == Node(0, c, kwd, flags)
  <2> HIDE DEF chunk, cv
  <2> QED BY <1>1, <1>4, <1>5, PushCvIs
<1>7. ChunkInit(kwd, flags, c + 1) = next
  <2>1. c + 1 \in Nat /\ 0 \in Nat
    OBVIOUS
  <2> QED BY <2>1, FreshChunk
<1> HIDE DEF chunk, s, h, L, next, p
<1> DEFINE pushed == push_cv(h, ChainingValue(ChunkOutput(h.chunk)), h.chunk.counter)
<1>8. CloseChunk(h) = WithChunk(pushed, ChunkInit(h.key, pushed.chunk.flags, pushed.chunk.counter + 1))
  BY DEF CloseChunk, WithChunk
<1>9. pushed = p
  BY <1>1, <1>2, <1>3, <1>6
<1> HIDE DEF pushed
<1>10. CloseChunk(h) = WithChunk(p, next)
  BY <1>1, <1>2, <1>7, <1>8, <1>9
<1> QED BY <1>2, <1>10 DEF h, chunk, s, L, next

\* Any piece of input, after any input before it.
LEMMA UpdateIs ==
  ASSUME cpu \in Cpus, NEW n \in Nat, NEW len \in Nat, n + len <= MaxLen, NEW kwd, NEW flags,
         NEW h, StateAt(h, n, kwd, flags)
  PROVE  StateAt(hasher_update(h, Piece(n, len)), n + len, kwd, flags)
<1> DEFINE input == Piece(n, len)
<1>1. Len(input) = len /\ (input = << >> <=> len = 0)
  BY PieceIs
<1>2. MaxLen \in Nat /\ CHUNK_LEN \in Nat /\ CHUNK_LEN >= 2
  BY SizesAre
<1>3. CASE len = 0
  <2>1. hasher_update(h, input) = h /\ n + len = n
    BY <1>1, <1>3 DEF hasher_update
  <2> QED BY <2>1
<1>4. ASSUME len # 0, NEW c \in Nat, n = CHUNK_LEN * c, NEW s, Ready(s, c, kwd, flags),
             h = HasherAt(kwd, ChunkAt(c, 0, kwd, flags), s)
      PROVE  StateAt(hasher_update(h, Piece(n, len)), n + len, kwd, flags)
  <2>1. ChunkLen(h.chunk) = 0
    <3>1. 0 \in Nat
      OBVIOUS
    <3>2. ChunkLen(ChunkAt(c, 0, kwd, flags)) = 0
      BY <3>1, OutputAt
    <3>3. h.chunk = ChunkAt(c, 0, kwd, flags)
      BY <1>4, HasherFields
    <3> QED BY <3>2, <3>3
  <2>2. input # << >>
    BY <1>1, <1>4
  <2> HIDE DEF input
  <2>3. hasher_update(h, input) = AbsorbSubtrees(h, input)
    BY <2>1, <2>2, Zenon DEF hasher_update
  <2>4. StateAt(AbsorbSubtrees(HasherAt(kwd, ChunkAt(c, 0, kwd, flags), s), Piece(CHUNK_LEN * c, len)),
                CHUNK_LEN * c + len, kwd, flags)
    <3>1. len \in Nat \ {0} /\ CHUNK_LEN * c + len <= MaxLen
      BY <1>4
    <3> QED BY <1>4, <3>1, AbsorbIs
  <2> QED BY <1>4, <2>3, <2>4 DEF input
<1>5. CASE n = 0 /\ h = HasherAt(kwd, ChunkAt(0, 0, kwd, flags), << >>)
  <2>1. 0 \in Nat /\ n = CHUNK_LEN * 0
    BY <1>2, <1>5
  <2>2. Ready(<< >>, 0, kwd, flags)
    BY DEF Ready
  <2> HIDE DEF input
  <2> QED BY <1>3, <1>4, <1>5, <2>1, <2>2
<1>6. CASE \E c \in Nat \ {0} : \E s : /\ n = CHUNK_LEN * c /\ Paired(s, c, kwd, flags)
                                       /\ h = HasherAt(kwd, ChunkAt(c, 0, kwd, flags), s)
  <2>1. PICK c \in Nat \ {0} : \E s : /\ n = CHUNK_LEN * c /\ Paired(s, c, kwd, flags)
                                      /\ h = HasherAt(kwd, ChunkAt(c, 0, kwd, flags), s)
    BY <1>6
  <2>2. PICK s : /\ n = CHUNK_LEN * c /\ Paired(s, c, kwd, flags)
                 /\ h = HasherAt(kwd, ChunkAt(c, 0, kwd, flags), s)
    BY <2>1
  <2>3. Ready(s, c, kwd, flags)
    BY <2>2, PairedReady
  <2> QED BY <1>3, <1>4, <2>2, <2>3
<1>7. CASE /\ len # 0
           /\ \E c \in Nat, K \in 1 .. CHUNK_LEN :
                /\ n = CHUNK_LEN * c + K
                /\ h = HasherAt(kwd, ChunkAt(c, K, kwd, flags), Trees(c, 0, kwd, flags))
  <2>1. PICK c \in Nat, K \in 1 .. CHUNK_LEN :
                /\ n = CHUNK_LEN * c + K
                /\ h = HasherAt(kwd, ChunkAt(c, K, kwd, flags), Trees(c, 0, kwd, flags))
    BY <1>7
  <2> DEFINE cc == CHUNK_LEN * c
             s == Trees(c, 0, kwd, flags)
             chunk == ChunkAt(c, K, kwd, flags)
             room == CHUNK_LEN - K
             take == IF room <= len THEN room ELSE len
             full == ChunkAt(c, K + take, kwd, flags)
             rest == Slice(input, take + 1, Len(input))
             filled == WithChunk(h, ChunkUpdate(h.chunk, Slice(input, 1, take)))
  <2>2. cc \in Nat /\ K \in Nat /\ room \in Nat /\ K # 0 /\ n = cc + K /\ K + room = CHUNK_LEN
    BY <1>2, <2>1, ChunksOrder
  <2> HIDE DEF cc, room
  <2>3. take \in Nat /\ take <= len /\ K + take \in 1 .. CHUNK_LEN /\ take <= room
    BY <1>2, <2>2
  <2>4. h.chunk = chunk /\ WithChunk(h, full) = HasherAt(kwd, full, s)
    <3>1. h = HasherAt(kwd, chunk, s)
      BY <2>1
    <3> HIDE DEF chunk, s, full
    <3>2. HasherAt(kwd, chunk, s).chunk = chunk
      BY HasherFields
    <3>3. WithChunk(HasherAt(kwd, chunk, s), full) = HasherAt(kwd, full, s)
      BY HasherUpdates
    <3> QED BY <3>1, <3>2, <3>3
  <2>5. ChunkLen(chunk) = K
    BY <2>2, OutputAt
  <2>6. Min({CHUNK_LEN - ChunkLen(h.chunk), Len(input)}) = take
    <3>1. CHUNK_LEN - ChunkLen(h.chunk) = room
      BY <2>4, <2>5 DEF room
    <3>2. Min({room, len}) = IF room <= len THEN room ELSE len
      BY <2>2, MinIs
    <3> QED BY <1>1, <3>1, <3>2
  <2> HIDE DEF take
  <2>7. Slice(input, 1, take) = Piece(n, take)
    <3>1. n \in Int /\ 1 \in Nat \ {0} /\ 1 <= take + 1 /\ n + 1 - 1 = n /\ take + 1 - 1 = take
      BY <2>3
    <3>2. Slice(Piece(n, len), 1, take) = Piece(n + 1 - 1, take + 1 - 1)
      BY <2>3, <3>1, PieceSlice
    <3> QED BY <3>1, <3>2
  <2> DEFINE more == len - take
             at == n + take
  <2>8. more \in Nat /\ at \in Nat /\ at + more = n + len
    BY <2>3
  <2>9. rest = Piece(at, more)
    <3> DEFINE I == take + 1
    <3>1. n \in Int /\ I \in Nat \ {0} /\ I <= len + 1 /\ len <= len /\ n + I - 1 = at /\ len + 1 - I = more
      BY <2>3
    <3>2. rest = Slice(Piece(n, len), I, len)
      BY <1>1
    <3> HIDE DEF I, at, more, rest
    <3>3. Slice(Piece(n, len), I, len) = Piece(n + I - 1, len + 1 - I)
      BY <3>1, PieceSlice
    <3> QED BY <3>1, <3>2, <3>3
  <2>10. ChunkUpdate(chunk, Piece(n, take)) = full
    <3>1. K + take <= CHUNK_LEN
      BY <1>2, <2>3
    <3>2. ChunkUpdate(ChunkAt(c, K, kwd, flags), Piece(CHUNK_LEN * c + K, take)) =
            ChunkAt(c, K + take, kwd, flags)
      BY <2>2, <2>3, <3>1, UpdateAt
    <3> QED BY <2>1, <3>2
  <2>11. filled = HasherAt(kwd, full, s)
    BY <2>4, <2>7, <2>10
  <2>12. ChunkLen(h.chunk) # 0 /\ input # << >>
    BY <1>1, <1>7, <2>2, <2>4, <2>5
  <2>13. hasher_update(h, input) =
           IF rest = << >> THEN filled ELSE AbsorbSubtrees(CloseChunk(filled), rest)
    <3> HIDE DEF input
    <3> QED BY <2>6, <2>12 DEF hasher_update, WithChunk, Slice
  <2> HIDE DEF filled, rest, full, input
  <2>14. rest = << >> <=> more = 0
    <3> HIDE DEF at, more
    <3> QED BY <2>8, <2>9, PieceIs
  <2>15. CASE more = 0
    <3> DEFINE x == K + take
    <3>1. x \in 1 .. CHUNK_LEN /\ n + len = cc + x
      <4>1. n + len = n + take
        BY <2>3, <1>1, <2>15
      <4> QED BY <2>2, <2>3, <4>1
    <3>2. hasher_update(h, input) = HasherAt(kwd, ChunkAt(c, x, kwd, flags), s)
      BY <2>11, <2>13, <2>14, <2>15 DEF full
    <3> HIDE DEF x, s
    <3>3. StateAt(HasherAt(kwd, ChunkAt(c, x, kwd, flags), Trees(c, 0, kwd, flags)),
                  CHUNK_LEN * c + x, kwd, flags)
      BY <3>1, Zenon DEF StateAt
    <3> QED BY <3>1, <3>2, <3>3 DEF cc, s, input
  <2>16. CASE more # 0
    <3>1. K + take = CHUNK_LEN
      <4>1. take = room
        <5>1. take = room \/ take = len
          BY DEF take
        <5>2. take # len
          BY <2>3, <2>16
        <5> QED BY <5>1, <5>2
      <4> QED BY <2>2, <4>1
    <3> DEFINE d == c + 1
               U == Added(s, Node(0, c, kwd, flags))
    <3>2. d \in Nat /\ CHUNK_LEN * d = cc + CHUNK_LEN
      <4>1. 1 \in Nat
        OBVIOUS
      <4>2. CHUNK_LEN * (c + 1) = CHUNK_LEN * c + CHUNK_LEN * 1 /\ CHUNK_LEN * 1 = CHUNK_LEN
        BY <4>1, ChunksAdd
      <4> QED BY <4>2 DEF cc
    <3>3. cc <= MaxLen
      BY <1>2, <2>2
    <3>4. CloseChunk(filled) = HasherAt(kwd, ChunkAt(d, 0, kwd, flags), U)
      BY <2>11, <3>1, <3>3, CloseIs DEF cc, full
    <3>5. at = CHUNK_LEN * d /\ at + more <= MaxLen
      <4> HIDE DEF d, more
      <4> QED BY <2>2, <2>3, <2>8, <3>1, <3>2
    <3>6. Ready(U, d, kwd, flags)
      BY LeafReady
    <3>7. more \in Nat \ {0}
      BY <2>8, <2>16
    <3> HIDE DEF d, U, more, at
    <3>8. StateAt(AbsorbSubtrees(HasherAt(kwd, ChunkAt(d, 0, kwd, flags), U), Piece(CHUNK_LEN * d, more)),
                  CHUNK_LEN * d + more, kwd, flags)
      BY <3>2, <3>5, <3>6, <3>7, AbsorbIs
    <3>9. hasher_update(h, input) = AbsorbSubtrees(HasherAt(kwd, ChunkAt(d, 0, kwd, flags), U), Piece(CHUNK_LEN * d, more))
      BY <2>9, <2>13, <2>14, <2>16, <3>4, <3>5
    <3> QED BY <2>8, <3>5, <3>8, <3>9 DEF input
  <2> QED BY <2>15, <2>16
<1> QED BY <1>3, <1>5, <1>6, <1>7 DEF StateAt

\* The key and the flags stay those of the mode.
LEMMA StateFieldsAt ==
  ASSUME NEW n \in Nat, NEW kwd, NEW flags, NEW h, StateAt(h, n, kwd, flags)
  PROVE  h.key = kwd /\ h.chunk.flags = flags
<1>1. ASSUME NEW c \in Nat, NEW K \in Nat, NEW s, h = HasherAt(kwd, ChunkAt(c, K, kwd, flags), s)
      PROVE  h.key = kwd /\ h.chunk.flags = flags
  <2>1. ChunkAt(c, K, kwd, flags).flags = flags
    BY ChunkAtFields
  <2> DEFINE chunk == ChunkAt(c, K, kwd, flags)
  <2> HIDE DEF chunk
  <2>2. h.key = kwd /\ h.chunk = chunk
    BY <1>1, HasherFields DEF chunk
  <2> QED BY <2>1, <2>2 DEF chunk
<1>2. 0 \in Nat /\ 1 .. CHUNK_LEN \subseteq Nat
  OBVIOUS
<1>3. CASE n = 0 /\ h = HasherAt(kwd, ChunkAt(0, 0, kwd, flags), << >>)
  BY <1>1, <1>2, <1>3
<1>4. CASE \E c \in Nat, K \in 1 .. CHUNK_LEN :
             /\ n = CHUNK_LEN * c + K
             /\ h = HasherAt(kwd, ChunkAt(c, K, kwd, flags), Trees(c, 0, kwd, flags))
  BY <1>1, <1>2, <1>4
<1>5. CASE \E c \in Nat \ {0} : \E s : /\ n = CHUNK_LEN * c /\ Paired(s, c, kwd, flags)
                                       /\ h = HasherAt(kwd, ChunkAt(c, 0, kwd, flags), s)
  BY <1>1, <1>2, <1>5
<1> QED BY <1>3, <1>4, <1>5 DEF StateAt

-----------------------------------------------------------------------------
(* The root.                                                               *)

\* The fold over r entries of the stack.
Folded(s, K, start, kwd, flags) ==
  LET root[k \in 0 .. K] ==
        IF k = 0 THEN start
        ELSE ParentOutput(<<s[K - k + 1], ChainingValue(root[k - 1])>>, kwd, flags)
  IN root

\* The fold of the stack, one entry at a time.
LEMMA FoldUnfolds ==
  ASSUME NEW s, NEW K \in Nat, NEW start, NEW kwd, NEW flags
  PROVE  /\ Folded(s, K, start, kwd, flags)[0] = start
         /\ \A k \in 0 .. K - 1 :
              Folded(s, K, start, kwd, flags)[k + 1] =
                ParentOutput(<<s[K - k], ChainingValue(Folded(s, K, start, kwd, flags)[k])>>, kwd, flags)
<1> DEFINE Step(x, k) == ParentOutput(<<s[K - k + 1], ChainingValue(x)>>, kwd, flags)
           Def(fn, l) == [k \in 0 .. l |-> IF k = 0 THEN start ELSE Step(fn[k - 1], k)]
           Has == {l \in 0 .. K : \E fn : fn = Def(fn, l)}
           f == CHOOSE fn : fn = Def(fn, K)
<1>1. Folded(s, K, start, kwd, flags) = f
  BY Zenon DEF Folded
<1> HIDE DEF Step
<1>2. 0 \in Has
  <2> DEFINE G == [k \in 0 .. 0 |-> start]
  <2>1. G = Def(G, 0)
    <3>1. \A k \in 0 .. 0 : k = 0
      OBVIOUS
    <3> QED BY <3>1
  <2> HIDE DEF G, Def
  <2> QED BY <2>1
<1>3. ASSUME NEW l \in 0 .. K - 1, l \in Has PROVE l + 1 \in Has
  <2>1. PICK fn : fn = Def(fn, l)
    BY <1>3
  <2> DEFINE G == [k \in 0 .. l + 1 |-> IF k <= l THEN fn[k] ELSE Step(fn[l], k)]
  <2>2. ASSUME NEW k \in 0 .. l + 1 PROVE G[k] = IF k = 0 THEN start ELSE Step(G[k - 1], k)
    <3>1. CASE k = 0
      <4>1. G[k] = fn[k] /\ fn[k] = start
        BY <2>1, <3>1
      <4> QED BY <3>1, <4>1
    <3>2. CASE k # 0 /\ k <= l
      <4>1. k \in 0 .. l /\ k - 1 \in 0 .. l /\ k - 1 \in 0 .. l + 1 /\ k - 1 <= l
        BY <3>2
      <4>2. G[k] = fn[k] /\ G[k - 1] = fn[k - 1] /\ fn[k] = Step(fn[k - 1], k)
        BY <2>1, <3>2, <4>1
      <4> QED BY <3>2, <4>2
    <3>3. CASE k = l + 1
      <4>1. k # 0 /\ k - 1 = l /\ l \in 0 .. l + 1 /\ l <= l /\ ~ (k <= l)
        BY <3>3
      <4>2. G[k] = Step(fn[l], k) /\ G[l] = fn[l]
        BY <4>1
      <4> QED BY <4>1, <4>2
    <3> QED BY <3>1, <3>2, <3>3
  <2>3. G = Def(G, l + 1)
    <3>1. DOMAIN G = 0 .. l + 1 /\ G = [k \in 0 .. l + 1 |-> G[k]]
      OBVIOUS
    <3> HIDE DEF G
    <3> QED BY <2>2, <3>1
  <2>4. l + 1 \in 0 .. K
    OBVIOUS
  <2> QED BY <2>3, <2>4
<1> HIDE DEF Has
<1>4. \E fn : fn = Def(fn, K)
  <2>1. 0 .. K \subseteq Has
    BY <1>2, <1>3, Induction
  <2>2. K \in Has
    BY <2>1
  <2> QED BY <2>2 DEF Has
<1>5. f = Def(f, K)
  BY <1>4, Zenon
<1> HIDE DEF f
<1>6. f[0] = start
  BY <1>5
<1>7. ASSUME NEW k \in 0 .. K - 1
      PROVE  f[k + 1] = ParentOutput(<<s[K - k], ChainingValue(f[k])>>, kwd, flags)
  <2> DEFINE j == k + 1
  <2>1. j \in 0 .. K /\ j # 0 /\ j - 1 = k /\ K - j + 1 = K - k
    OBVIOUS
  <2> HIDE DEF j
  <2>2. f[j] = Step(f[j - 1], j)
    BY <1>5, <2>1
  <2>3. Step(f[k], j) = ParentOutput(<<s[K - j + 1], ChainingValue(f[k])>>, kwd, flags)
    BY DEF Step
  <2> QED BY <2>1, <2>2, <2>3 DEF j
<1> QED BY <1>1, <1>6, <1>7

\* What is folded so far is the output of the bytes from the first chunk m
\* of a complete subtree on, the entries that are left those of m chunks.
FoldedTo(x, left, M, e, n, s, kwd, flags) ==
  /\ M \in Nat /\ e \in Nat /\ \E Y \in Nat : M = Power[e] * Y
  /\ CHUNK_LEN * M < n /\ n <= CHUNK_LEN * (M + Power[e])
  /\ Ones[M] = left
  /\ \A I \in 1 .. left : s[I] = Trees(M, 0, kwd, flags)[I]
  /\ x = RefOutput(CHUNK_LEN * M, n, kwd, flags)

\* One entry of the stack is the left part of the output over it.
LEMMA FoldStep ==
  ASSUME NEW n \in Nat, n <= MaxLen, NEW s, NEW kwd, NEW flags, NEW x, NEW left \in Nat \ {0},
         NEW M, NEW e, FoldedTo(x, left, M, e, n, s, kwd, flags)
  PROVE  \E a, d : FoldedTo(ParentOutput(<<s[left], ChainingValue(x)>>, kwd, flags),
                            left - 1, a, d, n, s, kwd, flags)
<1>1. /\ M \in Nat /\ e \in Nat
      /\ CHUNK_LEN * M < n /\ n <= CHUNK_LEN * (M + Power[e])
      /\ Ones[M] = left
      /\ \A I \in 1 .. left : s[I] = Trees(M, 0, kwd, flags)[I]
      /\ x = RefOutput(CHUNK_LEN * M, n, kwd, flags)
  BY DEF FoldedTo
<1>2. PICK Y \in Nat : M = Power[e] * Y
  BY DEF FoldedTo
<1>3. M # 0 /\ Y # 0
  <2>1. Ones[0] = 0
    BY OnesUnfolds
  <2>2. M # 0
    BY <1>1, <2>1
  <2>3. Power[e] \in Nat
    BY <1>1, PowerUnfolds
  <2> QED BY <1>2, <2>2, <2>3
<1>4. PICK j \in Nat, q \in Nat : Y = Power[j] * (2 * q + 1)
  BY <1>3, LowBit
<1> DEFINE l == e + j
           z == 2 * q + 1
           a == Power[l + 1] * q
           p == Power[l]
           d == l + 1
<1>5. l \in Nat /\ e <= l /\ z \in Nat /\ d \in Nat
  BY <1>1
<1>6. M = p * z
  <2>1. Power[l] = Power[e] * Power[j]
    BY <1>1, PowerPlus
  <2>2. Power[e] \in Nat /\ Power[j] \in Nat
    BY <1>1, PowerUnfolds
  <2> DEFINE U == Power[e]
             v == Power[j]
  <2>3. U \in Nat /\ v \in Nat /\ p = U * v /\ M = U * (v * z)
    BY <1>2, <1>4, <2>1, <2>2
  <2> HIDE DEF U, v, z, p
  <2>4. U * (v * z) = (U * v) * z
    BY <1>5, <2>3
  <2> QED BY <2>3, <2>4
<1> HIDE DEF l
<1>7. p * z = a + p
  BY <1>5, PowerTimes, Zenon
<1>8. TreeAdded(l, a, kwd, flags)
  <2>1. a = Power[l + 1] * q
    OBVIOUS
  <2> HIDE DEF a
  <2> QED BY <1>5, <2>1, TreeAdd
<1>9. /\ a \in Nat /\ Trees(a + p, 0, kwd, flags) = Added(Trees(a, 0, kwd, flags), Node(l, a, kwd, flags))
      /\ Ones[a + p] = Ones[a] + 1
  BY <1>8, Zenon DEF TreeAdded
<1>10. p \in Nat \ {0} /\ Power[d] = 2 * p /\ Power[e] \in Nat /\ Power[e] <= p
  BY <1>1, <1>5, PowerUnfolds, PowerOrder
<1>11. M = a + p
  BY <1>6, <1>7
<1> HIDE DEF a, p, d
<1>12. Ones[a] = left - 1 /\ Ones[a] \in Nat
  <2>1. Ones[a] \in Nat
    BY <1>9, OnesUnfolds
  <2> QED BY <1>1, <1>9, <1>11, <2>1
<1> DEFINE K == Trees(a, 0, kwd, flags)
           L == Trees(M, 0, kwd, flags)
           node == Node(l, a, kwd, flags)
           k == Ones[a]
<1>13. /\ \A I \in 1 .. k : L[I] = K[I]
       /\ L[k + 1] = node
  <2>1. Listed(K, k) /\ k \in Nat /\ L = Added(K, node)
    BY <1>9, <1>11, <1>12, TreesListed
  <2> HIDE DEF K, k, L, node
  <2>2. Extended(Added(K, node), K, k, node)
    BY <2>1, ListedAppend
  <2> QED BY <2>1, <2>2 DEF Extended
<1> HIDE DEF k, K, L, node
<1>14. /\ s[left] = node
       /\ \A I \in 1 .. left - 1 : s[I] = K[I]
  <2>1. k + 1 = left /\ k = left - 1
    BY <1>12 DEF k
  <2>2. left \in 1 .. left /\ \A I \in 1 .. left - 1 : I \in 1 .. left
    OBVIOUS
  <2>3. \A I \in 1 .. left : s[I] = L[I]
    BY <1>1 DEF L
  <2> QED BY <1>13, <2>1, <2>2, <2>3
<1> DEFINE ca == CHUNK_LEN * a
           cm == CHUNK_LEN * M
           cn == CHUNK_LEN * (a + Power[d])
<1>15. ca <= cm /\ ca \in Nat /\ cm \in Nat /\ cn \in Nat /\ CHUNK_LEN * (M + Power[e]) <= cn
       /\ CHUNK_LEN * (M + Power[e]) \in Nat
  <2>1. a \in Nat /\ M \in Nat /\ a <= M
    BY <1>1, <1>9, <1>10, <1>11
  <2> DEFINE U == M + Power[e]
             v == a + Power[d]
  <2>2. U \in Nat /\ v \in Nat /\ U <= v
    BY <1>9, <1>10, <1>11, <2>1
  <2> HIDE DEF U, v
  <2>3. CHUNK_LEN * U <= CHUNK_LEN * v /\ CHUNK_LEN * U \in Nat /\ CHUNK_LEN * v \in Nat
    BY <2>2, ChunksOrder
  <2>4. ca <= cm /\ ca \in Nat /\ cm \in Nat
    BY <2>1, ChunksOrder
  <2> QED BY <2>3, <2>4 DEF U, v
<1>16. ca < n /\ n <= cn
  <2> DEFINE cu == CHUNK_LEN * (M + Power[e])
  <2>1. cu \in Nat /\ cu <= cn /\ n <= cu /\ cm < n
    BY <1>1, <1>15
  <2> HIDE DEF ca, cm, cn, cu
  <2> QED BY <1>15, <2>1
<1>17. l \in Bits
  <2>1. M <= cm
    BY <1>1, ChunksOrder
  <2>2. p <= MaxLen
    <3> HIDE DEF cm
    <3>1. cm < n
      BY <1>1 DEF cm
    <3> QED BY <1>1, <1>9, <1>10, <1>11, <1>15, <2>1, <3>1, SizesAre
  <2> QED BY <1>5, <2>2, PowerInBits DEF p
<1> DEFINE y2 == ParentOutput(<<s[left], ChainingValue(x)>>, kwd, flags)
<1>18. RefOutput(ca, n, kwd, flags) = ParentOutput(<<node, RefCv(RefOutput(cm, n, kwd, flags))>>, kwd, flags)
  <2>1. CHUNK_LEN * (a + Power[l]) < n /\ n <= CHUNK_LEN * (a + Power[l + 1]) /\ M = a + Power[l]
    BY <1>1, <1>11, <1>16 DEF p, d
  <2>2. RefOutput(CHUNK_LEN * a, n, kwd, flags) =
           ParentOutput(<<Node(l, a, kwd, flags),
                          RefCv(RefOutput(CHUNK_LEN * (a + Power[l]), n, kwd, flags))>>, kwd, flags)
    BY <1>9, <1>17, <2>1, RefJoins
  <2> QED BY <2>1, <2>2 DEF node
<1>19. ChainingValue(x) = RefCv(RefOutput(cm, n, kwd, flags))
  BY <1>1, RefCvIs, Zenon
<1>20. y2 = RefOutput(ca, n, kwd, flags)
  BY <1>14, <1>18, <1>19
<1>21. \E V \in Nat : a = Power[d] * V
  BY DEF a, d
<1> HIDE DEF y2
<1>22. FoldedTo(y2, left - 1, a, d, n, s, kwd, flags)
  BY <1>5, <1>9, <1>12, <1>14, <1>16, <1>20, <1>21 DEF FoldedTo, K
<1> QED BY <1>22 DEF y2

\* Folding the whole stack gives the output from the first byte on.
LEMMA FoldIs ==
  ASSUME NEW n \in Nat, n <= MaxLen, NEW s, NEW kwd, NEW flags, NEW x, NEW K \in Nat,
         NEW M, NEW e, FoldedTo(x, K, M, e, n, s, kwd, flags)
  PROVE  Folded(s, K, x, kwd, flags)[K] = RefOutput(0, n, kwd, flags)
<1> DEFINE f == Folded(s, K, x, kwd, flags)
           At(k) == \E a, d : FoldedTo(f[k], K - k, a, d, n, s, kwd, flags)
           S == {k \in 0 .. K : At(k)}
<1>1. f[0] = x /\ \A k \in 0 .. K - 1 :
                     f[k + 1] = ParentOutput(<<s[K - k], ChainingValue(f[k])>>, kwd, flags)
  BY FoldUnfolds
<1> HIDE DEF f
<1>2. 0 \in S
  <2>1. K - 0 = K
    OBVIOUS
  <2>2. At(0)
    BY <1>1, <2>1
  <2> HIDE DEF At
  <2> QED BY <2>2
<1>3. ASSUME NEW k \in 0 .. K - 1, k \in S PROVE k + 1 \in S
  <2> DEFINE left == K - k
             rest == K - (k + 1)
  <2>1. PICK a, d : FoldedTo(f[k], left, a, d, n, s, kwd, flags)
    BY <1>3
  <2>2. left \in Nat \ {0} /\ rest = left - 1 /\ k + 1 \in 0 .. K
    OBVIOUS
  <2> HIDE DEF left, rest
  <2>3. PICK b, c : FoldedTo(ParentOutput(<<s[left], ChainingValue(f[k])>>, kwd, flags),
                             left - 1, b, c, n, s, kwd, flags)
    BY <2>1, <2>2, FoldStep
  <2>4. f[k + 1] = ParentOutput(<<s[left], ChainingValue(f[k])>>, kwd, flags)
    BY <1>1 DEF left
  <2>5. At(k + 1)
    BY <2>2, <2>3, <2>4 DEF rest
  <2> HIDE DEF At
  <2> QED BY <2>2, <2>5
<1> HIDE DEF S
<1>4. K \in S
  <2>1. 0 .. K \subseteq S
    BY <1>2, <1>3, Induction
  <2> QED BY <2>1
<1>5. PICK a, d : FoldedTo(f[K], K - K, a, d, n, s, kwd, flags)
  BY <1>4 DEF S
<1>6. a \in Nat /\ Ones[a] = 0 /\ f[K] = RefOutput(CHUNK_LEN * a, n, kwd, flags)
  BY <1>5 DEF FoldedTo
<1>7. a = 0
  BY <1>6, OnesPositive
<1>8. CHUNK_LEN * 0 = 0
  BY SizesAre
<1>9. f[K] = RefOutput(0, n, kwd, flags)
  BY <1>6, <1>7, <1>8
<1> QED BY <1>9 DEF f

\* Where the fold starts: the open chunk, or the pair on top.
LEMMA RootUnfolds ==
  ASSUME NEW kwd, NEW chunk, NEW flags, chunk.flags = flags, NEW s, NEW n \in Nat, Listed(s, n)
  PROVE  LET h == HasherAt(kwd, chunk, s)
         IN /\ n = 0 => RootOutput(h) = ChunkOutput(chunk)
            /\ n # 0 /\ ChunkLen(chunk) > 0 =>
                 RootOutput(h) = Folded(s, n, ChunkOutput(chunk), kwd, flags)[n]
            /\ n # 0 /\ ~ (ChunkLen(chunk) > 0) =>
                 RootOutput(h) =
                   Folded(s, n - 2, ParentOutput(Slice(s, n - 1, n), kwd, flags), kwd, flags)[n - 2]
<1> DEFINE h == HasherAt(kwd, chunk, s)
<1>1. h.key = kwd /\ h.chunk = chunk /\ h.cv_stack = s
  BY HasherFields
<1> HIDE DEF h
<1>2. Len(s) = n
  BY ListedIs
<1>3. RootOutput(h) =
        LET M == Len(h.cv_stack)
            open == ChunkLen(h.chunk) > 0
            remaining == IF open THEN M ELSE M - 2
            start == IF open THEN ChunkOutput(h.chunk)
                     ELSE ParentOutput(Slice(h.cv_stack, M - 1, M), h.key, h.chunk.flags)
        IN IF M = 0 THEN ChunkOutput(h.chunk)
           ELSE Folded(h.cv_stack, remaining, start, h.key, h.chunk.flags)[remaining]
  BY Zenon DEF RootOutput, Folded, Slice
<1>4. CASE n = 0
  BY <1>1, <1>2, <1>3, <1>4 DEF h
<1>5. CASE n # 0 /\ ChunkLen(chunk) > 0
  <2>1. RootOutput(h) = Folded(s, n, ChunkOutput(chunk), kwd, flags)[n]
    BY <1>1, <1>2, <1>3, <1>5
  <2> QED BY <1>5, <2>1 DEF h
<1>6. CASE n # 0 /\ ~ (ChunkLen(chunk) > 0)
  <2>1. RootOutput(h) = Folded(s, n - 2, ParentOutput(Slice(s, n - 1, n), kwd, flags), kwd, flags)[n - 2]
    BY <1>1, <1>2, <1>3, <1>6
  <2> QED BY <1>6, <2>1 DEF h
<1> QED BY <1>4, <1>5, <1>6

\* The output of the last chunk.
LEMMA LastChunk ==
  ASSUME NEW c \in Nat, NEW K \in 0 .. CHUNK_LEN, NEW kwd, NEW flags
  PROVE  ChunkOutput(ChunkAt(c, K, kwd, flags)) =
           RefOutput(CHUNK_LEN * c, CHUNK_LEN * c + K, kwd, flags)
<1>1. K \in Nat /\ K <= CHUNK_LEN
  BY SizesAre
<1> DEFINE from == CHUNK_LEN * c
<1>2. from \in Nat
  BY ChunksOrder
<1>3. ChunkOutput(ChunkAt(c, K, kwd, flags)) = RefChunk(CHUNK_LEN * c, CHUNK_LEN * c + K, kwd, flags)
  BY <1>1, OutputAt
<1> HIDE DEF from
<1>4. RefOutput(from, from + K, kwd, flags) = RefStep(from, K, kwd, flags)
  BY <1>1, <1>2, RefUnfolds
<1>5. RefStep(from, K, kwd, flags) = RefChunk(from, from + K, kwd, flags)
  BY <1>1, Zenon DEF RefStep
<1> QED BY <1>3, <1>4, <1>5 DEF from

\* The incremental hash is that of the whole message.
LEMMA RootIs ==
  ASSUME NEW n \in Nat, n <= MaxLen, NEW kwd, NEW flags, NEW h, StateAt(h, n, kwd, flags)
  PROVE  RootOutput(h) = RefOutput(0, n, kwd, flags)
<1>1. CHUNK_LEN \in Nat /\ CHUNK_LEN >= 2 /\ CHUNK_LEN * 0 = 0 /\ MaxLen \in Nat
  BY SizesAre
<1>2. CASE n = 0 /\ h = HasherAt(kwd, ChunkAt(0, 0, kwd, flags), << >>)
  <2> DEFINE chunk == ChunkAt(0, 0, kwd, flags)
             s == << >>
  <2>1. 0 \in Nat /\ 0 \in 0 .. CHUNK_LEN /\ CHUNK_LEN * 0 + 0 = 0
    BY <1>1
  <2>2. chunk.flags = flags
    BY <2>1, ChunkAtFields
  <2>3. Listed(s, 0)
    BY ListedEmpty
  <2>4. ChunkOutput(chunk) = RefOutput(0, 0, kwd, flags)
    <3>1. ChunkOutput(ChunkAt(0, 0, kwd, flags)) = RefOutput(CHUNK_LEN * 0, CHUNK_LEN * 0 + 0, kwd, flags)
      BY <2>1, LastChunk
    <3> QED BY <1>1, <2>1, <3>1
  <2> HIDE DEF chunk, s
  <2>5. RootOutput(HasherAt(kwd, chunk, s)) = ChunkOutput(chunk)
    BY <2>1, <2>2, <2>3, RootUnfolds
  <2> QED BY <1>2, <2>4, <2>5 DEF chunk, s
<1>3. CASE \E c \in Nat, K \in 1 .. CHUNK_LEN :
             /\ n = CHUNK_LEN * c + K
             /\ h = HasherAt(kwd, ChunkAt(c, K, kwd, flags), Trees(c, 0, kwd, flags))
  <2>1. PICK c \in Nat, K \in 1 .. CHUNK_LEN :
             /\ n = CHUNK_LEN * c + K
             /\ h = HasherAt(kwd, ChunkAt(c, K, kwd, flags), Trees(c, 0, kwd, flags))
    BY <1>3
  <2> DEFINE chunk == ChunkAt(c, K, kwd, flags)
             s == Trees(c, 0, kwd, flags)
             k == Ones[c]
             start == ChunkOutput(chunk)
  <2>2. K \in Nat /\ K \in 0 .. CHUNK_LEN /\ K > 0
    BY <1>1
  <2>3. chunk.flags = flags /\ ChunkLen(chunk) = K
    BY <2>2, ChunkAtFields, OutputAt
  <2>4. start = RefOutput(CHUNK_LEN * c, n, kwd, flags)
    BY <2>1, <2>2, LastChunk
  <2>5. k \in Nat /\ Listed(s, k)
    BY OnesUnfolds, TreesListed
  <2>6. CASE k = 0
    <3>1. c = 0
      BY <2>6, OnesPositive
    <3>2. start = RefOutput(0, n, kwd, flags)
      BY <1>1, <2>4, <3>1
    <3> HIDE DEF chunk, s, k, start
    <3>3. RootOutput(HasherAt(kwd, chunk, s)) = ChunkOutput(chunk)
      BY <2>3, <2>5, <2>6, RootUnfolds
    <3> QED BY <2>1, <3>2, <3>3 DEF start, chunk, s
  <2>7. CASE k # 0
    <3>1. FoldedTo(start, k, c, 0, n, s, kwd, flags)
      <4>1. Power[0] = 1 /\ c = Power[0] * c /\ 0 \in Nat
        BY PowerUnfolds
      <4>2. CHUNK_LEN * (c + 1) = CHUNK_LEN * c + CHUNK_LEN /\ CHUNK_LEN * c \in Nat
        <5>1. 1 \in Nat
          OBVIOUS
        <5>2. CHUNK_LEN * (c + 1) = CHUNK_LEN * c + CHUNK_LEN * 1 /\ CHUNK_LEN * 1 = CHUNK_LEN
              /\ CHUNK_LEN * c \in Nat
          BY <5>1, ChunksAdd
        <5> QED BY <5>2
      <4> DEFINE cc == CHUNK_LEN * c
      <4>3. cc \in Nat /\ n = cc + K
        BY <2>1, <4>2
      <4> HIDE DEF cc
      <4>4. cc < n /\ n <= cc + CHUNK_LEN
        BY <1>1, <2>2, <4>3
      <4>5. CHUNK_LEN * c < n /\ n <= CHUNK_LEN * (c + Power[0])
        BY <4>1, <4>2, <4>4 DEF cc
      <4>6. \E Y \in Nat : c = Power[0] * Y
        BY <4>1
      <4>7. \A I \in 1 .. k : s[I] = Trees(c, 0, kwd, flags)[I]
        OBVIOUS
      <4> HIDE DEF s, start
      <4> QED BY <2>4, <4>1, <4>5, <4>6, <4>7 DEF FoldedTo
    <3> HIDE DEF chunk, s, k, start
    <3>2. Folded(s, k, start, kwd, flags)[k] = RefOutput(0, n, kwd, flags)
      BY <2>5, <3>1, FoldIs
    <3>3. RootOutput(HasherAt(kwd, chunk, s)) = Folded(s, k, ChunkOutput(chunk), kwd, flags)[k]
      BY <2>2, <2>3, <2>5, <2>7, RootUnfolds
    <3> QED BY <2>1, <3>2, <3>3 DEF start, chunk, s
  <2> QED BY <2>6, <2>7
<1>4. CASE \E c \in Nat \ {0} : \E s : /\ n = CHUNK_LEN * c /\ Paired(s, c, kwd, flags)
                                       /\ h = HasherAt(kwd, ChunkAt(c, 0, kwd, flags), s)
  <2>1. PICK c \in Nat \ {0} : \E s : /\ n = CHUNK_LEN * c /\ Paired(s, c, kwd, flags)
                                      /\ h = HasherAt(kwd, ChunkAt(c, 0, kwd, flags), s)
    BY <1>4
  <2>2. PICK s : /\ n = CHUNK_LEN * c /\ Paired(s, c, kwd, flags)
                 /\ h = HasherAt(kwd, ChunkAt(c, 0, kwd, flags), s)
    BY <2>1
  <2>3. PICK l \in Nat, q \in Nat :
          /\ c = Power[l + 1] * q + Power[l + 1]
          /\ s = Added(Added(Trees(Power[l + 1] * q, 0, kwd, flags),
                             Node(l, Power[l + 1] * q, kwd, flags)),
                       Node(l, Power[l + 1] * q + Power[l], kwd, flags))
    BY <2>2 DEF Paired
  <2> DEFINE d == l + 1
             M == Power[d] * q
             p == Power[l]
             K == Trees(M, 0, kwd, flags)
             low == Node(l, M, kwd, flags)
             high == Node(l, M + p, kwd, flags)
             k == Ones[M]
             chunk == ChunkAt(c, 0, kwd, flags)
             start == ParentOutput(<<low, high>>, kwd, flags)
  <2>4. d \in Nat /\ p \in Nat \ {0} /\ Power[d] = 2 * p /\ l \in Nat
    BY PowerUnfolds
  <2>5. M \in Nat
    BY <2>4, PowerTimes, Zenon
  <2>6. k \in Nat /\ Listed(K, k)
    <3> HIDE DEF M
    <3> QED BY <2>5, OnesUnfolds, TreesListed
  <2>7. c = M + 2 * p
    BY <2>3, <2>4
  <2>8. l \in Bits
    <3> HIDE DEF M
    <3>1. c <= CHUNK_LEN * c /\ CHUNK_LEN * c \in Nat
      BY ChunksOrder
    <3>2. p <= MaxLen
      <4> HIDE DEF p
      <4> QED BY <1>1, <2>2, <2>4, <2>5, <2>7, <3>1
    <3> QED BY <2>4, <3>2, PowerInBits
  <2>9. start = RefOutput(CHUNK_LEN * M, n, kwd, flags)
    <3> HIDE DEF M
    <3>1. RefOutput(CHUNK_LEN * M, CHUNK_LEN * (M + 2 * Power[l]), kwd, flags) =
              ParentOutput(<<Node(l, M, kwd, flags), Node(l, M + Power[l], kwd, flags)>>, kwd, flags)
      BY <2>5, <2>8, ParentNode
    <3> QED BY <2>2, <2>7, <3>1
  <2>10. s = Added(Added(K, low), high)
    BY <2>3
  <2>11. chunk.flags = flags /\ ChunkLen(chunk) = 0
    <3>1. 0 \in Nat
      OBVIOUS
    <3> QED BY <3>1, ChunkAtFields, OutputAt
  <2>12. FoldedTo(start, k, M, d, n, s, kwd, flags)
    <3>1. CHUNK_LEN * M < n /\ n <= CHUNK_LEN * (M + Power[d])
      <4>1. n = CHUNK_LEN * c /\ c = M + Power[d] /\ M < c
        <5> HIDE DEF M, p
        <5> QED BY <2>2, <2>4, <2>5, <2>7
      <4>2. CHUNK_LEN * M < CHUNK_LEN * c
        <5> HIDE DEF M
        <5> QED BY <2>5, <4>1, ChunksOrder
      <4>3. n <= n
        OBVIOUS
      <4> QED BY <4>1, <4>2, <4>3
    <3>2. \E Y \in Nat : M = Power[d] * Y
      OBVIOUS
    <3>3. \A I \in 1 .. k : s[I] = K[I]
      <4> HIDE DEF K, low, high, k
      <4> DEFINE U == Added(K, low)
      <4>1. Extended(U, K, k, low)
        BY <2>6, ListedAppend
      <4> HIDE DEF U
      <4>2. k + 1 \in Nat /\ Listed(U, k + 1) /\ \A I \in 1 .. k : U[I] = K[I]
        BY <2>6, <4>1 DEF Extended
      <4>3. Extended(Added(U, high), U, k + 1, high)
        BY <4>2, ListedAppend
      <4>4. \A I \in 1 .. k + 1 : Added(U, high)[I] = U[I]
        BY <4>3, Zenon DEF Extended
      <4>5. \A I \in 1 .. k : I \in 1 .. k + 1
        BY <2>6
      <4>6. s = Added(U, high)
        BY <2>10 DEF U
      <4> QED BY <4>2, <4>4, <4>5, <4>6
    <3> HIDE DEF start, M, d
    <3> QED BY <2>4, <2>5, <2>9, <3>1, <3>2, <3>3 DEF FoldedTo
  <2> HIDE DEF K, low, high, k, chunk, M, d, p
  <2>13. Topped(s, K, k, low, high)
    BY <2>6, <2>10, AddTwo
  <2>14. Listed(s, k + 2) /\ Slice(s, k + 1, k + 2) = <<low, high>>
    BY <2>13 DEF Topped
  <2> DEFINE j == k + 2
  <2>15. j \in Nat /\ j # 0 /\ j - 1 = k + 1 /\ j - 2 = k /\ Listed(s, j)
         /\ Slice(s, k + 1, j) = <<low, high>>
    BY <2>6, <2>14
  <2> HIDE DEF j
  <2>16. RootOutput(HasherAt(kwd, chunk, s)) =
           Folded(s, j - 2, ParentOutput(Slice(s, j - 1, j), kwd, flags), kwd, flags)[j - 2]
    <3>1. ~ (ChunkLen(chunk) > 0)
      BY <2>11
    <3> QED BY <2>11, <2>15, <3>1, RootUnfolds
  <2>17. RootOutput(HasherAt(kwd, chunk, s)) = Folded(s, k, start, kwd, flags)[k]
    BY <2>15, <2>16
  <2> HIDE DEF start
  <2>18. Folded(s, k, start, kwd, flags)[k] = RefOutput(0, n, kwd, flags)
    BY <2>6, <2>12, FoldIs
  <2> QED BY <2>2, <2>17, <2>18 DEF chunk
<1> QED BY <1>2, <1>3, <1>4 DEF StateAt

-----------------------------------------------------------------------------
(* The output.                                                             *)

\* n symbols of the output of o, from the seek-th on.
Stream(o, seek, n) == [I \in 1 .. n |-> RefByte(o, seek + I - 1)]

\* The symbols of a piece of the output.
LEMMA StreamIs ==
  ASSUME NEW o, NEW seek, NEW n \in Nat
  PROVE  /\ Listed(Stream(o, seek, n), n)
         /\ \A I \in 1 .. n : Stream(o, seek, n)[I] = RefByte(o, seek + I - 1)
         /\ Stream(o, seek, 0) = << >>
<1> DEFINE s == Stream(o, seek, n)
<1>1. s = [I \in 1 .. n |-> s[I]] /\ \A I \in 1 .. n : s[I] = RefByte(o, seek + I - 1)
  BY DEF Stream
<1>2. Stream(o, seek, 0) = << >>
  <2> DEFINE e == Stream(o, seek, 0)
  <2>1. e = [I \in 1 .. 0 |-> e[I]]
    BY DEF Stream
  <2> HIDE DEF e
  <2>2. Listed(e, 0)
    BY <2>1 DEF Listed
  <2>3. \A I \in 1 .. 0 : e[I] = << >>[I]
    OBVIOUS
  <2>4. e = << >>
    BY <2>2, <2>3, ListedEmpty, ListedEqual
  <2> QED BY <2>4 DEF e
<1> HIDE DEF s
<1>3. Listed(s, n)
  BY <1>1 DEF Listed
<1> QED BY <1>1, <1>2, <1>3 DEF s

\* The b-th block of the output.
RootBlock(o, b) == CompressXof(o.cv, o.block, o.len, Counter(b), o.flags \cup {"ROOT"})

\* A block of the output is two symbols of it.
LEMMA RootBlockIs ==
  ASSUME NEW o, NEW b \in Nat
  PROVE  /\ Listed(RootBlock(o, b), 2)
         /\ \A j \in 1 .. 2 : RootBlock(o, b)[j] = RefByte(o, 2 * b + j - 1)
<1> DEFINE V == RootBlock(o, b)
           Entry(j) == <<"xof", o.cv, o.block, o.len, Counter(b), o.flags \cup {"ROOT"}, j>>
<1>1. V = [j \in 1 .. 2 |-> Entry(j)]
  BY SizesAre DEF RootBlock, CompressXof
<1>2. Listed(V, 2) /\ \A j \in 1 .. 2 : V[j] = Entry(j)
  <2> HIDE DEF Entry
  <2>1. V = [j \in 1 .. 2 |-> V[j]] /\ \A j \in 1 .. 2 : V[j] = Entry(j)
    BY <1>1
  <2> HIDE DEF V
  <2> QED BY <2>1 DEF Listed
<1>3. ASSUME NEW j \in 1 .. 2 PROVE Entry(j) = RefByte(o, 2 * b + j - 1)
  <2> DEFINE x == 2 * b + j - 1
  <2>1. x \div 2 = b /\ (x % 2) + 1 = j
    <3>1. j = 1 \/ j = 2
      OBVIOUS
    <3>2. CASE j = 1
      <4>1. x = 2 * b
        BY <3>2
      <4> HIDE DEF x
      <4>2. (2 * b) \div 2 = b /\ (2 * b) % 2 = 0
        BY Halves
      <4> QED BY <3>2, <4>1, <4>2
    <3>3. CASE j = 2
      <4>1. x = 2 * b + 1
        BY <3>3
      <4> HIDE DEF x
      <4>2. (2 * b + 1) \div 2 = b /\ (2 * b + 1) % 2 = 1
        BY Halves
      <4> QED BY <3>3, <4>1, <4>2
    <3> QED BY <3>1, <3>2, <3>3
  <2> HIDE DEF x
  <2>2. RefByte(o, x) = <<"xof", o.cv, o.block, o.len,
                          <<(x \div 2) % WORD, ((x \div 2) \div WORD) % WORD>>,
                          o.flags \cup {"ROOT"}, (x % 2) + 1>>
    BY SizesAre DEF RefByte
  <2>3. Counter(b) = <<b % WORD, (b \div WORD) % WORD>>
    BY DEF Counter, Low, High
  <2> QED BY <2>1, <2>2, <2>3 DEF x
<1> HIDE DEF V
<1> QED BY <1>2, <1>3 DEF V

\* Written symbols and a part of block b are the output up to m + take.
Continued(o, seek, M, from, take, b) ==
  Joined(Stream(o, seek, M), Slice(RootBlock(o, b), from + 1, from + take)) =
    Stream(o, seek, M + take)

\* Some symbols of one block more.
LEMMA StreamStep ==
  ASSUME NEW o, NEW seek \in Nat, NEW M \in Nat, NEW from \in 0 .. 1, NEW take \in Nat,
         from + take <= 2, NEW b \in Nat, take # 0 => seek + M = 2 * b + from
  PROVE  Continued(o, seek, M, from, take, b)
<1> DEFINE s == Stream(o, seek, M)
           x == from + 1
           Y == from + take
           V == RootBlock(o, b)
           L == Slice(V, x, Y)
           n == M + take
           K == Stream(o, seek, n)
           U == Joined(s, L)
<1>1. x \in Nat \ {0} /\ Y \in Nat /\ x <= Y + 1 /\ Y <= 2 /\ Y + 1 - x = take /\ n \in Nat
  OBVIOUS
<1>2. Listed(V, 2) /\ \A j \in 1 .. 2 : V[j] = RefByte(o, 2 * b + j - 1)
  BY RootBlockIs
<1> HIDE DEF V
<1>3. Listed(L, take) /\ \A I \in 1 .. take : L[I] = V[x + I - 1]
  <2> HIDE DEF x, Y
  <2>1. Listed(Slice(V, x, Y), Y + 1 - x)
        /\ \A I \in 1 .. Y + 1 - x : Slice(V, x, Y)[I] = V[x + I - 1]
    BY <1>1, <1>2, ListedSubSeq
  <2> QED BY <1>1, <2>1
<1>4. Listed(s, M) /\ \A I \in 1 .. M : s[I] = RefByte(o, seek + I - 1)
  BY StreamIs
<1>5. Listed(K, n) /\ \A I \in 1 .. n : K[I] = RefByte(o, seek + I - 1)
  <2> HIDE DEF n
  <2> QED BY <1>1, StreamIs
<1> HIDE DEF s, L, K
<1>6. Concat(U, s, M, L, take)
  BY <1>3, <1>4, ListedConcat
<1> HIDE DEF U
<1>7. Listed(U, n) /\ (\A I \in 1 .. M : U[I] = s[I]) /\ \A I \in 1 .. take : U[M + I] = L[I]
  BY <1>6 DEF Concat
<1>8. ASSUME NEW I \in 1 .. take PROVE U[M + I] = K[M + I]
  <2> DEFINE j == x + I - 1
             k == M + I
  <2>1. j \in 1 .. 2 /\ k \in 1 .. n /\ take # 0 /\ 2 * b + j - 1 = seek + k - 1
    BY <1>1
  <2>2. U[k] = V[j]
    BY <1>3, <1>7
  <2> HIDE DEF j, k, n
  <2>3. V[j] = RefByte(o, 2 * b + j - 1) /\ K[k] = RefByte(o, seek + k - 1)
    BY <1>2, <1>5, <2>1
  <2>4. U[k] = K[k]
    BY <2>1, <2>2, <2>3
  <2> QED BY <2>4 DEF k
<1>9. \A I \in 1 .. n : U[I] = K[I]
  <2> SUFFICES ASSUME NEW I \in 1 .. n PROVE U[I] = K[I]
    OBVIOUS
  <2>1. CASE I <= M
    <3>1. I \in 1 .. M
      BY <2>1
    <3> QED BY <1>4, <1>5, <1>7, <3>1
  <2>2. CASE ~ (I <= M)
    <3> DEFINE j == I - M
    <3>1. j \in 1 .. take /\ M + j = I
      BY <2>2
    <3> HIDE DEF j
    <3>2. U[M + j] = K[M + j]
      BY <1>8, <3>1
    <3> QED BY <3>1, <3>2
  <2> QED BY <2>1, <2>2
<1>10. U = K
  <2> HIDE DEF n
  <2> QED BY <1>5, <1>7, <1>9, ListedEqual
<1> QED BY Zenon, <1>10 DEF U, s, L, K, V, n, x, Y, Continued

\* What the loop has written after k blocks.
Written(k, offset, n) == IF k = 0 THEN 0 ELSE IF 2 * k - offset <= n THEN 2 * k - offset ELSE n

\* The n symbols from the offset in the block on are written.
Streamed(o, block, offset, n) ==
  RootBytes(o, block, offset, n) = Stream(o, 2 * block + offset, n)

\* The loop over the blocks writes the piece that was asked for.
LEMMA RootBytesAre ==
  ASSUME NEW o, NEW block \in Nat, NEW offset \in 0 .. 1, NEW n \in Nat
  PROVE  Streamed(o, block, offset, n)
<1> DEFINE seek == 2 * block + offset
           Skipped(k) == IF k = 1 THEN offset ELSE 0
           Step(x, k) ==
             Joined(x, Slice(RootBlock(o, block + (k - 1)), Skipped(k) + 1,
                             Skipped(k) + Min({n - Len(x), BLOCK_LEN - Skipped(k)})))
           Def(fn) == [k \in 0 .. n |-> IF k = 0 THEN << >> ELSE Step(fn[k - 1], k)]
           W(k) == Written(k, offset, n)
           G(k) == Stream(o, seek, W(k))
           f == CHOOSE fn : fn = Def(fn)
           h == [k \in 0 .. n |-> G(k)]
<1>1. RootBytes(o, block, offset, n) = f[n]
  BY Zenon DEF RootBytes, RootBlock, Joined, Slice
<1>2. \A k \in 0 .. n : W(k) \in Nat /\ W(k) <= n
  BY DEF Written
<1>3. G(0) = << >>
  BY StreamIs DEF Written
<1>4. ASSUME NEW k \in 1 .. n PROVE G(k) = Step(G(k - 1), k)
  <2> DEFINE j == k - 1
             M == W(j)
             from == Skipped(k)
             b == block + j
             take == IF n - M <= 2 - from THEN n - M ELSE 2 - from
             s == Stream(o, seek, M)
  <2>1. j \in Nat /\ j \in 0 .. n /\ from \in 0 .. 1 /\ b \in Nat /\ seek \in Nat
    OBVIOUS
  <2>2. M \in Nat /\ M <= n
    BY <1>2, <2>1
  <2>3. /\ take \in Nat /\ from + take <= 2 /\ M + take = W(k)
        /\ take # 0 => seek + M = 2 * b + from
    <3>1. CASE k = 1
      <4>1. M = 0 /\ from = offset /\ j = 0 /\ b = block
        BY <3>1 DEF Written
      <4>2. W(k) = IF 2 - offset <= n THEN 2 - offset ELSE n
        BY <3>1 DEF Written
      <4> HIDE DEF M, from, W, b
      <4> QED BY <4>1, <4>2
    <3>2. CASE k # 1
      <4>1. from = 0 /\ j # 0 /\ 2 * j = 2 * k - 2
        BY <3>2
      <4>2. M = IF 2 * j - offset <= n THEN 2 * j - offset ELSE n
        BY <4>1 DEF Written
      <4>3. W(k) = IF 2 * k - offset <= n THEN 2 * k - offset ELSE n
        BY DEF Written
      <4>4. seek + (2 * j - offset) = 2 * b
        BY <2>1
      <4> HIDE DEF M, from, W, b, j, seek
      <4>5. CASE 2 * j - offset <= n
        BY <2>1, <4>1, <4>2, <4>3, <4>4, <4>5
      <4>6. CASE ~ (2 * j - offset <= n)
        BY <2>1, <4>1, <4>2, <4>3, <4>6
      <4> QED BY <4>5, <4>6
    <3> QED BY <3>1, <3>2
  <2>4. Len(s) = M
    <3> HIDE DEF M
    <3>1. Listed(s, M)
      BY <2>2, StreamIs
    <3> HIDE DEF s
    <3> QED BY <3>1, ListedIs
  <2>5. Min({n - Len(s), BLOCK_LEN - from}) = take
    <3>1. Min({n - M, 2 - from}) = IF n - M <= 2 - from THEN n - M ELSE 2 - from
      <4> HIDE DEF M, from
      <4>1. n - M \in Int /\ 2 - from \in Int
        BY <2>1, <2>2
      <4> QED BY <4>1, MinIs
    <3> QED BY <2>4, <3>1, SizesAre
  <2>6. Joined(s, Slice(RootBlock(o, b), from + 1, from + take)) = Stream(o, seek, M + take)
    <3> HIDE DEF seek, M, from, b, take, s
    <3>1. /\ seek \in Nat /\ M \in Nat /\ from \in 0 .. 1 /\ take \in Nat /\ from + take <= 2
          /\ b \in Nat /\ (take # 0 => seek + M = 2 * b + from)
      BY <2>1, <2>2, <2>3
    <3>2. Continued(o, seek, M, from, take, b)
      BY <3>1, StreamStep
    <3> QED BY Zenon, <3>2 DEF Continued, s
  <2>7. G(k - 1) = s
    OBVIOUS
  <2> HIDE DEF take
  <2>8. Step(s, k) = Joined(s, Slice(RootBlock(o, b), from + 1, from + take))
    <3> HIDE DEF s, W
    <3> QED BY <2>5
  <2> HIDE DEF Step, s, W
  <2>9. G(k) = Stream(o, seek, M + take)
    BY <2>3
  <2> HIDE DEF G
  <2> QED BY <2>6, <2>7, <2>8, <2>9
<1>5. G(n) = Stream(o, seek, n)
  <2>1. W(n) = n
    BY DEF Written
  <2> HIDE DEF W
  <2> QED BY <2>1
<1> HIDE DEF G, Step
<1>6. h = Def(h)
  <2>1. ASSUME NEW k \in 0 .. n PROVE h[k] = IF k = 0 THEN << >> ELSE Step(h[k - 1], k)
    <3>1. CASE k = 0
      BY <1>3, <3>1
    <3>2. CASE k # 0
      <4>1. k \in 1 .. n /\ k - 1 \in 0 .. n
        BY <3>2
      <4> QED BY <1>4, <3>2, <4>1
    <3> QED BY <3>1, <3>2
  <2> QED BY <2>1
<1>7. f = Def(f)
  <2> HIDE DEF h
  <2> QED BY <1>6
<1> HIDE DEF f
<1>8. f[n] = G(n)
  <2> DEFINE S == {k \in 0 .. n : f[k] = G(k)}
  <2>1. 0 \in S
    BY <1>3, <1>7
  <2>2. ASSUME NEW k \in 0 .. n - 1, k \in S PROVE k + 1 \in S
    <3>1. k + 1 \in 1 .. n /\ k + 1 \in 0 .. n /\ k + 1 # 0 /\ k + 1 - 1 = k
      OBVIOUS
    <3>2. \A j \in 0 .. n : j # 0 => f[j] = Step(f[j - 1], j)
      BY <1>7
    <3>3. f[k + 1] = Step(G(k), k + 1)
      BY <2>2, <3>1, <3>2
    <3>4. G(k + 1) = Step(G(k), k + 1)
      BY <1>4, <3>1
    <3> QED BY <3>1, <3>3, <3>4
  <2> HIDE DEF S
  <2>3. 0 .. n \subseteq S
    BY <2>1, <2>2, Induction
  <2>4. n \in S
    BY <2>3
  <2> QED BY <2>4 DEF S
<1>9. RootBytes(o, block, offset, n) = Stream(o, seek, n)
  BY <1>1, <1>5, <1>8
<1> HIDE DEF f
<1> QED BY Zenon, <1>9 DEF seek, Streamed

\* finalize_seek returns a piece of the output, whatever the offset.
LEMMA FinalizeIs ==
  ASSUME NEW h, NEW seek \in Nat, NEW n \in Nat
  PROVE  finalize_seek(h, seek, n) = Stream(RootOutput(h), seek, n)
<1> DEFINE o == RootOutput(h)
           block == seek \div 2
           offset == seek % 2
<1>1. block \in Nat /\ offset \in 0 .. 1 /\ seek = 2 * block + offset
  <2>1. 2 \in Nat \ {0}
    OBVIOUS
  <2> QED BY <2>1, Division
<1>2. CASE n = 0
  BY <1>2, StreamIs DEF finalize_seek
<1>3. CASE n # 0
  <2>1. finalize_seek(h, seek, n) = RootBytes(o, block, offset, n)
    <3> HIDE DEF o
    <3>1. finalize_seek(h, seek, n) = RootBytes(o, seek \div BLOCK_LEN, seek % BLOCK_LEN, n)
      BY <1>3 DEF finalize_seek, output_root_bytes, o
    <3> QED BY <3>1, SizesAre
  <2> HIDE DEF o, block, offset
  <2>2. RootBytes(o, block, offset, n) = Stream(o, 2 * block + offset, n)
    <3>1. Streamed(o, block, offset, n)
      BY <1>1, RootBytesAre
    <3> QED BY Zenon, <3>1 DEF Streamed
  <2> QED BY <1>1, <2>1, <2>2 DEF o
<1> QED BY <1>2, <1>3

-----------------------------------------------------------------------------
(* The key of a mode.                                                      *)

\* A key that is derived from a context is the one the reference derives.
LEMMA KeyIs ==
  ASSUME cpu \in Cpus, NEW M \in Modes
  PROVE  KeyOf(M) = RefKey(M)
<1>1. CASE M = <<"hash">>
  <2>1. M[1] = "hash"
    BY <1>1
  <2> QED BY <2>1 DEF KeyOf, RefKey, IV
<1>2. CASE M = <<"keyed">>
  <2>1. M[1] = "keyed"
    BY <1>2
  <2> QED BY <2>1 DEF KeyOf, RefKey
<1>3. CASE M \in {"derive"} \X (0 .. MaxLen)
  <2> DEFINE n == M[2]
             flags == {"DERIVE_KEY_CONTEXT"}
             new == HasherInit(IV, flags)
             h == hasher_update(new, Piece(0, n))
             o == RootOutput(h)
  <2>1. M[1] = "derive" /\ n \in 0 .. MaxLen
    BY <1>3
  <2>2. n \in Nat /\ n <= MaxLen /\ 0 + n = n /\ 0 \in Nat
    BY <2>1, SizesAre
  <2> HIDE DEF n, flags
  <2>3. StateAt(new, 0, IV, flags)
    BY InitIs
  <2> HIDE DEF new
  <2>4. StateAt(h, 0 + n, IV, flags)
    <3>1. 0 + n <= MaxLen
      BY <2>2
    <3> QED BY <2>2, <2>3, <3>1, UpdateIs
  <2> HIDE DEF h
  <2>5. o = RefOutput(0, n, IV, flags)
    <3>1. StateAt(h, n, IV, flags)
      BY <2>2, <2>4
    <3> QED BY <2>2, <3>1, RootIs
  <2>6. finalize_seek(h, 0, 1) = Stream(o, 0, 1)
    BY FinalizeIs
  <2> HIDE DEF o
  <2>7. Stream(o, 0, 1)[1] = RefByte(o, 0)
    <3>1. 1 \in Nat /\ 1 \in 1 .. 1 /\ 0 + 1 - 1 = 0
      OBVIOUS
    <3>2. Stream(o, 0, 1)[1] = RefByte(o, 0 + 1 - 1)
      BY <3>1, StreamIs
    <3> QED BY <3>1, <3>2
  <2>8. BLOCK_LEN \div 2 = 1
    BY SizesAre
  <2>9. ContextKey(n) = finalize_seek(h, 0, 1)[1]
    BY <2>8 DEF ContextKey, h, new, flags
  <2>10. KeyOf(M) = ContextKey(n)
    BY <2>1 DEF KeyOf, n
  <2>11. RefKey(M) = RefByte(RefOutput(0, n, IV, flags), 0)
    BY <2>1 DEF RefKey, IV, n, flags
  <2> QED BY <2>5, <2>6, <2>7, <2>9, <2>10, <2>11
<1> QED BY <1>1, <1>2, <1>3, LengthsAssumption

-----------------------------------------------------------------------------
(* The invariant.                                                          *)

\* The hasher is the one the length of the message determines, however it
\* was cut, and the last read is a piece of the reference's output.
HasherInv ==
  /\ cpu \in Cpus /\ mode \in Modes /\ absorbed \in 0 .. MaxLen
  /\ StateAt(hasher, absorbed, RefKey(mode), FlagsOf(mode))
  /\ read.seek \in Nat
  /\ \E n \in Nat : read.bytes = Stream(Reference[mode][absorbed], read.seek, n)

\* The table of the reference, looked up.
LEMMA ReferenceIs ==
  ASSUME mode \in Modes, absorbed \in 0 .. MaxLen
  PROVE  Reference[mode][absorbed] = RefOutput(0, absorbed, RefKey(mode), FlagsOf(mode))
<1> DEFINE F(M) == [n \in 0 .. MaxLen |-> RefOutput(0, n, RefKey(M), FlagsOf(M))]
<1>1. Reference = [M \in Modes |-> F(M)]
  BY DEF Reference
<1>2. Reference[mode] = F(mode)
  <2> HIDE DEF F
  <2> QED BY <1>1
<1> QED BY <1>2

\* No read is a piece of any output.
LEMMA NoReadIs ==
  ASSUME NEW o
  PROVE  NoRead.seek \in Nat /\ \E n \in Nat : NoRead.bytes = Stream(o, NoRead.seek, n)
<1>1. NoRead.seek = 0 /\ NoRead.bytes = << >>
  BY DEF NoRead
<1>2. 0 \in Nat /\ Stream(o, 0, 0) = << >>
  BY StreamIs
<1> QED BY <1>1, <1>2

\* reset leaves a new hasher with the same key and flags.
LEMMA ResetIs ==
  ASSUME NEW n \in Nat, NEW kwd, NEW flags, NEW h, StateAt(h, n, kwd, flags)
  PROVE  StateAt([h EXCEPT !.chunk = ChunkInit(h.key, @.flags, 0), !.cv_stack = << >>],
                 0, kwd, flags)
<1>1. PICK chunk, s : h = HasherAt(kwd, chunk, s)
  <2>1. CASE n = 0 /\ h = HasherAt(kwd, ChunkAt(0, 0, kwd, flags), << >>)
    BY <2>1
  <2>2. CASE \E c \in Nat, K \in 1 .. CHUNK_LEN :
               /\ n = CHUNK_LEN * c + K
               /\ h = HasherAt(kwd, ChunkAt(c, K, kwd, flags), Trees(c, 0, kwd, flags))
    BY <2>2
  <2>3. CASE \E c \in Nat \ {0} : \E s : /\ n = CHUNK_LEN * c /\ Paired(s, c, kwd, flags)
                                     /\ h = HasherAt(kwd, ChunkAt(c, 0, kwd, flags), s)
    BY <2>3
  <2> QED BY <2>1, <2>2, <2>3 DEF StateAt
<1>2. h.key = kwd /\ h.chunk.flags = flags
  BY StateFieldsAt
<1> DEFINE new == ChunkInit(kwd, flags, 0)
           opened == [h EXCEPT !.chunk = new]
<1>3. opened = HasherAt(kwd, new, s)
  <2> HIDE DEF new
  <2>1. WithChunk(HasherAt(kwd, chunk, s), new) = HasherAt(kwd, new, s)
    BY HasherUpdates
  <2> QED BY <1>1, <2>1 DEF WithChunk
<1>4. [opened EXCEPT !.cv_stack = << >>] = HasherAt(kwd, new, << >>)
  <2> HIDE DEF new, opened
  <2>1. WithStack(HasherAt(kwd, new, s), << >>) = HasherAt(kwd, new, << >>)
    BY HasherUpdates
  <2> QED BY <1>3, <2>1 DEF WithStack
<1>5. [h EXCEPT !.chunk = ChunkInit(h.key, @.flags, 0), !.cv_stack = << >>] =
        [opened EXCEPT !.cv_stack = << >>]
  BY <1>2
<1>6. HasherInit(kwd, flags) = HasherAt(kwd, new, << >>)
  BY Zenon DEF HasherInit, HasherAt, new
<1>7. StateAt(HasherInit(kwd, flags), 0, kwd, flags)
  BY InitIs
<1> QED BY <1>4, <1>5, <1>6, <1>7

\* A new hasher of any mode is the one for the empty message.
LEMMA HasherInvInit == Blake3Init => HasherInv
<1> SUFFICES ASSUME Blake3Init PROVE HasherInv
  OBVIOUS
<1>1. cpu \in Cpus /\ mode \in Modes /\ absorbed \in 0 .. MaxLen /\ absorbed = 0
  BY SizesAre DEF Blake3Init
<1>2. hasher = HasherInit(RefKey(mode), FlagsOf(mode))
  BY <1>1, KeyIs DEF Blake3Init
<1>3. StateAt(hasher, absorbed, RefKey(mode), FlagsOf(mode))
  BY <1>1, <1>2, InitIs
<1>4. read = NoRead
  BY DEF Blake3Init
<1> QED BY <1>1, <1>3, <1>4, NoReadIs DEF HasherInv

\* No call of update, finalize_seek or reset breaks the invariant.
LEMMA HasherInvNext == HasherInv /\ [Blake3Next]_blake3Vars => HasherInv'
<1> SUFFICES ASSUME HasherInv, [Blake3Next]_blake3Vars PROVE HasherInv'
  OBVIOUS
<1> DEFINE kwd == RefKey(mode)
           flags == FlagsOf(mode)
<1>1. /\ cpu \in Cpus /\ mode \in Modes /\ absorbed \in 0 .. MaxLen
      /\ StateAt(hasher, absorbed, kwd, flags)
  BY DEF HasherInv
<1>2. absorbed \in Nat /\ absorbed <= MaxLen
  BY <1>1, SizesAre
<1>3. ASSUME UNCHANGED <<cpu, mode>>, absorbed' \in 0 .. MaxLen,
             StateAt(hasher', absorbed', kwd, flags), read' = NoRead
      PROVE  HasherInv'
  <2>1. read'.seek \in Nat /\ \E n \in Nat : read'.bytes = Stream(Reference[mode'][absorbed'], read'.seek, n)
    BY <1>3, NoReadIs
  <2>2. StateAt(hasher', absorbed', RefKey(mode'), FlagsOf(mode'))
    BY <1>3
  <2> QED BY <1>1, <1>3, <2>1, <2>2 DEF HasherInv
<1>4. CASE Update
  <2>1. PICK n \in Sizes : /\ absorbed + n <= MaxLen
                           /\ hasher' = hasher_update(hasher, Piece(absorbed, n))
                           /\ absorbed' = absorbed + n
                           /\ read' = NoRead
                           /\ UNCHANGED <<cpu, mode>>
    BY <1>4 DEF Update
  <2>2. n \in Nat
    BY SizesAre, LengthsAssumption
  <2>3. absorbed' \in 0 .. MaxLen
    BY <1>2, <2>1, <2>2, SizesAre
  <2>4. StateAt(hasher', absorbed', kwd, flags)
    <3> HIDE DEF kwd, flags
    <3>1. StateAt(hasher_update(hasher, Piece(absorbed, n)), absorbed + n, kwd, flags)
      BY <1>1, <1>2, <2>1, <2>2, UpdateIs
    <3> QED BY <2>1, <3>1
  <2> QED BY <1>3, <2>1, <2>3, <2>4
<1>5. CASE Finalize
  <2>1. PICK K \in Reads :
          /\ read' = [seek |-> K[1], bytes |-> finalize_seek(hasher, K[1], K[2])]
          /\ UNCHANGED <<cpu, mode, hasher, absorbed>>
    BY <1>5 DEF Finalize
  <2> DEFINE seek == K[1]
             n == K[2]
             o == Reference[mode][absorbed]
             b == finalize_seek(hasher, seek, n)
  <2>2. seek \in Nat /\ n \in Nat
    BY LengthsAssumption
  <2>3. RootOutput(hasher) = RefOutput(0, absorbed, kwd, flags)
    <3> HIDE DEF kwd, flags
    <3> QED BY <1>1, <1>2, RootIs
  <2>4. o = RefOutput(0, absorbed, kwd, flags)
    BY <1>1, ReferenceIs
  <2> HIDE DEF seek, n, o
  <2>5. b = Stream(o, seek, n)
    BY <2>2, <2>3, <2>4, FinalizeIs
  <2> HIDE DEF b
  <2>6. read' = [seek |-> seek, bytes |-> b]
    BY <2>1 DEF seek, b, n
  <2>7. read'.seek = seek /\ read'.bytes = b
    BY <2>6
  <2>8. Reference[mode'][absorbed'] = o
    BY <2>1 DEF o
  <2>9. read'.seek \in Nat /\ \E k \in Nat : read'.bytes = Stream(Reference[mode'][absorbed'], read'.seek, k)
    BY <2>2, <2>5, <2>7, <2>8
  <2>10. StateAt(hasher', absorbed', RefKey(mode'), FlagsOf(mode'))
    BY <1>1, <2>1
  <2> QED BY <1>1, <2>1, <2>9, <2>10 DEF HasherInv
<1>6. CASE Reset
  <2>1. /\ hasher' = [hasher EXCEPT !.chunk = ChunkInit(hasher.key, @.flags, 0), !.cv_stack = << >>]
        /\ absorbed' = 0 /\ read' = NoRead /\ UNCHANGED <<cpu, mode>>
    BY <1>6 DEF Reset
  <2>2. StateAt(hasher', absorbed', kwd, flags)
    <3> HIDE DEF kwd, flags
    <3> QED BY <1>1, <1>2, <2>1, ResetIs
  <2>3. absorbed' \in 0 .. MaxLen
    BY <2>1, SizesAre
  <2> QED BY <1>3, <2>1, <2>2, <2>3
<1>7. CASE UNCHANGED blake3Vars
  BY <1>7 DEF HasherInv, blake3Vars
<1> QED BY <1>4, <1>5, <1>6, <1>7 DEF Blake3Next

\* Theorem.  In every reachable state the hasher is the one the reference
\* determines from the bytes absorbed, whatever calls brought them.
THEOREM HasherDetermined == Blake3Spec => []HasherInv
<1>1. Blake3Init => HasherInv
  BY HasherInvInit
<1>2. HasherInv /\ [Blake3Next]_blake3Vars => HasherInv'
  BY HasherInvNext
<1> QED BY <1>1, <1>2, PTL DEF Blake3Spec

-----------------------------------------------------------------------------
(* What the invariant says of the hash, the stack and the fields.          *)

\* Theorem (HashIsReference).  However the message was cut into calls of
\* update, after any resets, on every processor and in every mode, the root
\* the hasher would output is that of the whole message.
THEOREM HashesTheMessage == Blake3Spec => []HashIsReference
<1>1. HasherInv => HashIsReference
  <2> SUFFICES ASSUME HasherInv PROVE HashIsReference
    OBVIOUS
  <2> DEFINE kwd == RefKey(mode)
             flags == FlagsOf(mode)
  <2>1. /\ mode \in Modes /\ absorbed \in 0 .. MaxLen /\ absorbed \in Nat /\ absorbed <= MaxLen
        /\ StateAt(hasher, absorbed, kwd, flags)
    BY SizesAre DEF HasherInv
  <2>2. RootOutput(hasher) = RefOutput(0, absorbed, kwd, flags)
    <3> HIDE DEF kwd, flags
    <3> QED BY <2>1, RootIs
  <2>3. Reference[mode][absorbed] = RefOutput(0, absorbed, kwd, flags)
    BY <2>1, ReferenceIs
  <2> QED BY <2>2, <2>3 DEF HashIsReference
<1> QED BY <1>1, HasherDetermined, PTL

\* Theorem (ReadsAreSlices).  What finalize_seek returned last is a piece of
\* the one output stream of the message, whatever the offset and length.
THEOREM ReadsTheStream == Blake3Spec => []ReadsAreSlices
<1>1. HasherInv => ReadsAreSlices
  <2> SUFFICES ASSUME HasherInv PROVE ReadsAreSlices
    OBVIOUS
  <2> DEFINE o == Reference[mode][absorbed]
             seek == read.seek
             bytes == read.bytes
  <2>1. PICK n \in Nat : bytes = Stream(o, seek, n)
    BY DEF HasherInv
  <2> HIDE DEF o, seek, bytes
  <2>2. Listed(bytes, n) /\ \A I \in 1 .. n : bytes[I] = RefByte(o, seek + I - 1)
    BY <2>1, StreamIs
  <2>3. DOMAIN bytes = 1 .. n
    BY <2>2, ListedIs
  <2>4. \A I \in DOMAIN bytes : bytes[I] = RefByte(o, seek + I - 1)
    BY <2>2, <2>3
  <2> QED BY <2>4 DEF ReadsAreSlices, o, seek, bytes
<1> QED BY <1>1, HasherDetermined, PTL

\* Two entries added one by one are a pair joined to the stack.
LEMMA JoinedPair ==
  ASSUME NEW k \in Nat, NEW K, Listed(K, k), NEW x, NEW Y
  PROVE  Joined(K, <<x, Y>>) = Added(Added(K, x), Y)
<1> DEFINE p == <<x, Y>>
           s == Joined(K, p)
           one == Added(K, x)
           two == Added(one, Y)
<1>1. Listed(p, 2) /\ p[1] = x /\ p[2] = Y
  BY PairListed
<1> HIDE DEF p
<1>2. Concat(s, K, k, p, 2)
  BY <1>1, ListedConcat
<1>3. Extended(one, K, k, x)
  BY ListedAppend
<1> HIDE DEF s, one
<1>4. Listed(one, k + 1) /\ (\A I \in 1 .. k : one[I] = K[I]) /\ one[k + 1] = x
  BY <1>3 DEF Extended
<1> DEFINE M == k + 1
<1>5. M \in Nat /\ Listed(one, M)
  BY <1>4
<1>6. Extended(two, one, M, Y)
  <2> HIDE DEF M
  <2> QED BY <1>5, ListedAppend
<1> HIDE DEF two
<1>7. Listed(two, M + 1) /\ (\A I \in 1 .. M : two[I] = one[I]) /\ two[M + 1] = Y
  BY <1>6 DEF Extended
<1>8. /\ Listed(s, k + 2) /\ (\A I \in 1 .. k : s[I] = K[I])
      /\ s[k + 1] = p[1] /\ s[k + 2] = p[2]
  BY <1>2 DEF Concat
<1>9. Listed(two, k + 2)
  <2>1. M + 1 = k + 2
    OBVIOUS
  <2> QED BY <1>7, <2>1
<1>10. ASSUME NEW I \in 1 .. k + 2 PROVE s[I] = two[I]
  <2>1. I \in 1 .. k \/ I = k + 1 \/ I = k + 2
    OBVIOUS
  <2>2. CASE I \in 1 .. k
    <3>1. I \in 1 .. M
      BY <2>2
    <3> QED BY <1>4, <1>7, <1>8, <2>2, <3>1
  <2>3. CASE I = k + 1
    <3>1. I \in 1 .. M /\ I = M
      BY <2>3
    <3>2. two[I] = one[M] /\ one[M] = x
      BY <1>4, <1>7, <3>1
    <3> QED BY <1>1, <1>8, <2>3, <3>2
  <2>4. CASE I = k + 2
    <3>1. I = M + 1
      BY <2>4
    <3> QED BY <1>1, <1>7, <1>8, <2>4, <3>1
  <2> QED BY <2>1, <2>2, <2>3, <2>4
<1>11. s = two
  <2> DEFINE n == k + 2
  <2>1. n \in Nat
    OBVIOUS
  <2>2. Listed(s, n) /\ Listed(two, n) /\ \A I \in 1 .. n : s[I] = two[I]
    BY <1>8, <1>9, <1>10
  <2> HIDE DEF n
  <2> QED BY <2>1, <2>2, ListedEqual
<1> QED BY <1>11 DEF s, p, two, one

\* A smaller subtree is found at a place that its size divides.
LEMMA PairedPlace ==
  ASSUME NEW c \in Nat, CHUNK_LEN * c <= MaxLen, NEW l \in Nat, NEW q \in Nat,
         c = Power[l + 1] * q + Power[l + 1]
  PROVE  /\ l \in Bits /\ c - 2 * Power[l] = Power[l + 1] * q
         /\ Power[l + 1] * q \in Nat /\ (Power[l + 1] * q) % (2 * Power[l]) = 0
<1> DEFINE p == Power[l]
           d == Power[l + 1]
           M == d * q
<1>1. p \in Nat \ {0} /\ d \in Nat \ {0} /\ d = 2 * p
  BY PowerUnfolds
<1>2. M \in Nat
  <2> HIDE DEF d
  <2> QED BY <1>1
<1>3. M % d = 0
  <2>1. 0 \in 0 .. d - 1 /\ q \in Int
    BY <1>1
  <2> HIDE DEF d
  <2>2. (0 + d * q) % d = 0
    BY <1>1, <2>1, Quotient
  <2>3. 0 + d * q = d * q
    BY <1>2
  <2> QED BY <2>2, <2>3
<1>4. l \in Bits
  <2>1. c <= CHUNK_LEN * c /\ CHUNK_LEN * c \in Nat
    BY ChunksOrder
  <2> HIDE DEF p, d
  <2> DEFINE x == CHUNK_LEN * c
  <2>2. x \in Nat /\ c <= x /\ x <= MaxLen
    BY <2>1
  <2> HIDE DEF x, M
  <2>3. p <= c
    BY <1>1, <1>2 DEF M, d
  <2>4. p <= MaxLen
    BY <1>1, <2>2, <2>3, SizesAre
  <2> QED BY <2>4, PowerInBits DEF p
<1>5. c = M + d
  OBVIOUS
<1> HIDE DEF p, d, M
<1>6. c - 2 * p = M
  BY <1>1, <1>2, <1>5
<1> QED BY <1>1, <1>2, <1>3, <1>4, <1>6 DEF p, d, M

\* Theorem (StackOrdered).  The stack of chaining values is the binary
\* representation of the chunks before the current one, except that the two
\* halves of the last subtree are kept apart while no byte follows them.
THEOREM StackIsBinary == Blake3Spec => []StackOrdered
<1>1. HasherInv => StackOrdered
  <2> SUFFICES ASSUME HasherInv PROVE StackOrdered
    OBVIOUS
  <2> DEFINE kwd == RefKey(mode)
             flags == FlagsOf(mode)
             count == hasher.chunk.counter
             size == ChunkLen(hasher.chunk)
             stack == hasher.cv_stack
  <2>1. StateAt(hasher, absorbed, kwd, flags) /\ absorbed \in Nat /\ absorbed <= MaxLen
    BY SizesAre DEF HasherInv
  <2>2. StackOrdered <=>
          IF size > 0 \/ count = 0 THEN stack = Trees(count, 0, kwd, flags)
          ELSE \E l \in Bits :
                 LET M == count - 2 * Power[l]
                 IN /\ M >= 0 /\ M % (2 * Power[l]) = 0
                    /\ stack = Joined(Trees(M, 0, kwd, flags),
                                      <<Node(l, M, kwd, flags), Node(l, M + Power[l], kwd, flags)>>)
    BY Zenon DEF StackOrdered, Trees, Joined
  <2> HIDE DEF kwd, flags
  <2>3. ASSUME NEW c \in Nat, NEW K \in Nat, NEW s, hasher = HasherAt(kwd, ChunkAt(c, K, kwd, flags), s)
        PROVE  count = c /\ size = K /\ stack = s
    <3> DEFINE chunk == ChunkAt(c, K, kwd, flags)
    <3>1. chunk.counter = c /\ ChunkLen(chunk) = K
      BY ChunkAtFields, OutputAt
    <3> HIDE DEF chunk
    <3>2. hasher.chunk = chunk /\ stack = s
      BY <2>3, HasherFields DEF chunk
    <3> QED BY <3>1, <3>2
  <2> HIDE DEF count, size, stack
  <2>4. CASE absorbed = 0 /\ hasher = HasherAt(kwd, ChunkAt(0, 0, kwd, flags), << >>)
    <3>1. 0 \in Nat
      OBVIOUS
    <3>2. count = 0 /\ stack = << >>
      BY <2>3, <2>4, <3>1
    <3>3. Trees(0, 0, kwd, flags) = << >>
      BY <3>1, TreesUnfold DEF TreesStep
    <3> QED BY <2>2, <3>2, <3>3
  <2>5. ASSUME NEW c \in Nat, NEW K \in 1 .. CHUNK_LEN,
               hasher = HasherAt(kwd, ChunkAt(c, K, kwd, flags), Trees(c, 0, kwd, flags))
        PROVE  StackOrdered
    <3>1. K \in Nat /\ K > 0
      OBVIOUS
    <3>2. count = c /\ size = K /\ stack = Trees(c, 0, kwd, flags)
      BY <2>3, <2>5, <3>1
    <3> QED BY <2>2, <3>1, <3>2
  <2>6. ASSUME NEW c \in Nat \ {0}, NEW s, absorbed = CHUNK_LEN * c, Paired(s, c, kwd, flags),
               hasher = HasherAt(kwd, ChunkAt(c, 0, kwd, flags), s)
        PROVE  StackOrdered
    <3>1. c \in Nat /\ c # 0 /\ 0 \in Nat
      OBVIOUS
    <3>2. count = c /\ size = 0 /\ stack = s
      BY <2>3, <2>6, <3>1
    <3>3. PICK l \in Nat, q \in Nat :
            /\ c = Power[l + 1] * q + Power[l + 1]
            /\ s = Added(Added(Trees(Power[l + 1] * q, 0, kwd, flags),
                               Node(l, Power[l + 1] * q, kwd, flags)),
                         Node(l, Power[l + 1] * q + Power[l], kwd, flags))
      BY <2>6 DEF Paired
    <3> DEFINE M == Power[l + 1] * q
               x == Node(l, M, kwd, flags)
               Y == Node(l, M + Power[l], kwd, flags)
               L == Trees(M, 0, kwd, flags)
    <3>4. /\ l \in Bits /\ c - 2 * Power[l] = M /\ M \in Nat /\ M % (2 * Power[l]) = 0
      <4>1. CHUNK_LEN * c <= MaxLen
        BY <2>1, <2>6
      <4> QED BY <3>3, <4>1, PairedPlace
    <3>5. s = Added(Added(L, x), Y)
      BY <3>3
    <3> HIDE DEF M
    <3>6. Listed(L, Ones[M]) /\ Ones[M] \in Nat
      <4>1. Listed(L, Ones[M])
        BY <3>1, <3>4, TreesListed
      <4> QED BY <4>1, ListedIs
    <3> HIDE DEF x, Y, L
    <3>7. s = Joined(L, <<x, Y>>)
      BY <3>5, <3>6, JoinedPair
    <3>8. /\ l \in Bits /\ M = count - 2 * Power[l] /\ M >= 0 /\ M % (2 * Power[l]) = 0
          /\ stack = Joined(Trees(M, 0, kwd, flags),
                            <<Node(l, M, kwd, flags), Node(l, M + Power[l], kwd, flags)>>)
      BY <3>2, <3>4, <3>7 DEF x, Y, L
    <3>9. ~ (size > 0 \/ count = 0)
      BY <3>1, <3>2
    <3> QED BY <2>2, <3>8, <3>9
  <2> QED BY <2>1, <2>4, <2>5, <2>6 DEF StateAt
<1> QED BY <1>1, HasherDetermined, PTL

\* A common factor is cancelled.
LEMMA Cancelled ==
  ASSUME NEW p \in Nat \ {0}, NEW x \in Nat, NEW Y \in Nat, p * x <= p * Y
  PROVE  x <= Y
<1> SUFFICES ASSUME ~ (x <= Y) PROVE FALSE
  OBVIOUS
<1> DEFINE d == x - Y - 1
<1>1. d \in Nat /\ x = Y + 1 + d
  OBVIOUS
<1> HIDE DEF d
<1>2. p * x = p * Y + p + p * d /\ p * d \in Nat /\ p * Y \in Nat
  BY <1>1
<1> QED BY <1>2

\* A stack fits the array the hasher keeps for it.
LEMMA StackFits ==
  ASSUME NEW c \in Nat, NEW kwd, NEW flags
  PROVE  /\ CHUNK_LEN * c < MaxLen => /\ Listed(Trees(c, 0, kwd, flags), Ones[c])
                                      /\ Ones[c] \in 0 .. MAX_DEPTH
         /\ CHUNK_LEN * c <= MaxLen =>
              \A s : Paired(s, c, kwd, flags) =>
                       \E n \in 0 .. MAX_DEPTH + 1 : Listed(s, n)
<1> DEFINE D == MAX_DEPTH
           top == Power[D]
<1>1. /\ D \in Nat /\ top \in Nat /\ MaxLen \in Nat /\ MaxLen <= CHUNK_LEN * top
      /\ CHUNK_LEN * c \in Nat /\ CHUNK_LEN * top \in Nat
      /\ (CHUNK_LEN * c <= CHUNK_LEN * top <=> c <= top)
      /\ (CHUNK_LEN * c < CHUNK_LEN * top <=> c < top)
  BY SizesAre, PowerUnfolds, ChunksOrder
<1> DEFINE cc == CHUNK_LEN * c
           ct == CHUNK_LEN * top
<1>2. (cc < MaxLen => c < top) /\ (cc <= MaxLen => c <= top)
  <2>1. /\ cc \in Nat /\ ct \in Nat /\ MaxLen \in Nat /\ MaxLen <= ct
        /\ (cc <= ct <=> c <= top) /\ (cc < ct <=> c < top)
    BY <1>1
  <2> HIDE DEF cc, ct, top
  <2> QED BY <2>1
<1>3. ASSUME cc < MaxLen
      PROVE  Listed(Trees(c, 0, kwd, flags), Ones[c]) /\ Ones[c] \in 0 .. D
  <2>1. Listed(Trees(c, 0, kwd, flags), Ones[c])
    BY TreesListed
  <2>2. Ones[c] <= D
    BY <1>1, <1>2, <1>3, OnesBound
  <2>3. Ones[c] \in Nat
    BY <2>1, ListedIs
  <2> QED BY <1>1, <2>1, <2>2, <2>3
<1>4. ASSUME cc <= MaxLen, NEW s, Paired(s, c, kwd, flags)
      PROVE  \E n \in 0 .. D + 1 : Listed(s, n)
  <2>1. PICK l \in Nat, q \in Nat :
          /\ c = Power[l + 1] * q + Power[l + 1]
          /\ s = Added(Added(Trees(Power[l + 1] * q, 0, kwd, flags),
                             Node(l, Power[l + 1] * q, kwd, flags)),
                       Node(l, Power[l + 1] * q + Power[l], kwd, flags))
    BY <1>4 DEF Paired
  <2> DEFINE e == l + 1
             p == Power[e]
             M == p * q
             x == Node(l, M, kwd, flags)
             Y == Node(l, M + Power[l], kwd, flags)
             L == Trees(M, 0, kwd, flags)
  <2>2. e \in Nat /\ p \in Nat \ {0}
    BY PowerUnfolds
  <2>3. M \in Nat /\ c = M + p /\ M + p <= top
    <3>1. c = M + p /\ c <= top
      BY <1>2, <1>4, <2>1
    <3>2. M \in Nat
      <4> HIDE DEF p
      <4> QED BY <2>2
    <3> QED BY <3>1, <3>2
  <2>4. e <= D
    <3>1. Power[e] <= Power[D]
      <4> HIDE DEF M
      <4>1. p <= top
        <5> HIDE DEF p, top
        <5> QED BY <1>1, <2>2, <2>3
      <4> QED BY <4>1
    <3> HIDE DEF e, D
    <3> QED BY <1>1, <2>2, <3>1, PowerOrder
  <2> DEFINE d == D - e
             V == Power[d]
  <2>5. d \in Nat /\ e + d = D
    BY <1>1, <2>2, <2>4
  <2>6. top = p * V /\ V \in Nat
    <3> HIDE DEF d, e, D
    <3> QED BY <2>2, <2>5, PowerPlus, PowerUnfolds
  <2>7. q < V
    <3>1. p * (q + 1) <= p * V
      <4>1. p * (q + 1) = M + p
        <5> HIDE DEF p
        <5> QED BY <2>2
      <4> HIDE DEF top, M, p, V
      <4> QED BY <2>3, <2>6, <4>1
    <3>2. q + 1 <= V
      <4> DEFINE k == q + 1
      <4>1. k \in Nat /\ p * k <= p * V
        BY <3>1
      <4> HIDE DEF k, p, V
      <4>2. k <= V
        BY <2>2, <2>6, <4>1, Cancelled
      <4> QED BY <4>2 DEF k
    <3> HIDE DEF V
    <3> QED BY <2>6, <3>2
  <2>8. Ones[q] <= d
    <3> HIDE DEF d
    <3> QED BY <2>5, <2>7, OnesBound
  <2>9. Ones[M] = Ones[q]
    <3> HIDE DEF e
    <3>1. Ones[Power[e] * q] = Ones[q]
      BY <2>2, Shifted
    <3> QED BY <3>1
  <2> HIDE DEF M
  <2> DEFINE k == Ones[M]
  <2>10. Listed(L, k) /\ k \in Nat
    <3>1. Listed(L, k)
      BY <2>3, TreesListed
    <3> HIDE DEF L, k
    <3> QED BY <3>1, ListedIs
  <2>11. k + 2 \in 0 .. D + 1
    BY <1>1, <2>5, <2>8, <2>9, <2>10
  <2>12. s = Added(Added(L, x), Y)
    BY <2>1 DEF M
  <2> HIDE DEF k, L, x, Y
  <2>13. Topped(Added(Added(L, x), Y), L, k, x, Y)
    BY <2>10, AddTwo
  <2>14. Listed(s, k + 2)
    BY <2>12, <2>13 DEF Topped
  <2> QED BY <2>11, <2>14
<1> QED BY <1>3, <1>4

\* The fields of a chunk that has at most CHUNK_LEN bytes.
LEMMA ChunkFits ==
  ASSUME NEW c \in Nat, CHUNK_LEN * c <= MaxLen, NEW K \in 0 .. CHUNK_LEN, NEW kwd, NEW flags
  PROVE  LET chunk == ChunkAt(c, K, kwd, flags)
         IN /\ chunk.counter \in 0 .. MaxLen \div CHUNK_LEN
            /\ chunk.buf_len \in 0 .. BLOCK_LEN
            /\ chunk.blocks \in 0 .. CHUNK_LEN \div BLOCK_LEN - 1
<1> DEFINE b == WholeBlocks(K)
           k == K - 2 * b
           half == CHUNK_LEN \div BLOCK_LEN
           chunk == ChunkState(c, b, k, kwd, flags)
<1>1. K \in Nat /\ K <= CHUNK_LEN
  BY SizesAre
<1>2. b \in Nat /\ k \in 0 .. 2 /\ (K # 0 => k \in 1 .. 2) /\ (K = 0 => b = 0)
  BY <1>1, WholeBlocksIs
<1>3. half \in Nat /\ CHUNK_LEN = 2 * half /\ CHUNK_LEN >= 2 /\ BLOCK_LEN = 2
  BY SizesAre
<1>4. chunk.counter = c /\ chunk.buf_len = k /\ chunk.blocks = b
  <2> HIDE DEF b, k
  <2> QED BY StateFields
<1>5. b <= half - 1
  <2> HIDE DEF half, b
  <2>1. CASE K = 0
    BY <1>2, <1>3, <2>1
  <2>2. CASE K # 0
    BY <1>1, <1>2, <1>3, <2>2
  <2> QED BY <2>1, <2>2
<1>6. c <= MaxLen \div CHUNK_LEN /\ MaxLen \div CHUNK_LEN \in Nat
  <2> DEFINE v == MaxLen \div CHUNK_LEN
             f == MaxLen % CHUNK_LEN
  <2>1. v \in Nat /\ f \in 0 .. CHUNK_LEN - 1 /\ MaxLen = f + CHUNK_LEN * v
    <3>1. MaxLen \in Nat /\ CHUNK_LEN \in Nat \ {0}
      BY SizesAre
    <3> HIDE DEF v, f
    <3> QED BY <3>1, Division DEF v, f
  <2> HIDE DEF v, f
  <2> DEFINE z == v + 1
  <2>2. z \in Nat /\ CHUNK_LEN * z = CHUNK_LEN * v + CHUNK_LEN
    BY <2>1, ChunksAdd
  <2>3. CHUNK_LEN * c < CHUNK_LEN * z
    <3>1. CHUNK_LEN \in Nat /\ MaxLen \in Nat /\ CHUNK_LEN * v \in Nat /\ CHUNK_LEN * c \in Nat
      BY <2>1, ChunksAdd, SizesAre
    <3> DEFINE cv == CHUNK_LEN * v
               cc == CHUNK_LEN * c
               cz == CHUNK_LEN * z
    <3>2. /\ cv \in Nat /\ cc \in Nat /\ cc <= MaxLen /\ MaxLen = f + cv /\ cz = cv + CHUNK_LEN
          /\ f \in 0 .. CHUNK_LEN - 1
      BY <2>1, <2>2, <3>1
    <3> HIDE DEF cv, cc, cz
    <3>3. cc < cz
      BY <3>1, <3>2
    <3> QED BY <3>3 DEF cc, cz
  <2> HIDE DEF z
  <2>4. c < z
    BY <2>2, <2>3, ChunksOrder
  <2> QED BY <2>1, <2>4 DEF z, v
<1> HIDE DEF b, k, chunk, half
<1>7. /\ chunk.counter \in 0 .. MaxLen \div CHUNK_LEN /\ chunk.buf_len \in 0 .. BLOCK_LEN
      /\ chunk.blocks \in 0 .. half - 1
  BY <1>2, <1>3, <1>4, <1>5, <1>6
<1> QED BY <1>7 DEF chunk, b, k, half, ChunkAt

\* Theorem (Blake3TypeOK).  The counters of the hasher stay within their
\* fields and its stack within the array of MAX_DEPTH + 1 entries.
THEOREM HasherFits == Blake3Spec => []Blake3TypeOK
<1>1. HasherInv => Blake3TypeOK
  <2> SUFFICES ASSUME HasherInv PROVE Blake3TypeOK
    OBVIOUS
  <2> DEFINE kwd == RefKey(mode)
             flags == FlagsOf(mode)
             Room(chunk, s) ==
               /\ chunk.counter \in 0 .. MaxLen \div CHUNK_LEN
               /\ chunk.buf_len \in 0 .. BLOCK_LEN
               /\ chunk.blocks \in 0 .. CHUNK_LEN \div BLOCK_LEN - 1
               /\ \E n \in 0 .. MAX_DEPTH + 1 : Listed(s, n)
  <2>1. /\ cpu \in Cpus /\ mode \in Modes /\ absorbed \in 0 .. MaxLen
        /\ StateAt(hasher, absorbed, kwd, flags) /\ absorbed \in Nat /\ absorbed <= MaxLen
    BY SizesAre DEF HasherInv
  <2>2. hasher.chunk.flags \subseteq Flags
    <3>1. mode[1] = "hash" \/ mode[1] = "keyed" \/ mode[1] = "derive"
      BY <2>1, LengthsAssumption
    <3>2. flags \subseteq Flags
      BY <3>1 DEF FlagsOf, Flags
    <3>3. hasher.chunk.flags = flags
      <4> HIDE DEF kwd, flags
      <4> QED BY <2>1, StateFieldsAt
    <3> QED BY <3>2, <3>3
  <2> HIDE DEF kwd, flags, Room
  <2>3. ASSUME NEW chunk, NEW s, hasher = HasherAt(kwd, chunk, s), Room(chunk, s)
        PROVE  Blake3TypeOK
    <3>1. hasher.chunk = chunk /\ hasher.cv_stack = s
      BY <2>3, HasherFields
    <3>2. PICK n \in 0 .. MAX_DEPTH + 1 : Listed(s, n)
      BY <2>3 DEF Room
    <3>3. Len(s) = n
      BY <3>2, ListedIs
    <3>4. /\ chunk.counter \in 0 .. MaxLen \div CHUNK_LEN /\ chunk.buf_len \in 0 .. BLOCK_LEN
          /\ chunk.blocks \in 0 .. CHUNK_LEN \div BLOCK_LEN - 1
      BY <2>3 DEF Room
    <3>5. Len(hasher.cv_stack) \in 0 .. MAX_DEPTH + 1
      BY <3>1, <3>2, <3>3
    <3> QED BY <2>1, <2>2, <3>1, <3>4, <3>5 DEF Blake3TypeOK
  <2>4. CHUNK_LEN \in Nat /\ 0 \in 0 .. CHUNK_LEN /\ CHUNK_LEN * 0 = 0 /\ MaxLen \in Nat
        /\ MAX_DEPTH \in Nat
    BY SizesAre
  <2>5. CASE absorbed = 0 /\ hasher = HasherAt(kwd, ChunkAt(0, 0, kwd, flags), << >>)
    <3>1. Listed(<< >>, 0) /\ 0 \in 0 .. MAX_DEPTH + 1
      BY <2>4, ListedEmpty
    <3>2. CHUNK_LEN * 0 <= MaxLen /\ 0 \in Nat
      BY <2>4
    <3>3. Room(ChunkAt(0, 0, kwd, flags), << >>)
      BY <2>4, <3>1, <3>2, ChunkFits DEF Room
    <3> QED BY <2>3, <2>5, <3>3
  <2>6. ASSUME NEW c \in Nat, NEW K \in 1 .. CHUNK_LEN, absorbed = CHUNK_LEN * c + K,
               hasher = HasherAt(kwd, ChunkAt(c, K, kwd, flags), Trees(c, 0, kwd, flags))
        PROVE  Blake3TypeOK
    <3> DEFINE cc == CHUNK_LEN * c
    <3>1. cc \in Nat /\ absorbed = cc + K
      BY <2>6, ChunksAdd
    <3> HIDE DEF cc
    <3>2. cc < MaxLen /\ cc <= MaxLen /\ K \in 0 .. CHUNK_LEN
      BY <2>1, <2>4, <3>1
    <3>3. Listed(Trees(c, 0, kwd, flags), Ones[c]) /\ Ones[c] \in 0 .. MAX_DEPTH
      BY <3>2, StackFits DEF cc
    <3>4. Ones[c] \in 0 .. MAX_DEPTH + 1
      BY <2>4, <3>3
    <3>5. Room(ChunkAt(c, K, kwd, flags), Trees(c, 0, kwd, flags))
      BY <3>2, <3>3, <3>4, ChunkFits DEF Room, cc
    <3> QED BY <2>3, <2>6, <3>5
  <2>7. ASSUME NEW c \in Nat \ {0}, NEW s, absorbed = CHUNK_LEN * c, Paired(s, c, kwd, flags),
               hasher = HasherAt(kwd, ChunkAt(c, 0, kwd, flags), s)
        PROVE  Blake3TypeOK
    <3>1. CHUNK_LEN * c <= MaxLen /\ c \in Nat
      BY <2>1, <2>7
    <3>2. \E n \in 0 .. MAX_DEPTH + 1 : Listed(s, n)
      BY <2>7, <3>1, StackFits
    <3>3. Room(ChunkAt(c, 0, kwd, flags), s)
      BY <2>4, <3>1, <3>2, ChunkFits DEF Room
    <3> QED BY <2>3, <2>7, <3>3
  <2> QED BY <2>1, <2>5, <2>6, <2>7 DEF StateAt
<1> QED BY <1>1, HasherDetermined, PTL

\* Theorem (WideFits).  A complete subtree comes back as at least two and at
\* most as many chaining values as the processor hashes at once: the arrays
\* on the call stack have room for them.
THEOREM ArraysSuffice == Blake3Spec => []WideFits
<1>1. HasherInv => WideFits
  <2> SUFFICES ASSUME HasherInv, NEW k \in 1 .. MAX_DEPTH, absorbed = CHUNK_LEN * Power[k]
               PROVE  Len(compress_subtree_wide(Piece(0, absorbed), hasher.key, 0,
                                                hasher.chunk.flags))
                        \in 2 .. Max({2, simd_degree(cpu)})
    BY DEF WideFits
  <2> DEFINE kwd == hasher.key
             flags == hasher.chunk.flags
             n == CHUNK_LEN * Power[k]
             out == compress_subtree_wide(Piece(0, n), kwd, 0, flags)
  <2>1. cpu \in Cpus /\ n <= MaxLen /\ k \in Nat /\ k >= 1
    BY SizesAre DEF HasherInv
  <2>2. PICK K \in 0 .. k : /\ k >= 1 => K >= 1
                            /\ K <= 1 \/ Power[K] <= simd_degree(cpu)
                            /\ compress_subtree_wide(Piece(CHUNK_LEN * 0, CHUNK_LEN * Power[k]),
                                                     kwd, 0, flags) =
                                 Layer(k - K, 0, Power[K], kwd, flags)
    <3> HIDE DEF kwd, flags
    <3>1. 0 \in Nat
      OBVIOUS
    <3> QED BY <2>1, <3>1, WideIs
  <2>3. CHUNK_LEN * 0 = 0
    BY SizesAre
  <2> DEFINE d == simd_degree(cpu)
             p == Power[K]
             j == k - K
  <2>4. K \in Nat /\ K >= 1 /\ j \in Nat
    BY <2>1, <2>2
  <2>5. p \in Nat /\ p >= 2 /\ (K = 1 => p = 2)
    <3>1. 0 + 1 = 1 /\ Power[0] = 1 /\ Power[0 + 1] = 2 * Power[0]
      BY PowerUnfolds
    <3>2. Power[1] = 2
      BY <3>1
    <3>3. Power[1] <= Power[K]
      BY <2>4, PowerOrder
    <3> QED BY <2>4, <3>2, <3>3, PowerUnfolds
  <2>6. d \in Nat
    BY <2>1, DegreeIs
  <2>7. out = Layer(j, 0, p, kwd, flags)
    BY <2>2, <2>3
  <2> HIDE DEF kwd, flags, out, p, j, d
  <2>8. Len(out) = p
    <3>1. Listed(Layer(j, 0, p, kwd, flags), p)
      BY <2>4, <2>5, LayerIs
    <3> QED BY <2>7, <3>1, ListedIs
  <2>9. Max({2, d}) = IF 2 <= d THEN d ELSE 2
    <3>1. {2, d} \in SUBSET Int /\ 2 \in {2, d} /\ d \in {2, d}
      BY <2>6
    <3>2. CASE 2 <= d
      <4>1. \A Y \in {2, d} : Y <= d
        BY <2>6, <3>2
      <4> QED BY <3>1, <3>2, <4>1, MaxIs
    <3>3. CASE ~ (2 <= d)
      <4>1. \A Y \in {2, d} : Y <= 2
        BY <2>6, <3>3
      <4> QED BY <3>1, <3>3, <4>1, MaxIs
    <3> QED BY <3>2, <3>3
  <2>10. p \in 2 .. Max({2, d})
    <3>1. K <= 1 \/ p <= d
      BY <2>2 DEF p, d
    <3> QED BY <2>4, <2>5, <2>6, <2>9, <3>1
  <2> QED BY <2>8, <2>10 DEF out, kwd, flags, d
<1> QED BY <1>1, HasherDetermined, PTL
=============================================================================
