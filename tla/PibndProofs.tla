---------------------------- MODULE PibndProofs ----------------------------
(***************************************************************************)
(* The first verdict of the amortised proof of bounded norm, for every     *)
(* ring, every shape of the matrices and whatever the shared arrays held   *)
(* before: A(Y + SC) - TC is AY exactly if the challenge cancels T - AS,   *)
(* by exchanging the sum over the columns with the sum over the relations. *)
(***************************************************************************)
EXTENDS Pibnd, RingTheorems

LEMMA Sizes ==
  /\ V \in Nat /\ TAU \in Nat
  /\ ColIx = 0 .. V - 1 /\ RelIx = 0 .. TAU - 1
BY PibndAssumption DEF ColIx, RelIx

LEMMA Regroups ==
  ASSUME NEW x \in R, NEW y \in R, NEW z \in R
  PROVE  /\ Times(x, Times(y, z)) = Times(Times(x, y), z)
         /\ Times(x, Plus(y, z)) = Plus(Times(x, y), Times(x, z))
BY RingLaws

LEMMA SumTyped ==
  ASSUME NEW n \in Nat, NEW x \in [0 .. n - 1 -> R]
  PROVE  Sum(x, n) \in R
<1>1. n \in 0 .. n
  OBVIOUS
<1> QED BY <1>1, SumEquations

\* (a + b) - c = a exactly if c - b = 0.
LEMMA DifferenceIs ==
  ASSUME NEW a \in R, NEW b \in R, NEW c \in R
  PROVE  Minus(Plus(a, b), c) = a <=> Minus(c, b) = Zero
<1>1. Plus(a, b) \in R /\ Plus(a, b) = Plus(b, a) /\ Plus(a, c) = Plus(c, a)
  BY RingClosed, RingLaws
<1>2. Minus(Plus(a, b), c) = a <=> Plus(a, b) = Plus(c, a)
  BY <1>1, RingLaws
<1>3. Plus(a, b) = Plus(c, a) <=> b = c
  <2>1. Minus(Plus(b, a), a) = b /\ Minus(Plus(c, a), a) = c
    BY MinusPlus
  <2> QED BY <1>1, <2>1
<1>4. Minus(c, b) = Zero <=> c = Plus(b, Zero)
  BY RingClosed, RingLaws
<1>5. Plus(b, Zero) = b
  BY RingLaws
<1> QED BY <1>2, <1>3, <1>4, <1>5

-----------------------------------------------------------------------------
(***************************************************************************)
(* One entry of the equation the verifier recomputes: a is a row of A, y   *)
(* and c columns of Y and C, w the witnesses, b the targets of that row.   *)
(***************************************************************************)
Mask(w, c) == [k \in ColIx |-> Sum([n \in RelIx |-> Times(w[n, k], c[n])], TAU)]
Row(a, w) == [n \in RelIx |-> Sum([k \in ColIx |-> Times(a[k], w[n, k])], V)]

LEMMA MaskTyped ==
  ASSUME NEW w \in [RelIx \X ColIx -> R], NEW c \in [RelIx -> R]
  PROVE  Mask(w, c) \in [ColIx -> R]
<1> SUFFICES ASSUME NEW k \in ColIx
             PROVE  Sum([n \in RelIx |-> Times(w[n, k], c[n])], TAU) \in R
  BY DEF Mask
<1> DEFINE x == [n \in RelIx |-> Times(w[n, k], c[n])]
<1>1. x \in [0 .. TAU - 1 -> R]
  <2> SUFFICES ASSUME NEW n \in RelIx PROVE Times(w[n, k], c[n]) \in R
    BY Sizes
  <2>1. w[n, k] \in R /\ c[n] \in R
    OBVIOUS
  <2> QED BY <2>1, RingClosed
<1> HIDE DEF x
<1>2. Sum(x, TAU) \in R
  BY <1>1, Sizes, SumTyped
<1> QED BY <1>2 DEF x

LEMMA RowTyped ==
  ASSUME NEW w \in [RelIx \X ColIx -> R], NEW a \in [ColIx -> R]
  PROVE  Row(a, w) \in [RelIx -> R]
<1> SUFFICES ASSUME NEW n \in RelIx
             PROVE  Sum([k \in ColIx |-> Times(a[k], w[n, k])], V) \in R
  BY DEF Row
<1> DEFINE x == [k \in ColIx |-> Times(a[k], w[n, k])]
<1>1. x \in [0 .. V - 1 -> R]
  <2> SUFFICES ASSUME NEW k \in ColIx PROVE Times(a[k], w[n, k]) \in R
    BY Sizes
  <2>1. w[n, k] \in R /\ a[k] \in R
    OBVIOUS
  <2> QED BY <2>1, RingClosed
<1> HIDE DEF x
<1>2. Sum(x, V) \in R
  BY <1>1, Sizes, SumTyped
<1> QED BY <1>2 DEF x

\* A applied to S C is A S applied to C.
LEMMA Associates ==
  ASSUME NEW w \in [RelIx \X ColIx -> R], NEW c \in [RelIx -> R], NEW a \in [ColIx -> R]
  PROVE  Sum([k \in ColIx |-> Times(a[k], Mask(w, c)[k])], V)
           = Sum([n \in RelIx |-> Times(Row(a, w)[n], c[n])], TAU)
<1> DEFINE M == [x \in ColIx \X RelIx |-> Times(a[x[1]], Times(w[x[2], x[1]], c[x[2]]))]
           left == [k \in ColIx |-> Times(a[k], Mask(w, c)[k])]
           right == [n \in RelIx |-> Times(Row(a, w)[n], c[n])]
           rows == [k \in ColIx |-> Sum([n \in RelIx |-> M[k, n]], TAU)]
           cols == [n \in RelIx |-> Sum([k \in ColIx |-> M[k, n]], V)]
<1>1. ASSUME NEW k \in ColIx, NEW n \in RelIx
      PROVE  /\ w[n, k] \in R /\ c[n] \in R /\ a[k] \in R
             /\ M[k, n] = Times(a[k], Times(w[n, k], c[n])) /\ M[k, n] \in R
             /\ M[k, n] = Times(c[n], Times(a[k], w[n, k]))
  <2>1. <<k, n>> \in ColIx \X RelIx /\ <<n, k>> \in RelIx \X ColIx
    OBVIOUS
  <2>2. w[n, k] \in R /\ c[n] \in R /\ a[k] \in R
    BY <2>1
  <2>3. M[k, n] = Times(a[k], Times(w[n, k], c[n]))
    BY <2>1
  <2>4. Times(w[n, k], c[n]) \in R /\ Times(a[k], w[n, k]) \in R
    BY <2>2, RingClosed
  <2>5. Times(a[k], Times(w[n, k], c[n])) \in R
    BY <2>2, <2>4, RingClosed
  <2>6. Times(a[k], Times(w[n, k], c[n])) = Times(Times(a[k], w[n, k]), c[n])
    BY <2>2, Regroups
  <2>7. Times(Times(a[k], w[n, k]), c[n]) = Times(c[n], Times(a[k], w[n, k]))
    BY <2>2, <2>4, RingLaws
  <2> HIDE DEF M
  <2> QED BY <2>2, <2>3, <2>5, <2>6, <2>7
<1>2. M \in [(0 .. V - 1) \X (0 .. TAU - 1) -> R]
  <2> SUFFICES ASSUME NEW x \in ColIx \X RelIx
               PROVE  Times(a[x[1]], Times(w[x[2], x[1]], c[x[2]])) \in R
    BY Sizes
  <2>1. x[1] \in ColIx /\ x[2] \in RelIx
    OBVIOUS
  <2>2. w[x[2], x[1]] \in R /\ c[x[2]] \in R /\ a[x[1]] \in R
    BY <2>1, <1>1
  <2>3. Times(w[x[2], x[1]], c[x[2]]) \in R
    BY <2>2, RingClosed
  <2> QED BY <2>2, <2>3, RingClosed
<1> HIDE DEF M
<1>3. Sum(rows, V) = Sum(cols, TAU)
  <2>1. Sum([k \in 0 .. V - 1 |-> Sum([n \in 0 .. TAU - 1 |-> M[k, n]], TAU)], V)
          = Sum([n \in 0 .. TAU - 1 |-> Sum([k \in 0 .. V - 1 |-> M[k, n]], V)], TAU)
    BY <1>2, Sizes, SumsExchange, Zenon
  <2> QED BY <2>1 DEF ColIx, RelIx
<1>4. left = rows
  <2> SUFFICES ASSUME NEW k \in ColIx
               PROVE  Times(a[k], Mask(w, c)[k]) = Sum([n \in RelIx |-> M[k, n]], TAU)
    OBVIOUS
  <2> DEFINE x == [n \in RelIx |-> Times(w[n, k], c[n])]
             z == [n \in RelIx |-> M[k, n]]
  <2>1. x \in [0 .. TAU - 1 -> R]
    <3> SUFFICES ASSUME NEW n \in RelIx PROVE Times(w[n, k], c[n]) \in R
      BY Sizes
    <3> QED BY <1>1, RingClosed
  <2>2. z \in [0 .. TAU - 1 -> R]
    BY <1>1, Sizes
  <2>3. \A n \in 0 .. TAU - 1 : z[n] = Times(a[k], x[n])
    BY <1>1, Sizes
  <2>4. Mask(w, c)[k] = Sum(x, TAU)
    BY DEF Mask
  <2> HIDE DEF x, z
  <2>5. a[k] \in R
    OBVIOUS
  <2>6. Sum(z, TAU) = Times(a[k], Sum(x, TAU))
    BY <2>1, <2>2, <2>3, <2>5, Sizes, SumTimes
  <2> QED BY <2>4, <2>6 DEF z
<1>5. right = cols
  <2> SUFFICES ASSUME NEW n \in RelIx
               PROVE  Times(Row(a, w)[n], c[n]) = Sum([k \in ColIx |-> M[k, n]], V)
    OBVIOUS
  <2> DEFINE x == [k \in ColIx |-> Times(a[k], w[n, k])]
             z == [k \in ColIx |-> M[k, n]]
  <2>1. x \in [0 .. V - 1 -> R]
    <3> SUFFICES ASSUME NEW k \in ColIx PROVE Times(a[k], w[n, k]) \in R
      BY Sizes
    <3> QED BY <1>1, RingClosed
  <2>2. z \in [0 .. V - 1 -> R]
    BY <1>1, Sizes
  <2>3. \A k \in 0 .. V - 1 : z[k] = Times(c[n], x[k])
    BY <1>1, Sizes
  <2>4. Row(a, w)[n] = Sum(x, V)
    BY DEF Row
  <2> HIDE DEF x, z
  <2>5. c[n] \in R /\ Sum(x, V) \in R
    BY <2>1, Sizes, SumTyped
  <2>6. Sum(z, V) = Times(c[n], Sum(x, V))
    BY <2>1, <2>2, <2>3, <2>5, Sizes, SumTimes
  <2> QED BY <2>4, <2>5, <2>6, RingLaws, ZenonT(30) DEF z
<1> HIDE DEF left, right, rows, cols
<1> QED BY <1>3, <1>4, <1>5 DEF left, right

\* One entry of W: what the verifier recomputes is what the prover hashed exactly
\* if the errors of the targets b cancel under c.
LEMMA EntryAgrees ==
  ASSUME NEW w \in [RelIx \X ColIx -> R], NEW c \in [RelIx -> R], NEW a \in [ColIx -> R],
         NEW y \in [ColIx -> R], NEW b \in [RelIx -> R]
  PROVE  Minus(Sum([k \in ColIx |-> Times(a[k], Plus(y[k], Mask(w, c)[k]))], V),
               Sum([n \in RelIx |-> Times(b[n], c[n])], TAU))
             = Sum([k \in ColIx |-> Times(a[k], y[k])], V)
           <=> Sum([n \in RelIx |-> Times(Minus(b[n], Row(a, w)[n]), c[n])], TAU) = Zero
<1> DEFINE m == Mask(w, c)
           r == Row(a, w)
           whole == [k \in ColIx |-> Times(a[k], Plus(y[k], m[k]))]
           ay == [k \in ColIx |-> Times(a[k], y[k])]
           am == [k \in ColIx |-> Times(a[k], m[k])]
           bc == [n \in RelIx |-> Times(b[n], c[n])]
           rc == [n \in RelIx |-> Times(r[n], c[n])]
           err == [n \in RelIx |-> Times(Minus(b[n], r[n]), c[n])]
<1>1. m \in [ColIx -> R] /\ r \in [RelIx -> R]
  BY MaskTyped, RowTyped
<1>2. Sum(am, V) = Sum(rc, TAU)
  BY Associates
<1> HIDE DEF m, r
<1>3. /\ whole \in [0 .. V - 1 -> R] /\ ay \in [0 .. V - 1 -> R] /\ am \in [0 .. V - 1 -> R]
      /\ \A k \in 0 .. V - 1 : whole[k] = Plus(ay[k], am[k])
  <2>1. ASSUME NEW k \in ColIx
        PROVE  /\ Times(a[k], y[k]) \in R /\ Times(a[k], m[k]) \in R
               /\ Times(a[k], Plus(y[k], m[k])) = Plus(Times(a[k], y[k]), Times(a[k], m[k]))
               /\ Times(a[k], Plus(y[k], m[k])) \in R
    <3>1. a[k] \in R /\ y[k] \in R /\ m[k] \in R
      BY <1>1
    <3>2. Plus(y[k], m[k]) \in R
      BY <3>1, RingClosed
    <3>3. Times(a[k], Plus(y[k], m[k])) = Plus(Times(a[k], y[k]), Times(a[k], m[k]))
      BY <3>1, Regroups
    <3> QED BY <3>1, <3>2, <3>3, RingClosed, Zenon
  <2> QED BY <2>1, Sizes
<1>4. /\ bc \in [0 .. TAU - 1 -> R] /\ rc \in [0 .. TAU - 1 -> R] /\ err \in [0 .. TAU - 1 -> R]
      /\ \A n \in 0 .. TAU - 1 : err[n] = Minus(bc[n], rc[n])
  <2>1. ASSUME NEW n \in RelIx
        PROVE  /\ Times(b[n], c[n]) \in R /\ Times(r[n], c[n]) \in R
               /\ Times(Minus(b[n], r[n]), c[n]) = Minus(Times(b[n], c[n]), Times(r[n], c[n]))
               /\ Times(Minus(b[n], r[n]), c[n]) \in R
    <3>1. b[n] \in R /\ r[n] \in R /\ c[n] \in R
      BY <1>1
    <3>2. Minus(b[n], r[n]) \in R
      BY <3>1, RingClosed
    <3>3. Times(Minus(b[n], r[n]), c[n]) = Minus(Times(b[n], c[n]), Times(r[n], c[n]))
      BY <3>1, TimesRight, Zenon
    <3> QED BY <3>1, <3>2, <3>3, RingClosed, Zenon
  <2> QED BY <2>1, Sizes
<1> HIDE DEF whole, ay, am, bc, rc, err
<1>5. Sum(whole, V) = Plus(Sum(ay, V), Sum(am, V))
  BY <1>3, Sizes, SumPlus
<1>6. Sum(err, TAU) = Minus(Sum(bc, TAU), Sum(rc, TAU))
  BY <1>4, Sizes, SumMinus
<1>7. Sum(ay, V) \in R /\ Sum(am, V) \in R
  BY <1>3, Sizes, SumTyped
<1>8. Sum(bc, TAU) \in R
  BY <1>4, Sizes, SumTyped
<1>9. Minus(Plus(Sum(ay, V), Sum(am, V)), Sum(bc, TAU)) = Sum(ay, V)
        <=> Minus(Sum(bc, TAU), Sum(am, V)) = Zero
  BY <1>7, <1>8, DifferenceIs
<1>10. Minus(Sum(whole, V), Sum(bc, TAU)) = Sum(ay, V) <=> Sum(err, TAU) = Zero
  BY <1>2, <1>5, <1>6, <1>9
<1> QED BY <1>10 DEF whole, ay, bc, err, m, r
-----------------------------------------------------------------------------
Entries == RowIx \X RepIx
Responses == [ColIx \X RepIx -> R]

LEMMA StatementTyped ==
  ASSUME TypeOK
  PROVE  A \in [RowIx \X ColIx -> R] /\ s \in [RelIx \X ColIx -> R] /\ t \in [RelIx \X RowIx -> R]
BY PibndAssumption DEF TypeOK

\* One entry of each matrix, with the row and the columns it is made of.
LEMMA EntryOfApply ==
  ASSUME NEW X \in Responses, NEW i \in RowIx, NEW j \in RepIx
  PROVE  Apply(A, X)[<<i, j>>] = Sum([k \in ColIx |-> Times(A[i, k], X[k, j])], V)
BY DEF Apply

LEMMA EntryOfRecompute ==
  ASSUME NEW X \in Responses, NEW i \in RowIx, NEW j \in RepIx
  PROVE  Recompute(X)[<<i, j>>]
           = Minus(Apply(A, X)[<<i, j>>], Sum([k \in RelIx |-> Times(t[k, i], C[k, j])], TAU))
BY DEF Recompute

LEMMA EntryOfMasking ==
  ASSUME NEW X, NEW k \in ColIx, NEW j \in RepIx
  PROVE  Masking(s, X)[<<k, j>>] = Sum([n \in RelIx |-> Times(s[n, k], X[n, j])], TAU)
BY DEF Masking

LEMMA EntryOfImage ==
  ASSUME NEW n \in RelIx, NEW i \in RowIx
  PROVE  Image(A, s)[<<n, i>>] = Sum([k \in ColIx |-> Times(A[i, k], s[n, k])], V)
BY DEF Image

LEMMA MatricesTyped ==
  ASSUME TypeOK
  PROVE  /\ \A X \in Responses : Apply(A, X) \in [Entries -> R]
         /\ \A X \in [RelIx \X RepIx -> R] : Masking(s, X) \in Responses
         /\ C \in [RelIx \X RepIx -> R] =>
              \A X \in Responses : Recompute(X) \in [Entries -> R]
         /\ Image(A, s) \in [RelIx \X RowIx -> R]
<1>1. A \in [RowIx \X ColIx -> R] /\ s \in [RelIx \X ColIx -> R] /\ t \in [RelIx \X RowIx -> R]
  BY StatementTyped
<1>2. ASSUME NEW X \in Responses, NEW x \in Entries
      PROVE  Sum([k \in ColIx |-> Times(A[x[1], k], X[k, x[2]])], V) \in R
  <2> DEFINE g == [k \in ColIx |-> Times(A[x[1], k], X[k, x[2]])]
  <2>1. g \in [0 .. V - 1 -> R]
    <3> SUFFICES ASSUME NEW k \in ColIx PROVE Times(A[x[1], k], X[k, x[2]]) \in R
      BY Sizes
    <3>1. A[x[1], k] \in R /\ X[k, x[2]] \in R
      BY <1>1 DEF Entries, Responses
    <3> QED BY <3>1, RingClosed
  <2> HIDE DEF g
  <2>2. Sum(g, V) \in R
    BY <2>1, Sizes, SumTyped
  <2> QED BY <2>2 DEF g
<1>3. ASSUME NEW X \in [RelIx \X RepIx -> R], NEW x \in ColIx \X RepIx
      PROVE  Sum([k \in RelIx |-> Times(s[k, x[1]], X[k, x[2]])], TAU) \in R
  <2> DEFINE g == [k \in RelIx |-> Times(s[k, x[1]], X[k, x[2]])]
  <2>1. g \in [0 .. TAU - 1 -> R]
    <3> SUFFICES ASSUME NEW k \in RelIx PROVE Times(s[k, x[1]], X[k, x[2]]) \in R
      BY Sizes
    <3>1. s[k, x[1]] \in R /\ X[k, x[2]] \in R
      BY <1>1
    <3> QED BY <3>1, RingClosed
  <2> HIDE DEF g
  <2>2. Sum(g, TAU) \in R
    BY <2>1, Sizes, SumTyped
  <2> QED BY <2>2 DEF g
<1>4. ASSUME C \in [RelIx \X RepIx -> R], NEW x \in Entries
      PROVE  Sum([k \in RelIx |-> Times(t[k, x[1]], C[k, x[2]])], TAU) \in R
  <2> DEFINE g == [k \in RelIx |-> Times(t[k, x[1]], C[k, x[2]])]
  <2>1. g \in [0 .. TAU - 1 -> R]
    <3> SUFFICES ASSUME NEW k \in RelIx PROVE Times(t[k, x[1]], C[k, x[2]]) \in R
      BY Sizes
    <3>1. t[k, x[1]] \in R /\ C[k, x[2]] \in R
      BY <1>1, <1>4 DEF Entries
    <3> QED BY <3>1, RingClosed
  <2> HIDE DEF g
  <2>2. Sum(g, TAU) \in R
    BY <2>1, Sizes, SumTyped
  <2> QED BY <2>2 DEF g
<1>5. \A X \in Responses : Apply(A, X) \in [Entries -> R]
  BY <1>2 DEF Apply, Entries
<1>6. \A X \in [RelIx \X RepIx -> R] : Masking(s, X) \in Responses
  BY <1>3 DEF Masking, Responses
<1>7. ASSUME C \in [RelIx \X RepIx -> R], NEW X \in Responses
      PROVE  Recompute(X) \in [Entries -> R]
  <2>1. \A x \in Entries : Apply(A, X)[x] \in R
    BY <1>5
  <2> QED BY <1>4, <1>7, <2>1, RingClosed DEF Recompute, Entries
<1>8. Image(A, s) \in [RelIx \X RowIx -> R]
  <2> SUFFICES ASSUME NEW x \in RelIx \X RowIx
               PROVE  Sum([k \in ColIx |-> Times(A[x[2], k], s[x[1], k])], V) \in R
    BY DEF Image
  <2> DEFINE g == [k \in ColIx |-> Times(A[x[2], k], s[x[1], k])]
  <2>1. g \in [0 .. V - 1 -> R]
    <3> SUFFICES ASSUME NEW k \in ColIx PROVE Times(A[x[2], k], s[x[1], k]) \in R
      BY Sizes
    <3>1. A[x[2], k] \in R /\ s[x[1], k] \in R
      BY <1>1
    <3> QED BY <3>1, RingClosed
  <2> HIDE DEF g
  <2>2. Sum(g, V) \in R
    BY <2>1, Sizes, SumTyped
  <2> QED BY <2>2 DEF g
<1> QED BY <1>5, <1>6, <1>7, <1>8

\* The verifier's W is what the prover hashed exactly if the errors cancel.
LEMMA Agreement ==
  ASSUME TypeOK, NEW Y \in Responses, C = drawn, drawn \in [RelIx \X RepIx -> R],
         Z = [x \in ColIx \X RepIx |-> Plus(Y[x], Masking(s, drawn)[x])], Z \in Responses
  PROVE  Recompute(Z) = Apply(A, Y) <=> ErrorsCancel
<1>1. A \in [RowIx \X ColIx -> R] /\ s \in [RelIx \X ColIx -> R] /\ t \in [RelIx \X RowIx -> R]
  BY StatementTyped
<1>2. ASSUME NEW i \in RowIx, NEW j \in RepIx
      PROVE  Recompute(Z)[<<i, j>>] = Apply(A, Y)[<<i, j>>]
               <=> Sum([k \in RelIx |-> Times(Minus(t[k, i], Image(A, s)[k, i]), drawn[k, j])], TAU) = Zero
  <2> DEFINE a == [k \in ColIx |-> A[i, k]]
             y == [k \in ColIx |-> Y[k, j]]
             b == [n \in RelIx |-> t[n, i]]
             c == [n \in RelIx |-> drawn[n, j]]
  <2>1. /\ a \in [ColIx -> R] /\ y \in [ColIx -> R] /\ b \in [RelIx -> R] /\ c \in [RelIx -> R]
        /\ \A k \in ColIx : a[k] = A[i, k] /\ y[k] = Y[k, j]
        /\ \A n \in RelIx : b[n] = t[n, i] /\ c[n] = drawn[n, j]
    BY <1>1 DEF Responses
  <2> HIDE DEF a, y, b, c
  <2>2. Mask(s, c) \in [ColIx -> R] /\ Row(a, s) \in [RelIx -> R]
    BY <1>1, <2>1, MaskTyped, RowTyped
  <2>3. ASSUME NEW k \in ColIx PROVE Masking(s, drawn)[<<k, j>>] = Mask(s, c)[k]
    <3>1. [n \in RelIx |-> Times(s[n, k], drawn[n, j])] = [n \in RelIx |-> Times(s[n, k], c[n])]
      BY <2>1
    <3>2. Mask(s, c)[k] = Sum([n \in RelIx |-> Times(s[n, k], c[n])], TAU)
      BY DEF Mask
    <3> QED BY <3>1, <3>2, EntryOfMasking, ZenonT(30)
  <2>4. ASSUME NEW n \in RelIx PROVE Image(A, s)[<<n, i>>] = Row(a, s)[n]
    <3>1. [k \in ColIx |-> Times(A[i, k], s[n, k])] = [k \in ColIx |-> Times(a[k], s[n, k])]
      BY <2>1
    <3>2. Row(a, s)[n] = Sum([k \in ColIx |-> Times(a[k], s[n, k])], V)
      BY DEF Row
    <3> QED BY <3>1, <3>2, EntryOfImage
  <2>5. Apply(A, Y)[<<i, j>>] = Sum([k \in ColIx |-> Times(a[k], y[k])], V)
    <3>1. [k \in ColIx |-> Times(A[i, k], Y[k, j])] = [k \in ColIx |-> Times(a[k], y[k])]
      BY <2>1
    <3> QED BY <3>1, EntryOfApply, ZenonT(30)
  <2>6. Apply(A, Z)[<<i, j>>] = Sum([k \in ColIx |-> Times(a[k], Plus(y[k], Mask(s, c)[k]))], V)
    <3>1. ASSUME NEW k \in ColIx PROVE Z[k, j] = Plus(y[k], Mask(s, c)[k])
      <4>1. Z[<<k, j>>] = Plus(Y[<<k, j>>], Masking(s, drawn)[<<k, j>>])
        OBVIOUS
      <4> QED BY <2>1, <2>3, <4>1
    <3>2. [k \in ColIx |-> Times(A[i, k], Z[k, j])]
            = [k \in ColIx |-> Times(a[k], Plus(y[k], Mask(s, c)[k]))]
      BY <2>1, <3>1
    <3> QED BY <3>2, EntryOfApply
  <2>7. [k \in RelIx |-> Times(t[k, i], C[k, j])] = [n \in RelIx |-> Times(b[n], c[n])]
    BY <2>1
  <2>8. [k \in RelIx |-> Times(Minus(t[k, i], Image(A, s)[k, i]), drawn[k, j])]
          = [n \in RelIx |-> Times(Minus(b[n], Row(a, s)[n]), c[n])]
    BY <2>1, <2>4
  <2>9. Minus(Sum([k \in ColIx |-> Times(a[k], Plus(y[k], Mask(s, c)[k]))], V),
              Sum([n \in RelIx |-> Times(b[n], c[n])], TAU))
            = Sum([k \in ColIx |-> Times(a[k], y[k])], V)
          <=> Sum([n \in RelIx |-> Times(Minus(b[n], Row(a, s)[n]), c[n])], TAU) = Zero
    BY <1>1, <2>1, EntryAgrees, ZenonT(30)
  <2>10. Recompute(Z)[<<i, j>>]
           = Minus(Apply(A, Z)[<<i, j>>], Sum([k \in RelIx |-> Times(t[k, i], C[k, j])], TAU))
    BY EntryOfRecompute
  <2>11. Recompute(Z)[<<i, j>>]
           = Minus(Sum([k \in ColIx |-> Times(a[k], Plus(y[k], Mask(s, c)[k]))], V),
                   Sum([n \in RelIx |-> Times(b[n], c[n])], TAU))
    BY <2>6, <2>7, <2>10, Zenon
  <2>12. QED
    BY <2>5, <2>8, <2>9, <2>11, Zenon
<1>3. Recompute(Z) \in [Entries -> R] /\ Apply(A, Y) \in [Entries -> R]
  BY MatricesTyped
<1>4. Recompute(Z) = Apply(A, Y)
        <=> \A i \in RowIx, j \in RepIx : Recompute(Z)[<<i, j>>] = Apply(A, Y)[<<i, j>>]
  <2> DEFINE f == Recompute(Z)
             g == Apply(A, Y)
  <2> HIDE DEF f, g
  <2>1. f \in [Entries -> R] /\ g \in [Entries -> R]
    BY <1>3 DEF f, g
  <2>2. ASSUME \A i \in RowIx, j \in RepIx : f[<<i, j>>] = g[<<i, j>>] PROVE f = g
    <3>1. \A x \in Entries : f[x] = g[x]
      BY <2>2 DEF Entries
    <3> QED BY <2>1, <3>1
  <2> QED BY <2>2 DEF f, g
<1> QED BY <1>2, <1>4 DEF ErrorsCancel

LEMMA InitIInv == Init => IInv
<1> SUFFICES ASSUME Init PROVE IInv
  OBVIOUS
<1>1. A \in Keys /\ s \in Witnesses
  BY DEF Init
<1>2. A \in [RowIx \X ColIx -> R] /\ s \in [RelIx \X ColIx -> R]
  BY <1>1, PibndAssumption
<1>3. Image(A, s) \in [RelIx \X RowIx -> R]
  <2> SUFFICES ASSUME NEW x \in RelIx \X RowIx
               PROVE  Sum([k \in ColIx |-> Times(A[x[2], k], s[x[1], k])], V) \in R
    BY DEF Image
  <2> DEFINE a == [k \in ColIx |-> A[x[2], k]]
  <2>1. a \in [ColIx -> R] /\ \A k \in ColIx : a[k] = A[x[2], k]
    BY <1>2
  <2> HIDE DEF a
  <2>2. Row(a, s)[x[1]] \in R
    <3>1. Row(a, s) \in [RelIx -> R] /\ x[1] \in RelIx
      BY <1>2, <2>1, RowTyped
    <3> QED BY <3>1
  <2>3. Row(a, s)[x[1]] = Sum([k \in ColIx |-> Times(a[k], s[x[1], k])], V)
    BY DEF Row
  <2>4. [k \in ColIx |-> Times(a[k], s[x[1], k])] = [k \in ColIx |-> Times(A[x[2], k], s[x[1], k])]
    BY <2>1
  <2> QED BY <2>2, <2>3, <2>4
<1>4. t \in [RelIx \X RowIx -> R]
  BY <1>3, PibndAssumption DEF Init
<1>5. TypeOK
  BY <1>1, <1>4 DEF Init, TypeOK
<1> QED BY <1>5 DEF Init, IInv, Answered, Handed, VerdictIsRelation

LEMMA SampleStep == ASSUME IInv, SampleY PROVE IInv'
<1>1. Z' \in [ColIx \X RepIx -> R]
  BY PibndAssumption DEF SampleY
<1>2. TypeOK'
  BY <1>1 DEF IInv, TypeOK, SampleY, statement
<1> QED BY <1>2 DEF IInv, Answered, Handed, VerdictIsRelation, SampleY

LEMMA ComputeStep == ASSUME IInv, ComputeW PROVE IInv'
<1>1. /\ TypeOK /\ pc = "commit" /\ pc' = "hash" /\ Z \in Responses
      /\ Z \in [ColIx \X RepIx -> Gauss]
      /\ UNCHANGED <<statement, Z, C, SC, h, drawn, inNtt, first, result>> /\ W' = Apply(A, Z)
  BY DEF IInv, TypeOK, Answered, ComputeW, Responses
<1>2. W' \in [Entries -> R] /\ W' = Apply(A, Z)'
  BY <1>1, MatricesTyped DEF statement
<1>3. TypeOK'
  BY <1>1, <1>2 DEF TypeOK, statement, Entries
<1>4. Answered'
  BY <1>1, <1>2 DEF Answered
<1> QED BY <1>1, <1>3, <1>4 DEF IInv, Handed, VerdictIsRelation

LEMMA ChallengeStep == ASSUME IInv, Challenge PROVE IInv'
<1>1. /\ TypeOK /\ pc = "hash" /\ pc' = "respond" /\ W = Apply(A, Z)
      /\ Z \in [ColIx \X RepIx -> Gauss]
      /\ UNCHANGED <<statement, Z, W, SC, inNtt, first, result>>
      /\ h' = <<A, t, W>> /\ C' \in [RelIx \X RepIx -> R] /\ drawn' = C'
  BY PibndAssumption DEF IInv, Answered, Challenge, Transcript
<1>2. h' = <<A', t', Apply(A, Z)'>>
  BY <1>1 DEF statement
<1>3. TypeOK'
  BY <1>1 DEF TypeOK, statement
<1>4. Answered'
  BY <1>1, <1>2 DEF Answered
<1> QED BY <1>1, <1>3, <1>4 DEF IInv, Handed, VerdictIsRelation

LEMMA RespondStep ==
  ASSUME IInv, NEW rej0 \in BOOLEAN, NEW rej1 \in BOOLEAN, Respond(rej0, rej1)
  PROVE  IInv'
<1>1. /\ TypeOK /\ pc = "respond" /\ pc' \in {"sample", "handover"}
      /\ h = <<A, t, Apply(A, Z)>> /\ C = drawn /\ C \in [RelIx \X RepIx -> R]
      /\ Z \in [ColIx \X RepIx -> Gauss] /\ Z \in Responses
      /\ UNCHANGED <<statement, W, C, h, drawn, inNtt, first, result>>
      /\ SC' = Masking(s, C) /\ Z' = [x \in ColIx \X RepIx |-> Plus(Z[x], SC'[x])]
  BY DEF IInv, TypeOK, Answered, Respond, Responses
<1>2. Masking(s, C) \in Responses
  BY <1>1, MatricesTyped
<1>3. SC' \in Responses /\ Z' \in Responses
  BY <1>1, <1>2, RingClosed DEF Responses
<1>4. TypeOK'
  BY <1>1, <1>3 DEF TypeOK, statement, Responses
<1>5. h' = <<A', t', Apply(A, Z)>> /\ A' = A /\ s' = s /\ t' = t /\ drawn' = drawn
  BY <1>1 DEF statement
<1>7. Handed'
  <2> DEFINE Y == Z
  <2>1. /\ Y \in [ColIx \X RepIx -> Gauss] /\ h' = <<A', t', Apply(A, Y)>>
        /\ Z' = [x \in ColIx \X RepIx |-> Plus(Y[x], Masking(s, drawn)[x])]
    BY <1>1, <1>5
  <2> HIDE DEF Y
  <2> QED BY <2>1, <1>5, <1>1 DEF Handed
<1>8. Answered'
  BY <1>1 DEF Answered
<1> QED BY <1>1, <1>4, <1>7, <1>8 DEF IInv, VerdictIsRelation

\* A step that changes neither the proof nor what it is about.
LEMMA HandedOn ==
  ASSUME Handed, pc \in {"handover", "seed", "recompute"} \/ pc' = pc,
         UNCHANGED <<statement, Z, h, drawn, first>>
  PROVE  Handed'
BY DEF Handed, statement

LEMMA HandoverStep == ASSUME IInv, Handover PROVE IInv'
<1>1. /\ TypeOK /\ pc = "handover" /\ pc' = "seed"
      /\ UNCHANGED <<statement, Z, SC, h, drawn, inNtt, first, result>>
      /\ W \in [Entries -> R] /\ C \in [RelIx \X RepIx -> R]
  BY DEF IInv, TypeOK, Handover, Entries
<1>2. W' \in [Entries -> R] /\ C' \in [RelIx \X RepIx -> R]
  <2>1. CASE UNCHANGED <<W, C>>
    BY <1>1, <2>1
  <2>2. CASE \E x \in Leftovers : /\ W' = [y \in RowIx \X RepIx |-> x]
                                  /\ C' = [y \in RelIx \X RepIx |-> x]
    BY <2>2, PibndAssumption DEF Entries
  <2> QED BY <2>1, <2>2 DEF Handover
<1>3. TypeOK'
  BY <1>1, <1>2 DEF TypeOK, statement, Entries
<1>4. Handed'
  BY <1>1, HandedOn DEF IInv
<1> QED BY <1>1, <1>3, <1>4 DEF IInv, Answered, VerdictIsRelation

LEMMA SeedStep == ASSUME IInv, SeedChallenge PROVE IInv'
<1>1. /\ TypeOK /\ pc = "seed" /\ pc' = "recompute" /\ C' = drawn /\ drawn' = drawn
      /\ UNCHANGED <<statement, Z, W, SC, h, drawn, inNtt, first, result>>
      /\ drawn \in [RelIx \X RepIx -> R]
  BY DEF IInv, TypeOK, SeedChallenge
<1>2. TypeOK'
  BY <1>1 DEF TypeOK, statement
<1>3. Handed'
  BY <1>1, HandedOn DEF IInv
<1> QED BY <1>1, <1>2, <1>3 DEF IInv, Answered, VerdictIsRelation

LEMMA RecomputeStep == ASSUME IInv, RecomputeW PROVE IInv'
<1>1. /\ TypeOK /\ pc = "recompute" /\ pc' = "compare" /\ C = drawn /\ W' = Recompute(Z)
      /\ UNCHANGED <<statement, Z, C, SC, h, drawn, inNtt, first, result>>
      /\ Z \in Responses /\ C \in [RelIx \X RepIx -> R]
  BY DEF IInv, TypeOK, Answered, RecomputeW, Responses
<1>2. W' \in [Entries -> R] /\ W' = Recompute(Z)'
  BY <1>1, MatricesTyped DEF Recompute, statement
<1>3. TypeOK'
  BY <1>1, <1>2 DEF TypeOK, statement, Entries
<1>4. Handed'
  BY <1>1, HandedOn DEF IInv
<1>5. Answered'
  BY <1>1, <1>2 DEF Answered
<1> QED BY <1>1, <1>3, <1>4, <1>5 DEF IInv, VerdictIsRelation

LEMMA CheckStep == ASSUME IInv, Check PROVE IInv'
<1>1. /\ TypeOK /\ pc = "compare" /\ pc' = "done" /\ C = drawn /\ W = Recompute(Z)
      /\ UNCHANGED <<statement, W, C, SC, h, drawn, first>> /\ inNtt' = FALSE
      /\ Z \in Responses /\ drawn \in [RelIx \X RepIx -> R]
      /\ Z' = [x \in DOMAIN Z |-> InvNtt(Z[x])]
      /\ result' = (<<A, t, W>> = h /\ \A x \in DOMAIN Z : Fits(x[1], Z'[x]))
  BY DEF IInv, TypeOK, Answered, Check, Responses, Transcript
<1>2. Z' \in Responses /\ DOMAIN Z' = DOMAIN Z /\ DOMAIN Z = ColIx \X RepIx
  BY <1>1, PibndAssumption DEF Responses
<1>3. result' \in BOOLEAN
  BY <1>1
<1>4. TypeOK'
  BY <1>1, <1>2, <1>3 DEF TypeOK, statement, Responses
<1>5. ASSUME first PROVE <<A, t, W>> = h <=> ErrorsCancel
  <2>1. PICK Y \in [ColIx \X RepIx -> Gauss] :
          /\ h = <<A, t, Apply(A, Y)>>
          /\ Z = [x \in ColIx \X RepIx |-> Plus(Y[x], Masking(s, drawn)[x])]
    BY <1>1, <1>5 DEF IInv, Handed
  <2>2. Y \in Responses
    BY PibndAssumption DEF Responses
  <2>3. Recompute(Z) = Apply(A, Y) <=> ErrorsCancel
    BY <1>1, <2>1, <2>2, Agreement
  <2> QED BY <1>1, <2>1, <2>3
<1>6. ErrorsCancel' <=> ErrorsCancel
  BY <1>1 DEF ErrorsCancel, statement
<1>7. VerdictIsRelation'
  BY <1>1, <1>2, <1>5, <1>6 DEF VerdictIsRelation
<1> QED BY <1>1, <1>4, <1>7 DEF IInv, Answered, Handed

LEMMA AgainStep == ASSUME IInv, VerifyAgain PROVE IInv'
<1>1. /\ TypeOK /\ pc = "done" /\ pc' = "seed" /\ first /\ first' = FALSE
      /\ UNCHANGED <<statement, Z, W, C, SC, h, drawn, inNtt, result>>
  BY DEF IInv, VerifyAgain
<1>2. TypeOK'
  BY <1>1 DEF TypeOK, statement
<1> QED BY <1>1, <1>2 DEF IInv, Answered, Handed, VerdictIsRelation

LEMMA NextIInv == IInv /\ [Next]_vars => IInv'
<1> SUFFICES ASSUME IInv, [Next]_vars PROVE IInv'
  OBVIOUS
<1>1. CASE Stopped \/ UNCHANGED vars
  <2>1. vars' = vars
    BY <1>1 DEF Stopped
  <2>2. TypeOK'
    BY <2>1 DEF vars, IInv, TypeOK
  <2>3. Handed'
    BY <2>1, HandedOn DEF vars, IInv, statement
  <2>4. Recompute(Z)' = Recompute(Z) /\ (ErrorsCancel' <=> ErrorsCancel)
    BY <2>1 DEF vars, Recompute, ErrorsCancel
  <2>5. Answered' /\ VerdictIsRelation'
    BY <2>1, <2>4 DEF vars, IInv, Answered, VerdictIsRelation
  <2> QED BY <2>2, <2>3, <2>5 DEF IInv
<1>2. CASE \E rej0, rej1 \in BOOLEAN : Respond(rej0, rej1)
  BY <1>2, RespondStep
<1> QED BY <1>1, <1>2, SampleStep, ComputeStep, ChallengeStep, HandoverStep, SeedStep,
           RecomputeStep, CheckStep, AgainStep DEF Next

\* What the shared matrices hold between the loops of prover and verifier.
THEOREM InvariantCorrect == Spec => []IInv
BY InitIInv, NextIInv, PTL DEF Spec

\* Every matrix that a step reads has been filled before, with ring elements.
THEOREM TypeCorrect == Spec => []TypeOK
<1>1. IInv => TypeOK
  BY DEF IInv
<1> QED BY <1>1, InvariantCorrect, PTL

\* The first verdict is that the errors of the relations cancel under the
\* challenge and that the responses are short, for every ring, every shape of the
\* matrices, any number of rejected attempts and whatever W and C held before.
THEOREM VerdictCorrect == Spec => []VerdictIsRelation
<1>1. IInv => VerdictIsRelation
  BY DEF IInv
<1> QED BY <1>1, InvariantCorrect, PTL
=============================================================================
