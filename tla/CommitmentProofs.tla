-------------------------- MODULE CommitmentProofs --------------------------
(***************************************************************************)
(* What the two commitments of the program open to, and what the exact     *)
(* amortised proof makes of an opening that was never set.                 *)
(*                                                                         *)
(* BDLOP, for every ring, every size of the key and every sequence of      *)
(* linear operations: the sums of BdlopKey are linear, and every operation *)
(* keeps the commitment that of its message under its key and randomness.  *)
(*                                                                         *)
(* The tree of pismall.cpp, for every power of two of columns: the levels  *)
(* do not overlap in the array, and from the root downwards the joined     *)
(* hashes agree exactly if both halves do.                                 *)
(***************************************************************************)
EXTENDS Bdlop, Pismall, RingTheorems, FiniteSetTheorems

LEMMA KeySizes ==
  /\ SIZE \in Nat \ {0} /\ WIDTH \in Nat /\ WIDTH - HEIGHT \in Nat \ {0} /\ HEIGHT = 1
  /\ Cols = 0 .. WIDTH - 1 /\ 0 \in Cols /\ 1 \in Cols
  /\ Rows = 0 .. SIZE - 1 /\ 0 \in Rows
  /\ \A j \in 0 .. WIDTH - HEIGHT - 1 : j + HEIGHT \in Cols
BY KeyShape DEF HEIGHT, Cols, Rows

StoredRow == [0 .. WIDTH - HEIGHT - 1 -> R]

LEMMA VecScaleTyped ==
  ASSUME NEW b \in R, NEW vec \in Vec
  PROVE  VecScale(b, vec) \in Vec /\ \A j \in Cols : VecScale(b, vec)[j] = Times(b, vec[j])
BY RingClosed DEF Vec, VecScale

LEMMA RowsTyped ==
  ASSUME NEW vec \in Vec
  PROVE  /\ \A row \in Vec : RowTwo(row, vec) \in R
         /\ \A A1 \in StoredRow : RowOne(A1, vec) \in R
<1>1. ASSUME NEW row \in Vec PROVE RowTwo(row, vec) \in R
  <2> DEFINE p == [j \in Cols |-> Times(row[j], vec[j])]
  <2>1. p \in [0 .. WIDTH - 1 -> R]
    BY KeySizes, RingClosed DEF Vec
  <2> HIDE DEF p
  <2>2. Sum(p, WIDTH) \in R
    BY <2>1, KeySizes, SumEquations
  <2> QED BY <2>2 DEF RowTwo, p
<1>2. ASSUME NEW A1 \in StoredRow PROVE RowOne(A1, vec) \in R
  <2> DEFINE n == WIDTH - HEIGHT
             p == [j \in 0 .. n - 1 |-> Times(A1[j], vec[j + HEIGHT])]
  <2>1. p \in [0 .. n - 1 -> R] /\ n \in Nat
    BY KeySizes, RingClosed DEF Vec, StoredRow
  <2> HIDE DEF p, n
  <2>2. Sum(p, n) \in R
    BY <2>1, SumEquations
  <2>3. vec[0] \in R
    BY KeySizes DEF Vec
  <2>4. RowOne(A1, vec) = Plus(vec[0], Sum(p, n))
    BY DEF RowOne, p, n
  <2> QED BY <2>2, <2>3, <2>4, RingClosed
<1> QED BY <1>1, <1>2

\* Rows of the key are linear in the randomness: scaling.
LEMMA RowTwoScale ==
  ASSUME NEW row \in Vec, NEW b \in R, NEW vec \in Vec
  PROVE  RowTwo(row, VecScale(b, vec)) = Times(b, RowTwo(row, vec))
<1> DEFINE w == VecScale(b, vec)
           p == [j \in Cols |-> Times(row[j], vec[j])]
           q == [j \in Cols |-> Times(row[j], w[j])]
<1>1. w \in Vec /\ \A j \in Cols : w[j] = Times(b, vec[j])
  BY VecScaleTyped
<1> HIDE DEF w
<1>2. p \in [0 .. WIDTH - 1 -> R] /\ q \in [0 .. WIDTH - 1 -> R]
  BY <1>1, KeySizes, RingClosed DEF Vec
<1>3. ASSUME NEW j \in 0 .. WIDTH - 1 PROVE q[j] = Times(b, p[j])
  <2>1. row[j] \in R /\ vec[j] \in R /\ j \in Cols
    BY KeySizes DEF Vec
  <2>2. Times(row[j], Times(b, vec[j])) = Times(Times(row[j], b), vec[j])
    BY <2>1, RingLaws
  <2>3. Times(row[j], b) = Times(b, row[j])
    BY <2>1, RingLaws
  <2>4. Times(Times(b, row[j]), vec[j]) = Times(b, Times(row[j], vec[j]))
    BY <2>1, RingLaws
  <2> QED BY <1>1, <2>1, <2>2, <2>3, <2>4
<1> HIDE DEF p, q
<1>4. Sum(q, WIDTH) = Times(b, Sum(p, WIDTH))
  BY <1>2, <1>3, KeySizes, SumTimes
<1> QED BY <1>4 DEF RowTwo, p, q, w

LEMMA RowOneScale ==
  ASSUME NEW A1 \in StoredRow, NEW b \in R, NEW vec \in Vec
  PROVE  RowOne(A1, VecScale(b, vec)) = Times(b, RowOne(A1, vec))
<1> DEFINE w == VecScale(b, vec)
           n == WIDTH - HEIGHT
           p == [j \in 0 .. n - 1 |-> Times(A1[j], vec[j + HEIGHT])]
           q == [j \in 0 .. n - 1 |-> Times(A1[j], w[j + HEIGHT])]
<1>1. w \in Vec /\ \A j \in Cols : w[j] = Times(b, vec[j])
  BY VecScaleTyped
<1> HIDE DEF w
<1>2. /\ p \in [0 .. n - 1 -> R] /\ q \in [0 .. n - 1 -> R] /\ n \in Nat
      /\ vec[0] \in R /\ w[0] = Times(b, vec[0])
  BY <1>1, KeySizes, RingClosed DEF Vec, StoredRow
<1>3. ASSUME NEW j \in 0 .. n - 1 PROVE q[j] = Times(b, p[j])
  <2> DEFINE k == j + HEIGHT
  <2>1. A1[j] \in R /\ vec[k] \in R /\ k \in Cols
    BY KeySizes DEF Vec, StoredRow
  <2> HIDE DEF k
  <2>2. Times(A1[j], Times(b, vec[k])) = Times(Times(A1[j], b), vec[k])
    BY <2>1, RingLaws
  <2>3. Times(A1[j], b) = Times(b, A1[j])
    BY <2>1, RingLaws
  <2>4. Times(Times(b, A1[j]), vec[k]) = Times(b, Times(A1[j], vec[k]))
    BY <2>1, RingLaws
  <2> QED BY <1>1, <2>1, <2>2, <2>3, <2>4 DEF k
<1> HIDE DEF p, q, n
<1>4. Sum(q, n) = Times(b, Sum(p, n)) /\ Sum(p, n) \in R
  <2>1. Sum(q, n) = Times(b, Sum(p, n))
    BY <1>2, <1>3, SumTimes
  <2>2. n \in 0 .. n
    BY <1>2
  <2>3. Sum(p, n) \in R
    BY <1>2, <2>2, SumEquations
  <2> QED BY <2>1, <2>3
<1>5. Times(b, Plus(vec[0], Sum(p, n))) = Plus(Times(b, vec[0]), Times(b, Sum(p, n)))
  BY <1>2, <1>4, RingLaws
<1>6. RowOne(A1, vec) = Plus(vec[0], Sum(p, n)) /\ RowOne(A1, w) = Plus(w[0], Sum(q, n))
  BY DEF RowOne, p, q, n
<1> QED BY <1>2, <1>4, <1>5, <1>6 DEF w

LEMMA VecAddTyped ==
  ASSUME NEW vec \in Vec, NEW w \in Vec
  PROVE  VecAdd(vec, w) \in Vec /\ \A j \in Cols : VecAdd(vec, w)[j] = Plus(vec[j], w[j])
BY RingClosed DEF Vec, VecAdd

\* Rows of the key are linear in the randomness: addition.
LEMMA RowTwoAdd ==
  ASSUME NEW row \in Vec, NEW vec \in Vec, NEW w \in Vec
  PROVE  RowTwo(row, VecAdd(vec, w)) = Plus(RowTwo(row, vec), RowTwo(row, w))
<1> DEFINE u == VecAdd(vec, w)
           p == [j \in Cols |-> Times(row[j], vec[j])]
           q == [j \in Cols |-> Times(row[j], w[j])]
           pq == [j \in Cols |-> Times(row[j], u[j])]
<1>1. u \in Vec /\ \A j \in Cols : u[j] = Plus(vec[j], w[j])
  BY VecAddTyped
<1> HIDE DEF u
<1>2. /\ p \in [0 .. WIDTH - 1 -> R] /\ q \in [0 .. WIDTH - 1 -> R]
      /\ pq \in [0 .. WIDTH - 1 -> R]
  BY <1>1, KeySizes, RingClosed DEF Vec
<1>3. ASSUME NEW j \in 0 .. WIDTH - 1 PROVE pq[j] = Plus(p[j], q[j])
  <2>1. row[j] \in R /\ vec[j] \in R /\ w[j] \in R /\ j \in Cols
    BY KeySizes DEF Vec
  <2>2. Times(row[j], Plus(vec[j], w[j])) = Plus(Times(row[j], vec[j]), Times(row[j], w[j]))
    BY <2>1, RingLaws
  <2> QED BY <1>1, <2>1, <2>2
<1> HIDE DEF p, q, pq
<1>4. Sum(pq, WIDTH) = Plus(Sum(p, WIDTH), Sum(q, WIDTH))
  BY <1>2, <1>3, KeySizes, SumPlus
<1> QED BY <1>4 DEF RowTwo, p, q, pq, u

LEMMA RowOneAdd ==
  ASSUME NEW A1 \in StoredRow, NEW vec \in Vec, NEW w \in Vec
  PROVE  RowOne(A1, VecAdd(vec, w)) = Plus(RowOne(A1, vec), RowOne(A1, w))
<1> DEFINE u == VecAdd(vec, w)
           n == WIDTH - HEIGHT
           p == [j \in 0 .. n - 1 |-> Times(A1[j], vec[j + HEIGHT])]
           q == [j \in 0 .. n - 1 |-> Times(A1[j], w[j + HEIGHT])]
           pq == [j \in 0 .. n - 1 |-> Times(A1[j], u[j + HEIGHT])]
<1>1. u \in Vec /\ \A j \in Cols : u[j] = Plus(vec[j], w[j])
  BY VecAddTyped
<1> HIDE DEF u
<1>2. /\ p \in [0 .. n - 1 -> R] /\ q \in [0 .. n - 1 -> R] /\ pq \in [0 .. n - 1 -> R]
      /\ n \in Nat /\ vec[0] \in R /\ w[0] \in R /\ u[0] = Plus(vec[0], w[0])
  BY <1>1, KeySizes, RingClosed DEF Vec, StoredRow
<1>3. ASSUME NEW j \in 0 .. n - 1 PROVE pq[j] = Plus(p[j], q[j])
  <2> DEFINE k == j + HEIGHT
  <2>1. A1[j] \in R /\ vec[k] \in R /\ w[k] \in R /\ k \in Cols
    BY KeySizes DEF Vec, StoredRow
  <2> HIDE DEF k
  <2>2. Times(A1[j], Plus(vec[k], w[k])) = Plus(Times(A1[j], vec[k]), Times(A1[j], w[k]))
    BY <2>1, RingLaws
  <2> QED BY <1>1, <2>1, <2>2 DEF k
<1> HIDE DEF p, q, pq, n
<1>4. Sum(pq, n) = Plus(Sum(p, n), Sum(q, n))
  BY <1>2, <1>3, SumPlus
<1>5. Sum(p, n) \in R /\ Sum(q, n) \in R
  <2>1. n \in 0 .. n
    BY <1>2
  <2>2. Sum(p, n) \in R
    BY <1>2, <2>1, SumEquations
  <2>3. Sum(q, n) \in R
    BY <1>2, <2>1, SumEquations
  <2> QED BY <2>2, <2>3
<1>6. Plus(Plus(vec[0], w[0]), Plus(Sum(p, n), Sum(q, n)))
        = Plus(Plus(vec[0], Sum(p, n)), Plus(w[0], Sum(q, n)))
  BY <1>2, <1>5, Interchange
<1>7. /\ RowOne(A1, vec) = Plus(vec[0], Sum(p, n)) /\ RowOne(A1, w) = Plus(w[0], Sum(q, n))
      /\ RowOne(A1, u) = Plus(u[0], Sum(pq, n))
  BY DEF RowOne, p, q, pq, n
<1> QED BY <1>2, <1>4, <1>6, <1>7 DEF u

\* What LinProof assumes of a key holds of those of bdlop.cpp: both rows take a
\* response y + b * r to the sum of their values at y and b times those at r.
THEOREM KeyRowsLinear ==
  ASSUME NEW A1 \in StoredRow, NEW row \in Vec, NEW vec \in Vec, NEW w \in Vec, NEW b \in R
  PROVE  /\ VecAdd(vec, w) \in Vec /\ VecScale(b, vec) \in Vec
         /\ RowOne(A1, vec) \in R
         /\ RowOne(A1, VecAdd(vec, VecScale(b, w))) = Plus(RowOne(A1, vec), Times(b, RowOne(A1, w)))
         /\ RowTwo(row, vec) \in R
         /\ RowTwo(row, VecAdd(vec, VecScale(b, w))) = Plus(RowTwo(row, vec), Times(b, RowTwo(row, w)))
<1>1. VecScale(b, w) \in Vec /\ VecScale(b, vec) \in Vec /\ VecAdd(vec, w) \in Vec
  BY VecScaleTyped, VecAddTyped
<1>2. RowOne(A1, VecAdd(vec, VecScale(b, w))) = Plus(RowOne(A1, vec), Times(b, RowOne(A1, w)))
  BY <1>1, RowOneAdd, RowOneScale
<1>3. RowTwo(row, VecAdd(vec, VecScale(b, w))) = Plus(RowTwo(row, vec), Times(b, RowTwo(row, w)))
  BY <1>1, RowTwoAdd, RowTwoScale
<1> QED BY <1>1, <1>2, <1>3, RowsTyped

\* A commitment with randomness zero is its message.
LEMMA RowsOfZero ==
  /\ \A row \in Vec : RowTwo(row, [j \in Cols |-> Zero]) = Zero
  /\ \A A1 \in StoredRow : RowOne(A1, [j \in Cols |-> Zero]) = Zero
<1> DEFINE vec == [j \in Cols |-> Zero]
<1>1. vec \in Vec /\ \A j \in Cols : vec[j] = Zero
  BY RingClosed DEF Vec
<1> HIDE DEF vec
<1>2. ASSUME NEW row \in Vec PROVE RowTwo(row, vec) = Zero
  <2> DEFINE p == [j \in Cols |-> Times(row[j], vec[j])]
  <2>1. p \in [0 .. WIDTH - 1 -> R] /\ \A j \in 0 .. WIDTH - 1 : p[j] = Zero
    BY <1>1, KeySizes, RingClosed, TimesZero DEF Vec
  <2> HIDE DEF p
  <2>2. Sum(p, WIDTH) = Zero
    BY <2>1, KeySizes, SumZero
  <2> QED BY <2>2 DEF RowTwo, p
<1>3. ASSUME NEW A1 \in StoredRow PROVE RowOne(A1, vec) = Zero
  <2> DEFINE n == WIDTH - HEIGHT
             p == [j \in 0 .. n - 1 |-> Times(A1[j], vec[j + HEIGHT])]
  <2>1. p \in [0 .. n - 1 -> R] /\ n \in Nat /\ \A j \in 0 .. n - 1 : p[j] = Zero
    BY <1>1, KeySizes, RingClosed, TimesZero DEF Vec, StoredRow
  <2> HIDE DEF p, n
  <2>2. Sum(p, n) = Zero
    BY <2>1, SumZero
  <2>3. RowOne(A1, vec) = Plus(vec[0], Sum(p, n))
    BY DEF RowOne, p, n
  <2>4. vec[0] = Zero /\ Plus(Zero, Zero) = Zero
    BY <1>1, KeySizes, RingClosed, RingLaws
  <2> QED BY <2>2, <2>3, <2>4
<1> QED BY <1>2, <1>3 DEF vec
-----------------------------------------------------------------------------
(***************************************************************************)
(* Collapsing: the weighted row applied to the randomness is the weighted  *)
(* sum of the rows applied to it, by exchanging the two sums.              *)
(***************************************************************************)

\* The part of a weighted sum that the first n weights contribute to.
Weights == [1 .. SIZE - 1 -> R]
Tail(x, w) == [i \in 0 .. SIZE - 2 |-> Times(x[i + 1], w[i + 1])]

LEMMA TailTyped ==
  ASSUME NEW x \in [Rows -> R], NEW w \in Weights
  PROVE  /\ SIZE - 1 \in Nat
         /\ Tail(x, w) \in [0 .. (SIZE - 1) - 1 -> R]
         /\ Weighted(x, w) = Plus(x[0], Sum(Tail(x, w), SIZE - 1))
         /\ Weighted(x, w) \in R
         /\ \A i \in 0 .. (SIZE - 1) - 1 : i + 1 \in Rows /\ i + 1 \in 1 .. SIZE - 1
                                          /\ Tail(x, w)[i] = Times(x[i + 1], w[i + 1])
<1>1. SIZE - 1 \in Nat /\ (SIZE - 1) - 1 = SIZE - 2
  BY KeySizes
<1>2. \A i \in 0 .. (SIZE - 1) - 1 : i + 1 \in Rows /\ i + 1 \in 1 .. SIZE - 1
  BY <1>1 DEF Rows
<1>3. Tail(x, w) \in [0 .. (SIZE - 1) - 1 -> R]
  BY <1>1, <1>2, RingClosed DEF Tail, Weights
<1>4. Weighted(x, w) = Plus(x[0], Sum(Tail(x, w), SIZE - 1))
  BY DEF Weighted, Tail
<1>5. SIZE - 1 \in 0 .. SIZE - 1 /\ x[0] \in R
  BY <1>1, KeySizes
<1>6. Sum(Tail(x, w), SIZE - 1) \in R
  BY <1>1, <1>3, <1>5, SumEquations
<1>7. Weighted(x, w) \in R
  BY <1>4, <1>5, <1>6, RingClosed
<1>8. \A i \in 0 .. (SIZE - 1) - 1 : Tail(x, w)[i] = Times(x[i + 1], w[i + 1])
  BY <1>1 DEF Tail
<1> QED BY <1>1, <1>2, <1>3, <1>4, <1>7, <1>8

\* A weighted sum of zeros, and of a vector that is one at 0 and zero elsewhere.
LEMMA WeightedUnit ==
  ASSUME NEW w \in Weights, NEW b \in R,
         NEW x \in [Rows -> R], x[0] = b, \A i \in Rows \ {0} : x[i] = Zero
  PROVE  Weighted(x, w) = b
<1>1. \A i \in 0 .. (SIZE - 1) - 1 : Tail(x, w)[i] = Zero
  <2> TAKE i \in 0 .. (SIZE - 1) - 1
  <2>1. i + 1 \in Rows \ {0} /\ i + 1 \in 1 .. SIZE - 1 /\ Tail(x, w)[i] = Times(x[i + 1], w[i + 1])
    BY TailTyped
  <2>2. w[i + 1] \in R
    BY <2>1 DEF Weights
  <2>3. Times(Zero, w[i + 1]) = Times(w[i + 1], Zero)
    BY <2>2, RingClosed, RingLaws
  <2> QED BY <2>1, <2>2, <2>3, TimesZero
<1>2. Sum(Tail(x, w), SIZE - 1) = Zero
  BY <1>1, TailTyped, SumZero
<1> QED BY <1>2, TailTyped, RingLaws

\* The exchange of the sums, for the rows after the first.
LEMMA ExchangeSums ==
  ASSUME NEW K \in [Rows -> Vec], NEW w \in Weights, NEW vec \in Vec,
         NEW n \in 0 .. SIZE - 1
  PROVE  Sum([j \in Cols |-> Times(Sum(Tail([i \in Rows |-> K[i][j]], w), n), vec[j])], WIDTH)
           = Sum(Tail([i \in Rows |-> RowTwo(K[i], vec)], w), n)
<1> DEFINE M == SIZE - 1
           Col(j) == [i \in Rows |-> K[i][j]]
           applied == [i \in Rows |-> RowTwo(K[i], vec)]
           Mixed(k) == [j \in Cols |-> Times(Sum(Tail(Col(j), w), k), vec[j])]
           S == {k \in 0 .. M : Sum(Mixed(k), WIDTH) = Sum(Tail(applied, w), k)}
<1>1. M \in Nat /\ WIDTH \in Nat /\ Cols = 0 .. WIDTH - 1
  BY KeySizes
<1>2. applied \in [Rows -> R]
  BY RowsTyped
<1>3. \A j \in Cols : Col(j) \in [Rows -> R]
  BY DEF Vec
<1>4. ASSUME NEW j \in Cols
      PROVE  /\ Sum(Tail(Col(j), w), 0) = Zero
             /\ \A k \in 0 .. M : Sum(Tail(Col(j), w), k) \in R
             /\ \A k \in 0 .. M - 1 :
                  Sum(Tail(Col(j), w), k + 1) = Plus(Sum(Tail(Col(j), w), k), Tail(Col(j), w)[k])
  <2> DEFINE x == Tail(Col(j), w)
  <2>1. x \in [0 .. M - 1 -> R]
    BY <1>3, TailTyped
  <2> HIDE DEF x, M
  <2>2. Sum(x, 0) = Zero /\ (\A k \in 0 .. M : Sum(x, k) \in R)
        /\ \A k \in 0 .. M - 1 : Sum(x, k + 1) = Plus(Sum(x, k), x[k])
    BY <1>1, <2>1, SumEquations
  <2> QED BY <2>2 DEF x
<1>5. /\ Sum(Tail(applied, w), 0) = Zero
      /\ \A k \in 0 .. M - 1 :
           Sum(Tail(applied, w), k + 1) = Plus(Sum(Tail(applied, w), k), Tail(applied, w)[k])
  <2> DEFINE x == Tail(applied, w)
  <2>1. x \in [0 .. M - 1 -> R]
    BY <1>2, TailTyped
  <2> HIDE DEF x, M
  <2>2. Sum(x, 0) = Zero /\ \A k \in 0 .. M - 1 : Sum(x, k + 1) = Plus(Sum(x, k), x[k])
    BY <1>1, <2>1, SumEquations
  <2> QED BY <2>2 DEF x
<1>6. ASSUME NEW k \in 0 .. M PROVE Mixed(k) \in [0 .. WIDTH - 1 -> R]
  BY <1>1, <1>4, RingClosed DEF Vec
<1>7. 0 \in S
  <2> DEFINE x == Mixed(0)
  <2>1. 0 \in 0 .. M
    BY <1>1
  <2>2. x \in [0 .. WIDTH - 1 -> R]
    BY <1>6, <2>1
  <2>3. \A j \in 0 .. WIDTH - 1 : x[j] = Zero
    <3> TAKE j \in 0 .. WIDTH - 1
    <3>1. j \in Cols /\ vec[j] \in R
      BY <1>1 DEF Vec
    <3>2. x[j] = Times(Zero, vec[j])
      BY <1>4, <3>1
    <3>3. Times(Zero, vec[j]) = Times(vec[j], Zero)
      BY <3>1, RingClosed, RingLaws
    <3> QED BY <3>1, <3>2, <3>3, TimesZero
  <2> HIDE DEF x
  <2>4. Sum(x, WIDTH) = Zero
    BY <1>1, <2>2, <2>3, SumZero
  <2> QED BY <1>5, <2>1, <2>4 DEF x
<1>8. ASSUME NEW k \in 0 .. M - 1, k \in S PROVE k + 1 \in S
  <2> DEFINE a == K[k + 1]
             b == w[k + 1]
             x == Mixed(k)
             hx == Mixed(k + 1)
             y == [j \in Cols |-> Times(a[j], vec[j])]
             z == [j \in Cols |-> Times(b, y[j])]
  <2>1. k \in 0 .. M /\ k + 1 \in 0 .. M /\ k + 1 \in Rows /\ k + 1 \in 1 .. SIZE - 1
    BY <1>1 DEF Rows
  <2>2. a \in Vec /\ b \in R /\ x \in [0 .. WIDTH - 1 -> R] /\ hx \in [0 .. WIDTH - 1 -> R]
    BY <1>6, <2>1 DEF Weights
  <2>3. y \in [0 .. WIDTH - 1 -> R] /\ z \in [0 .. WIDTH - 1 -> R]
    BY <1>1, <2>2, RingClosed DEF Vec
  <2>4. ASSUME NEW j \in 0 .. WIDTH - 1 PROVE hx[j] = Plus(x[j], z[j])
    <3> DEFINE u == Sum(Tail(Col(j), w), k)
    <3>1. j \in Cols /\ vec[j] \in R /\ a[j] \in R /\ u \in R
      BY <1>1, <1>4, <2>1, <2>2 DEF Vec
    <3>2. Tail(Col(j), w)[k] = Times(a[j], b)
      <4>1. Col(j) \in [Rows -> R] /\ k \in 0 .. (SIZE - 1) - 1
        BY <1>3, <3>1
      <4>2. Tail(Col(j), w)[k] = Times(Col(j)[k + 1], w[k + 1])
        BY <4>1, TailTyped
      <4> QED BY <2>1, <4>2
    <3>3. hx[j] = Times(Plus(u, Times(a[j], b)), vec[j])
      <4>1. Sum(Tail(Col(j), w), k + 1) = Plus(u, Times(a[j], b))
        BY <1>4, <3>1, <3>2
      <4> QED BY <3>1, <4>1
    <3>4. x[j] = Times(u, vec[j]) /\ z[j] = Times(b, Times(a[j], vec[j]))
      BY <3>1
    <3> HIDE DEF u, hx, x, z, a, b
    <3>5. Times(a[j], b) \in R
      BY <2>2, <3>1, RingClosed
    <3>6. Times(Plus(u, Times(a[j], b)), vec[j]) = Plus(Times(u, vec[j]), Times(Times(a[j], b), vec[j]))
      BY <3>1, <3>5, TimesRight
    <3>7. Times(Times(a[j], b), vec[j]) = Times(b, Times(a[j], vec[j]))
      BY <2>2, <3>1, RingLaws
    <3> QED BY <3>3, <3>4, <3>6, <3>7
  <2>5. ASSUME NEW j \in 0 .. WIDTH - 1 PROVE z[j] = Times(b, y[j])
    BY <1>1
  <2>6. Sum(y, WIDTH) = RowTwo(a, vec)
    BY DEF RowTwo
  <2>7. Tail(applied, w)[k] = Times(RowTwo(a, vec), b)
    <3>1. k \in 0 .. (SIZE - 1) - 1
      OBVIOUS
    <3>2. Tail(applied, w)[k] = Times(applied[k + 1], w[k + 1])
      BY <1>2, <3>1, TailTyped
    <3> QED BY <2>1, <3>2
  <2>8. RowTwo(a, vec) \in R
    BY <2>2, RowsTyped
  <2>9. Sum(x, WIDTH) = Sum(Tail(applied, w), k)
    BY <1>8
  <2>10. Sum(Tail(applied, w), k + 1) = Plus(Sum(Tail(applied, w), k), Times(RowTwo(a, vec), b))
    BY <1>5, <2>7
  <2> HIDE DEF x, y, z, hx, a, b
  <2>11. Sum(hx, WIDTH) = Plus(Sum(x, WIDTH), Sum(z, WIDTH))
    BY <1>1, <2>2, <2>3, <2>4, SumPlus
  <2>12. Sum(z, WIDTH) = Times(b, Sum(y, WIDTH))
    BY <1>1, <2>2, <2>3, <2>5, SumTimes
  <2>13. Times(b, RowTwo(a, vec)) = Times(RowTwo(a, vec), b)
    BY <2>2, <2>8, RingLaws
  <2>14. Sum(hx, WIDTH) = Sum(Tail(applied, w), k + 1)
    BY <2>6, <2>9, <2>10, <2>11, <2>12, <2>13
  <2> QED BY <2>1, <2>14 DEF hx
<1> HIDE DEF S
<1>9. 0 .. M \subseteq S
  <2> HIDE DEF M
  <2> QED BY <1>1, <1>7, <1>8, Induction
<1> QED BY <1>9 DEF S

\* A collapsed row applied to the randomness.
LEMMA CollapsedApplied ==
  ASSUME NEW K \in [Rows -> Vec], NEW w \in Weights, NEW vec \in Vec,
         \A i \in Rows : K[i][0] = Zero /\ K[i][1] = (IF i = 0 THEN One ELSE Zero)
  PROVE  /\ CollapsedRow(K, w) \in Vec
         /\ CollapsedRow(K, w)[0] = Zero /\ CollapsedRow(K, w)[1] = One
         /\ RowTwo(CollapsedRow(K, w), vec) = Weighted([i \in Rows |-> RowTwo(K[i], vec)], w)
<1> DEFINE Col(j) == [i \in Rows |-> K[i][j]]
           applied == [i \in Rows |-> RowTwo(K[i], vec)]
           row == CollapsedRow(K, w)
           M == SIZE - 1
           first == [j \in Cols |-> Times(K[0][j], vec[j])]
           rest == [j \in Cols |-> Times(Sum(Tail(Col(j), w), M), vec[j])]
           all == [j \in Cols |-> Times(row[j], vec[j])]
<1>1. \A j \in Cols : Col(j) \in [Rows -> R]
  BY DEF Vec
<1>2. ASSUME NEW j \in Cols PROVE row[j] = Weighted(Col(j), w)
  <2>1. Col(j) \in [Rows -> R] /\ 0 \in Rows
    BY <1>1, KeySizes
  <2>2. CASE j = 0
    <3>1. \A i \in Rows : Col(j)[i] = Zero
      BY <2>2
    <3> QED BY <2>1, <2>2, <3>1, WeightedUnit, RingClosed DEF CollapsedRow
  <2>3. CASE j = 1
    <3>1. Col(j)[0] = One /\ \A i \in Rows \ {0} : Col(j)[i] = Zero
      BY <2>1, <2>3
    <3> QED BY <2>1, <2>3, <3>1, WeightedUnit, RingClosed DEF CollapsedRow
  <2>4. CASE j # 0 /\ j # 1
    BY <2>4 DEF CollapsedRow
  <2> QED BY <2>2, <2>3, <2>4
<1>3. row \in Vec
  <2>1. \A j \in Cols : row[j] \in R
    BY <1>1, <1>2, TailTyped
  <2>2. row = [j \in Cols |-> row[j]]
    BY DEF CollapsedRow
  <2> HIDE DEF row
  <2> QED BY <2>1, <2>2 DEF Vec
<1>4. row[0] = Zero /\ row[1] = One
  BY KeySizes DEF CollapsedRow
<1>5. M \in Nat /\ M \in 0 .. M /\ WIDTH \in Nat /\ Cols = 0 .. WIDTH - 1 /\ 0 \in Rows
  BY KeySizes
<1>6. applied \in [Rows -> R] /\ applied[0] = RowTwo(K[0], vec)
  BY <1>5, RowsTyped
<1>7. ASSUME NEW j \in Cols
      PROVE  /\ Sum(Tail(Col(j), w), M) \in R
             /\ row[j] = Plus(K[0][j], Sum(Tail(Col(j), w), M))
  <2>1. Tail(Col(j), w) \in [0 .. M - 1 -> R]
        /\ Weighted(Col(j), w) = Plus(Col(j)[0], Sum(Tail(Col(j), w), M))
    BY <1>1, TailTyped
  <2>2. Sum(Tail(Col(j), w), M) \in R
    <3> DEFINE x == Tail(Col(j), w)
    <3> HIDE DEF x, M
    <3> QED BY <1>5, <2>1, SumEquations DEF x
  <2> QED BY <1>2, <1>5, <2>1, <2>2
<1> HIDE DEF row
<1>8. /\ first \in [0 .. WIDTH - 1 -> R] /\ rest \in [0 .. WIDTH - 1 -> R]
      /\ all \in [0 .. WIDTH - 1 -> R]
  BY <1>3, <1>5, <1>7, RingClosed DEF Vec
<1>9. ASSUME NEW j \in 0 .. WIDTH - 1 PROVE all[j] = Plus(first[j], rest[j])
  <2> DEFINE u == Sum(Tail(Col(j), w), M)
  <2>1. j \in Cols /\ K[0][j] \in R /\ vec[j] \in R /\ u \in R /\ row[j] = Plus(K[0][j], u)
    BY <1>5, <1>7 DEF Vec
  <2>2. all[j] = Times(row[j], vec[j]) /\ first[j] = Times(K[0][j], vec[j]) /\ rest[j] = Times(u, vec[j])
    BY <2>1
  <2> HIDE DEF u, all, first, rest
  <2> QED BY <2>1, <2>2, TimesRight
<1>10. Sum(rest, WIDTH) = Sum(Tail(applied, w), M)
  BY <1>5, ExchangeSums
<1>11. Weighted(applied, w) = Plus(applied[0], Sum(Tail(applied, w), M))
  BY <1>6, TailTyped
<1>12. Sum(first, WIDTH) = RowTwo(K[0], vec) /\ Sum(all, WIDTH) = RowTwo(row, vec)
  BY DEF RowTwo
<1> HIDE DEF first, rest, all
<1>13. Sum(all, WIDTH) = Plus(Sum(first, WIDTH), Sum(rest, WIDTH))
  BY <1>5, <1>8, <1>9, SumPlus
<1> QED BY <1>3, <1>4, <1>6, <1>10, <1>11, <1>12, <1>13 DEF row

\* Weighing is linear.
LEMMA WeightedPlus ==
  ASSUME NEW x \in [Rows -> R], NEW y \in [Rows -> R], NEW w \in Weights,
         NEW z \in [Rows -> R], \A i \in Rows : z[i] = Plus(x[i], y[i])
  PROVE  Weighted(z, w) = Plus(Weighted(x, w), Weighted(y, w))
<1> DEFINE M == SIZE - 1
           X == Tail(x, w)
           Y == Tail(y, w)
           Z == Tail(z, w)
<1>1. M \in Nat /\ X \in [0 .. M - 1 -> R] /\ Weighted(x, w) = Plus(x[0], Sum(X, M))
      /\ \A i \in 0 .. M - 1 : X[i] = Times(x[i + 1], w[i + 1])
  BY TailTyped
<1>2. Y \in [0 .. M - 1 -> R] /\ Weighted(y, w) = Plus(y[0], Sum(Y, M))
      /\ \A i \in 0 .. M - 1 : Y[i] = Times(y[i + 1], w[i + 1])
  BY TailTyped
<1>3. Z \in [0 .. M - 1 -> R] /\ Weighted(z, w) = Plus(z[0], Sum(Z, M))
      /\ \A i \in 0 .. M - 1 : Z[i] = Times(z[i + 1], w[i + 1])
  BY TailTyped
<1>4. ASSUME NEW i \in 0 .. M - 1 PROVE Z[i] = Plus(X[i], Y[i])
  <2>1. i + 1 \in Rows /\ i + 1 \in 1 .. SIZE - 1
    BY <1>1 DEF Rows
  <2>2. x[i + 1] \in R /\ y[i + 1] \in R /\ w[i + 1] \in R /\ z[i + 1] = Plus(x[i + 1], y[i + 1])
    BY <2>1 DEF Weights
  <2> HIDE DEF X, Y, Z
  <2> QED BY <1>1, <1>2, <1>3, <2>2, TimesRight
<1> HIDE DEF X, Y, Z, M
<1>5. Sum(Z, M) = Plus(Sum(X, M), Sum(Y, M))
  BY <1>1, <1>2, <1>3, <1>4, SumPlus
<1>6. Sum(X, M) \in R /\ Sum(Y, M) \in R
  <2>1. M \in 0 .. M
    BY <1>1
  <2>2. Sum(X, M) \in R
    BY <1>1, <2>1, SumEquations
  <2>3. Sum(Y, M) \in R
    BY <1>1, <1>2, <2>1, SumEquations
  <2> QED BY <2>2, <2>3
<1>7. x[0] \in R /\ y[0] \in R /\ z[0] = Plus(x[0], y[0])
  BY KeySizes
<1> QED BY <1>1, <1>2, <1>3, <1>5, <1>6, <1>7, Interchange
-----------------------------------------------------------------------------
(***************************************************************************)
(* The inductive invariant: the key keeps its identity block until it is   *)
(* collapsed, the commitment is that of m under the current key with the   *)
(* randomness it was made with, and the opening answers with that.         *)
(***************************************************************************)
KeyTyped ==
  stage # "keygen" =>
    /\ key = [A1 |-> key.A1, A2 |-> key.A2]
    /\ key.A1 \in StoredRow
    /\ \A i \in DOMAIN key.A2 : key.A2[i] \in Vec

KeyBlock ==
  stage = "commit" \/ (Made /\ DOMAIN m = Rows) =>
    /\ DOMAIN key.A2 = Rows
    /\ \A i \in Rows : key.A2[i][0] = Zero /\ key.A2[i][1] = (IF i = 0 THEN One ELSE Zero)

Committed ==
  Made =>
    /\ com = [c1 |-> com.c1, c2 |-> com.c2]
    /\ com.c1 = RowOne(key.A1, r)
    /\ \A i \in DOMAIN m : com.c2[i] = Plus(RowTwo(key.A2[i], r), m[i])

Answered ==
  stage \in {"check", "done"} =>
    factor \in Factors /\ answer = VecScale(factor, r) /\ claim \in [DOMAIN claim -> R]

BdlopInv == BdlopTypeOK /\ KeyTyped /\ KeyBlock /\ Committed /\ Answered /\ OpensExactly

LEMMA MessageTyped ==
  ASSUME NEW x \in MessageVectors
  PROVE  x \in [DOMAIN x -> R] /\ DOMAIN x \in {{0}, Rows}
<1>1. CASE x \in [{0} -> Messages]
  BY <1>1, BdlopAssumption
<1>2. CASE x \in [Rows -> Messages]
  BY <1>2, BdlopAssumption
<1> QED BY <1>1, <1>2 DEF MessageVectors

LEMMA ShortIsVec == ASSUME NEW x \in [Cols -> Short] PROVE x \in Vec
BY BdlopAssumption DEF Vec

\* The commitment of a message is what the invariant says of it.
LEMMA CommitIs ==
  ASSUME NEW k, NEW x, NEW vec
  PROVE  /\ Commit(k, x, vec) = [c1 |-> Commit(k, x, vec).c1, c2 |-> Commit(k, x, vec).c2]
         /\ Commit(k, x, vec).c1 = RowOne(k.A1, vec)
         /\ Commit(k, x, vec).c2 = [i \in DOMAIN x |-> Plus(RowTwo(k.A2[i], vec), x[i])]
BY DEF Commit

LEMMA InitBdlopInv == BdlopInit => BdlopInv
<1> SUFFICES ASSUME BdlopInit PROVE BdlopInv
  OBVIOUS
<1>1. stage = "keygen" /\ ops = 0 /\ opened = FALSE
  BY DEF BdlopInit
<1>2. ~Made /\ stage # "commit" /\ stage # "done" /\ stage \notin {"check", "done"}
  BY <1>1 DEF Made
<1>3. 0 \in 0 .. MaxOps
  BY BdlopAssumption
<1>4. BdlopTypeOK
  BY <1>1, <1>2, <1>3 DEF BdlopTypeOK
<1>5. KeyTyped /\ KeyBlock
  BY <1>1, <1>2 DEF KeyTyped, KeyBlock
<1>6. Committed /\ Answered /\ OpensExactly
  BY <1>2 DEF Committed, Answered, OpensExactly
<1> QED BY <1>4, <1>5, <1>6 DEF BdlopInv

LEMMA KeyGenStep == ASSUME BdlopInv, KeyGen PROVE BdlopInv'
<1>1. PICK A1 \in [0 .. WIDTH - HEIGHT - 1 -> Tails],
           tail \in [Rows -> [HEIGHT + SIZE .. WIDTH - 1 -> Tails]] :
        key' = [A1 |-> A1,
                A2 |-> [i \in Rows |->
                          [j \in Cols |-> IF j = i + HEIGHT THEN One
                                          ELSE IF j < HEIGHT + SIZE THEN Zero
                                          ELSE tail[i][j]]]]
  BY DEF KeyGen
<1>2. stage = "keygen" /\ stage' = "commit" /\ UNCHANGED <<ops, factor, opened>>
  BY DEF KeyGen
<1> DEFINE row(i) == [j \in Cols |-> IF j = i + HEIGHT THEN One
                                     ELSE IF j < HEIGHT + SIZE THEN Zero
                                     ELSE tail[i][j]]
<1>3. key'.A1 = A1 /\ key'.A2 = [i \in Rows |-> row(i)]
      /\ key' = [A1 |-> key'.A1, A2 |-> key'.A2]
  BY <1>1
<1>4. A1 \in StoredRow
  BY BdlopAssumption DEF StoredRow
<1>5. ASSUME NEW i \in Rows
      PROVE  /\ row(i) \in Vec
             /\ row(i)[0] = Zero /\ row(i)[1] = (IF i = 0 THEN One ELSE Zero)
  <2>1. \A j \in Cols : j >= HEIGHT + SIZE => tail[i][j] \in R
    BY KeySizes, BdlopAssumption
  <2>2. \A j \in Cols : j \in Int /\ (j >= HEIGHT + SIZE \/ j < HEIGHT + SIZE)
    BY KeySizes
  <2>3. row(i) \in Vec
    BY <2>1, <2>2, RingClosed DEF Vec
  <2>4. /\ 0 \in Cols /\ 1 \in Cols /\ 0 # i + HEIGHT /\ 0 < HEIGHT + SIZE /\ 1 < HEIGHT + SIZE
        /\ (1 = i + HEIGHT <=> i = 0)
    BY KeySizes
  <2> QED BY <2>3, <2>4
<1> HIDE DEF row
<1>6. KeyTyped'
  BY <1>3, <1>4, <1>5 DEF KeyTyped
<1>7. KeyBlock'
  BY <1>3, <1>5 DEF KeyBlock
<1>8. BdlopTypeOK' /\ Committed' /\ Answered' /\ OpensExactly'
  BY <1>2 DEF BdlopInv, BdlopTypeOK, Committed, Answered, OpensExactly, Made
<1> QED BY <1>6, <1>7, <1>8 DEF BdlopInv

LEMMA MakeCommitmentStep == ASSUME BdlopInv, MakeCommitment PROVE BdlopInv'
<1>1. /\ stage = "commit" /\ stage' = "open"
      /\ m' \in MessageVectors /\ r' \in [Cols -> Short] /\ com' = Commit(key, m', r')
      /\ UNCHANGED <<key, ops, factor, answer, claim, opened>>
  BY DEF MakeCommitment
<1>2. m' \in [DOMAIN m' -> R] /\ DOMAIN m' \in {{0}, Rows} /\ r' \in Vec
  BY <1>1, MessageTyped, ShortIsVec
<1>3. /\ com' = [c1 |-> com'.c1, c2 |-> com'.c2]
      /\ com'.c1 = RowOne(key.A1, r')
      /\ com'.c2 = [i \in DOMAIN m' |-> Plus(RowTwo(key.A2[i], r'), m'[i])]
  BY <1>1, CommitIs
<1>4. /\ DOMAIN key.A2 = Rows /\ key.A1 \in StoredRow /\ \A i \in Rows : key.A2[i] \in Vec
      /\ DOMAIN m' \subseteq Rows
  BY <1>1, <1>2, KeySizes DEF BdlopInv, KeyTyped, KeyBlock
<1>5. com'.c1 \in R /\ com'.c2 \in [DOMAIN m' -> R]
  <2>1. com'.c1 \in R
    BY <1>2, <1>3, <1>4, RowsTyped
  <2>2. \A i \in DOMAIN m' : Plus(RowTwo(key.A2[i], r'), m'[i]) \in R
    BY <1>2, <1>4, RowsTyped, RingClosed
  <2> QED BY <1>3, <2>1, <2>2
<1>6. BdlopTypeOK'
  BY <1>1, <1>2, <1>4, <1>5 DEF BdlopInv, BdlopTypeOK, Made
<1>7. KeyTyped' /\ KeyBlock'
  BY <1>1 DEF BdlopInv, KeyTyped, KeyBlock
<1>8. Committed'
  BY <1>1, <1>3 DEF Committed
<1>9. Answered' /\ OpensExactly'
  BY <1>1 DEF Answered, OpensExactly
<1> QED BY <1>6, <1>7, <1>8, <1>9 DEF BdlopInv

LEMMA SubtractStep == ASSUME BdlopInv, NEW rho \in MessageVectors, Subtract(rho) PROVE BdlopInv'
<1> DEFINE zero == [j \in Cols |-> Zero]
           other == Commit(key, rho, zero)
<1>1. /\ stage = "open" /\ stage' = "open" /\ ops < MaxOps /\ DOMAIN rho = DOMAIN m
      /\ com' = [c1 |-> Minus(com.c1, other.c1),
                 c2 |-> [i \in DOMAIN m |-> Minus(com.c2[i], other.c2[i])]]
      /\ m' = [i \in DOMAIN m |-> Minus(m[i], rho[i])]
      /\ ops' = ops + 1
      /\ UNCHANGED <<key, r, factor, answer, claim, opened>>
  BY DEF Subtract
<1>2. /\ rho \in [DOMAIN m -> R] /\ m \in [DOMAIN m -> R] /\ DOMAIN m \in {{0}, Rows}
      /\ com.c1 \in R /\ com.c2 \in [DOMAIN m -> R] /\ r \in [Cols -> Short] /\ r \in Vec
      /\ DOMAIN m \subseteq DOMAIN key.A2 /\ \A i \in DOMAIN key.A2 : key.A2[i] \in Vec
      /\ key.A1 \in StoredRow
  BY <1>1, MessageTyped, ShortIsVec DEF BdlopInv, BdlopTypeOK, KeyTyped, Made
<1>3. other.c1 = Zero /\ \A i \in DOMAIN m : other.c2[i] = rho[i]
  <2>1. other.c1 = RowOne(key.A1, zero)
        /\ other.c2 = [i \in DOMAIN rho |-> Plus(RowTwo(key.A2[i], zero), rho[i])]
    BY CommitIs
  <2>2. RowOne(key.A1, zero) = Zero
    BY <1>2, RowsOfZero
  <2>3. ASSUME NEW i \in DOMAIN m PROVE Plus(RowTwo(key.A2[i], zero), rho[i]) = rho[i]
    <3>1. RowTwo(key.A2[i], zero) = Zero /\ rho[i] \in R /\ Zero \in R
      BY <1>2, RowsOfZero, RingClosed
    <3>2. Plus(Zero, rho[i]) = rho[i]
      <4>1. \A x \in R : Plus(Zero, x) = x
        BY RingClosed, RingLaws
      <4> QED BY <3>1, <4>1
    <3> QED BY <3>1, <3>2
  <2> HIDE DEF other, zero
  <2> QED BY <1>1, <2>1, <2>2, <2>3
<1> HIDE DEF other
<1>4. com'.c1 = com.c1
  <2>1. Minus(com.c1, Zero) = com.c1
    <3>1. Plus(com.c1, Zero) = com.c1
      BY <1>2, RingLaws
    <3> QED BY <1>2, <3>1, RingClosed, MinusPlus
  <2> QED BY <1>1, <1>3, <2>1
<1>5. ASSUME NEW i \in DOMAIN m
      PROVE  /\ com'.c2[i] = Plus(RowTwo(key.A2[i], r), m'[i])
             /\ com'.c2[i] \in R /\ m'[i] \in R
  <2> DEFINE b == RowTwo(key.A2[i], r)
  <2>1. b \in R /\ m[i] \in R /\ rho[i] \in R /\ com.c2[i] = Plus(b, m[i])
    BY <1>1, <1>2, RowsTyped DEF BdlopInv, Committed, Made
  <2>2. com'.c2[i] = Minus(Plus(b, m[i]), rho[i]) /\ m'[i] = Minus(m[i], rho[i])
    BY <1>1, <1>3, <2>1
  <2> HIDE DEF b
  <2>3. Minus(Plus(b, m[i]), Plus(Zero, rho[i])) = Plus(Minus(b, Zero), Minus(m[i], rho[i]))
    <3>1. b \in R /\ m[i] \in R /\ rho[i] \in R /\ Zero \in R
      BY <2>1, RingClosed
    <3> QED BY <3>1, MinusSums
  <2>4. Plus(Zero, rho[i]) = rho[i] /\ Minus(b, Zero) = b
    <3>1. \A x \in R : Plus(Zero, x) = x /\ Plus(x, Zero) = x
      BY RingClosed, RingLaws
    <3>2. Plus(b, Zero) = b /\ Plus(Zero, rho[i]) = rho[i]
      BY <2>1, <3>1
    <3> QED BY <2>1, <3>2, RingClosed, MinusPlus
  <2>5. com'.c2[i] = Plus(b, m'[i]) /\ m'[i] \in R
    BY <2>1, <2>2, <2>3, <2>4, RingClosed
  <2> QED BY <2>1, <2>5, RingClosed DEF b
<1>6. DOMAIN m' = DOMAIN m /\ com' = [c1 |-> com'.c1, c2 |-> com'.c2]
      /\ m' \in [DOMAIN m -> R] /\ com'.c2 \in [DOMAIN m -> R]
  <2>1. DOMAIN m' = DOMAIN m /\ m' = [i \in DOMAIN m |-> m'[i]]
        /\ com'.c2 = [i \in DOMAIN m |-> com'.c2[i]] /\ com' = [c1 |-> com'.c1, c2 |-> com'.c2]
    BY <1>1
  <2> QED BY <1>5, <2>1
<1>7. ops' \in 0 .. MaxOps
  BY <1>1, BdlopAssumption DEF BdlopInv, BdlopTypeOK
<1>8. BdlopTypeOK'
  BY <1>1, <1>2, <1>4, <1>6, <1>7 DEF BdlopInv, BdlopTypeOK, Made
<1>9. KeyTyped' /\ KeyBlock'
  BY <1>1, <1>6 DEF BdlopInv, KeyTyped, KeyBlock, Made
<1>10. Committed'
  BY <1>1, <1>4, <1>5, <1>6 DEF BdlopInv, Committed, Made
<1>11. Answered' /\ OpensExactly'
  BY <1>1 DEF Answered, OpensExactly
<1> QED BY <1>8, <1>9, <1>10, <1>11 DEF BdlopInv

LEMMA CollapseStep ==
  ASSUME BdlopInv, NEW w \in [1 .. SIZE - 1 -> Tails], Collapse(w)
  PROVE  BdlopInv'
<1>1. /\ stage = "open" /\ stage' = "open" /\ ops < MaxOps /\ DOMAIN m = Rows
      /\ com' = [com EXCEPT !.c2 = [i \in {0} |-> Weighted(com.c2, w)]]
      /\ m' = [i \in {0} |-> Weighted(m, w)]
      /\ key' = [key EXCEPT !.A2 = [i \in {0} |-> CollapsedRow(key.A2, w)]]
      /\ ops' = ops + 1
      /\ UNCHANGED <<r, factor, answer, claim, opened>>
  BY DEF Collapse
<1>2. /\ m \in [Rows -> R] /\ com.c1 \in R /\ com.c2 \in [Rows -> R]
      /\ r \in [Cols -> Short] /\ r \in Vec /\ key.A1 \in StoredRow
      /\ DOMAIN key.A2 = Rows /\ \A i \in Rows : key.A2[i] \in Vec
      /\ \A i \in Rows : key.A2[i][0] = Zero /\ key.A2[i][1] = (IF i = 0 THEN One ELSE Zero)
  BY <1>1, ShortIsVec DEF BdlopInv, BdlopTypeOK, KeyTyped, KeyBlock, Made
<1>3. w \in Weights
  BY BdlopAssumption DEF Weights
<1> DEFINE K == [i \in Rows |-> key.A2[i]]
           applied == [i \in Rows |-> RowTwo(key.A2[i], r)]
           row == CollapsedRow(key.A2, w)
<1>4. row = CollapsedRow(K, w)
  <2>1. \A j \in Cols : [i \in Rows |-> key.A2[i][j]] = [i \in Rows |-> K[i][j]]
    OBVIOUS
  <2> HIDE DEF K
  <2> QED BY <2>1 DEF CollapsedRow
<1>5. row \in Vec /\ row[0] = Zero /\ row[1] = One /\ RowTwo(row, r) = Weighted(applied, w)
  <2>1. K \in [Rows -> Vec]
    BY <1>2
  <2>2. \A i \in Rows : K[i][0] = Zero /\ K[i][1] = (IF i = 0 THEN One ELSE Zero)
    BY <1>2
  <2>3. applied = [i \in Rows |-> RowTwo(K[i], r)]
    OBVIOUS
  <2> HIDE DEF K, applied, row
  <2> QED BY <1>2, <1>3, <1>4, <2>1, <2>2, <2>3, CollapsedApplied
<1>6. applied \in [Rows -> R]
  BY <1>2, RowsTyped
<1>7. \A i \in Rows : com.c2[i] = Plus(applied[i], m[i])
  BY <1>1 DEF BdlopInv, Committed, Made
<1> HIDE DEF applied, row
<1>8. /\ Weighted(com.c2, w) = Plus(Weighted(applied, w), Weighted(m, w))
      /\ Weighted(com.c2, w) \in R /\ Weighted(m, w) \in R
  <2>1. Weighted(com.c2, w) = Plus(Weighted(applied, w), Weighted(m, w))
    BY <1>2, <1>3, <1>6, <1>7, WeightedPlus
  <2>2. Weighted(com.c2, w) \in R
    BY <1>2, <1>3, TailTyped
  <2>3. Weighted(m, w) \in R
    BY <1>2, <1>3, TailTyped
  <2> QED BY <2>1, <2>2, <2>3
<1>9. /\ com' = [c1 |-> com.c1, c2 |-> [i \in {0} |-> Weighted(com.c2, w)]]
      /\ key' = [A1 |-> key.A1, A2 |-> [i \in {0} |-> row]]
  <2>1. com = [c1 |-> com.c1, c2 |-> com.c2] /\ key = [A1 |-> key.A1, A2 |-> key.A2]
    BY <1>1 DEF BdlopInv, Committed, KeyTyped, Made
  <2> QED BY <1>1, <2>1 DEF row
<1>10. /\ com'.c1 = com.c1 /\ com'.c2 = [i \in {0} |-> Weighted(com.c2, w)]
       /\ key'.A1 = key.A1 /\ key'.A2 = [i \in {0} |-> row]
       /\ com' = [c1 |-> com'.c1, c2 |-> com'.c2] /\ key' = [A1 |-> key'.A1, A2 |-> key'.A2]
  BY <1>9
<1>11. DOMAIN m' = {0} /\ m' \in [{0} -> R] /\ com'.c2 \in [{0} -> R]
  BY <1>1, <1>8, <1>10
<1>12. ops' \in 0 .. MaxOps
  BY <1>1, BdlopAssumption DEF BdlopInv, BdlopTypeOK
<1>13. BdlopTypeOK'
  BY <1>1, <1>2, <1>5, <1>10, <1>11, <1>12 DEF BdlopInv, BdlopTypeOK, Made
<1>14. KeyTyped'
  BY <1>2, <1>5, <1>10 DEF KeyTyped
<1>15. KeyBlock'
  <2>1. DOMAIN m' = Rows => \A i \in Rows : i = 0
    BY <1>11
  <2> QED BY <1>1, <1>5, <1>10, <1>11, <2>1 DEF KeyBlock
<1>16. Committed'
  <2>1. com'.c1 = RowOne(key'.A1, r')
    BY <1>1, <1>10 DEF BdlopInv, Committed, Made
  <2>2. \A i \in DOMAIN m' : com'.c2[i] = Plus(RowTwo(key'.A2[i], r'), m'[i])
    BY <1>1, <1>5, <1>8, <1>10, <1>11
  <2> QED BY <1>10, <2>1, <2>2 DEF Committed
<1>17. Answered' /\ OpensExactly'
  BY <1>1 DEF Answered, OpensExactly
<1> QED BY <1>13, <1>14, <1>15, <1>16, <1>17 DEF BdlopInv

LEMMA RespondStep == ASSUME BdlopInv, PrepareOpening PROVE BdlopInv'
<1>1. /\ stage = "open" /\ stage' = "check" /\ factor' \in Factors /\ answer' = VecScale(factor', r)
      /\ claim' \in {m} \cup MessageVectors
      /\ UNCHANGED <<key, com, m, r, ops, opened>>
  BY DEF PrepareOpening
<1>2. m \in [DOMAIN m -> R]
  BY <1>1 DEF BdlopInv, BdlopTypeOK, Made
<1>3. claim' \in [DOMAIN claim' -> R]
  BY <1>1, <1>2, MessageTyped
<1>4. BdlopTypeOK'
  BY <1>1 DEF BdlopInv, BdlopTypeOK, Made
<1>5. KeyTyped' /\ KeyBlock' /\ Committed'
  BY <1>1 DEF BdlopInv, KeyTyped, KeyBlock, Committed, Made
<1>6. Answered'
  BY <1>1, <1>3 DEF Answered
<1>7. OpensExactly'
  BY <1>1 DEF OpensExactly
<1> QED BY <1>4, <1>5, <1>6, <1>7 DEF BdlopInv

\* The equations of bdlop_open, for randomness and a factor as the caller forms
\* them, compare the messages and nothing else.
LEMMA OpenStep == ASSUME BdlopInv, BdlopOpen PROVE BdlopInv'
<1>1. /\ stage = "check" /\ stage' = "done" /\ UNCHANGED <<key, com, m, r, ops, factor, answer, claim>>
      /\ opened' = /\ Times(factor, com.c1) = RowOne(key.A1, answer)
                   /\ DOMAIN com.c2 = DOMAIN claim
                   /\ \A i \in DOMAIN claim :
                        Times(factor, com.c2[i]) = Plus(RowTwo(key.A2[i], answer), Times(factor, claim[i]))
                   /\ \A j \in Cols : Fits(answer[j])
  BY DEF BdlopOpen
<1>2. /\ factor \in R /\ answer = VecScale(factor, r) /\ claim \in [DOMAIN claim -> R]
      /\ m \in [DOMAIN m -> R] /\ r \in Vec /\ com.c2 \in [DOMAIN m -> R]
      /\ com.c1 = RowOne(key.A1, r) /\ key.A1 \in StoredRow
      /\ \A i \in DOMAIN m : key.A2[i] \in Vec
      /\ \A i \in DOMAIN m : com.c2[i] = Plus(RowTwo(key.A2[i], r), m[i])
  BY <1>1, BdlopAssumption, ShortIsVec DEF BdlopInv, BdlopTypeOK, KeyTyped, Committed, Answered, Made
<1>3. Times(factor, com.c1) = RowOne(key.A1, answer)
  BY <1>2, RowOneScale
<1>4. ASSUME NEW i \in DOMAIN m, DOMAIN claim = DOMAIN m
      PROVE  Times(factor, com.c2[i]) = Plus(RowTwo(key.A2[i], answer), Times(factor, claim[i]))
               <=> Times(factor, claim[i]) = Times(factor, m[i])
  <2> DEFINE b == RowTwo(key.A2[i], r)
             x == Times(factor, b)
             y == Times(factor, m[i])
             z == Times(factor, claim[i])
  <2>1. b \in R /\ m[i] \in R /\ claim[i] \in R /\ com.c2[i] = Plus(b, m[i])
    BY <1>2, <1>4, RowsTyped
  <2>2. RowTwo(key.A2[i], answer) = x
    BY <1>2, RowTwoScale
  <2> HIDE DEF b
  <2>3. Times(factor, com.c2[i]) = Plus(x, y)
    BY <1>2, <2>1, RingLaws
  <2>4. x \in R /\ y \in R /\ z \in R
    BY <1>2, <2>1, RingClosed
  <2> HIDE DEF x, y, z
  <2>5. ASSUME Plus(x, y) = Plus(x, z) PROVE z = y
    <3>1. Plus(y, x) = Plus(z, x)
      BY <2>4, <2>5, RingLaws
    <3> QED BY <2>4, <3>1, MinusPlus
  <2>6. Plus(x, y) = Plus(x, z) <=> z = y
    BY <2>5
  <2> QED BY <2>2, <2>3, <2>6 DEF y, z
<1>5. opened' <=> /\ DOMAIN claim = DOMAIN m
                  /\ \A i \in DOMAIN m : Times(factor, claim[i]) = Times(factor, m[i])
                  /\ \A j \in Cols : Fits(answer[j])
  <2>1. DOMAIN com.c2 = DOMAIN m
    BY <1>2
  <2>2. CASE DOMAIN claim = DOMAIN m
    BY <1>1, <1>3, <1>4, <2>1, <2>2
  <2>3. CASE DOMAIN claim # DOMAIN m
    BY <1>1, <2>1, <2>3
  <2> QED BY <2>2, <2>3
<1>6. OpensExactly'
  BY <1>1, <1>5 DEF OpensExactly
<1>7. BdlopTypeOK'
  <2>1. opened' \in BOOLEAN
    BY <1>1
  <2> QED BY <1>1, <2>1 DEF BdlopInv, BdlopTypeOK, Made
<1>8. KeyTyped' /\ KeyBlock' /\ Committed' /\ Answered'
  BY <1>1 DEF BdlopInv, KeyTyped, KeyBlock, Committed, Answered, Made
<1> QED BY <1>6, <1>7, <1>8 DEF BdlopInv

LEMMA NextBdlopInv == BdlopInv /\ [BdlopNext]_bdlopVars => BdlopInv'
<1> SUFFICES ASSUME BdlopInv, [BdlopNext]_bdlopVars PROVE BdlopInv'
  OBVIOUS
<1>1. CASE KeyGen
  BY <1>1, KeyGenStep
<1>2. CASE MakeCommitment
  BY <1>2, MakeCommitmentStep
<1>3. CASE \E rho \in MessageVectors : Subtract(rho)
  BY <1>3, SubtractStep
<1>4. CASE \E w \in [1 .. SIZE - 1 -> Tails] : Collapse(w)
  BY <1>4, CollapseStep
<1>5. CASE PrepareOpening
  BY <1>5, RespondStep
<1>6. CASE BdlopOpen
  BY <1>6, OpenStep
<1>7. CASE UNCHANGED bdlopVars
  BY <1>7 DEF bdlopVars, BdlopInv, BdlopTypeOK, KeyTyped, KeyBlock, Committed, Answered, OpensExactly, Made
<1> QED BY <1>1, <1>2, <1>3, <1>4, <1>5, <1>6, <1>7 DEF BdlopNext, BdlopStopped

\* The invariant behind the two results below.
THEOREM BdlopInvariant == BdlopSpec => []BdlopInv
<1>1. QED
  BY InitBdlopInv, NextBdlopInv, PTL DEF BdlopSpec

\* A commitment has one component for each message, and its key has a row for it.
THEOREM BdlopTypeCorrect == BdlopSpec => []BdlopTypeOK
<1>1. BdlopInv => BdlopTypeOK
  BY DEF BdlopInv
<1>2. QED
  BY <1>1, BdlopInvariant, PTL

\* After any sequence of linear operations bdlop_open accepts exactly the message
\* they lead to, up to what the factor annihilates, with short randomness; for
\* every ring, every shape of the key and every number of messages.
THEOREM OpeningExact == BdlopSpec => []OpensExactly
<1>1. BdlopInv => OpensExactly
  BY DEF BdlopInv
<1>2. QED
  BY <1>1, BdlopInvariant, PTL
-----------------------------------------------------------------------------
\* The recursive functions of Merkle: each takes one value more than it has.
LEMMA HalvedIs ==
  ASSUME NEW n \in Nat
  PROVE  /\ Halved(n, 0) = n
         /\ \A l \in Nat : Halved(n, l) \in Nat /\ Halved(n, l + 1) = Halved(n, l) \div 2
<1> DEFINE Def(fn, l) == [k \in 0 .. l |-> IF k = 0 THEN n ELSE fn[k - 1] \div 2]
           Eq(fn, l) == fn \in [0 .. l -> Nat] /\ fn = Def(fn, l)
           Has == {l \in Nat : \E fn : Eq(fn, l)}
<1>1. 0 \in Has
  <2>1. Eq([k \in 0 .. 0 |-> n], 0)
    OBVIOUS
  <2> QED BY <2>1
<1>2. ASSUME NEW l \in Nat, l \in Has PROVE l + 1 \in Has
  <2>1. PICK fn : Eq(fn, l)
    BY <1>2
  <2> DEFINE g == [k \in 0 .. l + 1 |-> IF k <= l THEN fn[k] ELSE fn[l] \div 2]
  <2>2. g \in [0 .. l + 1 -> Nat]
    BY <2>1
  <2>3. ASSUME NEW k \in 0 .. l + 1 PROVE g[k] = IF k = 0 THEN n ELSE g[k - 1] \div 2
    <3>1. CASE k = 0
      BY <2>1, <3>1
    <3>2. CASE k \in 1 .. l
      BY <2>1, <3>2
    <3>3. CASE k = l + 1
      BY <2>1, <3>3
    <3> QED BY <3>1, <3>2, <3>3
  <2>4. g = Def(g, l + 1)
    BY <2>3
  <2> HIDE DEF g
  <2> QED BY <2>2, <2>4, SMTT(30)
<1> HIDE DEF Has
<1>3. \A l \in Nat : \E fn : Eq(fn, l)
  <2> SUFFICES ASSUME NEW l \in Nat PROVE l \in Has
    BY DEF Has
  <2>1. 0 .. l \subseteq Has
    BY <1>1, <1>2, Induction
  <2> QED BY <2>1
<1> DEFINE p(l) == CHOOSE fn : fn = Def(fn, l)
<1>4. ASSUME NEW l \in Nat
      PROVE  p(l) = Def(p(l), l) /\ Halved(n, l) = p(l)[l]
  BY <1>3 DEF Halved
<1> HIDE DEF p
<1>5. ASSUME NEW l \in Nat PROVE \A k \in 0 .. l : p(l)[k] \in Nat /\ p(l + 1)[k] = p(l)[k]
  <2> DEFINE S == {k \in 0 .. l : p(l)[k] \in Nat /\ p(l + 1)[k] = p(l)[k]}
  <2> l + 1 \in Nat
    OBVIOUS
  <2>1. p(l) = Def(p(l), l) /\ p(l + 1) = Def(p(l + 1), l + 1)
    BY <1>4, Zenon
  <2>2. 0 \in S
    BY <2>1
  <2>3. ASSUME NEW k \in 0 .. l - 1, k \in S PROVE k + 1 \in S
    <3>1. k + 1 \in 0 .. l /\ k + 1 \in 0 .. l + 1 /\ k + 1 # 0 /\ k + 1 - 1 = k
      OBVIOUS
    <3>2. p(l)[k + 1] = p(l)[k] \div 2 /\ p(l + 1)[k + 1] = p(l + 1)[k] \div 2
      BY <2>1, <3>1
    <3> QED BY <2>3, <3>1, <3>2
  <2> HIDE DEF S
  <2>4. 0 .. l \subseteq S
    BY <2>2, <2>3, Induction
  <2> QED BY <2>4 DEF S
<1>6. Halved(n, 0) = n
  BY <1>4
<1>7. ASSUME NEW l \in Nat
      PROVE  Halved(n, l) \in Nat /\ Halved(n, l + 1) = Halved(n, l) \div 2
  <2>1. Halved(n, l) = p(l)[l] /\ p(l)[l] \in Nat /\ p(l + 1)[l] = p(l)[l]
    BY <1>4, <1>5
  <2>2. Halved(n, l + 1) = p(l + 1)[l + 1] /\ p(l + 1) = Def(p(l + 1), l + 1)
    BY <1>4
  <2>3. p(l + 1)[l + 1] = p(l + 1)[l] \div 2
    <3>1. l + 1 \in 0 .. l + 1 /\ l + 1 # 0 /\ l + 1 - 1 = l
      OBVIOUS
    <3> QED BY <2>2, <3>1
  <2> QED BY <2>1, <2>2, <2>3
<1> QED BY <1>6, <1>7

LEMMA OffsetIs ==
  Offset(0) = 0 /\ \A l \in Nat : Offset(l + 1) = Offset(l) + Width(l)
<1> DEFINE Def(fn, l) == [k \in 0 .. l |-> IF k = 0 THEN 0 ELSE fn[k - 1] + Width(k - 1)]
           Has == {l \in Nat : \E fn : fn = Def(fn, l)}
<1>1. 0 \in Has
  <2> DEFINE fn == [k \in 0 .. 0 |-> 0]
  <2>1. fn = Def(fn, 0)
    OBVIOUS
  <2> QED BY <2>1
<1>2. ASSUME NEW l \in Nat, l \in Has PROVE l + 1 \in Has
  <2>1. PICK fn : fn = Def(fn, l)
    BY <1>2
  <2> DEFINE g == [k \in 0 .. l + 1 |-> IF k <= l THEN fn[k] ELSE fn[l] + Width(l)]
  <2>2. ASSUME NEW k \in 0 .. l + 1
        PROVE  g[k] = IF k = 0 THEN 0 ELSE g[k - 1] + Width(k - 1)
    <3>1. CASE k = 0
      BY <2>1, <3>1
    <3>2. CASE k \in 1 .. l
      <4>1. k \in 0 .. l + 1 /\ k - 1 \in 0 .. l + 1 /\ k \in 0 .. l /\ k - 1 <= l /\ k <= l /\ k # 0
        BY <3>2
      <4>2. g[k] = fn[k] /\ g[k - 1] = fn[k - 1]
        BY <4>1
      <4>3. fn[k] = fn[k - 1] + Width(k - 1)
        BY <2>1, <4>1
      <4> HIDE DEF g
      <4> QED BY <4>1, <4>2, <4>3
    <3>3. CASE k = l + 1
      <4>1. k - 1 = l /\ k # 0 /\ l \in 0 .. l + 1 /\ ~(k <= l) /\ l <= l
        BY <3>3
      <4>2. g[l] = fn[l] /\ g[k] = fn[l] + Width(l)
        BY <4>1
      <4> HIDE DEF g
      <4> QED BY <4>1, <4>2
    <3> QED BY <3>1, <3>2, <3>3
  <2>3. g = Def(g, l + 1)
    BY <2>2
  <2> HIDE DEF g
  <2> QED BY <2>3
<1> HIDE DEF Has
<1>3. \A l \in Nat : \E fn : fn = Def(fn, l)
  <2> SUFFICES ASSUME NEW l \in Nat PROVE l \in Has
    BY DEF Has
  <2>1. 0 .. l \subseteq Has
    BY <1>1, <1>2, Induction
  <2> QED BY <2>1
<1> DEFINE p(l) == CHOOSE fn : fn = Def(fn, l)
<1>4. ASSUME NEW l \in Nat
      PROVE  p(l) = Def(p(l), l) /\ Offset(l) = p(l)[l]
  BY <1>3 DEF Offset
<1> HIDE DEF p
<1>5. ASSUME NEW l \in Nat PROVE \A k \in 0 .. l : p(l + 1)[k] = p(l)[k]
  <2> DEFINE S == {k \in 0 .. l : p(l + 1)[k] = p(l)[k]}
  <2> l + 1 \in Nat
    OBVIOUS
  <2>1. p(l) = Def(p(l), l) /\ p(l + 1) = Def(p(l + 1), l + 1)
    BY <1>4, Zenon
  <2>2. 0 \in S
    BY <2>1
  <2>3. ASSUME NEW k \in 0 .. l - 1, k \in S PROVE k + 1 \in S
    <3>1. k + 1 \in 0 .. l /\ k + 1 \in 0 .. l + 1 /\ k + 1 # 0 /\ k + 1 - 1 = k
      OBVIOUS
    <3>2. /\ p(l)[k + 1] = p(l)[k] + Width(k)
          /\ p(l + 1)[k + 1] = p(l + 1)[k] + Width(k)
      BY <2>1, <3>1
    <3> QED BY <2>3, <3>1, <3>2
  <2> HIDE DEF S
  <2>4. 0 .. l \subseteq S
    BY <2>2, <2>3, Induction
  <2> QED BY <2>4 DEF S
<1>6. Offset(0) = 0
  BY <1>4
<1>7. ASSUME NEW l \in Nat PROVE Offset(l + 1) = Offset(l) + Width(l)
  <2>1. Offset(l) = p(l)[l] /\ p(l + 1)[l] = p(l)[l]
    BY <1>4, <1>5
  <2>2. Offset(l + 1) = p(l + 1)[l + 1] /\ p(l + 1) = Def(p(l + 1), l + 1)
    BY <1>4
  <2>3. p(l + 1)[l + 1] = p(l + 1)[l] + Width(l)
    <3>1. l + 1 \in 0 .. l + 1 /\ l + 1 # 0 /\ l + 1 - 1 = l
      OBVIOUS
    <3> QED BY <2>2, <3>1
  <2> QED BY <2>1, <2>2, <2>3
<1> QED BY <1>6, <1>7

LEMMA LevelIs ==
  ASSUME NEW columns
  PROVE  /\ LevelHashes(columns, 0) = [i \in Columns |-> aex_hash_column(columns[i])]
         /\ \A l \in Nat : LevelHashes(columns, l + 1) = Parents(LevelHashes(columns, l), l + 1)
<1> DEFINE Def(fn, l) ==
             [k \in 0 .. l |->
                IF k = 0 THEN [i \in Columns |-> aex_hash_column(columns[i])]
                ELSE Parents(fn[k - 1], k)]
           Has == {l \in Nat : \E fn : fn = Def(fn, l)}
<1>1. 0 \in Has
  <2> DEFINE fn == [k \in 0 .. 0 |-> [i \in Columns |-> aex_hash_column(columns[i])]]
  <2>1. fn = Def(fn, 0)
    OBVIOUS
  <2> QED BY <2>1
<1>2. ASSUME NEW l \in Nat, l \in Has PROVE l + 1 \in Has
  <2>1. PICK fn : fn = Def(fn, l)
    BY <1>2
  <2> DEFINE g == [k \in 0 .. l + 1 |-> IF k <= l THEN fn[k] ELSE Parents(fn[l], k)]
  <2>2. ASSUME NEW k \in 0 .. l + 1
        PROVE  g[k] = IF k = 0 THEN [i \in Columns |-> aex_hash_column(columns[i])] ELSE Parents(g[k - 1], k)
    <3>1. CASE k = 0
      BY <2>1, <3>1
    <3>2. CASE k \in 1 .. l
      <4>1. k \in 0 .. l + 1 /\ k - 1 \in 0 .. l + 1 /\ k \in 0 .. l /\ k - 1 <= l /\ k <= l /\ k # 0
        BY <3>2
      <4>2. g[k] = fn[k] /\ g[k - 1] = fn[k - 1]
        BY <4>1
      <4>3. fn[k] = Parents(fn[k - 1], k)
        BY <2>1, <4>1
      <4> HIDE DEF g
      <4> QED BY <4>1, <4>2, <4>3
    <3>3. CASE k = l + 1
      <4>1. k - 1 = l /\ k # 0 /\ l \in 0 .. l + 1 /\ ~(k <= l) /\ l <= l
        BY <3>3
      <4>2. g[l] = fn[l] /\ g[k] = Parents(fn[l], k)
        BY <4>1
      <4> HIDE DEF g
      <4> QED BY <4>1, <4>2
    <3> QED BY <3>1, <3>2, <3>3
  <2>3. g = Def(g, l + 1)
    BY <2>2
  <2> HIDE DEF g
  <2> QED BY <2>3
<1> HIDE DEF Has
<1>3. \A l \in Nat : \E fn : fn = Def(fn, l)
  <2> SUFFICES ASSUME NEW l \in Nat PROVE l \in Has
    BY DEF Has
  <2>1. 0 .. l \subseteq Has
    BY <1>1, <1>2, Induction
  <2> QED BY <2>1
<1> DEFINE p(l) == CHOOSE fn : fn = Def(fn, l)
<1>4. ASSUME NEW l \in Nat
      PROVE  p(l) = Def(p(l), l) /\ LevelHashes(columns, l) = p(l)[l]
  BY <1>3 DEF LevelHashes
<1> HIDE DEF p
<1>5. ASSUME NEW l \in Nat PROVE \A k \in 0 .. l : p(l + 1)[k] = p(l)[k]
  <2> DEFINE S == {k \in 0 .. l : p(l + 1)[k] = p(l)[k]}
  <2> l + 1 \in Nat
    OBVIOUS
  <2>1. p(l) = Def(p(l), l) /\ p(l + 1) = Def(p(l + 1), l + 1)
    BY <1>4, Zenon
  <2>2. 0 \in S
    BY <2>1
  <2>3. ASSUME NEW k \in 0 .. l - 1, k \in S PROVE k + 1 \in S
    <3>1. k + 1 \in 0 .. l /\ k + 1 \in 0 .. l + 1 /\ k + 1 # 0 /\ k + 1 - 1 = k
      OBVIOUS
    <3>2. /\ p(l)[k + 1] = Parents(p(l)[k], k + 1)
          /\ p(l + 1)[k + 1] = Parents(p(l + 1)[k], k + 1)
      BY <2>1, <3>1
    <3> QED BY <2>3, <3>1, <3>2
  <2> HIDE DEF S
  <2>4. 0 .. l \subseteq S
    BY <2>2, <2>3, Induction
  <2> QED BY <2>4 DEF S
<1>6. LevelHashes(columns, 0) = [i \in Columns |-> aex_hash_column(columns[i])]
  BY <1>4
<1>7. ASSUME NEW l \in Nat PROVE LevelHashes(columns, l + 1) = Parents(LevelHashes(columns, l), l + 1)
  <2>1. LevelHashes(columns, l) = p(l)[l] /\ p(l + 1)[l] = p(l)[l]
    BY <1>4, <1>5
  <2>2. LevelHashes(columns, l + 1) = p(l + 1)[l + 1] /\ p(l + 1) = Def(p(l + 1), l + 1)
    BY <1>4
  <2>3. p(l + 1)[l + 1] = Parents(p(l + 1)[l], l + 1)
    <3>1. l + 1 \in 0 .. l + 1 /\ l + 1 # 0 /\ l + 1 - 1 = l
      OBVIOUS
    <3> QED BY <2>2, <3>1
  <2> QED BY <2>1, <2>2, <2>3
<1> QED BY <1>6, <1>7

LEMMA RecomputedIs ==
  ASSUME NEW col, NEW path, NEW c
  PROVE  /\ Recomputed(col, path, c, 0) = aex_hash_column(col)
         /\ \A l \in Nat :
              Recomputed(col, path, c, l + 1) = Join(Recomputed(col, path, c, l), path[l], c, l)
<1> DEFINE Def(fn, l) ==
             [k \in 0 .. l |->
                IF k = 0 THEN aex_hash_column(col) ELSE Join(fn[k - 1], path[k - 1], c, k - 1)]
           Has == {l \in Nat : \E fn : fn = Def(fn, l)}
<1>1. 0 \in Has
  <2> DEFINE fn == [k \in 0 .. 0 |-> aex_hash_column(col)]
  <2>1. fn = Def(fn, 0)
    OBVIOUS
  <2> QED BY <2>1
<1>2. ASSUME NEW l \in Nat, l \in Has PROVE l + 1 \in Has
  <2>1. PICK fn : fn = Def(fn, l)
    BY <1>2
  <2> DEFINE g == [k \in 0 .. l + 1 |-> IF k <= l THEN fn[k] ELSE Join(fn[l], path[l], c, l)]
  <2>2. ASSUME NEW k \in 0 .. l + 1
        PROVE  g[k] = IF k = 0 THEN aex_hash_column(col) ELSE Join(g[k - 1], path[k - 1], c, k - 1)
    <3>1. CASE k = 0
      BY <2>1, <3>1
    <3>2. CASE k \in 1 .. l
      <4>1. k \in 0 .. l + 1 /\ k - 1 \in 0 .. l + 1 /\ k \in 0 .. l /\ k - 1 <= l /\ k <= l /\ k # 0
        BY <3>2
      <4>2. g[k] = fn[k] /\ g[k - 1] = fn[k - 1]
        BY <4>1
      <4>3. fn[k] = Join(fn[k - 1], path[k - 1], c, k - 1)
        BY <2>1, <4>1
      <4> HIDE DEF g
      <4> QED BY <4>1, <4>2, <4>3
    <3>3. CASE k = l + 1
      <4>1. k - 1 = l /\ k # 0 /\ l \in 0 .. l + 1 /\ ~(k <= l) /\ l <= l
        BY <3>3
      <4>2. g[l] = fn[l] /\ g[k] = Join(fn[l], path[l], c, l)
        BY <4>1
      <4> HIDE DEF g
      <4> QED BY <4>1, <4>2
    <3> QED BY <3>1, <3>2, <3>3
  <2>3. g = Def(g, l + 1)
    BY <2>2
  <2> HIDE DEF g
  <2> QED BY <2>3
<1> HIDE DEF Has
<1>3. \A l \in Nat : \E fn : fn = Def(fn, l)
  <2> SUFFICES ASSUME NEW l \in Nat PROVE l \in Has
    BY DEF Has
  <2>1. 0 .. l \subseteq Has
    BY <1>1, <1>2, Induction
  <2> QED BY <2>1
<1> DEFINE p(l) == CHOOSE fn : fn = Def(fn, l)
<1>4. ASSUME NEW l \in Nat
      PROVE  p(l) = Def(p(l), l) /\ Recomputed(col, path, c, l) = p(l)[l]
  BY <1>3 DEF Recomputed
<1> HIDE DEF p
<1>5. ASSUME NEW l \in Nat PROVE \A k \in 0 .. l : p(l + 1)[k] = p(l)[k]
  <2> DEFINE S == {k \in 0 .. l : p(l + 1)[k] = p(l)[k]}
  <2> l + 1 \in Nat
    OBVIOUS
  <2>1. p(l) = Def(p(l), l) /\ p(l + 1) = Def(p(l + 1), l + 1)
    BY <1>4, Zenon
  <2>2. 0 \in S
    BY <2>1
  <2>3. ASSUME NEW k \in 0 .. l - 1, k \in S PROVE k + 1 \in S
    <3>1. k + 1 \in 0 .. l /\ k + 1 \in 0 .. l + 1 /\ k + 1 # 0 /\ k + 1 - 1 = k
      OBVIOUS
    <3>2. /\ p(l)[k + 1] = Join(p(l)[k], path[k], c, k)
          /\ p(l + 1)[k + 1] = Join(p(l + 1)[k], path[k], c, k)
      BY <2>1, <3>1
    <3> QED BY <2>3, <3>1, <3>2
  <2> HIDE DEF S
  <2>4. 0 .. l \subseteq S
    BY <2>2, <2>3, Induction
  <2> QED BY <2>4 DEF S
<1>6. Recomputed(col, path, c, 0) = aex_hash_column(col)
  BY <1>4
<1>7. ASSUME NEW l \in Nat
      PROVE  Recomputed(col, path, c, l + 1) = Join(Recomputed(col, path, c, l), path[l], c, l)
  <2>1. Recomputed(col, path, c, l) = p(l)[l] /\ p(l + 1)[l] = p(l)[l]
    BY <1>4, <1>5
  <2>2. Recomputed(col, path, c, l + 1) = p(l + 1)[l + 1] /\ p(l + 1) = Def(p(l + 1), l + 1)
    BY <1>4
  <2>3. p(l + 1)[l + 1] = Join(p(l + 1)[l], path[l], c, l)
    <3>1. l + 1 \in 0 .. l + 1 /\ l + 1 # 0 /\ l + 1 - 1 = l
      OBVIOUS
    <3> QED BY <2>2, <3>1
  <2> QED BY <2>1, <2>2, <2>3
<1> QED BY <1>6, <1>7
-----------------------------------------------------------------------------
\* The shape of the tree: level l has twice the nodes of the next, and the
\* path of a leaf stays in the levels.
LEMMA LevelsHalve ==
  /\ Depth \in Nat /\ Width(Depth) = 1 /\ Width(0) = AEX_COLS
  /\ \A l \in 0 .. Depth : Width(l) \in Nat \ {0}
  /\ \A l \in 0 .. Depth - 1 : Width(l) = 2 * Width(l + 1)
<1>1. Depth \in 0 .. AEX_COLS /\ IsTop(Depth) /\ AEX_COLS \in Nat
  BY ColsAssumption DEF Depth
<1>2. Depth \in Nat /\ Width(Depth) = 1 /\ \A l \in 0 .. Depth - 1 : Width(l) % 2 = 0
  BY <1>1 DEF IsTop
<1>3. Width(0) = AEX_COLS /\ \A l \in Nat : Width(l) \in Nat /\ Width(l + 1) = Width(l) \div 2
  BY <1>1, HalvedIs DEF Width
<1>4. ASSUME NEW l \in 0 .. Depth - 1 PROVE Width(l) = 2 * Width(l + 1)
  <2>1. Width(l) \in Nat /\ Width(l) % 2 = 0 /\ Width(l + 1) = Width(l) \div 2
    BY <1>2, <1>3
  <2> QED BY <2>1
<1> DEFINE S == {k \in 0 .. Depth : Width(Depth - k) # 0}
<1>5. 0 \in S
  BY <1>2
<1>6. ASSUME NEW k \in 0 .. Depth - 1, k \in S PROVE k + 1 \in S
  <2>1. Depth - (k + 1) \in 0 .. Depth - 1 /\ Depth - (k + 1) + 1 = Depth - k
    BY <1>2
  <2>2. Width(Depth - (k + 1)) = 2 * Width(Depth - k)
    BY <1>4, <2>1
  <2>3. Width(Depth - k) \in Nat /\ Width(Depth - k) # 0
    BY <1>2, <1>3, <1>6
  <2> QED BY <1>2, <2>2, <2>3
<1> HIDE DEF S
<1>7. 0 .. Depth \subseteq S
  BY <1>2, <1>5, <1>6, Induction
<1>8. ASSUME NEW l \in 0 .. Depth PROVE Width(l) \in Nat \ {0}
  <2>1. Depth - l \in S /\ Depth - (Depth - l) = l
    BY <1>2, <1>7
  <2> QED BY <1>2, <1>3, <2>1 DEF S
<1> QED BY <1>2, <1>3, <1>4, <1>8

LEMMA PathInLevels ==
  ASSUME NEW c \in Columns
  PROVE  /\ Halved(c, 0) = c
         /\ \A l \in 0 .. Depth : Halved(c, l) \in 0 .. Width(l) - 1
         /\ \A l \in 0 .. Depth - 1 : Halved(c, l + 1) = Halved(c, l) \div 2
<1>1. c \in Nat /\ Depth \in Nat
  BY LevelsHalve, ColsAssumption DEF Columns
<1>2. Halved(c, 0) = c /\ \A l \in Nat : Halved(c, l) \in Nat /\ Halved(c, l + 1) = Halved(c, l) \div 2
  BY <1>1, HalvedIs
<1> DEFINE S == {l \in 0 .. Depth : Halved(c, l) \in 0 .. Width(l) - 1}
<1>3. 0 \in S
  BY <1>1, <1>2, LevelsHalve DEF Columns
<1>4. ASSUME NEW l \in 0 .. Depth - 1, l \in S PROVE l + 1 \in S
  <2>1. Width(l) = 2 * Width(l + 1) /\ Width(l + 1) \in Nat /\ Halved(c, l) \in 0 .. Width(l) - 1
    BY <1>1, <1>4, LevelsHalve
  <2>2. Halved(c, l + 1) = Halved(c, l) \div 2
    BY <1>1, <1>2
  <2>3. Halved(c, l + 1) \in 0 .. Width(l + 1) - 1
    BY <2>1, <2>2
  <2> QED BY <1>1, <2>3
<1> HIDE DEF S
<1>5. 0 .. Depth \subseteq S
  BY <1>1, <1>3, <1>4, Induction
<1>6. \A l \in 0 .. Depth - 1 : Halved(c, l + 1) = Halved(c, l) \div 2
  BY <1>1, <1>2
<1> QED BY <1>2, <1>5, <1>6 DEF S

\* The levels follow one another in the array.
LEMMA LevelsApart ==
  /\ \A l \in 0 .. Depth : Offset(l) \in Nat
  /\ \A l, u \in 0 .. Depth : l < u => Offset(l) + Width(l) <= Offset(u)
<1>1. Depth \in Nat /\ \A l \in 0 .. Depth : Width(l) \in Nat \ {0}
  BY LevelsHalve
<1>2. Offset(0) = 0 /\ \A l \in 0 .. Depth : Offset(l + 1) = Offset(l) + Width(l)
  BY <1>1, OffsetIs
<1> DEFINE S == {u \in 0 .. Depth : /\ Offset(u) \in Nat
                                   /\ \A l \in 0 .. u - 1 : Offset(l) + Width(l) <= Offset(u)}
           Placed == {l \in 0 .. Depth : Offset(l) \in Nat}
<1>3. 0 \in Placed
  BY <1>1, <1>2
<1>4. ASSUME NEW l \in 0 .. Depth - 1, l \in Placed PROVE l + 1 \in Placed
  <2>1. Offset(l + 1) = Offset(l) + Width(l) /\ Offset(l) \in Nat /\ Width(l) \in Nat
    BY <1>1, <1>2, <1>4
  <2> QED BY <1>1, <2>1
<1> HIDE DEF Placed
<1>5. 0 .. Depth \subseteq Placed
  BY <1>1, <1>3, <1>4, Induction
<1>6. \A l \in 0 .. Depth : Offset(l) \in Nat
  BY <1>5 DEF Placed
<1>7. 0 \in S
  BY <1>1, <1>6
<1>8. ASSUME NEW u \in 0 .. Depth - 1, u \in S PROVE u + 1 \in S
  <2>1. u \in 0 .. Depth /\ u + 1 \in 0 .. Depth /\ Offset(u) \in Nat /\ Width(u) \in Nat
    BY <1>1, <1>6
  <2>2. Offset(u + 1) = Offset(u) + Width(u)
    BY <1>2, <2>1
  <2>3. ASSUME NEW l \in 0 .. u + 1 - 1 PROVE Offset(l) + Width(l) <= Offset(u + 1)
    <3>1. CASE l = u
      BY <2>1, <2>2, <3>1
    <3>2. CASE l \in 0 .. u - 1
      <4>1. Offset(l) + Width(l) <= Offset(u) /\ Offset(l) \in Nat /\ Width(l) \in Nat
        BY <1>1, <1>6, <1>8, <3>2
      <4> QED BY <2>1, <2>2, <4>1
    <3> QED BY <3>1, <3>2
  <2>4. Offset(u + 1) \in Nat
    BY <1>6, <2>1
  <2> QED BY <2>1, <2>3, <2>4
<1> HIDE DEF S
<1>9. 0 .. Depth \subseteq S
  BY <1>1, <1>7, <1>8, Induction
<1>10. ASSUME NEW l \in 0 .. Depth, NEW u \in 0 .. Depth, l < u
       PROVE  Offset(l) + Width(l) <= Offset(u)
  <2>1. u \in S /\ l \in 0 .. u - 1
    BY <1>1, <1>9, <1>10
  <2> QED BY <2>1 DEF S
<1> QED BY <1>6, <1>10

\* The array holds node i of level l where the level's nodes begin.
LEMMA NodeAt ==
  ASSUME NEW columns, NEW l \in 0 .. Depth, NEW i \in 0 .. Width(l) - 1
  PROVE  aex_tree_build(columns)[Offset(l) + i] = LevelHashes(columns, l)[i]
<1>1. Depth \in Nat /\ Width(Depth) = 1 /\ \A k \in 0 .. Depth : Width(k) \in Nat /\ Offset(k) \in Nat
  BY LevelsHalve, LevelsApart
<1>2. Depth \in 0 .. Depth /\ Offset(l) \in Nat /\ Width(l) \in Nat /\ Offset(Depth) \in Nat
  BY <1>1
<1> DEFINE x == Offset(l) + i
<1>3. x \in 0 .. aex_tree_nodes - 1
  <2>1. CASE l = Depth
    BY <1>1, <1>2, <2>1 DEF aex_tree_nodes
  <2>2. CASE l < Depth
    <3>1. Offset(l) + Width(l) <= Offset(Depth)
      BY <1>2, <2>2, LevelsApart
    <3> QED BY <1>2, <3>1 DEF aex_tree_nodes
  <2> QED BY <1>1, <2>1, <2>2
<1>4. x - Offset(l) = i
  BY <1>2
<1>5. ASSUME NEW k \in 0 .. Depth, x - Offset(k) \in 0 .. Width(k) - 1
      PROVE  k = l
  <2>1. Offset(k) \in Nat /\ Width(k) \in Nat
    BY <1>1
  <2>2. ~(k < l)
    <3> SUFFICES ASSUME k < l PROVE FALSE
      OBVIOUS
    <3>1. Offset(k) + Width(k) <= Offset(l)
      BY LevelsApart
    <3> QED BY <1>2, <1>5, <2>1, <3>1
  <2>3. ~(l < k)
    <3> SUFFICES ASSUME l < k PROVE FALSE
      OBVIOUS
    <3>1. Offset(l) + Width(l) <= Offset(k)
      BY LevelsApart
    <3> QED BY <1>2, <1>5, <2>1, <3>1
  <2> QED BY <1>1, <2>2, <2>3
<1> HIDE DEF x
<1>6. LevelOf(x) = l
  BY <1>4, <1>5 DEF LevelOf
<1>7. aex_tree_build(columns)[x] = LevelHashes(columns, LevelOf(x))[x - Offset(LevelOf(x))]
  BY <1>3 DEF aex_tree_build
<1> QED BY <1>4, <1>6, <1>7 DEF x
-----------------------------------------------------------------------------
\* What hash i of level l and its sibling are joined to is the hash above them.
LEMMA JoinedAbove ==
  ASSUME NEW columns, NEW c \in Columns, NEW l \in 0 .. Depth - 1
  PROVE  LET i == Halved(c, l)
             below == LevelHashes(columns, l)
         IN  /\ i \in 0 .. Width(l) - 1 /\ Sibling(i) \in 0 .. Width(l) - 1
             /\ LevelHashes(columns, l + 1)[Halved(c, l + 1)]
                   = Join(below[i], below[Sibling(i)], c, l)
<1> DEFINE i == Halved(c, l)
           j == Halved(c, l + 1)
           below == LevelHashes(columns, l)
<1>1. Depth \in Nat /\ l \in Nat /\ l \in 0 .. Depth /\ l + 1 \in 0 .. Depth
  BY LevelsHalve
<1>2. Width(l) = 2 * Width(l + 1) /\ Width(l + 1) \in Nat
  BY <1>1, LevelsHalve
<1>3. i \in 0 .. Width(l) - 1 /\ j \in 0 .. Width(l + 1) - 1 /\ j = i \div 2
  BY <1>1, PathInLevels
<1>4. LevelHashes(columns, l + 1) = Parents(below, l + 1)
  BY <1>1, LevelIs
<1> HIDE DEF i, j, below
<1>5. LevelHashes(columns, l + 1)[j] = aex_node(below[2 * j], below[2 * j + 1])
  BY <1>3, <1>4 DEF Parents
<1>6. Sibling(i) \in 0 .. Width(l) - 1
  BY <1>2, <1>3 DEF Sibling
<1>7. CASE i % 2 = 1
  <2>1. 2 * j = Sibling(i) /\ 2 * j + 1 = i
    BY <1>2, <1>3, <1>7 DEF Sibling
  <2>2. Join(below[i], below[Sibling(i)], c, l) = aex_node(below[Sibling(i)], below[i])
    BY <1>7 DEF Join, i
  <2> QED BY <1>3, <1>5, <1>6, <2>1, <2>2 DEF i, j, below
<1>8. CASE i % 2 # 1
  <2>1. 2 * j = i /\ 2 * j + 1 = Sibling(i)
    BY <1>2, <1>3, <1>8 DEF Sibling
  <2>2. Join(below[i], below[Sibling(i)], c, l) = aex_node(below[i], below[Sibling(i)])
    BY <1>8 DEF Join, i
  <2> QED BY <1>3, <1>5, <1>6, <2>1, <2>2 DEF i, j, below
<1> QED BY <1>7, <1>8

\* The path of a leaf holds the siblings on its way up; the way ends at the root.
LEMMA PathIs ==
  ASSUME NEW columns, NEW c \in Columns
  PROVE  /\ \A l \in 0 .. Depth - 1 :
              aex_path(aex_tree_build(columns), c)[l]
                = LevelHashes(columns, l)[Sibling(Halved(c, l))]
         /\ aex_tree_root(aex_tree_build(columns))
              = LevelHashes(columns, Depth)[Halved(c, Depth)]
<1>1. Depth \in Nat /\ Width(Depth) = 1 /\ Depth \in 0 .. Depth /\ Offset(Depth) \in Nat
  BY LevelsHalve, LevelsApart
<1>2. ASSUME NEW l \in 0 .. Depth - 1
      PROVE  aex_path(aex_tree_build(columns), c)[l]
               = LevelHashes(columns, l)[Sibling(Halved(c, l))]
  <2>1. l \in 0 .. Depth /\ Sibling(Halved(c, l)) \in 0 .. Width(l) - 1
    BY <1>1, JoinedAbove
  <2>2. aex_tree_build(columns)[Offset(l) + Sibling(Halved(c, l))]
          = LevelHashes(columns, l)[Sibling(Halved(c, l))]
    BY <2>1, NodeAt
  <2> QED BY <2>2 DEF aex_path
<1>3. Halved(c, Depth) = 0 /\ 0 \in 0 .. Width(Depth) - 1
  BY <1>1, PathInLevels
<1>4. aex_tree_build(columns)[Offset(Depth) + 0] = LevelHashes(columns, Depth)[0]
  BY <1>1, <1>3, NodeAt
<1>5. aex_tree_nodes - 1 = Offset(Depth) + 0
  BY <1>1 DEF aex_tree_nodes
<1> QED BY <1>2, <1>3, <1>4, <1>5 DEF aex_tree_root

LEMMA JoinsAgree ==
  ASSUME NEW a, NEW b, NEW x, NEW y, NEW c, NEW l
  PROVE  Join(a, x, c, l) = Join(b, y, c, l) <=> a = b /\ x = y
BY DEF Join, aex_node

\* "the column only opens at the index it was committed to" (pismall.cpp:1756),
\* for every number of columns: whatever column and path are presented for an
\* index, the root is recomputed from exactly the committed ones.
THEOREM PathBinds ==
  ASSUME NEW columns, NEW c \in Columns, NEW col, NEW path
  PROVE  LET built == aex_tree_build(columns)
             own == aex_path(built, c)
         IN  aex_path_verify(col, path, c, aex_tree_root(built)) <=>
               col = columns[c] /\ \A l \in 0 .. Depth - 1 : path[l] = own[l]
<1> DEFINE H(l) == LevelHashes(columns, l)[Halved(c, l)]
           G(l) == LevelHashes(columns, l)[Sibling(Halved(c, l))]
           acc(l) == Recomputed(col, path, c, l)
           own == aex_path(aex_tree_build(columns), c)
<1>1. Depth \in Nat /\ c \in Nat /\ Halved(c, 0) = c
  BY LevelsHalve, PathInLevels, ColsAssumption DEF Columns
<1>2. H(0) = aex_hash_column(columns[c]) /\ acc(0) = aex_hash_column(col)
  BY <1>1, LevelIs, RecomputedIs
<1>3. ASSUME NEW l \in 0 .. Depth - 1
      PROVE  H(l + 1) = Join(H(l), G(l), c, l) /\ acc(l + 1) = Join(acc(l), path[l], c, l)
  <2>1. H(l + 1) = Join(H(l), G(l), c, l)
    BY JoinedAbove
  <2>2. l \in Nat
    BY <1>1
  <2>3. acc(l + 1) = Join(acc(l), path[l], c, l)
    BY <2>2, RecomputedIs, Zenon
  <2> QED BY <2>1, <2>3
<1>4. \A l \in 0 .. Depth - 1 : own[l] = G(l)
  BY PathIs
<1>5. aex_path_verify(col, path, c, aex_tree_root(aex_tree_build(columns))) <=> acc(Depth) = H(Depth)
  BY PathIs DEF aex_path_verify
<1>6. acc(0) = H(0) <=> col = columns[c]
  BY <1>2 DEF aex_hash_column
<1> HIDE DEF H, G, acc, own
<1> DEFINE Same(l) == acc(0) = H(0) /\ \A k \in 0 .. l - 1 : path[k] = G(k)
           S == {l \in 0 .. Depth : acc(l) = H(l) <=> Same(l)}
<1>7. 0 \in S
  BY <1>1
<1>8. ASSUME NEW l \in 0 .. Depth - 1, l \in S PROVE l + 1 \in S
  <2>1. acc(l + 1) = H(l + 1) <=> acc(l) = H(l) /\ path[l] = G(l)
    BY <1>3, JoinsAgree
  <2>2. 0 .. l + 1 - 1 = (0 .. l - 1) \cup {l} /\ l + 1 \in 0 .. Depth
    BY <1>1
  <2>3. Same(l + 1) <=> Same(l) /\ path[l] = G(l)
    BY <2>2
  <2> QED BY <1>8, <2>1, <2>2, <2>3
<1> HIDE DEF S
<1>9. 0 .. Depth \subseteq S
  BY <1>1, <1>7, <1>8, Induction
<1>10. acc(Depth) = H(Depth) <=> Same(Depth)
  BY <1>1, <1>9 DEF S
<1> QED BY <1>4, <1>5, <1>6, <1>10 DEF own
-----------------------------------------------------------------------------
\* What the prover has committed to, and when the opening is set.
CommittedColumns == [c \in Columns |-> aex_column(c)]
Verifying == {"sent", "relation", "openings", "identities", "verdict"}

\* The verifier comes to the prover's challenge, since it asks the same; whether
\* its inversion succeeds decides for both, the prover's opening and the
\* verifier's way past the first check.
AexInv ==
  /\ pc \in Phases
  /\ {"root", "set"} \subseteq DOMAIN o
  /\ ~unset_read
  /\ asked[2] \in Challenges \cup {NoChallenge}
  /\ pc \in {"extract", "commit", "respond", "open"} => ~o.set
  /\ pc \in {"respond", "open"} \cup Verifying => asked[1] = <<o.root, com_d>>
  /\ pc \in {"respond", "open"} =>
       tree = aex_tree_build(CommittedColumns) /\ o.root = aex_tree_root(tree)
  /\ pc = "open" => LagrangeOk(asked[2].x)
  /\ pc \in Verifying => (o.set <=> LagrangeOk(asked[2].x))
  /\ pc \in {"relation", "openings", "identities"} => o.set
  /\ pc = "verdict" /\ ~o.set => ~result

LEMMA InitAexInv == Init => AexInv
BY DEF Init, AexInv, NoOpening, Phases, Verifying

LEMMA ExtractionKeeps == ASSUME AexInv, Extraction \/ Encode PROVE AexInv'
BY DEF AexInv, Extraction, Encode, sent, recomputed, rows, Phases, Verifying

LEMMA CommitRowsKeeps == ASSUME AexInv, CommitRows PROVE AexInv'
<1>1. PICK ch \in Challenges : asked' = << <<o'.root, com_d>>, ch >>
  BY DEF CommitRows
<1>2. /\ pc = "commit" /\ pc' = "respond" /\ com_d' = com_d /\ unset_read' = unset_read
      /\ tree' = aex_tree_build(CommittedColumns)
      /\ o' = [o EXCEPT !.root = aex_tree_root(tree')]
  BY DEF CommitRows, CommittedColumns
<1>3. CommittedColumns' = CommittedColumns
  <2>1. codeH' = codeH /\ codeH0' = codeH0 /\ codeHij' = codeHij
    BY DEF CommitRows
  <2> QED BY <2>1 DEF CommittedColumns, aex_column, aex_row
<1>4. o'.root = aex_tree_root(tree') /\ o'.set = o.set /\ {"root", "set"} \subseteq DOMAIN o'
  BY <1>2 DEF AexInv
<1>5. asked'[1] = <<o'.root, com_d'>> /\ asked'[2] \in Challenges
  BY <1>1, <1>2
<1> QED BY <1>2, <1>3, <1>4, <1>5 DEF AexInv, Phases, Verifying

LEMMA RespondKeeps == ASSUME AexInv, Respond PROVE AexInv'
<1>1. /\ pc = "respond" /\ o' = o /\ asked' = asked /\ com_d' = com_d /\ tree' = tree
      /\ unset_read' = unset_read /\ CommittedColumns' = CommittedColumns
  BY DEF Respond, rows, CommittedColumns, aex_column, aex_row
<1>2. CASE ~LagrangeOk(asked[2].x)
  <2>1. pc' = "sent"
    BY <1>2 DEF Respond, RespondTo
  <2> QED BY <1>1, <1>2, <2>1 DEF AexInv, Phases, Verifying
<1>3. CASE LagrangeOk(asked[2].x)
  <2>1. pc' = "open"
    BY <1>3 DEF Respond, RespondTo
  <2> QED BY <1>1, <1>3, <2>1 DEF AexInv, Phases, Verifying
<1> QED BY <1>2, <1>3

LEMMA OpenKeeps == ASSUME AexInv, Open PROVE AexInv'
<1>1. /\ pc = "open" /\ pc' = "sent" /\ asked' = asked /\ com_d' = com_d
      /\ unset_read' = unset_read
  BY DEF Open
<1>2. PICK I \in ColumnSets :
        o' = [o EXCEPT !.I = I, !.set = TRUE, !.col = [n \in Opens |-> aex_column(I[n])],
                       !.path = [n \in Opens |-> aex_path(tree, I[n])]]
  BY DEF Open
<1>3. o'.set = TRUE /\ o'.root = o.root /\ {"root", "set"} \subseteq DOMAIN o'
  BY <1>2 DEF AexInv
<1> QED BY <1>1, <1>3 DEF AexInv, Phases, Verifying

LEMMA RehashKeeps == ASSUME AexInv, Rehash PROVE AexInv'
<1>1. /\ pc = "sent" /\ o' = o /\ asked' = asked /\ com_d' = com_d
      /\ unset_read' = unset_read
  BY DEF Rehash, rows, sent
<1>2. asked[1] = <<o.root, com_d>> /\ (o.set <=> LagrangeOk(asked[2].x))
  BY <1>1 DEF AexInv, Verifying
<1>3. Challenge(asked[2])
  BY <1>2 DEF Rehash
<1>4. CASE LagrangeOk(asked[2].x)
  <2>1. pc' = "relation"
    BY <1>3, <1>4 DEF Challenge
  <2> QED BY <1>1, <1>2, <1>4, <2>1 DEF AexInv, Phases, Verifying
<1>5. CASE ~LagrangeOk(asked[2].x)
  <2>1. pc' = "verdict" /\ ~result'
    BY <1>3, <1>5 DEF Challenge
  <2> QED BY <1>1, <1>2, <1>5, <2>1 DEF AexInv, Phases, Verifying
<1> QED BY <1>4, <1>5

LEMMA VerifyKeeps ==
  ASSUME AexInv, VerifyRelation \/ VerifyOpenings \/ VerifyIdentities \/ VerifyAgain
  PROVE  AexInv'
<1>1. o' = o /\ asked' = asked /\ com_d' = com_d
  BY DEF VerifyRelation, VerifyOpenings, VerifyIdentities, VerifyAgain, rows, sent
<1>2. CASE VerifyRelation
  <2>1. pc = "relation" /\ pc' \in {"openings", "verdict"} /\ unset_read' = unset_read
    BY <1>2 DEF VerifyRelation
  <2> QED BY <1>1, <2>1 DEF AexInv, Phases, Verifying
<1>3. CASE VerifyOpenings
  <2>1. pc = "openings" /\ pc' = "identities" /\ unset_read' = (unset_read \/ ~o.set)
    BY <1>3 DEF VerifyOpenings
  <2> QED BY <1>1, <2>1 DEF AexInv, Phases, Verifying
<1>4. CASE VerifyIdentities
  <2>1. pc = "identities" /\ pc' = "verdict" /\ unset_read' = unset_read
    BY <1>4 DEF VerifyIdentities
  <2> QED BY <1>1, <2>1 DEF AexInv, Phases, Verifying
<1>5. CASE VerifyAgain
  <2>1. pc = "verdict" /\ pc' = "sent" /\ unset_read' = unset_read
    BY <1>5 DEF VerifyAgain
  <2> QED BY <1>1, <2>1 DEF AexInv, Phases, Verifying
<1> QED BY <1>2, <1>3, <1>4, <1>5

LEMMA ClearKeeps == ASSUME AexInv, Clear PROVE AexInv'
<1>1. /\ pc' \in {"done", "undefined"} /\ asked' = asked /\ unset_read' = unset_read
      /\ {"root", "set"} \subseteq DOMAIN o'
  BY DEF Clear, NoOpening
<1> QED BY <1>1 DEF AexInv, Phases, Verifying

LEMMA NextAexInv == AexInv /\ [Next]_vars => AexInv'
<1> SUFFICES ASSUME AexInv, [Next]_vars PROVE AexInv'
  OBVIOUS
<1>1. CASE UNCHANGED vars \/ Stopped
  <2>1. /\ pc' = pc /\ o' = o /\ unset_read' = unset_read /\ asked' = asked /\ com_d' = com_d
        /\ tree' = tree /\ result' = result /\ CommittedColumns' = CommittedColumns
    BY <1>1 DEF Stopped, vars, rows, sent, CommittedColumns, aex_column, aex_row
  <2> QED BY <2>1 DEF AexInv
<1> QED BY <1>1, ExtractionKeeps, CommitRowsKeeps, RespondKeeps, OpenKeeps, RehashKeeps,
           VerifyKeeps, ClearKeeps DEF Next

\* The invariant of the exact amortised proof, over all five steps of both parties.
THEOREM AexInvariant == Spec => []AexInv
<1> QED BY InitAexInv, NextAexInv, PTL DEF Spec

\* A prover that gives up leaves indices, columns and paths unset; the verifier
\* gives up on the same inversion and never reads them.
THEOREM UnsetUnread == Spec => []UnsetNeverRead
<1>1. AexInv => UnsetNeverRead
  BY DEF AexInv, UnsetNeverRead
<1> QED BY <1>1, AexInvariant, PTL

\* The tree over the columns of the encoded rows opens every leaf at its own
\* index only.
THEOREM ColumnsBound == Spec => []OpensOnlyItself
<1>1. ASSUME AexInv, pc = "open", NEW c \in Columns, NEW d \in Columns, NEW e \in Columns
      PROVE  aex_path_verify(aex_column(d), aex_path(tree, e), c, o.root) <=>
               aex_column(d) = aex_column(c) /\ aex_path(tree, e) = aex_path(tree, c)
  <2>1. tree = aex_tree_build(CommittedColumns) /\ o.root = aex_tree_root(tree)
    BY <1>1 DEF AexInv
  <2>2. CommittedColumns[c] = aex_column(c)
    BY DEF CommittedColumns
  <2>3. aex_path_verify(aex_column(d), aex_path(tree, e), c, o.root) <=>
          /\ aex_column(d) = aex_column(c)
          /\ \A l \in 0 .. Depth - 1 : aex_path(tree, e)[l] = aex_path(tree, c)[l]
    BY <2>1, <2>2, PathBinds
  <2>4. (\A l \in 0 .. Depth - 1 : aex_path(tree, e)[l] = aex_path(tree, c)[l])
          <=> aex_path(tree, e) = aex_path(tree, c)
    BY DEF aex_path
  <2> QED BY <2>3, <2>4
<1>2. AexInv => OpensOnlyItself
  BY <1>1 DEF OpensOnlyItself
<1> QED BY <1>2, AexInvariant, PTL
-----------------------------------------------------------------------------
(***************************************************************************)
(* Arithmetic modulo Q.                                                    *)
(***************************************************************************)
LEMMA QPositive == Q \in Nat \ {0} /\ P0 \in Nat /\ P1 \in Nat
<1>1. P0 \in Nat /\ P1 \in Nat /\ P0 >= 2 /\ P1 >= 2
  BY GaloisAssumption DEF IsPrime
<1>2. P0 * P1 >= P0
  BY <1>1
<1> QED BY <1>1, <1>2 DEF Q

LEMMA QRemainder ==
  ASSUME NEW x \in Int
  PROVE  \E e \in Int, rem \in 0 .. Q - 1 : rem = x % Q /\ x = rem + Q * e
<1> DEFINE rest == x % Q
           e == x \div Q
<1>1. e \in Int /\ rest \in 0 .. Q - 1 /\ x = e * Q + rest
  BY QPositive, Z3
<1>2. rest = x % Q
  OBVIOUS
<1> HIDE DEF e, rest
<1>3. x = rest + Q * e
  BY <1>1, QPositive
<1> QED BY <1>1, <1>2, <1>3, Zenon

LEMMA QRange == \A x \in Int : x % Q \in 0 .. Q - 1 /\ x % Q \in Int
BY QPositive

\* Numbers that differ by a multiple of Q have the same remainder.
LEMMA SameRemainder ==
  ASSUME NEW x \in Int, NEW y \in Int, NEW k \in Int, x = y + Q * k
  PROVE  x % Q = y % Q
<1>1. Q \in Nat \ {0}
  BY QPositive
<1>2. PICK d \in Int, rem \in 0 .. Q - 1 : rem = x % Q /\ x = rem + Q * d
  BY QRemainder, Zenon
<1>3. PICK e \in Int, n \in 0 .. Q - 1 : n = y % Q /\ y = n + Q * e
  BY QRemainder, Zenon
<1> DEFINE c == d - e - k
<1>4. c \in Int /\ Q * c = n - rem
  <2>1. rem + Q * d = (n + Q * e) + Q * k
    BY <1>2, <1>3
  <2>2. Q * (d - e - k) = Q * d - Q * e - Q * k
    BY <1>1
  <2>3. Q * d \in Int /\ Q * e \in Int /\ Q * k \in Int /\ rem \in Int /\ n \in Int
    BY <1>1
  <2> QED BY <2>1, <2>2, <2>3
<1> HIDE DEF c
<1>5. c >= 1 => Q * c >= Q
  BY <1>1, <1>4
<1>6. c <= -1 => Q * c <= -Q
  BY <1>1, <1>4
<1>7. c = 0
  BY <1>1, <1>4, <1>5, <1>6
<1>8. rem = n
  BY <1>1, <1>4, <1>7
<1> QED BY <1>2, <1>3, <1>8

\* Operands may be reduced or not.
LEMMA ReducedOperands ==
  ASSUME NEW x \in Int, NEW y \in Int
  PROVE  /\ ((x % Q) + (y % Q)) % Q = (x + y) % Q
         /\ ((x % Q) - (y % Q)) % Q = (x - y) % Q
         /\ ((x % Q) * (y % Q)) % Q = (x * y) % Q
<1>1. Q \in Nat \ {0}
  BY QPositive
<1>2. PICK d \in Int, rem \in 0 .. Q - 1 : rem = x % Q /\ x = rem + Q * d
  BY QRemainder, Zenon
<1>3. PICK e \in Int, n \in 0 .. Q - 1 : n = y % Q /\ y = n + Q * e
  BY QRemainder, Zenon
<1>4. (x + y) % Q = (rem + n) % Q
  <2>1. /\ x + y \in Int /\ rem + n \in Int /\ d + e \in Int
        /\ x + y = (rem + n) + Q * (d + e)
    BY <1>1, <1>2, <1>3
  <2> QED BY <2>1, SameRemainder, Zenon
<1>5. (x - y) % Q = (rem - n) % Q
  <2>1. /\ x - y \in Int /\ rem - n \in Int /\ d - e \in Int
        /\ x - y = (rem - n) + Q * (d - e)
    BY <1>1, <1>2, <1>3
  <2> QED BY <2>1, SameRemainder, Zenon
<1>6. (x * y) % Q = (rem * n) % Q
  <2> DEFINE k == d * y + rem * e
  <2>1. k \in Int
    BY <1>1
  <2>2. x * y = Q * (d * y) + rem * y /\ rem * y = Q * (rem * e) + rem * n
    BY <1>1, <1>2, <1>3
  <2>3. x * y \in Int /\ rem * n \in Int /\ x * y = rem * n + Q * k
    BY <1>1, <2>2
  <2> HIDE DEF k
  <2> QED BY <2>1, <2>3, SameRemainder, Zenon
<1> QED BY <1>2, <1>3, <1>4, <1>5, <1>6

LEMMA ModularIs ==
  ASSUME NEW x \in Int, NEW y \in Int
  PROVE  /\ Add(x, y) = (x + y) % Q /\ Add(x, y) \in Int
         /\ Sub(x, y) = (x - y) % Q /\ Sub(x, y) \in Int
         /\ Mul(x, y) = (x * y) % Q /\ Mul(x, y) \in Int
<1>1. (x - y + Q) % Q = (x - y) % Q
  <2>1. x - y + Q \in Int /\ x - y \in Int /\ 1 \in Int /\ x - y + Q = (x - y) + Q * 1
    BY QPositive
  <2> QED BY <2>1, SameRemainder, Zenon
<1>2. \A z \in Int : z % Q \in Int
  BY QRange
<1>3. x + y \in Int /\ x - y \in Int /\ x * y \in Int
  OBVIOUS
<1> QED BY <1>1, <1>2, <1>3 DEF Add, Sub, Mul

\* Three times a value, as an addition chain.
LEMMA Tripled ==
  ASSUME NEW x \in Int
  PROVE  Add(Add(x, x), x) = Mul(AEX_NR, x)
<1>1. Add(x, x) = (x + x) % Q /\ Add(x, x) \in Int
  BY ModularIs
<1>2. Add(Add(x, x), x) = (((x + x) % Q) + x) % Q
  BY <1>1, ModularIs
<1>3. (((x + x) % Q) + x) % Q = (x + x + x) % Q
  <2>1. x + x \in Int /\ Q \in Int
    BY QPositive
  <2>2. PICK e \in Int, rem \in 0 .. Q - 1 : rem = (x + x) % Q /\ x + x = rem + Q * e
    BY <2>1, QRemainder, Zenon
  <2>3. x + x + x = (rem + x) + Q * e /\ rem + x \in Int /\ x + x + x \in Int
    BY <2>1, <2>2
  <2>4. (x + x + x) % Q = (rem + x) % Q
    BY <2>3, SameRemainder
  <2> QED BY <2>2, <2>4
<1>4. Mul(AEX_NR, x) = (x + x + x) % Q
  <2>1. AEX_NR * x = x + x + x /\ AEX_NR \in Int
    BY DEF AEX_NR
  <2> QED BY <2>1, ModularIs
<1> QED BY <1>2, <1>3, <1>4

\* Karatsuba's middle term.
LEMMA Karatsuba ==
  ASSUME NEW a0 \in Int, NEW a1 \in Int, NEW b0 \in Int, NEW b1 \in Int
  PROVE  Sub(Sub(Mul(Add(a0, a1), Add(b0, b1)), Mul(a0, b0)), Mul(a1, b1))
           = Add(Mul(a0, b1), Mul(a1, b0))
<1> DEFINE x == (a0 + a1) * (b0 + b1)
           y == a0 * b0
           z == a1 * b1
           outer == a0 * b1
           inner == a1 * b0
<1>1. /\ x \in Int /\ y \in Int /\ z \in Int /\ outer \in Int /\ inner \in Int
      /\ x - y - z = outer + inner
  OBVIOUS
<1>2. Mul(Add(a0, a1), Add(b0, b1)) = x % Q
  <2>1. Add(a0, a1) = (a0 + a1) % Q /\ Add(b0, b1) = (b0 + b1) % Q
    BY ModularIs
  <2>2. Add(a0, a1) \in Int /\ Add(b0, b1) \in Int
    BY ModularIs
  <2>3. Mul(Add(a0, a1), Add(b0, b1)) = (Add(a0, a1) * Add(b0, b1)) % Q
    BY <2>2, ModularIs
  <2>4. (((a0 + a1) % Q) * ((b0 + b1) % Q)) % Q = x % Q
    BY ReducedOperands
  <2> QED BY <2>1, <2>3, <2>4
<1>3. Mul(a0, b0) = y % Q /\ Mul(a1, b1) = z % Q /\ Mul(a0, b1) = outer % Q /\ Mul(a1, b0) = inner % Q
  BY ModularIs
<1> HIDE DEF x, y, z, outer, inner
<1>4. \A u, w \in Int : /\ Sub(u % Q, w % Q) = (u - w) % Q
                       /\ Add(u % Q, w % Q) = (u + w) % Q
  <2> SUFFICES ASSUME NEW u \in Int, NEW w \in Int
               PROVE  Sub(u % Q, w % Q) = (u - w) % Q /\ Add(u % Q, w % Q) = (u + w) % Q
    OBVIOUS
  <2>1. u % Q \in Int /\ w % Q \in Int
    BY QRange
  <2>2. /\ Sub(u % Q, w % Q) = ((u % Q) - (w % Q)) % Q
        /\ Add(u % Q, w % Q) = ((u % Q) + (w % Q)) % Q
    BY <2>1, ModularIs, Zenon
  <2> QED BY <2>2, ReducedOperands, Zenon
<1>5. Sub(x % Q, y % Q) = (x - y) % Q
  BY <1>1, <1>4
<1>6. Sub((x - y) % Q, z % Q) = (x - y - z) % Q
  <2>1. x - y \in Int
    BY <1>1
  <2> QED BY <1>1, <1>4, <2>1
<1>7. Add(outer % Q, inner % Q) = (outer + inner) % Q
  BY <1>1, <1>4
<1> QED BY <1>1, <1>2, <1>3, <1>5, <1>6, <1>7
-----------------------------------------------------------------------------
(***************************************************************************)
(* Variables that coincide.                                                *)
(***************************************************************************)
LEMMA CellsApart ==
  /\ T \in Cells /\ M1 \in Cells /\ T # M1
  /\ \A x \in Variables : /\ <<x, 0>> \in Cells /\ <<x, 1>> \in Cells
                          /\ <<x, 0>> # T /\ <<x, 0>> # M1 /\ <<x, 1>> # T /\ <<x, 1>> # M1
BY DEF T, M1, Cells, Variables

\* What stands in the store when both coordinates of r have been written last.
Written(before, dst, y, z) == [before EXCEPT ![<<dst, 0>>] = y, ![<<dst, 1>>] = z]

LEMMA WrittenPair ==
  ASSUME NEW before, DOMAIN before = Cells, NEW dst \in Variables, NEW x \in Variables,
         NEW y, NEW z
  PROVE  Value(Written(before, dst, y, z), x)
           = IF x = dst THEN <<y, z>> ELSE Value(before, x)
<1> DEFINE first == [before EXCEPT ![<<dst, 0>>] = y]
           after == [first EXCEPT ![<<dst, 1>>] = z]
<1>1. /\ <<dst, 0>> \in Cells /\ <<dst, 1>> \in Cells /\ <<x, 0>> \in Cells /\ <<x, 1>> \in Cells
  BY CellsApart
<1>2. DOMAIN first = Cells /\ \A c \in Cells : first[c] = IF c = <<dst, 0>> THEN y ELSE before[c]
  OBVIOUS
<1> HIDE DEF first
<1>3. \A c \in Cells : after[c] = IF c = <<dst, 1>> THEN z ELSE first[c]
  BY <1>2
<1> HIDE DEF after
<1>4. /\ <<x, 0>> = <<dst, 0>> <=> x = dst
      /\ <<x, 1>> = <<dst, 1>> <=> x = dst
      /\ <<x, 0>> # <<dst, 1>> /\ <<x, 1>> # <<dst, 0>>
  OBVIOUS
<1>5. /\ after[<<x, 0>>] = IF x = dst THEN y ELSE before[<<x, 0>>]
      /\ after[<<x, 1>>] = IF x = dst THEN z ELSE before[<<x, 1>>]
  BY <1>1, <1>2, <1>3, <1>4
<1>6. Value(after, x) = IF x = dst THEN <<y, z>> ELSE Value(before, x)
  BY <1>5 DEF Value
<1> QED BY <1>6 DEF after, first, Written

LEMMA MulNrIs ==
  ASSUME NEW store, DOMAIN store = Cells, NEW a \in Cells, NEW dst \in {T, M1}, store[a] \in Int
  PROVE  /\ DOMAIN MulNr(store, dst, a) = Cells
         /\ MulNr(store, dst, a)[dst] = Mul(AEX_NR, store[a])
         /\ \A c \in Cells \ {dst} : MulNr(store, dst, a)[c] = store[c]
<1>1. dst \in Cells
  BY CellsApart
<1>2. MulNr(store, dst, a) = [store EXCEPT ![dst] = Mul(AEX_NR, store[a])]
  BY Tripled DEF MulNr
<1> QED BY <1>1, <1>2

LEMMA ProductAliased ==
  ASSUME NEW store \in [Cells -> Int], NEW dst \in Variables, NEW a \in Variables,
         NEW b \in Variables, NEW x \in Variables
  PROVE  Value(MulInto(store, dst, a, b), x)
           = IF x = dst THEN gr_mul(Value(store, a), Value(store, b)) ELSE Value(store, x)
<1> DEFINE a0 == store[<<a, 0>>]
           a1 == store[<<a, 1>>]
           b0 == store[<<b, 0>>]
           b1 == store[<<b, 1>>]
           m1 == Mul(a1, b1)
           m2 == Sub(Sub(Mul(Add(a0, a1), Add(b0, b1)), Mul(a0, b0)), m1)
           stored == [store EXCEPT ![M1] = m1]
           with_t == MulNr(stored, T, M1)
           m3 == Add(Mul(a0, b0), with_t[T])
<1>1. MulInto(store, dst, a, b) = Written(with_t, dst, m3, m2)
  BY DEF MulInto, Written
<1>2. a0 \in Int /\ a1 \in Int /\ b0 \in Int /\ b1 \in Int
  BY CellsApart
<1>3. m1 \in Int
  BY <1>2, ModularIs
<1>4. DOMAIN stored = Cells /\ stored[M1] = m1 /\ \A c \in Cells \ {M1} : stored[c] = store[c]
  BY CellsApart
<1>5. m2 = Add(Mul(a0, b1), Mul(a1, b0))
  BY <1>2, Karatsuba
<1>6. gr_mul(Value(store, a), Value(store, b))
        = <<Add(Mul(a0, b0), Mul(AEX_NR, m1)), Add(Mul(a0, b1), Mul(a1, b0))>>
  BY DEF gr_mul, Value
<1>7. Value(store, x) = <<store[<<x, 0>>], store[<<x, 1>>]>>
  BY DEF Value
<1> HIDE DEF a0, a1, b0, b1, m1, m2, stored
<1>8. /\ DOMAIN with_t = Cells /\ with_t[T] = Mul(AEX_NR, m1)
      /\ \A c \in Cells \ {T} : with_t[c] = stored[c]
  BY <1>3, <1>4, CellsApart, MulNrIs
<1> HIDE DEF with_t
<1>9. Value(MulInto(store, dst, a, b), x) = IF x = dst THEN <<m3, m2>> ELSE Value(with_t, x)
  <2> HIDE DEF m3
  <2>1. Value(Written(with_t, dst, m3, m2), x) = IF x = dst THEN <<m3, m2>> ELSE Value(with_t, x)
    BY <1>8, WrittenPair
  <2> QED BY <1>1, <2>1
<1>10. Value(with_t, x) = Value(store, x)
  <2>1. with_t[<<x, 0>>] = store[<<x, 0>>] /\ with_t[<<x, 1>>] = store[<<x, 1>>]
    BY <1>4, <1>8, CellsApart
  <2> QED BY <2>1 DEF Value
<1>11. m3 = Add(Mul(a0, b0), Mul(AEX_NR, m1))
  BY <1>8
<1> QED BY <1>5, <1>6, <1>9, <1>10, <1>11

LEMMA InverseAliased ==
  ASSUME NEW store \in [Cells -> Int], NEW dst \in Variables, NEW a \in Variables,
         NEW x \in Variables
  PROVE  Value(InvInto(store, dst, a), x)
           = IF x = dst /\ GrUnit(Value(store, a)) THEN gr_inv(Value(store, a))
             ELSE Value(store, x)
<1> DEFINE a0 == store[<<a, 0>>]
           a1 == store[<<a, 1>>]
           squared == [store EXCEPT ![T] = Mul(a1, a1)]
           tripled == MulNr(squared, T, T)
           n == Sub(Mul(a0, a0), tripled[T])
           g == ZqInverse(n)
           second == Mul(Sub(0, a1), g)
           negated == [tripled EXCEPT ![T] = second]
           first == [negated EXCEPT ![<<dst, 0>>] = Mul(negated[<<a, 0>>], g)]
           after == [first EXCEPT ![<<dst, 1>>] = first[T]]
<1>1. InvInto(store, dst, a) = IF Invertible(n) THEN after ELSE tripled
  BY DEF InvInto
<1>2. a0 \in Int /\ a1 \in Int /\ Mul(a1, a1) \in Int
  BY CellsApart, ModularIs
<1>3. Value(store, a) = <<a0, a1>>
  BY DEF Value
<1>4. DOMAIN squared = Cells /\ squared[T] = Mul(a1, a1) /\ \A c \in Cells \ {T} : squared[c] = store[c]
  BY CellsApart
<1> HIDE DEF squared
<1>5. /\ DOMAIN tripled = Cells /\ tripled[T] = Mul(AEX_NR, Mul(a1, a1))
      /\ \A c \in Cells \ {T} : tripled[c] = store[c]
  BY <1>2, <1>4, CellsApart, MulNrIs
<1> HIDE DEF tripled
<1>6. Value(tripled, x) = Value(store, x)
  BY <1>5, CellsApart DEF Value
<1>7. n = Norm(Value(store, a)) /\ (Invertible(n) <=> GrUnit(Value(store, a)))
  BY <1>3, <1>5 DEF Norm, GrUnit
<1>8. gr_inv(Value(store, a)) = <<Mul(a0, g), second>>
  <2>1. gr_inv(Value(store, a)) = gr_scalar(<<a0, Sub(0, a1)>>, ZqInverse(Norm(Value(store, a))))
    BY <1>3 DEF gr_inv
  <2> QED BY <1>7, <2>1 DEF gr_scalar
<1>9. DOMAIN negated = Cells /\ negated[T] = second /\ \A c \in Cells \ {T} : negated[c] = store[c]
  BY <1>5, CellsApart
<1> HIDE DEF negated, n, g, second
<1>10. negated[<<a, 0>>] = a0 /\ first[T] = second
  BY <1>9, CellsApart
<1>11. Value(after, x) = IF x = dst THEN <<Mul(a0, g), second>> ELSE Value(negated, x)
  <2>1. after = Written(negated, dst, Mul(a0, g), second)
    BY <1>10 DEF Written
  <2> HIDE DEF after
  <2>2. Value(Written(negated, dst, Mul(a0, g), second), x)
          = IF x = dst THEN <<Mul(a0, g), second>> ELSE Value(negated, x)
    BY <1>9, WrittenPair
  <2> QED BY <2>1, <2>2
<1>12. Value(negated, x) = Value(store, x)
  BY <1>9, CellsApart DEF Value
<1> HIDE DEF after, a0, a1
<1>13. CASE Invertible(n)
  BY <1>1, <1>7, <1>8, <1>11, <1>12, <1>13
<1>14. CASE ~Invertible(n)
  BY <1>1, <1>6, <1>7, <1>14
<1> QED BY <1>13, <1>14

\* "Safe to alias" (pismall.cpp:85), for all values: gr_mul and gr_inv do the
\* same whatever variables coincide.
THEOREM AliasingHarmless ==
  ASSUME NEW a \in Int \X Int, NEW b \in Int \X Int, NEW c \in Int \X Int
  PROVE  AliasSafe(Store(a, b, c))
<1> DEFINE store == Store(a, b, c)
<1>1. store \in [Cells -> Int]
  <2> SUFFICES ASSUME NEW cell \in Cells PROVE store[cell] \in Int
    BY DEF Store
  <2>1. store[cell] = CASE cell[1] = "a" -> a[cell[2] + 1] [] cell[1] = "b" -> b[cell[2] + 1]
                        [] cell[1] = "c" -> c[cell[2] + 1] [] OTHER -> 0
    BY DEF Store
  <2>2. a[1] \in Int /\ a[2] \in Int /\ b[1] \in Int /\ b[2] \in Int /\ c[1] \in Int /\ c[2] \in Int
    OBVIOUS
  <2>3. /\ cell[1] \in {"a", "b", "c", "t", "m1"}
        /\ cell[2] + 1 \in {1, 2}
    BY DEF Cells, Variables
  <2> QED BY <2>1, <2>2, <2>3
<1> HIDE DEF store
<1>2. AliasSafe(store)
  BY <1>1, ProductAliased, InverseAliased DEF AliasSafe
<1> QED BY <1>2 DEF store

\* So it is for the operands of the identities, the challenge a run has drawn and
\* the sum of its halves.
THEOREM AliasesNeverMatter == Spec => []AliasesHarmless
<1>1. ASSUME AexInv PROVE AliasesHarmless
  <2>1. asked[2] \in Challenges \cup {NoChallenge}
    BY <1>1 DEF AexInv
  <2> DEFINE ch == asked[2]
  <2>2. ch.x \in Int \X Int /\ ch.beta0 \in Int \X Int
    <3>1. CASE ch \in Challenges
      BY <3>1, PismallAssumption, QPositive DEF Gr, Zq
    <3>2. CASE ch = NoChallenge
      BY <3>2 DEF NoChallenge, GrZero
    <3> QED BY <2>1, <3>1, <3>2
  <2> HIDE DEF ch
  <2>3. gr_add(ch.x, ch.beta0) \in Int \X Int
    BY <2>2, ModularIs DEF gr_add
  <2> QED BY <2>2, <2>3, AliasingHarmless DEF AliasesHarmless, ch
<1> QED BY <1>1, AexInvariant, PTL
-----------------------------------------------------------------------------
(***************************************************************************)
(* The basis of the exact amortised proof.  First the arithmetic that the  *)
(* installed libraries lack: induction over sets of numbers, functions by  *)
(* iteration, powers, congruence and powers of two.                        *)
(***************************************************************************)

\* Induction, the statement given as the set of numbers it holds for.
LEMMA AllNumbers ==
  ASSUME NEW S, 0 \in S, \A k \in Nat : k \in S => k + 1 \in S
  PROVE  \A k \in Nat : k \in S
<1> DEFINE Bad == {k \in Nat : k \notin S}
<1> SUFFICES ASSUME Bad # {} PROVE FALSE
  OBVIOUS
<1>1. Bad \in SUBSET Nat
  OBVIOUS
<1>2. PICK x \in Bad : \A y \in Bad : x <= y
  BY <1>1, LeastNumber
<1>3. x \in Nat /\ x # 0 /\ x - 1 \in Nat
  BY <1>2
<1>4. x - 1 \in S
  BY <1>2, <1>3
<1>5. (x - 1) + 1 = x
  BY <1>3
<1> QED BY <1>2, <1>3, <1>4, <1>5

\* A function over all numbers, from its first value and the step to each next one.
IteratesTo(E, fn, l, w, g) ==
  /\ fn \in [0 .. l -> E] /\ fn[0] = w
  /\ \A k \in Nat : k < l => fn[k + 1] = g[k][fn[k]]

Steps(E) == [Nat -> [E -> E]]
Iterates(E, fn, w, g) ==
  fn \in [Nat -> E] /\ fn[0] = w /\ \A k \in Nat : fn[k + 1] = g[k][fn[k]]

LEMMA Iteration ==
  ASSUME NEW E, NEW w \in E, NEW g \in Steps(E)
  PROVE  \E fn : Iterates(E, fn, w, g)
<1>0. g \in [Nat -> [E -> E]]
  BY DEF Steps
<1> DEFINE Has == {l \in Nat : \E fn : IteratesTo(E, fn, l, w, g)}
<1>1. 0 \in Has
  <2>1. IteratesTo(E, [k \in 0 .. 0 |-> w], 0, w, g)
    BY DEF IteratesTo
  <2> QED BY <2>1
<1>2. ASSUME NEW l \in Nat, l \in Has PROVE l + 1 \in Has
  <2>1. PICK fn : IteratesTo(E, fn, l, w, g)
    BY <1>2
  <2> DEFINE e == [k \in 0 .. l + 1 |-> IF k <= l THEN fn[k] ELSE g[l][fn[l]]]
  <2>2. l \in 0 .. l /\ fn[l] \in E /\ g[l][fn[l]] \in E
    BY <1>0, <2>1 DEF IteratesTo
  <2>3. e \in [0 .. l + 1 -> E] /\ e[0] = w
    BY <2>1, <2>2 DEF IteratesTo
  <2>4. ASSUME NEW k \in Nat, k < l + 1 PROVE e[k + 1] = g[k][e[k]]
    <3>1. CASE k = l
      BY <2>2, <3>1
    <3>2. CASE k # l
      <4>1. k < l /\ k \in 0 .. l /\ k + 1 \in 0 .. l
        BY <2>4, <3>2
      <4>2. e[k] = fn[k] /\ e[k + 1] = fn[k + 1]
        BY <4>1
      <4> QED BY <2>1, <4>1, <4>2 DEF IteratesTo
    <3> QED BY <3>1, <3>2
  <2> HIDE DEF e
  <2>5. IteratesTo(E, e, l + 1, w, g)
    BY <2>3, <2>4 DEF IteratesTo
  <2> QED BY <2>5
<1> HIDE DEF Has
<1>3. \A l \in Nat : l \in Has
  BY <1>1, <1>2, AllNumbers
<1>4. \A l \in Nat : \E fn : IteratesTo(E, fn, l, w, g)
  BY <1>3 DEF Has
<1> DEFINE q == [l \in Nat |-> CHOOSE fn : IteratesTo(E, fn, l, w, g)]
<1>5. \A l \in Nat : IteratesTo(E, q[l], l, w, g)
  BY <1>4
<1> HIDE DEF q
<1>6. ASSUME NEW l \in Nat PROVE q[l + 1][l] = q[l][l]
  <2> DEFINE S == {k \in Nat : k <= l => q[l + 1][k] = q[l][k]}
  <2>1. IteratesTo(E, q[l], l, w, g) /\ IteratesTo(E, q[l + 1], l + 1, w, g)
    BY <1>5
  <2>2. 0 \in S
    BY <2>1 DEF IteratesTo
  <2>3. ASSUME NEW k \in Nat, k \in S PROVE k + 1 \in S
    <3> SUFFICES ASSUME k + 1 <= l PROVE q[l + 1][k + 1] = q[l][k + 1]
      OBVIOUS
    <3>1. k < l /\ k < l + 1 /\ q[l + 1][k] = q[l][k]
      BY <2>3
    <3>2. q[l + 1][k + 1] = g[k][q[l + 1][k]] /\ q[l][k + 1] = g[k][q[l][k]]
      BY <2>1, <3>1 DEF IteratesTo
    <3> QED BY <3>1, <3>2
  <2> HIDE DEF S
  <2>4. \A k \in Nat : k \in S
    BY <2>2, <2>3, AllNumbers
  <2> QED BY <2>4 DEF S
<1> DEFINE fn == [l \in Nat |-> q[l][l]]
<1>7. ASSUME NEW l \in Nat PROVE fn[l] \in E
  <2>1. IteratesTo(E, q[l], l, w, g)
    BY <1>5
  <2>2. q[l][l] \in E
    <3> DEFINE e == q[l]
    <3> HIDE DEF e
    <3>1. IteratesTo(E, e, l, w, g)
      BY <2>1 DEF e
    <3>2. e[l] \in E
      BY <3>1 DEF IteratesTo
    <3> QED BY <3>2 DEF e
  <2> QED BY <2>2
<1>8. fn[0] = w
  BY <1>5 DEF IteratesTo
<1>9. ASSUME NEW k \in Nat PROVE fn[k + 1] = g[k][fn[k]]
  <2>1. IteratesTo(E, q[k + 1], k + 1, w, g) /\ k < k + 1
    BY <1>5
  <2>2. q[k + 1][k + 1] = g[k][q[k + 1][k]]
    BY <2>1 DEF IteratesTo
  <2> QED BY <1>6, <2>2
<1>10. fn \in [Nat -> E]
  BY <1>7
<1> HIDE DEF fn
<1> QED BY <1>8, <1>9, <1>10 DEF Iterates

\* The powers of w.
PowersOf(w) == CHOOSE fn \in [Nat -> Int] : fn[0] = 1 /\ \A k \in Nat : fn[k + 1] = fn[k] * w

Pow(w, k) == PowersOf(w)[k]

\* Sequences of integers, as functions over all numbers.
Seqs == [Nat -> Int]

\* Powers unfold.
LEMMA PowUnfolds ==
  ASSUME NEW w \in Int
  PROVE  /\ Pow(w, 0) = 1
         /\ \A k \in Nat : Pow(w, k) \in Int /\ Pow(w, k + 1) = Pow(w, k) * w
<1> DEFINE g == [k \in Nat |-> [c \in Int |-> c * w]]
<1>1. g \in [Nat -> [Int -> Int]] /\ \A k \in Nat, c \in Int : g[k][c] = c * w
  OBVIOUS
<1> HIDE DEF g
<1>2. PICK fn : Iterates(Int, fn, 1, g)
  <2>1. 1 \in Int /\ g \in Steps(Int)
    BY <1>1 DEF Steps
  <2> QED BY <2>1, Iteration
<1>3. fn[0] = 1 /\ \A k \in Nat : fn[k + 1] = fn[k] * w
  BY <1>1, <1>2 DEF Iterates
<1>4. /\ PowersOf(w) \in [Nat -> Int] /\ PowersOf(w)[0] = 1
      /\ \A k \in Nat : PowersOf(w)[k + 1] = PowersOf(w)[k] * w
  BY <1>2, <1>3 DEF PowersOf, Iterates
<1> QED BY <1>4 DEF Pow

\* The laws of powers.
LEMMA PowAdd ==
  ASSUME NEW w \in Int, NEW i \in Nat, NEW j \in Nat
  PROVE  Pow(w, i + j) = Pow(w, i) * Pow(w, j)
<1> DEFINE S == {k \in Nat : Pow(w, i + k) = Pow(w, i) * Pow(w, k)}
<1>1. 0 \in S
  BY PowUnfolds
<1>2. ASSUME NEW k \in Nat, k \in S PROVE k + 1 \in S
  <2>1. Pow(w, i + (k + 1)) = Pow(w, i + k) * w
    <3>1. i + (k + 1) = (i + k) + 1 /\ i + k \in Nat
      OBVIOUS
    <3> QED BY <3>1, PowUnfolds
  <2>2. Pow(w, k + 1) = Pow(w, k) * w /\ Pow(w, k) \in Int /\ Pow(w, i) \in Int
    BY PowUnfolds
  <2>3. Pow(w, i + k) = Pow(w, i) * Pow(w, k)
    BY <1>2
  <2>4. (Pow(w, i) * Pow(w, k)) * w = Pow(w, i) * (Pow(w, k) * w)
    BY <2>2
  <2> QED BY <2>1, <2>2, <2>3, <2>4
<1> HIDE DEF S
<1>3. j \in S
  BY <1>1, <1>2, AllNumbers
<1> QED BY <1>3 DEF S

LEMMA PowProduct ==
  ASSUME NEW w \in Int, NEW i \in Nat, NEW j \in Nat
  PROVE  Pow(w, i * j) = Pow(Pow(w, i), j)
<1> DEFINE c == Pow(w, i)
           S == {k \in Nat : Pow(w, i * k) = Pow(c, k)}
<1>1. c \in Int
  BY PowUnfolds
<1>2. 0 \in S
  <2>1. i * 0 = 0
    OBVIOUS
  <2> HIDE DEF c
  <2> QED BY <1>1, <2>1, PowUnfolds
<1>3. ASSUME NEW k \in Nat, k \in S PROVE k + 1 \in S
  <2>1. i * (k + 1) = i * k + i /\ i * k \in Nat
    OBVIOUS
  <2>2. Pow(w, i * k + i) = Pow(w, i * k) * c
    BY <2>1, PowAdd
  <2> HIDE DEF c
  <2>3. Pow(c, k + 1) = Pow(c, k) * c
    BY <1>1, PowUnfolds
  <2> QED BY <1>3, <2>1, <2>2, <2>3
<1> HIDE DEF S
<1>4. j \in S
  BY <1>2, <1>3, AllNumbers
<1> QED BY <1>4 DEF S

LEMMA PowOne ==
  ASSUME NEW k \in Nat
  PROVE  Pow(1, k) = 1
<1> DEFINE S == {i \in Nat : Pow(1, i) = 1}
<1>1. 0 \in S
  BY PowUnfolds
<1>2. ASSUME NEW i \in Nat, i \in S PROVE i + 1 \in S
  BY <1>2, PowUnfolds
<1> HIDE DEF S
<1>3. k \in S
  BY <1>1, <1>2, AllNumbers
<1> QED BY <1>3 DEF S

LEMMA PowOfProduct ==
  ASSUME NEW w \in Int, NEW c \in Int, NEW k \in Nat
  PROVE  Pow(w * c, k) = Pow(w, k) * Pow(c, k)
<1> DEFINE S == {i \in Nat : Pow(w * c, i) = Pow(w, i) * Pow(c, i)}
<1>1. w * c \in Int
  OBVIOUS
<1>2. 0 \in S
  BY <1>1, PowUnfolds
<1>3. ASSUME NEW i \in Nat, i \in S PROVE i + 1 \in S
  <2>1. /\ Pow(w * c, i + 1) = Pow(w * c, i) * (w * c)
        /\ Pow(w, i + 1) = Pow(w, i) * w /\ Pow(c, i + 1) = Pow(c, i) * c
        /\ Pow(w, i) \in Int /\ Pow(c, i) \in Int
    BY <1>1, PowUnfolds
  <2>2. (Pow(w, i) * Pow(c, i)) * (w * c) = (Pow(w, i) * w) * (Pow(c, i) * c)
    BY <2>1
  <2> QED BY <1>3, <2>1, <2>2
<1> HIDE DEF S
<1>4. k \in S
  BY <1>2, <1>3, AllNumbers
<1> QED BY <1>4 DEF S

\* x and y are integers that leave the same remainder modulo p.
Cong(x, y, p) == x \in Int /\ y \in Int /\ \E e \in Int : x = y + e * p

\* Congruence is an equivalence that sums, products and powers respect.
LEMMA CongSame == ASSUME NEW p \in Int, NEW x \in Int PROVE Cong(x, x, p)
<1>1. 0 \in Int /\ x = x + 0 * p
  OBVIOUS
<1> QED BY <1>1 DEF Cong

LEMMA CongSwap == ASSUME NEW p \in Int, NEW x, NEW y, Cong(x, y, p) PROVE Cong(y, x, p)
<1>1. x \in Int /\ y \in Int
  BY DEF Cong
<1>2. PICK e \in Int : x = y + e * p
  BY DEF Cong
<1>3. -e \in Int /\ y = x + (-e) * p
  BY <1>1, <1>2
<1> QED BY <1>1, <1>3 DEF Cong

LEMMA CongVia ==
  ASSUME NEW p \in Int, NEW x, NEW y, NEW z, Cong(x, y, p), Cong(y, z, p)
  PROVE  Cong(x, z, p)
<1>1. x \in Int /\ y \in Int /\ z \in Int
  BY DEF Cong
<1>2. PICK e \in Int : x = y + e * p
  BY DEF Cong
<1>3. PICK d \in Int : y = z + d * p
  BY DEF Cong
<1>4. d + e \in Int /\ x = z + (d + e) * p
  BY <1>1, <1>2, <1>3
<1> QED BY <1>1, <1>4 DEF Cong

LEMMA CongPlus ==
  ASSUME NEW p \in Int, NEW x, NEW y, NEW u, NEW c, Cong(x, y, p), Cong(u, c, p)
  PROVE  Cong(x + u, y + c, p) /\ Cong(x - u, y - c, p)
<1>1. x \in Int /\ y \in Int /\ u \in Int /\ c \in Int
  BY DEF Cong
<1>2. PICK e \in Int : x = y + e * p
  BY DEF Cong
<1>3. PICK d \in Int : u = c + d * p
  BY DEF Cong
<1>4. /\ e + d \in Int /\ x + u = (y + c) + (e + d) * p
      /\ e - d \in Int /\ x - u = (y - c) + (e - d) * p
  BY <1>1, <1>2, <1>3
<1>5. x + u \in Int /\ y + c \in Int /\ x - u \in Int /\ y - c \in Int
  BY <1>1
<1> QED BY <1>4, <1>5 DEF Cong

LEMMA CongTimes ==
  ASSUME NEW p \in Int, NEW x, NEW y, NEW u, NEW c, Cong(x, y, p), Cong(u, c, p)
  PROVE  Cong(x * u, y * c, p)
<1>1. x \in Int /\ y \in Int /\ u \in Int /\ c \in Int
  BY DEF Cong
<1>2. PICK e \in Int : x = y + e * p
  BY DEF Cong
<1>3. PICK d \in Int : u = c + d * p
  BY DEF Cong
<1>4. y * d + e * c + e * d * p \in Int /\ x * u = y * c + (y * d + e * c + e * d * p) * p
  BY <1>1, <1>2, <1>3
<1>5. x * u \in Int /\ y * c \in Int
  BY <1>1
<1> QED BY <1>4, <1>5 DEF Cong

LEMMA CongPow ==
  ASSUME NEW p \in Int, NEW x, NEW y, Cong(x, y, p), NEW k \in Nat
  PROVE  Cong(Pow(x, k), Pow(y, k), p)
<1> DEFINE S == {i \in Nat : Cong(Pow(x, i), Pow(y, i), p)}
<1>0. x \in Int /\ y \in Int
  BY DEF Cong
<1>1. 0 \in S
  <2>1. Pow(x, 0) = 1 /\ Pow(y, 0) = 1
    BY <1>0, PowUnfolds
  <2> QED BY <2>1, CongSame
<1>2. ASSUME NEW i \in Nat, i \in S PROVE i + 1 \in S
  <2>1. Cong(Pow(x, i) * x, Pow(y, i) * y, p)
    BY <1>2, CongTimes
  <2>2. Pow(x, i + 1) = Pow(x, i) * x /\ Pow(y, i + 1) = Pow(y, i) * y
    BY <1>0, PowUnfolds
  <2> QED BY <2>1, <2>2
<1> HIDE DEF S
<1>3. k \in S
  BY <1>1, <1>2, AllNumbers
<1> QED BY <1>3 DEF S

\* All factors but 1 are even: a power of two.
TwoPower(n) ==
  /\ n \in Nat \ {0}
  /\ \A d \in Nat, e \in Nat : n = d * e /\ d # 1 => \E j \in Nat : d = 2 * j

\* Halves, doubles and factors of powers of two.
LEMMA TwoHalf ==
  ASSUME NEW n, TwoPower(n), n # 1
  PROVE  \E half \in Nat \ {0} : n = 2 * half /\ TwoPower(half)
<1>1. n \in Nat \ {0} /\ n = n * 1
  BY DEF TwoPower
<1>2. PICK half \in Nat : n = 2 * half
  BY <1>1 DEF TwoPower
<1>3. half \in Nat \ {0}
  BY <1>1, <1>2
<1>4. ASSUME NEW d \in Nat, NEW e \in Nat, half = d * e, d # 1 PROVE \E j \in Nat : d = 2 * j
  <2>1. 2 * e \in Nat /\ n = d * (2 * e)
    BY <1>2, <1>4
  <2> QED BY <1>4, <2>1 DEF TwoPower
<1>5. TwoPower(half)
  BY <1>3, <1>4 DEF TwoPower
<1> QED BY <1>2, <1>3, <1>5

\* What holds for 1 and passes from a power of two to its double holds for all.
LEMMA TwoInduction ==
  ASSUME NEW S, 1 \in S, \A n \in Nat : TwoPower(n) /\ n \in S => 2 * n \in S
  PROVE  \A n \in Nat : TwoPower(n) => n \in S
<1> DEFINE Bad == {n \in Nat : TwoPower(n) /\ n \notin S}
<1> SUFFICES ASSUME Bad # {} PROVE FALSE
  OBVIOUS
<1>1. Bad \in SUBSET Nat
  OBVIOUS
<1>2. PICK x \in Bad : \A y \in Bad : x <= y
  BY <1>1, LeastNumber
<1>3. TwoPower(x) /\ x \notin S /\ x # 1
  BY <1>2
<1>4. PICK half \in Nat \ {0} : x = 2 * half /\ TwoPower(half)
  BY <1>3, TwoHalf
<1>5. half < x
  BY <1>4
<1>6. half \notin Bad
  BY <1>2, <1>4, <1>5
<1>7. half \in S
  BY <1>4, <1>6
<1> QED BY <1>3, <1>4, <1>7

\* Division with remainder of any integer.
LEMMA DivideBy ==
  ASSUME NEW z \in Int, NEW d \in Nat \ {0}
  PROVE  \E q \in Int, e \in 0 .. d - 1 : z = q * d + e
<1>1. z \div d \in Int /\ z % d \in 0 .. d - 1 /\ z = (z \div d) * d + (z % d)
  BY Z3
<1> QED BY <1>1

LEMMA MultipleOf ==
  ASSUME NEW d \in Nat \ {0}, NEW c \in Int, NEW z \in Int, z = d * c
  PROVE  z % d = 0
<1> DEFINE q == z \div d
           e == z % d
<1>1. q \in Int /\ e \in 0 .. d - 1 /\ z = q * d + e
  BY Z3
<1> HIDE DEF q
<1>2. e = d * (c - q)
  <2> HIDE DEF e
  <2> QED BY <1>1
<1> HIDE DEF e
<1>3. c - q >= 1 => d * (c - q) >= d
  BY <1>1
<1>4. c - q <= -1 => d * (c - q) <= -d
  BY <1>1
<1>5. c - q = 0
  BY <1>1, <1>2, <1>3, <1>4
<1>6. e = 0
  BY <1>2, <1>5
<1> QED BY <1>6 DEF e

\* d is a combination of p and x.
Combines(d, p, x) == \E a \in Int, u \in Int : d = a * p + u * x

\* What is not zero modulo a prime has an inverse.
LEMMA PrimeInverse ==
  ASSUME NEW p, IsPrime(p), NEW x \in Int, ~ Cong(x, 0, p)
  PROVE  \E u \in Int : Cong(u * x, 1, p)
<1>1. p \in Nat \ {0} /\ p >= 2
  BY DEF IsPrime
<1> DEFINE S == {d \in Nat \ {0} : Combines(d, p, x)}
<1>2. Combines(p, p, x) /\ Combines(x, p, x)
  <2>1. p = 1 * p + 0 * x /\ x = 0 * p + 1 * x /\ 0 \in Int /\ 1 \in Int
    BY <1>1
  <2> QED BY <2>1, Zenon DEF Combines
<1>3. p \in S
  BY <1>1, <1>2
<1>4. PICK d \in S : \A e \in S : d <= e
  <2>1. S \in SUBSET Nat /\ S # {}
    BY <1>3
  <2> HIDE DEF S
  <2> QED BY <2>1, LeastNumber
<1>5. PICK a \in Int, u \in Int : d = a * p + u * x
  BY <1>4 DEF Combines
<1>6. d \in Nat \ {0}
  BY <1>4
<1>7. ASSUME NEW z \in Int, Combines(z, p, x) PROVE \E q \in Int : z = q * d
  <2>1. PICK q \in Int, e \in 0 .. d - 1 : z = q * d + e
    BY <1>6, DivideBy
  <2>2. PICK n \in Int, w \in Int : z = n * p + w * x
    BY <1>7 DEF Combines
  <2>3. e = (n - q * a) * p + (w - q * u) * x
    BY <1>1, <1>5, <2>1, <2>2
  <2>4. n - q * a \in Int /\ w - q * u \in Int
    OBVIOUS
  <2>5. Combines(e, p, x)
    BY <2>3, <2>4 DEF Combines
  <2>6. e = 0
    BY <1>4, <1>6, <2>1, <2>5
  <2> QED BY <2>1, <2>6
<1>8. PICK c \in Int : p = c * d
  <2>1. p \in Int
    BY <1>1
  <2> QED BY <1>2, <1>7, <2>1
<1>9. PICK b \in Int : x = b * d
  BY <1>2, <1>7
<1>10. c >= 1
  <2>1. c <= 0 => c * d <= 0
    BY <1>6
  <2> QED BY <1>1, <1>6, <1>8, <2>1
<1>11. d <= p /\ c <= p
  <2>1. c * d >= d /\ c * d >= c
    BY <1>6, <1>10
  <2> QED BY <1>1, <1>6, <1>8, <2>1
<1>12. d # p
  <2> SUFFICES ASSUME d = p PROVE FALSE
    OBVIOUS
  <2>1. x = 0 + b * p
    BY <1>1, <1>9
  <2> QED BY <2>1 DEF Cong
<1>13. d = 1
  <2> SUFFICES ASSUME d # 1 PROVE FALSE
    OBVIOUS
  <2>1. d \in 2 .. p - 1 /\ c \in 1 .. p /\ d * c = p
    BY <1>1, <1>6, <1>8, <1>10, <1>11, <1>12
  <2>2. p % d = 0
    <3>1. p \in Int /\ c \in Int /\ p = d * c
      BY <1>1, <2>1
    <3> QED BY <1>6, <3>1, MultipleOf, Zenon
  <2> QED BY <1>1, <2>1, <2>2 DEF IsPrime
<1>14. u * x = 1 + (-a) * p /\ -a \in Int /\ u * x \in Int
  BY <1>1, <1>5, <1>13
<1> QED BY <1>14 DEF Cong

\* A prime divides a factor of what it divides.
LEMMA PrimeDivides ==
  ASSUME NEW p, IsPrime(p), NEW x \in Int, NEW y \in Int, Cong(x * y, 0, p)
  PROVE  Cong(x, 0, p) \/ Cong(y, 0, p)
<1> SUFFICES ASSUME ~ Cong(x, 0, p) PROVE Cong(y, 0, p)
  OBVIOUS
<1>1. p \in Int
  BY DEF IsPrime
<1>2. PICK u \in Int : Cong(u * x, 1, p)
  BY PrimeInverse
<1>3. Cong((u * x) * y, 1 * y, p)
  BY <1>1, <1>2, CongSame, CongTimes
<1>4. Cong(u * (x * y), u * 0, p)
  BY <1>1, CongSame, CongTimes
<1>5. (u * x) * y = u * (x * y) /\ 1 * y = y /\ u * 0 = 0
  OBVIOUS
<1>6. Cong(y, u * (x * y), p)
  BY <1>1, <1>3, <1>5, CongSwap
<1> QED BY <1>1, <1>4, <1>5, <1>6, CongVia

LEMMA OneNotZero ==
  ASSUME NEW p \in Nat, p >= 3
  PROVE  ~ Cong(-1, 1, p) /\ ~ Cong(1, 0, p)
<1>1. ASSUME Cong(-1, 1, p) PROVE FALSE
  <2>1. PICK e \in Int : -1 = 1 + e * p
    BY <1>1 DEF Cong
  <2>2. e >= 0 => e * p >= 0
    OBVIOUS
  <2>3. e <= -1 => e * p <= -p
    OBVIOUS
  <2> QED BY <2>1, <2>2, <2>3
<1>2. ASSUME Cong(1, 0, p) PROVE FALSE
  <2>1. PICK e \in Int : 1 = 0 + e * p
    BY <1>2 DEF Cong
  <2>2. e <= 0 => e * p <= 0
    OBVIOUS
  <2>3. e >= 1 => e * p >= p
    OBVIOUS
  <2> QED BY <2>1, <2>2, <2>3
<1> QED BY <1>1, <1>2

\* A root of X^n + 1.
MinusRoot(c, n, p) == c \in Int /\ Cong(Pow(c, n), -1, p)

LEMMA MinusRootSquare ==
  ASSUME NEW p \in Int, NEW n \in Nat, NEW c, MinusRoot(c, 2 * n, p)
  PROVE  MinusRoot(c * c, n, p)
<1>1. c \in Int /\ c * c \in Int
  BY DEF MinusRoot
<1>2. c * c = Pow(c, 2)
  <2>1. Pow(c, 0 + 1) = 1 * c /\ Pow(c, 1 + 1) = Pow(c, 1) * c
    BY <1>1, PowUnfolds
  <2> QED BY <1>1, <2>1
<1>3. Pow(c * c, n) = Pow(c, 2 * n)
  BY <1>1, <1>2, PowProduct
<1> QED BY <1>1, <1>3 DEF MinusRoot
-----------------------------------------------------------------------------
\* Products of integers, factor by factor and in halves.

\* Products of integers.
ProductsOf(F) == CHOOSE fn \in [Nat -> Int] : fn[0] = 1 /\ \A k \in Nat : fn[k + 1] = fn[k] * F[k]
Prod(F, n) == ProductsOf(F)[n]

LEMMA ProdUnfolds ==
  ASSUME NEW F \in Seqs
  PROVE  /\ Prod(F, 0) = 1
         /\ \A k \in Nat : Prod(F, k) \in Int /\ Prod(F, k + 1) = Prod(F, k) * F[k]
<1> DEFINE g == [k \in Nat |-> [c \in Int |-> c * F[k]]]
<1>1. g \in Steps(Int) /\ \A k \in Nat, c \in Int : g[k][c] = c * F[k]
  BY DEF Steps, Seqs
<1> HIDE DEF g
<1>2. PICK fn : Iterates(Int, fn, 1, g)
  <2>1. 1 \in Int
    OBVIOUS
  <2> QED BY <1>1, <2>1, Iteration
<1>3. fn[0] = 1 /\ \A k \in Nat : fn[k + 1] = fn[k] * F[k]
  BY <1>1, <1>2 DEF Iterates
<1>4. /\ ProductsOf(F) \in [Nat -> Int] /\ ProductsOf(F)[0] = 1
      /\ \A k \in Nat : ProductsOf(F)[k + 1] = ProductsOf(F)[k] * F[k]
  BY <1>2, <1>3 DEF ProductsOf, Iterates
<1> QED BY <1>4 DEF Prod

LEMMA ProdCong ==
  ASSUME NEW p \in Int, NEW F \in Seqs, NEW G \in Seqs, NEW n \in Nat,
         \A i \in Nat : i < n => Cong(F[i], G[i], p)
  PROVE  Cong(Prod(F, n), Prod(G, n), p)
<1> DEFINE S == {k \in Nat : k <= n => Cong(Prod(F, k), Prod(G, k), p)}
<1>1. 0 \in S
  <2>1. 1 \in Int
    OBVIOUS
  <2> QED BY <2>1, ProdUnfolds, CongSame
<1>2. ASSUME NEW k \in Nat, k \in S PROVE k + 1 \in S
  <2> SUFFICES ASSUME k + 1 <= n PROVE Cong(Prod(F, k + 1), Prod(G, k + 1), p)
    OBVIOUS
  <2>1. Cong(Prod(F, k), Prod(G, k), p) /\ Cong(F[k], G[k], p)
    BY <1>2
  <2>2. Cong(Prod(F, k) * F[k], Prod(G, k) * G[k], p)
    BY <2>1, CongTimes
  <2> QED BY <2>2, ProdUnfolds
<1> HIDE DEF S
<1>3. n \in S
  BY <1>1, <1>2, AllNumbers
<1> QED BY <1>3 DEF S

\* What agrees below n has the same product.
LEMMA ProdSame ==
  ASSUME NEW F \in Seqs, NEW G \in Seqs, NEW n \in Nat, \A i \in Nat : i < n => F[i] = G[i]
  PROVE  Prod(F, n) = Prod(G, n)
<1> DEFINE S == {k \in Nat : k <= n => Prod(F, k) = Prod(G, k)}
<1>1. 0 \in S
  BY ProdUnfolds
<1>2. ASSUME NEW k \in Nat, k \in S PROVE k + 1 \in S
  <2> SUFFICES ASSUME k + 1 <= n PROVE Prod(F, k + 1) = Prod(G, k + 1)
    OBVIOUS
  <2>1. Prod(F, k) = Prod(G, k) /\ F[k] = G[k]
    BY <1>2
  <2> QED BY <2>1, ProdUnfolds
<1> HIDE DEF S
<1>3. n \in S
  BY <1>1, <1>2, AllNumbers
<1> QED BY <1>3 DEF S

LEMMA ProdTimes ==
  ASSUME NEW F \in Seqs, NEW G \in Seqs, NEW H \in Seqs, NEW n \in Nat,
         \A i \in Nat : i < n => H[i] = F[i] * G[i]
  PROVE  Prod(H, n) = Prod(F, n) * Prod(G, n)
<1> DEFINE S == {k \in Nat : k <= n => Prod(H, k) = Prod(F, k) * Prod(G, k)}
<1>1. 0 \in S
  BY ProdUnfolds
<1>2. ASSUME NEW k \in Nat, k \in S PROVE k + 1 \in S
  <2> SUFFICES ASSUME k + 1 <= n PROVE Prod(H, k + 1) = Prod(F, k + 1) * Prod(G, k + 1)
    OBVIOUS
  <2>1. Prod(H, k) = Prod(F, k) * Prod(G, k) /\ H[k] = F[k] * G[k]
    BY <1>2
  <2>2. /\ Prod(H, k + 1) = Prod(H, k) * H[k]
        /\ Prod(F, k + 1) = Prod(F, k) * F[k] /\ Prod(G, k + 1) = Prod(G, k) * G[k]
        /\ Prod(F, k) \in Int /\ Prod(G, k) \in Int
    BY ProdUnfolds
  <2>3. F[k] \in Int /\ G[k] \in Int
    BY DEF Seqs
  <2>4. (Prod(F, k) * Prod(G, k)) * (F[k] * G[k]) = (Prod(F, k) * F[k]) * (Prod(G, k) * G[k])
    BY <2>2, <2>3
  <2> QED BY <2>1, <2>2, <2>4
<1> HIDE DEF S
<1>3. n \in S
  BY <1>1, <1>2, AllNumbers
<1> QED BY <1>3 DEF S

\* Only one factor is not 1.
LEMMA ProdAlone ==
  ASSUME NEW F \in Seqs, NEW n \in Nat, NEW j \in Nat, j < n,
         \A i \in Nat : i < n /\ i # j => F[i] = 1
  PROVE  Prod(F, n) = F[j]
<1> DEFINE S == {k \in Nat : k <= n => Prod(F, k) = IF k <= j THEN 1 ELSE F[j]}
<1>1. 0 \in S
  BY ProdUnfolds
<1>2. ASSUME NEW k \in Nat, k \in S PROVE k + 1 \in S
  <2> SUFFICES ASSUME k + 1 <= n PROVE Prod(F, k + 1) = IF k + 1 <= j THEN 1 ELSE F[j]
    OBVIOUS
  <2>1. Prod(F, k) = IF k <= j THEN 1 ELSE F[j]
    BY <1>2
  <2>2. Prod(F, k + 1) = Prod(F, k) * F[k] /\ F[k] \in Int /\ F[j] \in Int
    BY ProdUnfolds DEF Seqs
  <2>3. CASE k < j
    BY <2>1, <2>2, <2>3
  <2>4. CASE k = j
    BY <2>1, <2>2, <2>4
  <2>5. CASE k > j
    BY <2>1, <2>2, <2>5
  <2> QED BY <2>3, <2>4, <2>5
<1> HIDE DEF S
<1>3. n \in S
  BY <1>1, <1>2, AllNumbers
<1> QED BY <1>3 DEF S

\* A factor of 1 that becomes F[j].
LEMMA ProdInsert ==
  ASSUME NEW F \in Seqs, NEW G \in Seqs, NEW n \in Nat, NEW j \in Nat, j < n,
         G[j] = 1, \A i \in Nat : i < n /\ i # j => F[i] = G[i]
  PROVE  Prod(F, n) = F[j] * Prod(G, n)
<1> DEFINE L == [i \in Nat |-> IF i = j THEN F[j] ELSE 1]
<1>1. L \in Seqs /\ L[j] = F[j] /\ \A i \in Nat : i # j => L[i] = 1
  BY DEF Seqs
<1> HIDE DEF L
<1>2. \A i \in Nat : i < n => F[i] = L[i] * G[i]
  <2> SUFFICES ASSUME NEW i \in Nat, i < n PROVE F[i] = L[i] * G[i]
    OBVIOUS
  <2>1. F[i] \in Int /\ G[i] \in Int
    BY DEF Seqs
  <2>2. CASE i = j
    BY <1>1, <2>1, <2>2
  <2>3. CASE i # j
    BY <1>1, <2>1, <2>3
  <2> QED BY <2>2, <2>3
<1>3. Prod(F, n) = Prod(L, n) * Prod(G, n)
  BY <1>1, <1>2, ProdTimes
<1>4. Prod(L, n) = L[j]
  BY <1>1, ProdAlone
<1> QED BY <1>1, <1>3, <1>4

\* Two halves of a product.
LEMMA ProdSplit ==
  ASSUME NEW F \in Seqs, NEW G \in Seqs, NEW l \in Nat, NEW n \in Nat,
         \A i \in Nat : i < n => G[i] = F[l + i]
  PROVE  Prod(F, l + n) = Prod(F, l) * Prod(G, n)
<1> DEFINE S == {k \in Nat : k <= n => Prod(F, l + k) = Prod(F, l) * Prod(G, k)}
<1>1. 0 \in S
  <2>1. Prod(F, l) \in Int /\ Prod(G, 0) = 1 /\ l + 0 = l
    BY ProdUnfolds
  <2> QED BY <2>1
<1>2. ASSUME NEW k \in Nat, k \in S PROVE k + 1 \in S
  <2> SUFFICES ASSUME k + 1 <= n PROVE Prod(F, l + (k + 1)) = Prod(F, l) * Prod(G, k + 1)
    OBVIOUS
  <2>1. Prod(F, l + k) = Prod(F, l) * Prod(G, k) /\ G[k] = F[l + k]
    BY <1>2
  <2>2. Prod(F, (l + k) + 1) = Prod(F, l + k) * F[l + k] /\ l + k \in Nat
    BY ProdUnfolds
  <2>3. Prod(G, k + 1) = Prod(G, k) * G[k] /\ Prod(F, l) \in Int /\ Prod(G, k) \in Int
    BY ProdUnfolds
  <2>4. G[k] \in Int
    BY DEF Seqs
  <2>5. (Prod(F, l) * Prod(G, k)) * G[k] = Prod(F, l) * (Prod(G, k) * G[k])
    BY <2>3, <2>4
  <2>6. l + (k + 1) = (l + k) + 1
    OBVIOUS
  <2> QED BY <2>1, <2>2, <2>3, <2>5, <2>6
<1> HIDE DEF S
<1>3. n \in S
  BY <1>1, <1>2, AllNumbers
<1> QED BY <1>3 DEF S
-----------------------------------------------------------------------------
\* Fermat's theorem, from the multiples of a number that is not zero modulo a prime.

\* The set of the remainders of x, 2x, ..., kx.
Multiples(x, k, p) == {(x * i) % p : i \in 1 .. k}

\* The factors of a product over a set.
Members(S) == [i \in Nat |-> IF i \in S THEN i ELSE 1]

LEMMA MembersAre ==
  ASSUME NEW S
  PROVE  Members(S) \in Seqs /\ \A i \in Nat : Members(S)[i] = IF i \in S THEN i ELSE 1
BY DEF Members, Seqs

LEMMA RemainderIs ==
  ASSUME NEW x \in Int, NEW p \in Nat \ {0}
  PROVE  x % p \in 0 .. p - 1 /\ Cong(x % p, x, p)
<1> DEFINE q == x \div p
           e == x % p
<1>1. q \in Int /\ e \in 0 .. p - 1 /\ x = q * p + e
  BY Z3
<1> HIDE DEF q, e
<1>2. e = x + (-q) * p /\ -q \in Int /\ e \in Int
  BY <1>1
<1>3. Cong(e, x, p)
  BY <1>2 DEF Cong
<1> QED BY <1>1, <1>3 DEF e

\* Congruent remainders are equal.
LEMMA SameResidue ==
  ASSUME NEW p \in Nat \ {0}, NEW x \in 0 .. p - 1, NEW y \in 0 .. p - 1, Cong(x, y, p)
  PROVE  x = y
<1>1. PICK e \in Int : x = y + e * p
  BY DEF Cong
<1>2. e >= 1 => e * p >= p
  OBVIOUS
<1>3. e <= -1 => e * p <= -p
  OBVIOUS
<1>4. e = 0
  BY <1>1, <1>2, <1>3
<1> QED BY <1>1, <1>4

\* What is not zero modulo a prime may be cancelled.
LEMMA PrimeCancels ==
  ASSUME NEW p, IsPrime(p), NEW x \in Int, ~ Cong(x, 0, p), NEW y \in Int, NEW z \in Int,
         Cong(x * y, x * z, p)
  PROVE  Cong(y, z, p)
<1>1. p \in Int
  BY DEF IsPrime
<1>2. Cong(x * y - x * z, x * z - x * z, p)
  <2>1. Cong(x * z, x * z, p)
    BY <1>1, CongSame
  <2> QED BY <1>1, <2>1, CongPlus
<1>3. x * y - x * z = x * (y - z) /\ x * z - x * z = 0 /\ y - z \in Int
  OBVIOUS
<1>4. Cong(y - z, 0, p)
  BY <1>2, <1>3, PrimeDivides
<1>5. Cong((y - z) + z, 0 + z, p)
  BY <1>1, <1>4, CongPlus, CongSame
<1> QED BY <1>5

LEMMA NotMultiple ==
  ASSUME NEW p \in Nat \ {0}, NEW i \in 1 .. p - 1
  PROVE  ~ Cong(i, 0, p)
<1>1. ASSUME Cong(i, 0, p) PROVE FALSE
  <2>1. i \in 0 .. p - 1 /\ 0 \in 0 .. p - 1
    OBVIOUS
  <2>2. i = 0
    BY <1>1, <2>1, SameResidue
  <2> QED BY <2>2
<1> QED BY <1>1

\* Fermat: the multiples of x are the numbers below p in another order, so their
\* product is that of those numbers.
LEMMA Fermat ==
  ASSUME NEW p, IsPrime(p), NEW x \in Int, ~ Cong(x, 0, p)
  PROVE  Cong(Pow(x, p - 1), 1, p)
<1>1. p \in Nat \ {0} /\ p \in Int /\ p >= 2 /\ p - 1 \in Nat
  BY DEF IsPrime
<1>2. \A i \in Int : (x * i) % p \in 0 .. p - 1 /\ Cong((x * i) % p, x * i, p)
  <2> TAKE i \in Int
  <2>1. x * i \in Int
    OBVIOUS
  <2> QED BY <1>1, <2>1, RemainderIs
<1>3. ASSUME NEW i \in 1 .. p - 1 PROVE (x * i) % p \in 1 .. p - 1
  <2>1. ASSUME (x * i) % p = 0 PROVE FALSE
    <3>0. i \in Int /\ Cong((x * i) % p, x * i, p)
      <4>1. i \in Int
        BY <1>1
      <4> QED BY <1>2, <4>1
    <3>1. Cong(x * i, 0, p)
      BY <1>1, <2>1, <3>0, CongSwap
    <3>2. Cong(i, 0, p)
      BY <3>1, PrimeDivides
    <3> QED BY <1>1, <3>2, NotMultiple
  <2> QED BY <1>1, <1>2, <2>1
<1>4. ASSUME NEW i \in 1 .. p - 1, NEW j \in 1 .. p - 1, (x * i) % p = (x * j) % p PROVE i = j
  <2>0. i \in Int /\ j \in Int /\ Cong((x * i) % p, x * i, p) /\ Cong((x * j) % p, x * j, p)
    <3>1. i \in Int /\ j \in Int
      BY <1>1
    <3> QED BY <1>2, <3>1
  <2>1. Cong(x * i, x * j, p)
    <3>1. Cong(x * i, (x * i) % p, p)
      BY <1>1, <2>0, CongSwap
    <3> QED BY <1>1, <1>4, <2>0, <3>1, CongVia
  <2>2. Cong(i, j, p)
    BY <2>1, PrimeCancels
  <2> QED BY <1>1, <2>2, SameResidue
<1> DEFINE M(k) == Members(Multiples(x, k, p))
           All == Members(Nat \ {0})
           S == {k \in Nat : k <= p - 1 => Cong(Prod(M(k), p), Pow(x, k) * Prod(All, k + 1), p)}
<1>5. All \in Seqs /\ All[0] = 1 /\ \A i \in Nat : i # 0 => All[i] = i
  BY MembersAre
<1>6. \A k \in Nat : Prod(All, k) \in Int
  BY <1>5, ProdUnfolds
<1>7. 0 \in S
  <2>1. Multiples(x, 0, p) = {}
    BY DEF Multiples
  <2>2. M(0) \in Seqs /\ \A i \in Nat : M(0)[i] = 1
    BY <2>1, MembersAre
  <2>3. Prod(M(0), p) = 1
    <3>1. Prod(M(0), p) = M(0)[0]
      BY <1>1, <2>2, ProdAlone
    <3> QED BY <2>2, <3>1
  <2>4. Prod(All, 0 + 1) = 1 /\ Pow(x, 0) = 1
    <3> HIDE DEF All
    <3>1. Prod(All, 0) = 1 /\ Prod(All, 0 + 1) = Prod(All, 0) * All[0]
      BY <1>5, ProdUnfolds
    <3> QED BY <1>5, <3>1, PowUnfolds
  <2>5. Cong(1, 1 * 1, p)
    BY <1>1, CongSame
  <2> QED BY <2>3, <2>4, <2>5
<1>8. ASSUME NEW k \in Nat, k \in S PROVE k + 1 \in S
  <2> SUFFICES ASSUME k + 1 <= p - 1 PROVE Cong(Prod(M(k + 1), p), Pow(x, k + 1) * Prod(All, (k + 1) + 1), p)
    OBVIOUS
  <2> DEFINE j == (x * (k + 1)) % p
  <2>1. k + 1 \in 1 .. p - 1 /\ j \in 1 .. p - 1 /\ Cong(j, x * (k + 1), p)
    <3>1. k + 1 \in 1 .. p - 1 /\ k + 1 \in Int
      BY <1>1
    <3>2. j \in 1 .. p - 1
      BY <1>3, <3>1
    <3>3. Cong(j, x * (k + 1), p)
      BY <1>2, <3>1
    <3> QED BY <3>1, <3>2, <3>3
  <2>2. Multiples(x, k + 1, p) = Multiples(x, k, p) \cup {j}
    <3> DEFINE val(i) == (x * i) % p
    <3>1. /\ \A i \in 1 .. k + 1 : i \in 1 .. k \/ i = k + 1
          /\ \A i \in 1 .. k : i \in 1 .. k + 1
          /\ k + 1 \in 1 .. k + 1
      OBVIOUS
    <3>2. /\ Multiples(x, k + 1, p) = {val(i) : i \in 1 .. k + 1}
          /\ Multiples(x, k, p) = {val(i) : i \in 1 .. k} /\ j = val(k + 1)
      BY DEF Multiples
    <3> HIDE DEF val, j
    <3>3. \A y : (\E i \in 1 .. k + 1 : y = val(i)) <=> (\E i \in 1 .. k : y = val(i)) \/ y = val(k + 1)
      BY <3>1, Zenon
    <3> QED BY <3>2, <3>3, Zenon
  <2>3. j \notin Multiples(x, k, p)
    <3> SUFFICES ASSUME NEW i \in 1 .. k, j = (x * i) % p PROVE FALSE
      BY DEF Multiples
    <3>1. i \in 1 .. p - 1 /\ i # k + 1
      BY <1>1
    <3> QED BY <1>4, <2>1, <3>1
  <2> HIDE DEF j
  <2>4. /\ M(k) \in Seqs /\ M(k + 1) \in Seqs /\ M(k)[j] = 1 /\ M(k + 1)[j] = j
        /\ \A i \in Nat : i < p /\ i # j => M(k + 1)[i] = M(k)[i]
        /\ j \in Nat /\ j < p
    <3>1. j \in Nat /\ j < p
      BY <1>1, <2>1
    <3>2. M(k)[j] = 1 /\ M(k + 1)[j] = j
      BY <2>2, <2>3, <3>1, MembersAre
    <3>3. \A i \in Nat : i < p /\ i # j => M(k + 1)[i] = M(k)[i]
      BY <2>2, MembersAre
    <3> QED BY <3>1, <3>2, <3>3, MembersAre
  <2>5. Prod(M(k + 1), p) = j * Prod(M(k), p)
    <3> HIDE DEF M
    <3>1. Prod(M(k + 1), p) = M(k + 1)[j] * Prod(M(k), p)
      BY <1>1, <2>4, ProdInsert
    <3> QED BY <2>4, <3>1
  <2>6. Cong(Prod(M(k), p), Pow(x, k) * Prod(All, k + 1), p)
    <3>1. k <= p - 1
      BY <1>1
    <3> HIDE DEF M, All
    <3> QED BY <1>8, <3>1
  <2>7. Cong(j * Prod(M(k), p), (x * (k + 1)) * (Pow(x, k) * Prod(All, k + 1)), p)
    BY <1>1, <2>1, <2>6, CongTimes
  <2>8. /\ Prod(All, (k + 1) + 1) = Prod(All, k + 1) * (k + 1)
        /\ Pow(x, k + 1) = Pow(x, k) * x /\ Pow(x, k) \in Int
    <3>1. k + 1 \in Nat /\ All[k + 1] = k + 1
      BY <1>5
    <3> HIDE DEF All
    <3>2. Prod(All, (k + 1) + 1) = Prod(All, k + 1) * All[k + 1]
      BY <1>5, <3>1, ProdUnfolds
    <3> QED BY <3>1, <3>2, PowUnfolds
  <2>9. (x * (k + 1)) * (Pow(x, k) * Prod(All, k + 1)) = Pow(x, k + 1) * Prod(All, (k + 1) + 1)
    <3>1. Prod(All, k + 1) \in Int
      BY <1>6
    <3> HIDE DEF All
    <3> QED BY <2>8, <3>1
  <2> QED BY <2>5, <2>7, <2>9
<1> HIDE DEF S
<1>9. p - 1 \in S
  BY <1>1, <1>7, <1>8, AllNumbers
<1>10. Cong(Prod(M(p - 1), p), Pow(x, p - 1) * Prod(All, p), p)
  <2>1. (p - 1) + 1 = p
    BY <1>1
  <2> QED BY <1>1, <1>9, <2>1 DEF S
<1>11. Multiples(x, p - 1, p) = 1 .. p - 1
  <2>1. ASSUME NEW i \in 1 .. p - 1 PROVE i \in Multiples(x, p - 1, p)
    <3>1. PICK u \in Int : Cong(u * x, 1, p)
      BY PrimeInverse
    <3> DEFINE c == (u * i) % p
    <3>2. c \in 0 .. p - 1 /\ Cong(c, u * i, p)
      <4>1. u * i \in Int
        BY <1>1
      <4> QED BY <1>1, <4>1, RemainderIs
    <3> HIDE DEF c
    <3>3. Cong(x * c, x * (u * i), p)
      BY <1>1, <3>2, CongSame, CongTimes
    <3>4. Cong((u * x) * i, 1 * i, p)
      <4>1. Cong(i, i, p)
        BY <1>1, CongSame
      <4> QED BY <1>1, <3>1, <4>1, CongTimes
    <3>5. x * (u * i) = (u * x) * i /\ 1 * i = i
      BY <1>1
    <3>6. Cong(x * c, i, p)
      BY <1>1, <3>3, <3>4, <3>5, CongVia
    <3>7. (x * c) % p = i
      <4>1. (x * c) % p \in 0 .. p - 1 /\ Cong((x * c) % p, x * c, p)
        <5>1. c \in Int
          BY <1>1, <3>2
        <5> QED BY <1>2, <5>1
      <4>2. Cong((x * c) % p, i, p)
        BY <1>1, <3>6, <4>1, CongVia
      <4> QED BY <1>1, <4>1, <4>2, SameResidue
    <3>8. c # 0
      <4> SUFFICES ASSUME c = 0 PROVE FALSE
        OBVIOUS
      <4>1. Cong(0, i, p) /\ x * c = 0
        BY <3>6
      <4> QED BY <1>1, <4>1, CongSwap, NotMultiple
    <3>9. c \in 1 .. p - 1
      BY <1>1, <3>2, <3>8
    <3> QED BY <3>7, <3>9 DEF Multiples
  <2> QED BY <1>3, <2>1 DEF Multiples
<1>12. Prod(M(p - 1), p) = Prod(All, p)
  <2>1. \A i \in Nat : i < p => M(p - 1)[i] = All[i]
    BY <1>1, <1>11, MembersAre
  <2>2. M(p - 1) \in Seqs
    BY MembersAre
  <2> HIDE DEF M, All
  <2> QED BY <1>1, <1>5, <2>1, <2>2, ProdSame
<1> DEFINE N0 == {k \in Nat : k <= p => ~ Cong(Prod(All, k), 0, p)}
<1>13. 0 \in N0
  <2>1. 1 \in 1 .. p - 1
    BY <1>1
  <2>2. Prod(All, 0) = 1
    BY <1>5, ProdUnfolds
  <2> QED BY <1>1, <2>1, <2>2, NotMultiple
<1>14. ASSUME NEW k \in Nat, k \in N0 PROVE k + 1 \in N0
  <2> SUFFICES ASSUME k + 1 <= p, Cong(Prod(All, k + 1), 0, p) PROVE FALSE
    OBVIOUS
  <2>1. ~ Cong(Prod(All, k), 0, p) /\ Prod(All, k) \in Int
    BY <1>1, <1>6, <1>14
  <2>2. Prod(All, k + 1) = Prod(All, k) * All[k] /\ All[k] \in 1 .. p - 1
    <3>1. All[k] = IF k = 0 THEN 1 ELSE k
      BY <1>5
    <3>2. All[k] \in 1 .. p - 1
      BY <1>1, <3>1
    <3> HIDE DEF All
    <3> QED BY <1>5, <3>2, ProdUnfolds
  <2>3. ~ Cong(All[k], 0, p)
    BY <1>1, <2>2, NotMultiple
  <2> HIDE DEF All
  <2>4. All[k] \in Int
    BY <1>1, <2>2
  <2> QED BY <1>14, <2>1, <2>2, <2>3, <2>4, PrimeDivides
<1> HIDE DEF N0
<1>15. ~ Cong(Prod(All, p), 0, p)
  <2>1. p \in N0
    BY <1>1, <1>13, <1>14, AllNumbers
  <2> QED BY <1>1, <2>1 DEF N0
<1> HIDE DEF M, All
<1>16. Cong(Prod(All, p) * Pow(x, p - 1), Prod(All, p) * 1, p)
  <2>1. Pow(x, p - 1) \in Int /\ Prod(All, p) \in Int
    BY <1>1, <1>6, PowUnfolds
  <2>2. Pow(x, p - 1) * Prod(All, p) = Prod(All, p) * Pow(x, p - 1) /\ Prod(All, p) * 1 = Prod(All, p)
    BY <2>1
  <2> QED BY <1>1, <1>10, <1>12, <2>2, CongSwap
<1> QED BY <1>1, <1>6, <1>15, <1>16, PrimeCancels, PowUnfolds
-----------------------------------------------------------------------------
\* A polynomial with as many roots as its degree: not every power is one.

\* The value at z of the polynomial with coefficients F from the highest one down,
\* by Horner's rule.
HornersOf(F, z) == CHOOSE fn \in [Nat -> Int] : fn[0] = 0 /\ \A k \in Nat : fn[k + 1] = fn[k] * z + F[k]
Horner(F, z, n) == HornersOf(F, z)[n]

LEMMA HornerUnfolds ==
  ASSUME NEW F \in Seqs, NEW z \in Int
  PROVE  /\ Horner(F, z, 0) = 0
         /\ \A k \in Nat : Horner(F, z, k) \in Int /\ Horner(F, z, k + 1) = Horner(F, z, k) * z + F[k]
<1> DEFINE g == [k \in Nat |-> [c \in Int |-> c * z + F[k]]]
<1>1. g \in Steps(Int) /\ \A k \in Nat, c \in Int : g[k][c] = c * z + F[k]
  BY DEF Steps, Seqs
<1> HIDE DEF g
<1>2. PICK fn : Iterates(Int, fn, 0, g)
  <2>1. 0 \in Int
    OBVIOUS
  <2> QED BY <1>1, <2>1, Iteration
<1>3. fn[0] = 0 /\ \A k \in Nat : fn[k + 1] = fn[k] * z + F[k]
  BY <1>1, <1>2 DEF Iterates
<1>4. /\ HornersOf(F, z) \in [Nat -> Int] /\ HornersOf(F, z)[0] = 0
      /\ \A k \in Nat : HornersOf(F, z)[k + 1] = HornersOf(F, z)[k] * z + F[k]
  BY <1>2, <1>3 DEF HornersOf, Iterates
<1> QED BY <1>4 DEF Horner

\* The values of Horner's rule at y are the quotient by X - y.
LEMMA HornerDivides ==
  ASSUME NEW F \in Seqs, NEW G \in Seqs, NEW y \in Int, NEW z \in Int,
         \A k \in Nat : G[k] = Horner(F, y, k + 1), NEW n \in Nat
  PROVE  Horner(F, z, n + 1) = (z - y) * Horner(G, z, n) + Horner(F, y, n + 1)
<1> DEFINE S == {k \in Nat : Horner(F, z, k + 1) = (z - y) * Horner(G, z, k) + Horner(F, y, k + 1)}
<1>1. 0 \in S
  <2>1. /\ Horner(F, z, 0 + 1) = 0 * z + F[0] /\ Horner(F, y, 0 + 1) = 0 * y + F[0]
        /\ Horner(G, z, 0) = 0 /\ F[0] \in Int
    <3>1. Horner(F, z, 0) = 0 /\ Horner(F, z, 0 + 1) = Horner(F, z, 0) * z + F[0]
      BY HornerUnfolds
    <3>2. Horner(F, y, 0) = 0 /\ Horner(F, y, 0 + 1) = Horner(F, y, 0) * y + F[0]
      BY HornerUnfolds
    <3>3. Horner(G, z, 0) = 0 /\ F[0] \in Int
      BY HornerUnfolds DEF Seqs
    <3> QED BY <3>1, <3>2, <3>3
  <2> QED BY <2>1
<1>2. ASSUME NEW k \in Nat, k \in S PROVE k + 1 \in S
  <2>1. Horner(F, z, k + 1) = (z - y) * Horner(G, z, k) + Horner(F, y, k + 1)
    BY <1>2
  <2>2. /\ k + 1 \in Nat
        /\ Horner(F, z, (k + 1) + 1) = Horner(F, z, k + 1) * z + F[k + 1]
        /\ Horner(F, y, (k + 1) + 1) = Horner(F, y, k + 1) * y + F[k + 1]
        /\ Horner(G, z, k + 1) = Horner(G, z, k) * z + G[k]
        /\ Horner(G, z, k) \in Int /\ Horner(F, y, k + 1) \in Int
    <3>1. k + 1 \in Nat
      OBVIOUS
    <3>2. Horner(F, z, (k + 1) + 1) = Horner(F, z, k + 1) * z + F[k + 1]
      BY <3>1, HornerUnfolds
    <3>3. /\ Horner(F, y, (k + 1) + 1) = Horner(F, y, k + 1) * y + F[k + 1]
          /\ Horner(F, y, k + 1) \in Int
      BY <3>1, HornerUnfolds
    <3>4. Horner(G, z, k + 1) = Horner(G, z, k) * z + G[k] /\ Horner(G, z, k) \in Int
      BY HornerUnfolds
    <3> QED BY <3>1, <3>2, <3>3, <3>4
  <2>3. G[k] = Horner(F, y, k + 1) /\ F[k + 1] \in Int
    BY <2>2 DEF Seqs
  <2>4. ASSUME NEW b \in Int, NEW d \in Int, NEW e \in Int
        PROVE  ((z - y) * b + d) * z + e = (z - y) * (b * z + d) + (d * y + e)
    <3>1. (z - y) * (b * z + d) = (z - y) * b * z + d * z - d * y
      OBVIOUS
    <3> QED BY <3>1
  <2>5. Horner(F, z, (k + 1) + 1) = (z - y) * Horner(G, z, k + 1) + Horner(F, y, (k + 1) + 1)
    BY <2>1, <2>2, <2>3, <2>4
  <2> QED BY <2>2, <2>5
<1> HIDE DEF S
<1>3. n \in S
  BY <1>1, <1>2, AllNumbers
<1> QED BY <1>3 DEF S

\* A polynomial modulo p with n coefficients and the roots 1, ..., n begins with 0.
LEMMA TooManyRoots ==
  ASSUME NEW p, IsPrime(p), NEW n \in 1 .. p - 1, NEW F \in Seqs,
         \A z \in 1 .. n : Cong(Horner(F, z, n), 0, p)
  PROVE  Cong(F[0], 0, p)
<1>0. p \in Nat \ {0} /\ p \in Int
  BY DEF IsPrime
<1> DEFINE S == {k \in Nat : k + 1 <= p - 1 =>
                   \A H \in Seqs : (\A z \in 1 .. k + 1 : Cong(Horner(H, z, k + 1), 0, p)) => Cong(H[0], 0, p)}
<1>1. 0 \in S
  <2> SUFFICES ASSUME NEW H \in Seqs, \A z \in 1 .. 0 + 1 : Cong(Horner(H, z, 0 + 1), 0, p)
               PROVE  Cong(H[0], 0, p)
    OBVIOUS
  <2>1. H[0] \in Int /\ 0 \in Nat
    BY DEF Seqs
  <2>2. \A z \in Int : Horner(H, z, 0) = 0 /\ Horner(H, z, 0 + 1) = Horner(H, z, 0) * z + H[0]
    BY <2>1, HornerUnfolds
  <2>3. 1 \in Int /\ 1 \in 1 .. 0 + 1
    OBVIOUS
  <2>4. Horner(H, 1, 0 + 1) = 0 * 1 + H[0]
    BY <2>2, <2>3
  <2>5. 0 * 1 + H[0] = H[0]
    BY <2>1
  <2>6. Cong(Horner(H, 1, 0 + 1), 0, p)
    BY <2>3
  <2> QED BY <2>4, <2>5, <2>6
<1>2. ASSUME NEW k \in Nat, k \in S PROVE k + 1 \in S
  <2> SUFFICES ASSUME (k + 1) + 1 <= p - 1, NEW H \in Seqs,
                      \A z \in 1 .. (k + 1) + 1 : Cong(Horner(H, z, (k + 1) + 1), 0, p)
               PROVE  Cong(H[0], 0, p)
    OBVIOUS
  <2> DEFINE y == (k + 1) + 1
             G == [i \in Nat |-> Horner(H, y, i + 1)]
  <2>1. y \in Int /\ y \in 1 .. p - 1 /\ y \in 1 .. (k + 1) + 1
    BY <1>0
  <2>2. G \in Seqs /\ \A i \in Nat : G[i] = Horner(H, y, i + 1)
    BY <2>1, HornerUnfolds DEF Seqs
  <2> HIDE DEF G
  <2>3. G[0] = H[0]
    <3> HIDE DEF y
    <3>2. Horner(H, y, 0) = 0 /\ Horner(H, y, 0 + 1) = Horner(H, y, 0) * y + H[0]
      BY <2>1, HornerUnfolds
    <3>1. Horner(H, y, 0 + 1) = 0 * y + H[0] /\ H[0] \in Int
      BY <2>1, <3>2 DEF Seqs
    <3> QED BY <2>1, <2>2, <3>1
  <2>4. ASSUME NEW z \in 1 .. k + 1 PROVE Cong(Horner(G, z, k + 1), 0, p)
    <3>1. z \in Int /\ z \in 1 .. (k + 1) + 1
      OBVIOUS
    <3>2. Horner(H, z, (k + 1) + 1) = (z - y) * Horner(G, z, k + 1) + Horner(H, y, (k + 1) + 1)
      <4> HIDE DEF y
      <4>1. k + 1 \in Nat
        OBVIOUS
      <4> QED BY <2>1, <2>2, <3>1, <4>1, HornerDivides
    <3>3. Cong(Horner(H, z, (k + 1) + 1), 0, p) /\ Cong(Horner(H, y, (k + 1) + 1), 0, p)
      BY <2>1, <3>1
    <3>4. Cong(Horner(H, z, (k + 1) + 1) - Horner(H, y, (k + 1) + 1), 0 - 0, p)
      BY <1>0, <3>3, CongPlus
    <3>5. Horner(G, z, k + 1) \in Int /\ Horner(H, y, (k + 1) + 1) \in Int
      BY <2>1, <2>2, <3>1, HornerUnfolds
    <3>6. Cong((z - y) * Horner(G, z, k + 1), 0, p)
      <4> HIDE DEF y
      <4>1. (z - y) * Horner(G, z, k + 1) \in Int
        BY <2>1, <3>1, <3>5
      <4> QED BY <3>2, <3>4, <3>5, <4>1
    <3>7. ~ Cong(z - y, 0, p)
      <4> SUFFICES ASSUME Cong(z - y, 0, p) PROVE FALSE
        OBVIOUS
      <4>1. Cong(0 - (z - y), 0 - 0, p)
        <5>1. Cong(0, 0, p)
          BY <1>0, CongSame
        <5> QED BY <1>0, <5>1, CongPlus
      <4>2. y - z \in 1 .. p - 1 /\ 0 - (z - y) = y - z
        BY <1>0
      <4> QED BY <1>0, <4>1, <4>2, NotMultiple
    <3> HIDE DEF y
    <3>8. z - y \in Int
      BY <2>1, <3>1
    <3> QED BY <3>5, <3>6, <3>7, <3>8, PrimeDivides
  <2>5. k + 1 <= p - 1
    BY <1>0
  <2>6. Cong(G[0], 0, p)
    BY <1>2, <2>2, <2>4, <2>5
  <2> QED BY <2>3, <2>6
<1> HIDE DEF S
<1>3. n - 1 \in S
  <2>1. n - 1 \in Nat
    BY <1>0
  <2> QED BY <1>1, <1>2, <2>1, AllNumbers
<1>4. (n - 1) + 1 = n /\ n <= p - 1
  BY <1>0
<1> QED BY <1>3, <1>4 DEF S

\* A power of less than p - 1 factors is not 1 everywhere.
LEMMA NotAllOnes ==
  ASSUME NEW p, IsPrime(p), NEW n \in 1 .. p - 2
  PROVE  \E z \in 2 .. p - 1 : ~ Cong(Pow(z, n), 1, p)
<1>0. p \in Nat \ {0} /\ p \in Int /\ n \in Nat
  BY DEF IsPrime
<1> SUFFICES ASSUME \A z \in 2 .. p - 1 : Cong(Pow(z, n), 1, p) PROVE FALSE
  OBVIOUS
<1> DEFINE F == [i \in Nat |-> IF i = 0 THEN 1 ELSE IF i = n THEN -1 ELSE 0]
<1>1. F \in Seqs /\ F[0] = 1 /\ F[n] = -1 /\ \A i \in Nat : i # 0 /\ i # n => F[i] = 0
  BY <1>0 DEF Seqs
<1> HIDE DEF F
<1>2. ASSUME NEW z \in Int, NEW k \in Nat, k < n PROVE Horner(F, z, k + 1) = Pow(z, k)
  <2> DEFINE S == {i \in Nat : i < n => Horner(F, z, i + 1) = Pow(z, i)}
  <2>1. 0 \in S
    <3>1. Horner(F, z, 0) = 0 /\ Horner(F, z, 0 + 1) = Horner(F, z, 0) * z + F[0]
      BY <1>1, HornerUnfolds
    <3> QED BY <1>1, <3>1, PowUnfolds
  <2>2. ASSUME NEW i \in Nat, i \in S PROVE i + 1 \in S
    <3> SUFFICES ASSUME i + 1 < n PROVE Horner(F, z, (i + 1) + 1) = Pow(z, i + 1)
      OBVIOUS
    <3>1. i + 1 \in Nat /\ i + 1 # 0 /\ i + 1 # n
      BY <1>0
    <3>2. Horner(F, z, (i + 1) + 1) = Horner(F, z, i + 1) * z + F[i + 1]
      BY <1>1, <3>1, HornerUnfolds
    <3>3. F[i + 1] = 0
      BY <1>1, <3>1
    <3>4. Horner(F, z, i + 1) = Pow(z, i)
      BY <1>0, <2>2
    <3>5. Pow(z, i) \in Int /\ Pow(z, i + 1) = Pow(z, i) * z
      BY PowUnfolds
    <3> QED BY <3>2, <3>3, <3>4, <3>5
  <2> HIDE DEF S
  <2>3. k \in S
    BY <2>1, <2>2, AllNumbers
  <2> QED BY <1>2, <2>3 DEF S
<1>3. ASSUME NEW z \in Int PROVE Horner(F, z, n + 1) = Pow(z, n) - 1
  <2>1. n - 1 \in Nat /\ n - 1 < n /\ (n - 1) + 1 = n
    BY <1>0
  <2>2. Horner(F, z, n) = Pow(z, n - 1)
    BY <1>2, <2>1
  <2>3. Horner(F, z, n + 1) = Horner(F, z, n) * z + F[n]
    BY <1>0, <1>1, HornerUnfolds
  <2>4. Pow(z, n - 1) \in Int /\ Pow(z, n) = Pow(z, n - 1) * z
    BY <2>1, PowUnfolds
  <2> QED BY <1>1, <2>2, <2>3, <2>4
<1>4. ASSUME NEW z \in 1 .. n + 1 PROVE Cong(Horner(F, z, n + 1), 0, p)
  <2>1. z \in Int
    BY <1>0
  <2>2. Cong(Pow(z, n), 1, p)
    <3>1. CASE z = 1
      <4>1. Pow(1, n) = 1
        BY <1>0, PowOne
      <4> QED BY <1>0, <3>1, <4>1, CongSame
    <3>2. CASE z # 1
      <4>1. z \in 2 .. p - 1
        BY <1>0, <3>2
      <4> QED BY <4>1
    <3> QED BY <3>1, <3>2
  <2>3. Cong(Pow(z, n) - 1, 1 - 1, p)
    <3>1. Cong(1, 1, p)
      BY <1>0, CongSame
    <3> QED BY <1>0, <2>2, <3>1, CongPlus
  <2> QED BY <1>3, <2>1, <2>3
<1>5. n + 1 \in 1 .. p - 1
  BY <1>0
<1>6. Cong(F[0], 0, p)
  BY <1>1, <1>4, <1>5, TooManyRoots
<1>7. 1 \in 1 .. p - 1
  BY <1>0
<1> QED BY <1>0, <1>1, <1>6, <1>7, NotMultiple
-----------------------------------------------------------------------------
\* Course-of-values recursion, and aex_pow, which squares and multiplies.

LEMMA CourseOfValues ==
  ASSUME NEW n \in Nat, NEW S, \A k \in 0 .. n : (\A j \in 0 .. k - 1 : j \in S) => k \in S
  PROVE  \A k \in 0 .. n : k \in S
<1> DEFINE Bad == {k \in 0 .. n : k \notin S}
<1> SUFFICES ASSUME Bad # {} PROVE FALSE
  OBVIOUS
<1>1. Bad \in SUBSET Nat
  OBVIOUS
<1>2. PICK x \in Bad : \A y \in Bad : x <= y
  BY <1>1, LeastNumber
<1>3. \A j \in 0 .. x - 1 : j \in S
  BY <1>2
<1> QED BY <1>2, <1>3

\* fn starts with w at 0 and takes, at every later k, a step from its value at d[k].
RecursionOver(n, E, w, d, g) ==
  /\ n \in Nat /\ w \in E
  /\ d \in [1 .. n -> Nat] /\ \A k \in 1 .. n : d[k] \in 0 .. k - 1
  /\ g \in [1 .. n -> [E -> E]]
SolvedBy(fn, n, E, w, d, g) ==
  /\ fn \in [0 .. n -> E] /\ fn[0] = w
  /\ \A k \in 1 .. n : fn[k] = g[k][fn[d[k]]]

\* There is such a function.
LEMMA Recursion ==
  ASSUME NEW n, NEW E, NEW w, NEW d, NEW g, RecursionOver(n, E, w, d, g)
  PROVE  \E fn : SolvedBy(fn, n, E, w, d, g)
<1> USE DEF RecursionOver
<1> DEFINE Eq(fn, l) == /\ fn \in [0 .. l -> E] /\ fn[0] = w
                        /\ \A k \in 1 .. l : fn[k] = g[k][fn[d[k]]]
           Has == {l \in 0 .. n : \E fn : Eq(fn, l)}
<1>1. ASSUME NEW l \in 0 .. n, \A j \in 0 .. l - 1 : j \in Has
      PROVE  l \in Has
  <2>1. CASE l = 0
    <3>1. Eq([k \in 0 .. 0 |-> w], 0)
      OBVIOUS
    <3> QED BY <2>1, <3>1
  <2>2. CASE l # 0
    <3>1. l - 1 \in 0 .. l - 1 /\ l \in 1 .. n
      BY <2>2
    <3>2. PICK fn : Eq(fn, l - 1)
      BY <1>1, <3>1
    <3> DEFINE e == [k \in 0 .. l |-> IF k <= l - 1 THEN fn[k] ELSE g[l][fn[d[l]]]]
    <3>3. d[l] \in 0 .. l - 1 /\ fn[d[l]] \in E /\ g[l][fn[d[l]]] \in E
      BY <3>1, <3>2
    <3>4. e \in [0 .. l -> E] /\ e[0] = w
      BY <3>1, <3>2, <3>3
    <3>5. ASSUME NEW k \in 1 .. l PROVE e[k] = g[k][e[d[k]]]
      <4>1. CASE k = l
        BY <3>1, <3>3, <4>1
      <4>2. CASE k # l
        <5>1. k \in 1 .. l - 1 /\ k \in 1 .. n
          BY <4>2
        <5>2. d[k] \in 0 .. l - 1 /\ e[d[k]] = fn[d[k]] /\ e[k] = fn[k]
          BY <5>1, SMTT(30)
        <5> QED BY <3>2, <5>1, <5>2
      <4> QED BY <4>1, <4>2
    <3> HIDE DEF e
    <3>6. Eq(e, l)
      BY <3>4, <3>5
    <3> QED BY <3>6
  <2> QED BY <2>1, <2>2
<1> HIDE DEF Has
<1>2. \A l \in 0 .. n : l \in Has
  BY <1>1, CourseOfValues
<1>3. n \in Has
  BY <1>2
<1> QED BY <1>3 DEF Has, SolvedBy

LEMMA WordProduct ==
  ASSUME NEW p \in Nat \ {0}, NEW x \in Int, NEW y \in Int
  PROVE  aex_mul(x, y, p) \in 0 .. p - 1 /\ Cong(aex_mul(x, y, p), x * y, p)
<1>1. x * y \in Int
  OBVIOUS
<1> QED BY <1>1, RemainderIs DEF aex_mul

\* aex_pow squares and multiplies its way to the power.
LEMMA PowIs ==
  ASSUME NEW p \in Nat, p >= 2, NEW x \in Int, NEW n \in Nat
  PROVE  aex_pow(x, n, p) \in 0 .. p - 1 /\ Cong(aex_pow(x, n, p), Pow(x, n), p)
<1>0. p \in Nat \ {0} /\ p \in Int
  OBVIOUS
<1> DEFINE E == 0 .. p - 1
           Step(k, c) == aex_mul(aex_mul(c, c, p), IF k % 2 = 1 THEN x % p ELSE 1, p)
           Eq(fn) == fn = [k \in 0 .. n |-> IF k = 0 THEN 1
                             ELSE LET half == fn[k \div 2]
                                  IN  aex_mul(aex_mul(half, half, p), IF k % 2 = 1 THEN x % p ELSE 1, p)]
           q == CHOOSE fn : Eq(fn)
           d == [k \in 1 .. n |-> k \div 2]
           g == [k \in 1 .. n |-> [c \in E |-> Step(k, c)]]
<1>1. x % p \in 0 .. p - 1 /\ Cong(x % p, x, p)
  BY <1>0, RemainderIs
<1>2. ASSUME NEW c \in E, NEW k \in Nat PROVE Step(k, c) \in E
  <2>1. c \in Int
    OBVIOUS
  <2>2. aex_mul(c, c, p) \in Int
    <3>1. aex_mul(c, c, p) \in 0 .. p - 1
      BY <1>0, <2>1, WordProduct
    <3> QED BY <1>0, <3>1
  <2>3. (IF k % 2 = 1 THEN x % p ELSE 1) \in Int
    BY <1>1
  <2> QED BY <1>0, <2>2, <2>3, WordProduct
<1>3. RecursionOver(n, E, 1, d, g)
  <2>1. d \in [1 .. n -> Nat] /\ \A k \in 1 .. n : d[k] \in 0 .. k - 1
    OBVIOUS
  <2>2. g \in [1 .. n -> [E -> E]]
    <3> HIDE DEF Step, E
    <3> QED BY <1>2
  <2>3. 1 \in E
    OBVIOUS
  <2> HIDE DEF d, g, E
  <2> QED BY <2>1, <2>2, <2>3 DEF RecursionOver
<1>4. PICK sol : SolvedBy(sol, n, E, 1, d, g)
  <2> HIDE DEF d, g, E
  <2> QED BY <1>3, Recursion
<1>5. Eq(sol)
  <2>1. ASSUME NEW k \in 0 .. n PROVE sol[k] = IF k = 0 THEN 1 ELSE Step(k, sol[k \div 2])
    <3>1. CASE k = 0
      BY <1>4, <3>1 DEF SolvedBy
    <3>2. CASE k # 0
      <4>1. k \in 1 .. n /\ d[k] = k \div 2 /\ k \div 2 \in 0 .. n
        BY <3>2
      <4>2. sol[k] = g[k][sol[k \div 2]] /\ sol[k \div 2] \in E
        <5> HIDE DEF d, g, E
        <5> QED BY <1>4, <4>1 DEF SolvedBy
      <4> HIDE DEF d, E, Step
      <4> QED BY <3>2, <4>1, <4>2
    <3> QED BY <3>1, <3>2
  <2>2. sol = [k \in 0 .. n |-> sol[k]]
    <3> HIDE DEF d, g, E
    <3> QED BY <1>4 DEF SolvedBy
  <2> HIDE DEF d, g, E
  <2> QED BY <2>1, <2>2
<1> HIDE DEF d, g
<1>6. Eq(q)
  BY <1>5
<1>7. aex_pow(x, n, p) = q[n]
  BY DEF aex_pow
<1> HIDE DEF q
<1>8. q[0] = 1 /\ \A k \in 1 .. n : q[k] = Step(k, q[k \div 2])
  BY <1>6
<1> HIDE DEF Eq
<1> DEFINE S == {k \in 0 .. n : q[k] \in E /\ Cong(q[k], Pow(x, k), p)}
<1>9. ASSUME NEW k \in 0 .. n, \A j \in 0 .. k - 1 : j \in S PROVE k \in S
  <2>1. CASE k = 0
    <3>1. 1 \in E /\ Pow(x, 0) = 1 /\ Cong(1, 1, p)
      BY <1>0, PowUnfolds, CongSame
    <3> QED BY <1>8, <2>1, <3>1
  <2>2. CASE k # 0
    <3> DEFINE j == k \div 2
               c == q[j]
               b == IF k % 2 = 1 THEN x % p ELSE 1
    <3>1. j \in 0 .. k - 1 /\ k \in 1 .. n /\ j \in Nat
      BY <2>2
    <3>2. c \in E /\ Cong(c, Pow(x, j), p)
      BY <1>9, <3>1
    <3>3. q[k] = aex_mul(aex_mul(c, c, p), b, p)
      BY <1>8, <3>1
    <3>4. b \in Int
      BY <1>1
    <3> HIDE DEF c
    <3>5. c \in Int /\ Cong(aex_mul(c, c, p), c * c, p) /\ aex_mul(c, c, p) \in Int
      <4>1. c \in Int
        BY <3>2
      <4>2. aex_mul(c, c, p) \in 0 .. p - 1 /\ Cong(aex_mul(c, c, p), c * c, p)
        BY <1>0, <4>1, WordProduct
      <4> QED BY <4>1, <4>2
    <3>6. Cong(c * c, Pow(x, j) * Pow(x, j), p)
      BY <1>0, <3>2, CongTimes
    <3>7. Cong(aex_mul(c, c, p), Pow(x, j) * Pow(x, j), p)
      BY <1>0, <3>5, <3>6, CongVia
    <3>8. Pow(x, j + j) = Pow(x, j) * Pow(x, j)
      <4> HIDE DEF j
      <4> QED BY <3>1, PowAdd
    <3>9. Cong(aex_mul(c, c, p) * b, Pow(x, k), p)
      <4>1. CASE k % 2 = 1
        <5>1. k = (j + j) + 1 /\ j + j \in Nat /\ b = x % p
          BY <3>1, <4>1
        <5> HIDE DEF b, j
        <5>2. Pow(x, k) = Pow(x, j + j) * x
          BY <5>1, PowUnfolds
        <5> QED BY <1>0, <1>1, <3>7, <3>8, <5>1, <5>2, CongTimes
      <4>2. CASE k % 2 # 1
        <5>1. k = j + j /\ b = 1
          BY <3>1, <4>2
        <5> HIDE DEF b, j
        <5>2. aex_mul(c, c, p) * b = aex_mul(c, c, p)
          BY <3>5, <5>1
        <5> QED BY <3>7, <3>8, <5>1, <5>2
      <4> QED BY <4>1, <4>2
    <3> HIDE DEF b, j
    <3>10. q[k] \in E /\ Cong(q[k], aex_mul(c, c, p) * b, p)
      BY <1>0, <3>3, <3>4, <3>5, WordProduct
    <3>11. Cong(q[k], Pow(x, k), p)
      BY <1>0, <3>9, <3>10, CongVia
    <3> QED BY <3>10, <3>11
  <2> QED BY <2>1, <2>2
<1> HIDE DEF S
<1>10. n \in S
  <2>1. n \in 0 .. n
    OBVIOUS
  <2> QED BY <1>9, <2>1, CourseOfValues
<1> QED BY <1>7, <1>10 DEF S
-----------------------------------------------------------------------------
\* Inverses modulo the primes, their recombination and inverses modulo Q.

LEMMA TheirPrimes ==
  /\ IsPrime(P0) /\ IsPrime(P1) /\ P0 \in Nat \ {0} /\ P1 \in Nat \ {0} /\ P0 >= 3 /\ P1 >= 3
  /\ Q = P0 * P1 /\ Q \in Nat \ {0} /\ Q >= 9
<1>1. IsPrime(P0) /\ IsPrime(P1) /\ P0 # 2 /\ P1 # 2
  BY GaloisAssumption
<1>2. P0 \in Nat /\ P1 \in Nat /\ P0 >= 2 /\ P1 >= 2
  BY <1>1 DEF IsPrime
<1>3. P0 >= 3 /\ P1 >= 3
  BY <1>1, <1>2
<1>4. P0 * P1 >= 9
  <2>1. P0 * P1 >= 3 * P1
    BY <1>2, <1>3
  <2> QED BY <1>2, <1>3, <2>1
<1> QED BY <1>1, <1>2, <1>3, <1>4 DEF Q

\* The powers below a prime give inverses.
LEMMA FermatInverse ==
  ASSUME NEW p, IsPrime(p), p >= 3, NEW x \in Int, ~ Cong(x, 0, p)
  PROVE  /\ aex_pow(x % p, p - 2, p) \in 0 .. p - 1
         /\ Cong(x * aex_pow(x % p, p - 2, p), 1, p)
<1>0. p \in Nat \ {0} /\ p \in Int /\ p - 2 \in Nat
  BY DEF IsPrime
<1>1. x % p \in 0 .. p - 1 /\ Cong(x % p, x, p)
  BY <1>0, RemainderIs
<1> DEFINE y == aex_pow(x % p, p - 2, p)
<1>2. y \in 0 .. p - 1 /\ Cong(y, Pow(x % p, p - 2), p)
  BY <1>0, <1>1, PowIs
<1> HIDE DEF y
<1>3. Cong(Pow(x % p, p - 2), Pow(x, p - 2), p)
  BY <1>0, <1>1, CongPow
<1>4. Cong(y, Pow(x, p - 2), p)
  BY <1>0, <1>2, <1>3, CongVia
<1>5. Cong(x * y, x * Pow(x, p - 2), p)
  <2>1. Cong(x, x, p)
    BY <1>0, CongSame
  <2> QED BY <1>0, <1>4, <2>1, CongTimes
<1>6. x * Pow(x, p - 2) = Pow(x, p - 1)
  <2>1. (p - 2) + 1 = p - 1
    BY <1>0
  <2>2. Pow(x, (p - 2) + 1) = Pow(x, p - 2) * x /\ Pow(x, p - 2) \in Int
    BY <1>0, PowUnfolds
  <2> QED BY <2>1, <2>2
<1>7. Cong(Pow(x, p - 1), 1, p)
  BY Fermat
<1>8. Cong(x * y, 1, p)
  BY <1>0, <1>5, <1>6, <1>7, CongVia
<1> QED BY <1>2, <1>8 DEF y

\* What is congruent modulo Q is so modulo both primes, and conversely.
LEMMA CongBoth ==
  ASSUME NEW x \in Int, NEW y \in Int
  PROVE  Cong(x, y, Q) <=> Cong(x, y, P0) /\ Cong(x, y, P1)
<1>0. P0 \in Int /\ P1 \in Int /\ Q \in Int /\ Q = P0 * P1
  BY TheirPrimes
<1>1. ASSUME Cong(x, y, Q) PROVE Cong(x, y, P0) /\ Cong(x, y, P1)
  <2>1. PICK e \in Int : x = y + e * Q
    BY <1>1 DEF Cong
  <2>2. e * Q = (e * P1) * P0 /\ e * Q = (e * P0) * P1 /\ e * P1 \in Int /\ e * P0 \in Int
    BY <1>0
  <2> QED BY <2>1, <2>2 DEF Cong
<1>2. ASSUME Cong(x, y, P0), Cong(x, y, P1) PROVE Cong(x, y, Q)
  <2>1. PICK e \in Int : x = y + e * P0
    BY <1>2 DEF Cong
  <2>2. Cong(e * P0, 0, P1)
    <3>1. Cong(x - y, y - y, P1)
      <4>1. Cong(y, y, P1)
        BY <1>0, CongSame
      <4> QED BY <1>0, <1>2, <4>1, CongPlus
    <3>2. x - y = e * P0 /\ y - y = 0
      BY <1>0, <2>1
    <3> QED BY <3>1, <3>2
  <2>3. ~ Cong(P0, 0, P1)
    <3> SUFFICES ASSUME Cong(P0, 0, P1) PROVE FALSE
      OBVIOUS
    <3>1. PICK d \in Int : P0 = 0 + d * P1
      BY DEF Cong
    <3>2. d >= 1
      <4>1. d <= 0 => d * P1 <= 0
        BY TheirPrimes
      <4> QED BY <3>1, <4>1, TheirPrimes
    <3>3. d * P1 >= P1
      BY <3>2, TheirPrimes
    <3>4. P0 # P1
      BY GaloisAssumption
    <3>5. P1 \in 2 .. P0 - 1
      BY <3>1, <3>3, <3>4, TheirPrimes
    <3>6. P0 % P1 = 0
      <4>1. P0 = P1 * d
        BY <1>0, <3>1
      <4> QED BY <1>0, <4>1, TheirPrimes, MultipleOf
    <3> QED BY <3>5, <3>6, TheirPrimes DEF IsPrime
  <2>4. Cong(e, 0, P1)
    BY <1>0, <2>2, <2>3, TheirPrimes, PrimeDivides
  <2>5. PICK d \in Int : e = 0 + d * P1
    BY <2>4 DEF Cong
  <2>6. x = y + d * Q
    <3>1. e * P0 = d * (P0 * P1)
      BY <1>0, <2>5
    <3> QED BY <1>0, <2>1, <3>1
  <2> QED BY <2>6 DEF Cong
<1> QED BY <1>1, <1>2

\* P0 is a unit modulo P1.
LEMMA PrimesApart == ~ Cong(P0, 0, P1)
<1> SUFFICES ASSUME Cong(P0, 0, P1) PROVE FALSE
  OBVIOUS
<1>1. Cong(P0, 0, P0)
  <2>1. P0 = 0 + 1 * P0 /\ 1 \in Int /\ P0 \in Int
    BY TheirPrimes
  <2> QED BY <2>1 DEF Cong
<1>2. Cong(P0, 0, Q)
  BY <1>1, CongBoth, TheirPrimes
<1>3. P0 \in 0 .. Q - 1 /\ 0 \in 0 .. Q - 1 /\ P0 # 0
  <2>1. P0 * P1 >= P0 * 3
    BY TheirPrimes
  <2> QED BY <2>1, TheirPrimes
<1> QED BY <1>2, <1>3, SameResidue, TheirPrimes

\* Recombination.
LEMMA CrtIs ==
  ASSUME NEW x \in 0 .. P0 - 1, NEW y \in 0 .. P1 - 1
  PROVE  Crt(x, y) \in Zq /\ Cong(Crt(x, y), x, P0) /\ Cong(Crt(x, y), y, P1)
<1>0. P0 \in Int /\ P1 \in Int /\ x \in Int /\ y \in Int
  BY TheirPrimes
<1> DEFINE b == aex_sub(y % P1, x % P1, P1)
           u == aex_pow(P0 % P1, P1 - 2, P1)
           c == aex_mul(b, u, P1)
<1>1. Crt(x, y) = x + P0 * c
  BY DEF Crt
<1>2. b \in Int /\ Cong(b, y - x, P1)
  <2> DEFINE i == x % P1
             j == y % P1
  <2>1. i \in 0 .. P1 - 1 /\ Cong(i, x, P1) /\ j \in 0 .. P1 - 1 /\ Cong(j, y, P1)
    BY <1>0, TheirPrimes, RemainderIs
  <2> HIDE DEF i, j
  <2>2. b = IF j >= i THEN j - i ELSE j + P1 - i
    BY DEF aex_sub, i, j
  <2>3. b \in Int /\ Cong(b, j - i, P1)
    <3>1. CASE j >= i
      <4>1. b = j - i /\ j - i \in Int
        BY <2>1, <2>2, <3>1
      <4> QED BY <1>0, <4>1, CongSame
    <3>2. CASE j < i
      <4>1. b = (j - i) + 1 * P1 /\ j - i \in Int /\ b \in Int
        BY <1>0, <2>1, <2>2, <3>2
      <4> QED BY <4>1 DEF Cong
    <3> QED BY <2>1, <3>1, <3>2
  <2>4. Cong(j - i, y - x, P1)
    BY <1>0, <2>1, CongPlus
  <2> QED BY <1>0, <2>3, <2>4, CongVia
<1> HIDE DEF b
<1>3. u \in 0 .. P1 - 1 /\ Cong(P0 * u, 1, P1)
  BY <1>0, PrimesApart, TheirPrimes, FermatInverse
<1> HIDE DEF u
<1>4. c \in 0 .. P1 - 1 /\ Cong(c, b * u, P1)
  <2>1. u \in Int
    BY <1>0, <1>3
  <2> QED BY <1>2, <2>1, TheirPrimes, WordProduct
<1> HIDE DEF c
<1>5. x + P0 * c \in Zq
  <2>1. P0 * c <= P0 * (P1 - 1) /\ P0 * c >= 0 /\ P0 * (P1 - 1) = P0 * P1 - P0
    BY <1>4, TheirPrimes
  <2>2. P0 * c \in Int
    BY <1>0, <1>4
  <2> QED BY <2>1, <2>2, TheirPrimes DEF Zq
<1>6. Cong(x + P0 * c, x, P0)
  <2>1. P0 * c = c * P0 /\ c \in Int /\ x + P0 * c \in Int
    BY <1>0, <1>4
  <2> QED BY <1>0, <2>1 DEF Cong
<1>7. Cong(x + P0 * c, y, P1)
  <2>0. c \in Int /\ u \in Int
    BY <1>0, <1>3, <1>4
  <2>1. Cong(P0 * c, P0 * (b * u), P1)
    <3>1. Cong(P0, P0, P1)
      BY <1>0, CongSame
    <3> QED BY <1>0, <1>4, <3>1, CongTimes
  <2>2. Cong(b * (P0 * u), (y - x) * 1, P1)
    BY <1>0, <1>2, <1>3, CongTimes
  <2>3. P0 * (b * u) = b * (P0 * u) /\ (y - x) * 1 = y - x
    BY <1>0, <1>2, <2>0
  <2>4. Cong(P0 * c, y - x, P1)
    BY <1>0, <2>1, <2>2, <2>3, CongVia
  <2>5. Cong(x + P0 * c, x + (y - x), P1)
    <3>1. Cong(x, x, P1)
      BY <1>0, CongSame
    <3> QED BY <1>0, <2>4, <3>1, CongPlus
  <2>6. x + (y - x) = y
    BY <1>0
  <2> QED BY <2>5, <2>6
<1> QED BY <1>1, <1>5, <1>6, <1>7

\* A number is invertible if it is zero modulo neither prime.
LEMMA InvertibleIs ==
  ASSUME NEW x \in Int
  PROVE  Invertible(x) <=> ~ Cong(x, 0, P0) /\ ~ Cong(x, 0, P1)
<1>1. ASSUME NEW p \in Nat \ {0} PROVE x % p = 0 <=> Cong(x, 0, p)
  <2>1. x % p \in 0 .. p - 1 /\ Cong(x % p, x, p) /\ p \in Int /\ 0 \in 0 .. p - 1
    <3>1. p \in Int /\ 0 \in 0 .. p - 1
      BY <1>1
    <3>2. x % p \in 0 .. p - 1 /\ Cong(x % p, x, p)
      BY <1>1, RemainderIs, Zenon
    <3> QED BY <3>1, <3>2
  <2>2. ASSUME x % p = 0 PROVE Cong(x, 0, p)
    BY <2>1, <2>2, CongSwap
  <2>3. ASSUME Cong(x, 0, p) PROVE x % p = 0
    <3>1. Cong(x % p, 0, p)
      BY <2>1, <2>3, CongVia
    <3> QED BY <2>1, <3>1, SameResidue
  <2> QED BY <2>2, <2>3
<1> QED BY <1>1, TheirPrimes DEF Invertible

LEMMA InvertibleSame ==
  ASSUME NEW x \in Int, NEW y \in Int, Cong(x, y, Q)
  PROVE  Invertible(x) <=> Invertible(y)
<1>1. Cong(x, y, P0) /\ Cong(x, y, P1) /\ P0 \in Int /\ P1 \in Int
  BY CongBoth, TheirPrimes
<1>2. \A p \in {P0, P1} : Cong(x, 0, p) <=> Cong(y, 0, p)
  BY <1>1, CongSwap, CongVia
<1> QED BY <1>2, InvertibleIs

\* Its inverse, and that nothing else has one.
LEMMA ZqInverseIs ==
  ASSUME NEW x \in Int, Invertible(x)
  PROVE  ZqInverse(x) \in Zq /\ Cong(x * ZqInverse(x), 1, Q)
<1>0. P0 \in Int /\ P1 \in Int
  BY TheirPrimes
<1> DEFINE y == aex_pow(x % P0, P0 - 2, P0)
           z == aex_pow(x % P1, P1 - 2, P1)
           u == Crt(y, z)
<1>1. y \in 0 .. P0 - 1 /\ Cong(x * y, 1, P0) /\ z \in 0 .. P1 - 1 /\ Cong(x * z, 1, P1)
  BY InvertibleIs, TheirPrimes, FermatInverse
<1>2. ZqInverse(x) = u
  BY DEF ZqInverse
<1> HIDE DEF y, z
<1>3. u \in Zq /\ Cong(u, y, P0) /\ Cong(u, z, P1)
  BY <1>1, CrtIs
<1> HIDE DEF u
<1>4. u \in Int
  BY <1>3, TheirPrimes DEF Zq
<1>5. Cong(x, x, P0) /\ Cong(x, x, P1)
  BY <1>0, CongSame
<1>6. Cong(x * u, 1, P0)
  <2>1. Cong(x * u, x * y, P0)
    BY <1>0, <1>3, <1>5, CongTimes
  <2> QED BY <1>0, <1>1, <2>1, CongVia
<1>7. Cong(x * u, 1, P1)
  <2>1. Cong(x * u, x * z, P1)
    BY <1>0, <1>3, <1>5, CongTimes
  <2> QED BY <1>0, <1>1, <2>1, CongVia
<1>8. x * u \in Int /\ 1 \in Int
  BY <1>4
<1> QED BY <1>2, <1>3, <1>6, <1>7, <1>8, CongBoth

LEMMA InvertibleIf ==
  ASSUME NEW x \in Int, NEW y \in Int, Cong(x * y, 1, Q)
  PROVE  Invertible(x)
<1>1. ASSUME NEW p \in {P0, P1}, Cong(x, 0, p) PROVE FALSE
  <2>0. p \in Nat \ {0} /\ p \in Int /\ p >= 3
    BY TheirPrimes
  <2>1. x * y \in Int /\ 1 \in Int
    OBVIOUS
  <2>2. Cong(x * y, 1, p)
    BY <2>1, CongBoth
  <2>3. Cong(x * y, 0 * y, p)
    <3>1. Cong(y, y, p)
      BY <2>0, CongSame
    <3> QED BY <1>1, <2>0, <3>1, CongTimes
  <2>4. Cong(1, 0, p)
    <3>1. 0 * y = 0
      OBVIOUS
    <3> QED BY <2>0, <2>2, <2>3, <3>1, CongSwap, CongVia
  <2> QED BY <2>0, <2>4, OneNotZero
<1> QED BY <1>1, InvertibleIs
-----------------------------------------------------------------------------
\* The root of unity that RootOf searches, and its powers in Z_q.

\* The search finds an element whose power n / 2 is not 1 but whose square is.
LEMMA RootOfIs ==
  ASSUME NEW p, IsPrime(p), p >= 3, NEW half \in Nat \ {0}, NEW c \in Nat, p - 1 = (2 * half) * c
  PROVE  RootOf(2 * half, p) \in 0 .. p - 1 /\ MinusRoot(RootOf(2 * half, p), half, p)
<1> DEFINE n == 2 * half
           root(g) == aex_pow(g, (p - 1) \div n, p)
           Good(g) == aex_pow(root(g), n \div 2, p) # 1
<1>0. p \in Nat \ {0} /\ p \in Int /\ p >= 2 /\ n \in Nat \ {0}
  BY DEF IsPrime
<1>1. (p - 1) \div n = c /\ n \div 2 = half
  <2>1. n \div 2 = half
    OBVIOUS
  <2>2. (p - 1) \div n = c
    <3> DEFINE q == (p - 1) \div n
               e == (p - 1) % n
    <3>1. q \in Int /\ e \in 0 .. n - 1 /\ p - 1 = q * n + e
      BY <1>0, Z3
    <3> HIDE DEF q, e
    <3>2. e = n * (c - q)
      <4>1. p - 1 = n * c
        OBVIOUS
      <4> HIDE DEF n
      <4> QED BY <1>0, <3>1, <4>1
    <3> HIDE DEF n
    <3>3. c - q >= 1 => n * (c - q) >= n
      BY <1>0, <3>1
    <3>4. c - q <= -1 => n * (c - q) <= -n
      BY <1>0, <3>1
    <3>5. c - q = 0
      BY <1>0, <3>1, <3>2, <3>3, <3>4
    <3>6. q = c
      BY <3>1, <3>5
    <3> QED BY <3>6 DEF q
  <2> QED BY <2>1, <2>2
<1>2. p - 1 = (c * half) + (c * half) /\ c * half = c * half /\ c * half \in 1 .. p - 2
  <2>1. c * half \in Nat /\ p - 1 = 2 * (c * half)
    OBVIOUS
  <2> QED BY <1>0, <2>1
<1>3. ASSUME NEW g \in Nat
      PROVE  /\ root(g) \in 0 .. p - 1
             /\ Cong(Pow(root(g), half), Pow(g, c * half), p)
             /\ Good(g) <=> ~ Cong(Pow(g, c * half), 1, p)
  <2> DEFINE w == root(g)
             y == aex_pow(w, half, p)
  <2>1. w \in 0 .. p - 1 /\ Cong(w, Pow(g, c), p)
    BY <1>0, <1>1, PowIs
  <2>2. w \in Int
    BY <1>0, <2>1
  <2> HIDE DEF w
  <2>3. Cong(Pow(w, half), Pow(Pow(g, c), half), p)
    BY <1>0, <2>1, CongPow
  <2>4. Pow(Pow(g, c), half) = Pow(g, c * half)
    BY PowProduct
  <2>5. y \in 0 .. p - 1 /\ Cong(y, Pow(w, half), p)
    BY <1>0, <2>2, PowIs
  <2>6. Good(g) <=> y # 1
    BY <1>1 DEF w
  <2> HIDE DEF y
  <2>7. Cong(y, Pow(g, c * half), p)
    BY <1>0, <2>3, <2>4, <2>5, CongVia
  <2>8. y = 1 <=> Cong(Pow(g, c * half), 1, p)
    <3>1. ASSUME y = 1 PROVE Cong(Pow(g, c * half), 1, p)
      BY <1>0, <2>7, <3>1, CongSwap
    <3>2. ASSUME Cong(Pow(g, c * half), 1, p) PROVE y = 1
      <4>1. Cong(y, 1, p) /\ 1 \in 0 .. p - 1
        BY <1>0, <2>7, <3>2, CongVia
      <4> QED BY <1>0, <2>5, <4>1, SameResidue
    <3> QED BY <3>1, <3>2
  <2> HIDE DEF Good
  <2> QED BY <2>1, <2>3, <2>4, <2>6, <2>8 DEF w
<1> HIDE DEF root, Good
<1>4. PICK z \in 2 .. p - 1 : Good(z)
  <2>1. PICK z \in 2 .. p - 1 : ~ Cong(Pow(z, c * half), 1, p)
    BY <1>2, NotAllOnes
  <2>2. z \in Nat
    BY <1>0
  <2> QED BY <1>3, <2>1, <2>2
<1> DEFINE Least(g) == Good(g) /\ \A lower \in 2 .. g - 1 : ~ Good(lower)
           b == CHOOSE g \in 2 .. p - 1 : Least(g)
<1>5. \E g \in 2 .. p - 1 : Least(g)
  <2> DEFINE S == {g \in 2 .. p - 1 : Good(g)}
  <2>1. S \in SUBSET Nat /\ S # {}
    BY <1>0, <1>4
  <2>2. PICK x \in S : \A y \in S : x <= y
    <3> HIDE DEF S
    <3> QED BY <2>1, LeastNumber
  <2>3. \A lower \in 2 .. x - 1 : ~ Good(lower)
    <3> SUFFICES ASSUME NEW lower \in 2 .. x - 1, Good(lower) PROVE FALSE
      OBVIOUS
    <3>1. x \in 2 .. p - 1
      BY <2>2
    <3>2. lower \in 2 .. p - 1 /\ lower < x
      BY <1>0, <3>1
    <3>3. x <= lower
      BY <2>2, <3>2
    <3> QED BY <1>0, <3>1, <3>2, <3>3
  <2> QED BY <2>2, <2>3
<1>6. b \in 2 .. p - 1 /\ Good(b)
  <2> HIDE DEF b
  <2>1. b \in 2 .. p - 1 /\ Least(b)
    <3> HIDE DEF Least
    <3> QED BY <1>5 DEF b
  <2> QED BY <2>1
<1>7. RootOf(2 * half, p) = root(b)
  BY DEF RootOf, root, Good
<1> HIDE DEF b
<1> DEFINE w == root(b)
           y == Pow(w, half)
           d == Pow(b, c * half)
<1>8. b \in Nat /\ w \in 0 .. p - 1 /\ w \in Int /\ Cong(y, d, p) /\ ~ Cong(d, 1, p)
  <2>1. b \in Nat
    BY <1>0, <1>6
  <2> QED BY <1>0, <1>3, <1>6, <2>1
<1> HIDE DEF w
<1>9. y \in Int /\ d \in Int
  BY <1>2, <1>8, PowUnfolds
<1>10. Cong(d * d, 1, p)
  <2>1. ~ Cong(b, 0, p)
    <3>1. b \in 1 .. p - 1
      BY <1>0, <1>6
    <3> QED BY <1>0, <3>1, NotMultiple
  <2>2. Cong(Pow(b, p - 1), 1, p)
    BY <1>8, <2>1, Fermat
  <2>3. Pow(b, (c * half) + (c * half)) = d * d
    BY <1>2, <1>8, PowAdd
  <2> QED BY <1>2, <2>2, <2>3
<1>11. Cong(d, -1, p)
  <2> HIDE DEF d
  <2>1. Cong(d * d - 1, 1 - 1, p)
    <3>1. Cong(1, 1, p)
      BY <1>0, CongSame
    <3> QED BY <1>0, <1>10, <3>1, CongPlus
  <2>2. d * d - 1 = (d - 1) * (d + 1) /\ d - 1 \in Int /\ d + 1 \in Int
    BY <1>9
  <2>3. Cong(d - 1, 0, p) \/ Cong(d + 1, 0, p)
    <3>1. Cong((d - 1) * (d + 1), 0, p)
      BY <2>1, <2>2
    <3> QED BY <2>2, <3>1, PrimeDivides
  <2>4. ASSUME Cong(d - 1, 0, p) PROVE FALSE
    <3>1. Cong((d - 1) + 1, 0 + 1, p)
      <4>1. Cong(1, 1, p)
        BY <1>0, CongSame
      <4> QED BY <1>0, <2>4, <4>1, CongPlus
    <3>2. (d - 1) + 1 = d /\ 0 + 1 = 1
      BY <1>9
    <3> QED BY <1>8, <3>1, <3>2
  <2>5. Cong((d + 1) - 1, 0 - 1, p)
    <3>1. Cong(1, 1, p)
      BY <1>0, CongSame
    <3> QED BY <1>0, <2>3, <2>4, <3>1, CongPlus
  <2>6. (d + 1) - 1 = d /\ 0 - 1 = -1
    BY <1>9
  <2> QED BY <2>5, <2>6
<1>12. Cong(y, -1, p)
  BY <1>0, <1>8, <1>11, CongVia
<1>13. MinusRoot(w, half, p)
  BY <1>8, <1>12 DEF MinusRoot
<1> QED BY <1>7, <1>8, <1>13 DEF w

\* TAU is a power of two.
LEMMA TauTwo == TwoPower(TAU) /\ TAU \in Nat \ {0} /\ TAU >= 2
<1>1. TAU \in Nat \ {0} /\ TAU >= 2 /\ \A d \in 2 .. TAU : TAU % d = 0 => d % 2 = 0
  BY ExtractAssumption
<1>2. ASSUME NEW d \in Nat, NEW e \in Nat, TAU = d * e, d # 1 PROVE \E j \in Nat : d = 2 * j
  <2>1. d # 0 /\ e # 0
    BY <1>1, <1>2
  <2>2. d * e >= d
    BY <2>1
  <2>3. d \in 2 .. TAU
    BY <1>1, <1>2, <2>1, <2>2
  <2>4. TAU % d = 0
    BY <1>1, <1>2, <2>1, MultipleOf
  <2>5. d % 2 = 0
    BY <1>1, <2>3, <2>4
  <2>6. d = 2 * (d \div 2) /\ d \div 2 \in Nat
    BY <2>5
  <2> QED BY <2>6
<1> QED BY <1>1, <1>2 DEF TwoPower

LEMMA MultipleThen ==
  ASSUME NEW d \in Nat \ {0}, NEW z \in Int, z % d = 0
  PROVE  \E e \in Int : z = d * e
<1> DEFINE q == z \div d
           e == z % d
<1>1. q \in Int /\ e \in 0 .. d - 1 /\ z = q * d + e
  BY Z3
<1>2. e = 0
  OBVIOUS
<1> HIDE DEF q, e
<1>3. z = d * q
  BY <1>1, <1>2
<1> QED BY <1>1, <1>3

\* Half of it.
LEMMA TauHalf ==
  \E half \in Nat \ {0} : /\ TAU = 2 * half
                          /\ \A p \in {P0, P1} : \E c \in Nat : p - 1 = (2 * half) * c
<1>1. PICK half \in Nat \ {0} : TAU = 2 * half
  BY TauTwo, TwoHalf
<1>2. ASSUME NEW p \in {P0, P1} PROVE \E c \in Nat : p - 1 = (2 * half) * c
  <2>1. (p - 1) % (4 * TAU) = 0
    <3>1. \A j \in 0 .. 1 : (P[j] - 1) % (4 * TAU) = 0
      BY ExtractAssumption DEF Basis
    <3>2. P[0] = P0 /\ P[1] = P1
      BY DEF P, Basis
    <3>3. 0 \in 0 .. 1 /\ 1 \in 0 .. 1
      OBVIOUS
    <3> QED BY <3>1, <3>2, <3>3
  <2>2. p - 1 \in Nat /\ 4 * TAU \in Nat \ {0}
    BY TheirPrimes, TauTwo
  <2>3. \E e \in Int : p - 1 = (4 * TAU) * e
    <3> DEFINE l == 4 * TAU
               z == p - 1
    <3>1. l \in Nat \ {0} /\ z \in Int /\ z % l = 0
      BY <2>1, <2>2
    <3> HIDE DEF l, z
    <3>2. \E e \in Int : z = l * e
      BY <3>1, MultipleThen
    <3> QED BY <3>2 DEF l, z
  <2>4. PICK e \in Int : p - 1 = (4 * TAU) * e
    BY <2>3
  <2>5. e >= 0
    <3>1. e <= -1 => (4 * TAU) * e <= -(4 * TAU)
      <4> DEFINE l == 4 * TAU
      <4>1. l \in Nat \ {0}
        BY <2>2
      <4> HIDE DEF l
      <4>2. e <= -1 => l * e <= -l
        BY <4>1
      <4> QED BY <4>2 DEF l
    <3> QED BY <2>2, <2>4, <3>1
  <2>6. e * 4 \in Nat /\ p - 1 = (2 * half) * (e * 4)
    BY <1>1, <2>4, <2>5, TauTwo
  <2> QED BY <2>6
<1> QED BY <1>1, <1>2

\* The root of the exact proof: an element of Z_q whose power TAU / 2 is -1.
LEMMA RootIs ==
  ASSUME NEW half \in Nat \ {0}, TAU = 2 * half
  PROVE  Root \in Zq /\ Root \in Int /\ MinusRoot(Root, half, Q)
<1> DEFINE y == RootOf(TAU, P0)
           z == RootOf(TAU, P1)
<1>1. /\ y \in 0 .. P0 - 1 /\ MinusRoot(y, half, P0)
      /\ z \in 0 .. P1 - 1 /\ MinusRoot(z, half, P1)
  <2>1. PICK i \in Nat \ {0} : /\ TAU = 2 * i
                               /\ \A p \in {P0, P1} : \E c \in Nat : p - 1 = (2 * i) * c
    BY TauHalf
  <2>2. i = half
    BY <2>1
  <2>3. (\E c \in Nat : P0 - 1 = (2 * half) * c) /\ (\E c \in Nat : P1 - 1 = (2 * half) * c)
    BY <2>1, <2>2
  <2> QED BY <2>3, TheirPrimes, RootOfIs
<1> HIDE DEF y, z
<1>2. Root = Crt(y, z)
  BY DEF Root, aex_root, y, z
<1>3. Root \in Zq /\ Cong(Root, y, P0) /\ Cong(Root, z, P1)
  BY <1>1, <1>2, CrtIs
<1>4. Root \in Int /\ P0 \in Int /\ P1 \in Int
  BY <1>3, TheirPrimes DEF Zq
<1>5. Cong(Pow(Root, half), -1, P0)
  <2>1. Cong(Pow(Root, half), Pow(y, half), P0)
    BY <1>3, <1>4, CongPow
  <2> QED BY <1>1, <1>4, <2>1, CongVia DEF MinusRoot
<1>6. Cong(Pow(Root, half), -1, P1)
  <2>1. Cong(Pow(Root, half), Pow(z, half), P1)
    BY <1>3, <1>4, CongPow
  <2> QED BY <1>1, <1>4, <2>1, CongVia DEF MinusRoot
<1>7. Pow(Root, half) \in Int /\ -1 \in Int
  BY <1>4, PowUnfolds
<1>8. Cong(Pow(Root, half), -1, Q)
  BY <1>5, <1>6, <1>7, CongBoth
<1> QED BY <1>3, <1>4, <1>8 DEF MinusRoot

\* Products in Z_q.
LEMMA MulIs ==
  ASSUME NEW x \in Int, NEW y \in Int
  PROVE  Mul(x, y) \in Zq /\ Cong(Mul(x, y), x * y, Q)
<1>1. x * y \in Int
  OBVIOUS
<1> QED BY <1>1, TheirPrimes, RemainderIs DEF Mul, Zq

\* The powers of the root, as RootPower has them.
LEMMA RootPowerIs ==
  ASSUME NEW i \in Nat
  PROVE  RootPower(i) \in Zq /\ Cong(RootPower(i), Pow(Root, i), Q)
<1>0. Q \in Nat \ {0} /\ Q \in Int /\ Q >= 9 /\ Zq = 0 .. Q - 1
  BY TheirPrimes DEF Zq
<1>1. Root \in Int
  <2>1. \E half \in Nat \ {0} : TAU = 2 * half
    BY TauHalf
  <2> QED BY <2>1, RootIs
<1> DEFINE Eq(fn) == fn = [e \in 0 .. i |-> IF e = 0 THEN 1 ELSE Mul(fn[e - 1], Root)]
           q == CHOOSE fn : Eq(fn)
           d == [k \in 1 .. i |-> k - 1]
           g == [k \in 1 .. i |-> [c \in Zq |-> Mul(c, Root)]]
<1>2. \A c \in Zq : c \in Int /\ Mul(c, Root) \in Zq
  <2> SUFFICES ASSUME NEW c \in Zq PROVE c \in Int /\ Mul(c, Root) \in Zq
    OBVIOUS
  <2>1. c \in Int
    BY <1>0
  <2> QED BY <1>1, <2>1, MulIs
<1>3. RecursionOver(i, Zq, 1, d, g)
  <2>1. d \in [1 .. i -> Nat] /\ \A k \in 1 .. i : d[k] \in 0 .. k - 1
    OBVIOUS
  <2>2. g \in [1 .. i -> [Zq -> Zq]]
    BY <1>2
  <2>3. 1 \in Zq
    BY <1>0
  <2> HIDE DEF d, g
  <2> QED BY <2>1, <2>2, <2>3 DEF RecursionOver
<1>4. PICK sol : SolvedBy(sol, i, Zq, 1, d, g)
  <2> HIDE DEF d, g
  <2> QED BY <1>3, Recursion
<1>5. Eq(sol)
  <2>1. ASSUME NEW k \in 0 .. i PROVE sol[k] = IF k = 0 THEN 1 ELSE Mul(sol[k - 1], Root)
    <3>1. CASE k = 0
      BY <1>4, <3>1 DEF SolvedBy
    <3>2. CASE k # 0
      <4>1. k \in 1 .. i /\ d[k] = k - 1 /\ k - 1 \in 0 .. i
        BY <3>2
      <4>2. sol[k] = g[k][sol[k - 1]] /\ sol[k - 1] \in Zq
        <5> HIDE DEF d, g
        <5> QED BY <1>4, <4>1 DEF SolvedBy
      <4> HIDE DEF d
      <4> QED BY <3>2, <4>1, <4>2
    <3> QED BY <3>1, <3>2
  <2>2. sol = [k \in 0 .. i |-> sol[k]]
    <3> HIDE DEF d, g
    <3> QED BY <1>4 DEF SolvedBy
  <2> HIDE DEF d, g
  <2> QED BY <2>1, <2>2
<1> HIDE DEF d, g
<1>6. Eq(q)
  BY <1>5
<1>7. RootPower(i) = q[i]
  BY DEF RootPower
<1> HIDE DEF q
<1>8. q[0] = 1 /\ \A k \in 1 .. i : q[k] = Mul(q[k - 1], Root)
  BY <1>6
<1> HIDE DEF Eq
<1> DEFINE S == {k \in Nat : k <= i => q[k] \in Zq /\ Cong(q[k], Pow(Root, k), Q)}
<1>9. 0 \in S
  <2>1. 1 \in Zq /\ Pow(Root, 0) = 1 /\ Cong(1, 1, Q)
    BY <1>0, <1>1, PowUnfolds, CongSame
  <2> QED BY <1>8, <2>1
<1>10. ASSUME NEW k \in Nat, k \in S PROVE k + 1 \in S
  <2> SUFFICES ASSUME k + 1 <= i PROVE q[k + 1] \in Zq /\ Cong(q[k + 1], Pow(Root, k + 1), Q)
    OBVIOUS
  <2>1. k + 1 \in 1 .. i /\ (k + 1) - 1 = k /\ k <= i
    OBVIOUS
  <2>2. q[k + 1] = Mul(q[k], Root)
    BY <1>8, <2>1
  <2>3. q[k] \in Zq /\ Cong(q[k], Pow(Root, k), Q) /\ q[k] \in Int
    BY <1>2, <1>10, <2>1
  <2>4. q[k + 1] \in Zq /\ Cong(q[k + 1], q[k] * Root, Q)
    BY <1>1, <2>2, <2>3, MulIs
  <2>5. Cong(q[k] * Root, Pow(Root, k) * Root, Q)
    <3>1. Cong(Root, Root, Q)
      BY <1>0, <1>1, CongSame
    <3> QED BY <1>0, <2>3, <3>1, CongTimes
  <2>6. Pow(Root, k + 1) = Pow(Root, k) * Root
    BY <1>1, PowUnfolds
  <2>7. Cong(q[k + 1], Pow(Root, k + 1), Q)
    BY <1>0, <2>4, <2>5, <2>6, CongVia
  <2> QED BY <2>4, <2>7
<1> HIDE DEF S
<1>11. i \in S
  BY <1>9, <1>10, AllNumbers
<1> QED BY <1>7, <1>11 DEF S
-----------------------------------------------------------------------------
\* The products of the differences of roots of unity.

\* w is a root of unity of order n, a power of two: its power n / 2 is -1.
Primitive(w, n) == n = 1 \/ \E half \in Nat \ {0} : n = 2 * half /\ MinusRoot(w, half, Q)

\* The differences of the i-th power from the others.
Diffs(w, i) == [j \in Nat |-> IF j = i THEN 1 ELSE Pow(w, i) - Pow(w, j)]

LEMMA DiffsTyped == ASSUME NEW w \in Int, NEW i \in Nat PROVE Diffs(w, i) \in Seqs
<1>1. \A j \in Nat : Pow(w, j) \in Int
  BY PowUnfolds
<1>2. \A j \in Nat : Pow(w, i) - Pow(w, j) \in Int
  BY <1>1
<1> QED BY <1>2 DEF Diffs, Seqs

\* Twice a root's order turns the power into its square's.
LEMMA PrimitiveTurns ==
  ASSUME NEW w \in Int, NEW half \in Nat \ {0}, MinusRoot(w, half, Q), NEW j \in Nat
  PROVE  /\ Cong(Pow(w, half + j), -Pow(w, j), Q)
         /\ Cong(Pow(w * w, half + j), Pow(w * w, j), Q)
         /\ Pow(w * w, j) = Pow(w, j) * Pow(w, j)
<1>0. Q \in Int /\ \A k \in Nat : Pow(w, k) \in Int
  BY TheirPrimes, PowUnfolds
<1>1. Cong(Pow(w, half), -1, Q) /\ Cong(Pow(w, j), Pow(w, j), Q)
  BY <1>0, CongSame DEF MinusRoot
<1>2. Pow(w, half + j) = Pow(w, half) * Pow(w, j)
  BY PowAdd
<1>3. Cong(Pow(w, half + j), -1 * Pow(w, j), Q)
  BY <1>0, <1>1, <1>2, CongTimes
<1>4. -1 * Pow(w, j) = -Pow(w, j)
  BY <1>0
<1>5. Cong(Pow(w, half + j), -Pow(w, j), Q)
  BY <1>3, <1>4
<1>6. Pow(w * w, j) = Pow(w, j) * Pow(w, j)
  BY PowOfProduct
<1>7. Pow(w * w, half + j) = Pow(w, half + j) * Pow(w, half + j)
  BY PowOfProduct
<1>8. Cong(Pow(w, half + j) * Pow(w, half + j), (-Pow(w, j)) * (-Pow(w, j)), Q)
  BY <1>0, <1>5, CongTimes
<1>9. (-Pow(w, j)) * (-Pow(w, j)) = Pow(w, j) * Pow(w, j)
  <2> DEFINE y == Pow(w, j)
  <2>1. y \in Int
    BY <1>0
  <2> HIDE DEF y
  <2>2. (-y) * (-y) = y * y
    BY <2>1
  <2> QED BY <2>2 DEF y
<1> QED BY <1>5, <1>6, <1>7, <1>8, <1>9

\* One of the two factors of a pair is w^i - w^j, the other w^i + w^j.
LEMMA PairOfDiffs ==
  ASSUME NEW w \in Int, NEW half \in Nat \ {0}, MinusRoot(w, half, Q),
         NEW i \in Nat, NEW j \in Nat, i # j, i # half + j
  PROVE  Cong(Diffs(w, i)[j] * Diffs(w, i)[half + j], Pow(w * w, i) - Pow(w * w, j), Q)
<1> DEFINE x == Pow(w, i)
           y == Pow(w, j)
           z == Pow(w, half + j)
<1>0. Q \in Int /\ x \in Int /\ y \in Int /\ z \in Int
  <2>1. half + j \in Nat /\ \A k \in Nat : Pow(w, k) \in Int
    BY PowUnfolds
  <2> QED BY <2>1, TheirPrimes
<1>1. Cong(z, -y, Q) /\ Pow(w * w, j) = y * y /\ Pow(w * w, i) = x * x
  BY PrimitiveTurns
<1>2. half + j \in Nat /\ Diffs(w, i)[j] = x - y /\ Diffs(w, i)[half + j] = x - z
  BY DEF Diffs
<1> HIDE DEF x, y, z
<1>3. Cong(x - z, x - (-y), Q) /\ Cong(x - y, x - y, Q)
  <2>1. Cong(x, x, Q)
    BY <1>0, CongSame
  <2>2. Cong(x - z, x - (-y), Q)
    BY <1>0, <1>1, <2>1, CongPlus
  <2>3. x - y \in Int
    BY <1>0
  <2> QED BY <1>0, <2>2, <2>3, CongSame
<1>4. Cong((x - y) * (x - z), (x - y) * (x - (-y)), Q)
  BY <1>0, <1>3, CongTimes
<1>5. (x - y) * (x - (-y)) = x * x - y * y
  BY <1>0
<1> QED BY <1>1, <1>2, <1>4, <1>5

\* The pair of the i-th power itself.
LEMMA PairOfSelf ==
  ASSUME NEW w \in Int, NEW half \in Nat \ {0}, MinusRoot(w, half, Q),
         NEW i \in Nat, NEW j \in Nat, i = j \/ i = half + j
  PROVE  Cong(Diffs(w, i)[j] * Diffs(w, i)[half + j], 2 * Pow(w, i), Q)
<1> DEFINE x == Pow(w, i)
           y == Pow(w, j)
           z == Pow(w, half + j)
<1>0. Q \in Int /\ x \in Int /\ y \in Int /\ z \in Int
  <2>1. half + j \in Nat /\ \A k \in Nat : Pow(w, k) \in Int
    BY PowUnfolds
  <2> QED BY <2>1, TheirPrimes
<1>1. Cong(z, -y, Q)
  BY PrimitiveTurns
<1>2. Cong(x, x, Q)
  BY <1>0, CongSame
<1>3. half + j \in Nat /\ half + j # j
  OBVIOUS
<1>4. CASE i = j
  <2>1. Diffs(w, i)[j] = 1 /\ Diffs(w, i)[half + j] = x - z /\ x = y
    BY <1>3, <1>4 DEF Diffs
  <2> HIDE DEF x, y, z
  <2>2. Cong(x - z, x - (-y), Q)
    BY <1>0, <1>1, <1>2, CongPlus
  <2>3. x - (-y) = 2 * x /\ 1 * (x - z) = x - z
    BY <1>0, <2>1
  <2>4. Cong(1 * (x - z), 2 * x, Q)
    BY <2>2, <2>3
  <2> QED BY <2>1, <2>4 DEF x
<1>5. CASE i = half + j
  <2>1. Diffs(w, i)[half + j] = 1 /\ Diffs(w, i)[j] = x - y /\ x = z
    BY <1>3, <1>5 DEF Diffs
  <2> HIDE DEF x, y, z
  <2>2. Cong(-y, z, Q)
    BY <1>0, <1>1, CongSwap
  <2>3. Cong(x + (-y), x + z, Q)
    BY <1>0, <1>2, <2>2, CongPlus
  <2>4. x + (-y) = (x - y) * 1 /\ x + z = 2 * x
    BY <1>0, <2>1
  <2>5. Cong((x - y) * 1, 2 * x, Q)
    BY <2>3, <2>4
  <2> QED BY <2>1, <2>5 DEF x
<1> QED BY <1>4, <1>5

\* One factor apart, congruent sequences.
LEMMA ProdInsertCong ==
  ASSUME NEW F \in Seqs, NEW G \in Seqs, NEW n \in Nat, NEW j \in Nat, j < n,
         NEW c \in Int, Cong(F[j], c, Q), G[j] = 1,
         \A i \in Nat : i < n /\ i # j => Cong(F[i], G[i], Q)
  PROVE  Cong(Prod(F, n), c * Prod(G, n), Q)
<1> DEFINE H == [G EXCEPT ![j] = c]
<1>0. Q \in Int
  BY TheirPrimes
<1>1. H \in Seqs /\ H[j] = c /\ \A i \in Nat : i # j => H[i] = G[i]
  BY DEF Seqs
<1> HIDE DEF H
<1>2. \A i \in Nat : i < n => Cong(F[i], H[i], Q)
  BY <1>1
<1>3. Cong(Prod(F, n), Prod(H, n), Q)
  BY <1>0, <1>1, <1>2, ProdCong
<1>4. Prod(H, n) = H[j] * Prod(G, n)
  BY <1>1, ProdInsert
<1> QED BY <1>1, <1>3, <1>4

\* The product of the differences is n over the power itself.
LEMMA DiffsDoubled ==
  ASSUME NEW half \in Nat \ {0}, TwoPower(half),
         \A c \in Int : Primitive(c, half) =>
           \A i \in 0 .. half - 1 : Cong(Pow(c, i) * Prod(Diffs(c, i), half), half, Q),
         NEW w \in Int, Primitive(w, 2 * half), NEW i \in 0 .. 2 * half - 1
  PROVE  Cong(Pow(w, i) * Prod(Diffs(w, i), 2 * half), 2 * half, Q)
<1>0. Q \in Int /\ w * w \in Int /\ i \in Nat /\ \A k \in Nat : Pow(w, k) \in Int
  BY TheirPrimes, PowUnfolds
<1>1. MinusRoot(w, half, Q)
  <2>1. 2 * half # 1
    OBVIOUS
  <2>2. PICK l \in Nat \ {0} : 2 * half = 2 * l /\ MinusRoot(w, l, Q)
    BY <2>1 DEF Primitive
  <2>3. l = half
    BY <2>2
  <2> QED BY <2>2, <2>3
<1>2. Primitive(w * w, half)
  <2>1. ASSUME half # 1 PROVE \E l \in Nat \ {0} : half = 2 * l /\ MinusRoot(w * w, l, Q)
    <3>1. PICK l \in Nat \ {0} : half = 2 * l
      BY <2>1, TwoHalf
    <3>2. MinusRoot(w, 2 * l, Q) /\ l \in Nat
      BY <1>1, <3>1
    <3> QED BY <1>0, <3>1, <3>2, MinusRootSquare
  <2> QED BY <2>1 DEF Primitive
<1> DEFINE e == IF i < half THEN i ELSE i - half
           D == Diffs(w, i)
           U == [j \in Nat |-> D[half + j]]
           F == [j \in Nat |-> D[j] * U[j]]
           G == Diffs(w * w, e)
<1>3. e \in 0 .. half - 1 /\ e \in Nat /\ (i = e \/ i = half + e)
  OBVIOUS
<1> HIDE DEF e
<1>4. D \in Seqs /\ G \in Seqs /\ G[e] = 1
  BY <1>0, <1>3, DiffsTyped DEF Diffs
<1>5. U \in Seqs /\ F \in Seqs
  <2> HIDE DEF D
  <2>1. \A j \in Nat : half + j \in Nat
    OBVIOUS
  <2>2. U \in Seqs
    BY <1>4, <2>1 DEF Seqs
  <2> HIDE DEF U
  <2> QED BY <1>4, <2>2 DEF Seqs
<1>6. Prod(D, half + half) = Prod(F, half)
  <2> HIDE DEF D
  <2>1. \A j \in Nat : j < half => U[j] = D[half + j]
    OBVIOUS
  <2>2. \A j \in Nat : j < half => F[j] = D[j] * U[j]
    OBVIOUS
  <2> HIDE DEF U, F
  <2>3. Prod(D, half + half) = Prod(D, half) * Prod(U, half)
    BY <1>4, <1>5, <2>1, ProdSplit
  <2>4. Prod(F, half) = Prod(D, half) * Prod(U, half)
    BY <1>4, <1>5, <2>2, ProdTimes
  <2> QED BY <2>3, <2>4
<1>7. \A j \in Nat : F[j] = Diffs(w, i)[j] * Diffs(w, i)[half + j]
  OBVIOUS
<1> HIDE DEF D, U, F
<1>8. Cong(F[e], 2 * Pow(w, i), Q)
  BY <1>0, <1>1, <1>3, <1>7, PairOfSelf
<1>9. Cong(Pow(w * w, i), Pow(w * w, e), Q)
  <2>1. CASE i = e
    <3>1. Pow(w * w, e) \in Int
      BY <1>0, <1>3, PowUnfolds
    <3> QED BY <1>0, <2>1, <3>1, CongSame
  <2>2. CASE i = half + e
    BY <1>0, <1>1, <1>3, <2>2, PrimitiveTurns
  <2> QED BY <1>3, <2>1, <2>2
<1>10. ASSUME NEW j \in Nat, j < half, j # e PROVE Cong(F[j], G[j], Q)
  <2>1. i # j /\ i # half + j
    BY <1>3, <1>10
  <2>2. Cong(F[j], Pow(w * w, i) - Pow(w * w, j), Q)
    BY <1>0, <1>1, <1>7, <2>1, PairOfDiffs
  <2>3. Pow(w * w, j) \in Int
    BY <1>0, PowUnfolds
  <2>4. Cong(Pow(w * w, j), Pow(w * w, j), Q)
    BY <1>0, <2>3, CongSame
  <2>5. Cong(Pow(w * w, i) - Pow(w * w, j), Pow(w * w, e) - Pow(w * w, j), Q)
    BY <1>0, <1>9, <2>4, CongPlus
  <2>6. G[j] = Pow(w * w, e) - Pow(w * w, j)
    BY <1>10 DEF Diffs
  <2> QED BY <1>0, <2>2, <2>5, <2>6, CongVia
<1> HIDE DEF G
<1> DEFINE x == Pow(w, i)
           y == Prod(G, half)
           z == Pow(w * w, e)
<1>11. x \in Int /\ y \in Int /\ z \in Int /\ 2 * x \in Int
  <2>1. x \in Int
    BY <1>0
  <2>2. y \in Int
    BY <1>4, ProdUnfolds
  <2>3. z \in Int
    BY <1>0, <1>3, PowUnfolds
  <2> HIDE DEF x, y, z
  <2> QED BY <2>1, <2>2, <2>3
<1>12. Cong(Prod(F, half), (2 * x) * y, Q)
  <2>1. e < half
    BY <1>3
  <2> QED BY <1>3, <1>4, <1>5, <1>8, <1>10, <1>11, <2>1, ProdInsertCong
<1>13. Pow(w * w, i) = x * x
  BY <1>0, <1>1, PrimitiveTurns
<1>14. Cong(z * y, half, Q)
  BY <1>0, <1>2, <1>3 DEF G
<1> HIDE DEF x, y, z
<1>15. Cong(x * Prod(F, half), x * ((2 * x) * y), Q)
  BY <1>0, <1>11, <1>12, CongSame, CongTimes
<1>16. x * ((2 * x) * y) = 2 * ((x * x) * y)
  BY <1>11
<1>17. Cong((x * x) * y, z * y, Q)
  <2>1. Cong(x * x, z, Q)
    BY <1>9, <1>13 DEF z
  <2>2. Cong(y, y, Q)
    BY <1>0, <1>11, CongSame
  <2> QED BY <1>0, <2>1, <2>2, CongTimes
<1>18. Cong(2 * ((x * x) * y), 2 * half, Q)
  <2>1. Cong((x * x) * y, half, Q)
    BY <1>0, <1>14, <1>17, CongVia
  <2>2. Cong(2, 2, Q)
    BY <1>0, CongSame
  <2> QED BY <1>0, <2>1, <2>2, CongTimes
<1>19. Cong(x * Prod(F, half), 2 * half, Q)
  <2>1. Cong(x * Prod(F, half), 2 * ((x * x) * y), Q)
    BY <1>15, <1>16
  <2> QED BY <1>0, <1>18, <2>1, CongVia
<1>20. half + half = 2 * half
  OBVIOUS
<1> QED BY <1>6, <1>19, <1>20 DEF D, x
\* So for every root of unity whose order is a power of two.
LEMMA DiffsMultiply ==
  ASSUME NEW n, TwoPower(n), NEW w \in Int, Primitive(w, n), NEW i \in 0 .. n - 1
  PROVE  Cong(Pow(w, i) * Prod(Diffs(w, i), n), n, Q)
<1> DEFINE Holds(k) == \A c \in Int : Primitive(c, k) =>
                         \A j \in 0 .. k - 1 : Cong(Pow(c, j) * Prod(Diffs(c, j), k), k, Q)
           S == {k \in Nat : TwoPower(k) => Holds(k)}
<1>0. n \in Nat /\ Q \in Int
  BY TheirPrimes DEF TwoPower
<1>1. 1 \in S
  <2>1. ASSUME NEW c \in Int, NEW j \in 0 .. 1 - 1 PROVE Cong(Pow(c, j) * Prod(Diffs(c, j), 1), 1, Q)
    <3>1. j = 0 /\ 0 \in Nat /\ 0 + 1 = 1
      OBVIOUS
    <3>2. Pow(c, 0) = 1
      BY PowUnfolds
    <3>3. Diffs(c, 0) \in Seqs /\ Diffs(c, 0)[0] = 1
      BY <3>1, DiffsTyped DEF Diffs
    <3>4. Prod(Diffs(c, 0), 1) = 1
      <4>1. Prod(Diffs(c, 0), 0 + 1) = Prod(Diffs(c, 0), 0) * Diffs(c, 0)[0] /\ Prod(Diffs(c, 0), 0) = 1
        BY <3>1, <3>3, ProdUnfolds
      <4> QED BY <3>1, <3>3, <4>1
    <3>5. Cong(1, 1, Q)
      BY <1>0, CongSame
    <3> QED BY <3>1, <3>2, <3>4, <3>5
  <2>2. Holds(1)
    BY <2>1
  <2> HIDE DEF Holds
  <2> QED BY <2>2
<1>2. ASSUME NEW k \in Nat, TwoPower(k), k \in S PROVE 2 * k \in S
  <2>1. k \in Nat \ {0} /\ Holds(k)
    BY <1>2 DEF TwoPower
  <2>2. Holds(2 * k)
    BY <1>2, <2>1, DiffsDoubled
  <2> HIDE DEF Holds
  <2> QED BY <2>2
<1> HIDE DEF S
<1>3. \A k \in Nat : TwoPower(k) => k \in S
  BY <1>1, <1>2, TwoInduction
<1>4. Holds(n)
  <2> HIDE DEF Holds
  <2> QED BY <1>0, <1>3 DEF S
<1> QED BY <1>4

\* TAU is a unit modulo Q.
LEMMA TauInvertible == Invertible(TAU) /\ TAU \in Int
<1>1. TAU \in Nat \ {0}
  BY TauTwo
<1>2. PICK half \in Nat \ {0} : /\ TAU = 2 * half
                                /\ \A p \in {P0, P1} : \E c \in Nat : p - 1 = (2 * half) * c
  BY TauHalf
<1>3. ASSUME NEW p \in {P0, P1} PROVE ~ Cong(TAU, 0, p)
  <2>1. p \in Nat /\ p >= 3
    BY TheirPrimes
  <2>2. PICK c \in Nat : p - 1 = TAU * c
    BY <1>2
  <2>3. c # 0
    BY <2>1, <2>2, <1>1
  <2>4. TAU * c >= TAU
    BY <1>1, <2>3
  <2>5. TAU \in 1 .. p - 1
    BY <1>1, <2>1, <2>2, <2>4
  <2> QED BY <2>1, <2>5, NotMultiple
<1> QED BY <1>1, <1>3, InvertibleIs
-----------------------------------------------------------------------------
\* What BasisAt divides by.

\* The root of the nodes is primitive.
LEMMA NodesRoot == Root \in Int /\ Primitive(Root, TAU) /\ TAU \in Nat \ {0} /\ TAU >= 2
<1>1. PICK half \in Nat \ {0} : TAU = 2 * half
  BY TauHalf
<1>2. Root \in Int /\ MinusRoot(Root, half, Q)
  BY <1>1, RootIs
<1> QED BY <1>1, <1>2, TauTwo DEF Primitive

\* Each difference of two nodes divides the product of all.
LEMMA DiffInvertible ==
  ASSUME NEW i \in Nodes, NEW j \in Nodes
  PROVE  Invertible(Diffs(Root, i)[j])
<1> DEFINE D == Diffs(Root, i)
           G == [D EXCEPT ![j] = 1]
           x == Pow(Root, i)
           y == Prod(G, TAU)
           z == Prod(D, TAU)
           u == ZqInverse(TAU)
           d == D[j]
<1>0. /\ Q \in Int /\ Root \in Int /\ TAU \in Nat \ {0} /\ TAU \in Int
      /\ i \in 0 .. TAU - 1 /\ j \in 0 .. TAU - 1 /\ i \in Nat /\ j \in Nat /\ j < TAU
  BY NodesRoot, TheirPrimes DEF Nodes
<1>1. D \in Seqs
  BY <1>0, DiffsTyped
<1>2. Cong(x * z, TAU, Q)
  BY <1>0, TauTwo, NodesRoot, DiffsMultiply
<1> HIDE DEF D
<1>3. G \in Seqs /\ G[j] = 1 /\ \A k \in Nat : k # j => D[k] = G[k]
  BY <1>0, <1>1 DEF Seqs
<1> HIDE DEF G
<1>4. z = d * y
  BY <1>0, <1>1, <1>3, ProdInsert
<1>5. x \in Int /\ y \in Int /\ z \in Int /\ d \in Int
  <2>1. x \in Int
    BY <1>0, PowUnfolds
  <2>2. y \in Int /\ z \in Int
    BY <1>0, <1>1, <1>3, ProdUnfolds
  <2>3. d \in Int
    BY <1>0, <1>1 DEF Seqs
  <2> HIDE DEF x, y, z, d
  <2> QED BY <2>1, <2>2, <2>3
<1>6. u \in Int /\ Cong(TAU * u, 1, Q)
  BY TauInvertible, ZqInverseIs, TheirPrimes DEF Zq
<1> HIDE DEF x, y, z, u, d
<1>7. Cong((x * z) * u, TAU * u, Q)
  BY <1>0, <1>2, <1>6, CongSame, CongTimes
<1>8. (x * z) * u = d * ((x * y) * u)
  <2>1. (x * z) * u = (x * (d * y)) * u
    BY <1>4
  <2>2. x * (d * y) = d * (x * y)
    BY <1>5
  <2>3. x * y \in Int
    BY <1>5
  <2> DEFINE c == x * y
  <2> HIDE DEF c
  <2>4. (d * c) * u = d * (c * u)
    BY <1>5, <1>6, <2>3 DEF c
  <2> QED BY <2>1, <2>2, <2>4 DEF c
<1>9. Cong(d * ((x * y) * u), 1, Q)
  <2>1. Cong((x * z) * u, 1, Q)
    BY <1>0, <1>6, <1>7, CongVia
  <2> QED BY <1>8, <2>1
<1>10. (x * y) * u \in Int
  BY <1>5, <1>6
<1> QED BY <1>5, <1>9, <1>10, InvertibleIf DEF d, D

\* What BasisAt divides by at the j-th node, for the i-th basis function.
Divisors(i) ==
  [j \in Nat |-> IF j \in Nodes \ {i} THEN ZqInverse(Sub(RootPower(i), RootPower(j))) ELSE 1]

LEMMA DivisorsInvert ==
  ASSUME NEW i \in Nodes
  PROVE  /\ Divisors(i) \in Seqs
         /\ \A j \in Nat : Divisors(i)[j] \in Zq
         /\ \A j \in Nat : j < TAU => Cong(Diffs(Root, i)[j] * Divisors(i)[j], 1, Q)
<1>0. /\ Q \in Nat \ {0} /\ Q \in Int /\ Root \in Int /\ TAU \in Nat /\ i \in Nat /\ 1 \in Zq
      /\ Zq = 0 .. Q - 1 /\ \A j \in Nat : j < TAU => j \in Nodes
  BY NodesRoot, TheirPrimes DEF Nodes, Zq
<1>1. ASSUME NEW j \in Nodes, j # i
      PROVE  Divisors(i)[j] \in Zq /\ Cong(Diffs(Root, i)[j] * Divisors(i)[j], 1, Q)
  <2> DEFINE a == RootPower(i)
             b == RootPower(j)
             d == Diffs(Root, i)[j]
             u == Divisors(i)[j]
             c == Sub(a, b)
  <2>0. j \in Nat
    BY DEF Nodes
  <2>1. a \in Zq /\ b \in Zq /\ Cong(a, Pow(Root, i), Q) /\ Cong(b, Pow(Root, j), Q)
    BY <1>0, <2>0, RootPowerIs
  <2>2. d = Pow(Root, i) - Pow(Root, j)
    BY <1>1, <2>0 DEF Diffs
  <2>3. u = ZqInverse(c)
    BY <1>1, <2>0 DEF Divisors
  <2>4. Invertible(d)
    BY DiffInvertible
  <2> HIDE DEF a, b, d, u
  <2>5. Cong(a - b, d, Q)
    BY <1>0, <2>1, <2>2, CongPlus
  <2>6. c \in Int /\ Cong(c, a - b, Q)
    <3>1. a - b + Q \in Int /\ a - b \in Int
      BY <1>0, <2>1
    <3>2. Cong(c, a - b + Q, Q) /\ c \in 0 .. Q - 1
      BY <1>0, <3>1, RemainderIs DEF Sub
    <3>3. Cong(a - b + Q, a - b, Q)
      <4>1. a - b + Q = (a - b) + 1 * Q /\ 1 \in Int
        BY <1>0, <3>1
      <4> QED BY <3>1, <4>1 DEF Cong
    <3> QED BY <1>0, <3>2, <3>3, CongVia
  <2> HIDE DEF c
  <2>7. Cong(c, d, Q) /\ d \in Int
    <3>1. Cong(c, d, Q)
      BY <1>0, <2>5, <2>6, CongVia
    <3> QED BY <3>1 DEF Cong
  <2>8. Invertible(c)
    BY <2>4, <2>6, <2>7, InvertibleSame
  <2>9. u \in Zq /\ Cong(c * u, 1, Q)
    BY <2>3, <2>6, <2>8, ZqInverseIs
  <2>10. Cong(d * u, c * u, Q)
    <3>1. u \in Int
      BY <1>0, <2>9
    <3>2. Cong(u, u, Q) /\ Cong(d, c, Q)
      BY <1>0, <2>7, <3>1, CongSame, CongSwap
    <3> QED BY <1>0, <3>2, CongTimes
  <2>11. Cong(d * u, 1, Q)
    BY <1>0, <2>9, <2>10, CongVia
  <2> QED BY <2>9, <2>11 DEF d, u
<1>2. ASSUME NEW j \in Nat, j \notin Nodes \ {i} PROVE Divisors(i)[j] = 1
  BY <1>2 DEF Divisors
<1>3. \A j \in Nat : Divisors(i)[j] \in Zq
  BY <1>0, <1>1, <1>2
<1>4. Divisors(i) \in Seqs
  <2>1. \A j \in Nat : Divisors(i)[j] \in Int
    BY <1>0, <1>3
  <2>2. Divisors(i) = [j \in Nat |-> Divisors(i)[j]]
    BY DEF Divisors
  <2> DEFINE G == Divisors(i)
  <2> HIDE DEF G
  <2>3. G \in [Nat -> Int]
    BY <2>1, <2>2 DEF G
  <2> QED BY <2>3 DEF G, Seqs
<1>5. ASSUME NEW j \in Nat, j < TAU PROVE Cong(Diffs(Root, i)[j] * Divisors(i)[j], 1, Q)
  <2>1. CASE j = i
    <3>1. Diffs(Root, i)[j] = 1 /\ Divisors(i)[j] = 1
      BY <1>2, <2>1 DEF Diffs
    <3>2. 1 * 1 = 1 /\ Cong(1, 1, Q)
      BY <1>0, CongSame
    <3> QED BY <3>1, <3>2
  <2>2. CASE j # i
    BY <1>0, <1>1, <1>5, <2>2
  <2> QED BY <2>1, <2>2
<1> QED BY <1>3, <1>4, <1>5

\* All of them together: the node over TAU.
LEMMA DivisorsMultiply ==
  ASSUME NEW i \in Nodes
  PROVE  Cong(Prod(Divisors(i), TAU), RootPower(i) * ZqInverse(TAU), Q)
<1> DEFINE D == Diffs(Root, i)
           G == Divisors(i)
           H == [j \in Nat |-> D[j] * G[j]]
           L == [j \in Nat |-> 1]
           x == Pow(Root, i)
           y == Prod(G, TAU)
           z == Prod(D, TAU)
           u == ZqInverse(TAU)
<1>0. /\ Q \in Int /\ Root \in Int /\ TAU \in Nat \ {0} /\ TAU \in Int
      /\ i \in 0 .. TAU - 1 /\ i \in Nat
  BY NodesRoot, TheirPrimes DEF Nodes
<1>1. D \in Seqs /\ G \in Seqs
  BY <1>0, DiffsTyped, DivisorsInvert
<1>2. Cong(x * z, TAU, Q)
  BY <1>0, TauTwo, NodesRoot, DiffsMultiply
<1>3. \A j \in Nat : j < TAU => Cong(D[j] * G[j], 1, Q)
  BY DivisorsInvert
<1>4. L \in Seqs /\ L[0] = 1 /\ \A j \in Nat : L[j] = 1
  BY DEF Seqs
<1> HIDE DEF D, G, L
<1>5. H \in Seqs /\ \A j \in Nat : H[j] = D[j] * G[j]
  BY <1>1 DEF Seqs
<1> HIDE DEF H
<1>6. Prod(H, TAU) = z * y
  BY <1>0, <1>1, <1>5, ProdTimes
<1>7. Prod(L, TAU) = 1
  BY <1>0, <1>4, ProdAlone
<1>8. Cong(z * y, 1, Q)
  <2>1. \A j \in Nat : j < TAU => Cong(H[j], L[j], Q)
    BY <1>3, <1>4, <1>5
  <2>2. Cong(Prod(H, TAU), Prod(L, TAU), Q)
    BY <1>0, <1>4, <1>5, <2>1, ProdCong
  <2> QED BY <1>6, <1>7, <2>2
<1>9. x \in Int /\ y \in Int /\ z \in Int
  <2>1. x \in Int
    BY <1>0, PowUnfolds
  <2>2. y \in Int /\ z \in Int
    BY <1>0, <1>1, ProdUnfolds
  <2> HIDE DEF x, y, z
  <2> QED BY <2>1, <2>2
<1>10. u \in Int /\ Cong(TAU * u, 1, Q)
  BY TauInvertible, ZqInverseIs, TheirPrimes DEF Zq
<1>11. Cong(RootPower(i), x, Q)
  BY <1>0, RootPowerIs
<1> HIDE DEF x, y, z, u
<1>12. Cong((x * z) * u, 1, Q)
  <2>1. Cong((x * z) * u, TAU * u, Q)
    BY <1>0, <1>2, <1>10, CongSame, CongTimes
  <2> QED BY <1>0, <1>10, <2>1, CongVia
<1>13. Cong(1 * y, ((x * z) * u) * y, Q)
  <2>1. Cong(1, (x * z) * u, Q) /\ Cong(y, y, Q)
    BY <1>0, <1>9, <1>12, CongSwap, CongSame
  <2> QED BY <1>0, <2>1, CongTimes
<1>14. Cong((x * u) * (z * y), (x * u) * 1, Q)
  <2>1. x * u \in Int
    BY <1>9, <1>10
  <2>2. Cong(x * u, x * u, Q)
    BY <1>0, <2>1, CongSame
  <2> QED BY <1>0, <1>8, <2>2, CongTimes
<1>15. ((x * z) * u) * y = (x * u) * (z * y) /\ 1 * y = y /\ (x * u) * 1 = x * u
  <2>1. (x * z) * u = (x * u) * z
    BY <1>9, <1>10
  <2>2. ((x * u) * z) * y = (x * u) * (z * y)
    <3> DEFINE c == x * u
    <3>1. c \in Int
      BY <1>9, <1>10
    <3> HIDE DEF c
    <3>2. (c * z) * y = c * (z * y)
      BY <1>9, <3>1
    <3> QED BY <3>2 DEF c
  <2>3. x * u \in Int
    BY <1>9, <1>10
  <2> QED BY <1>9, <2>1, <2>2, <2>3
<1>16. Cong(y, x * u, Q)
  <2>1. Cong(y, (x * u) * (z * y), Q) /\ Cong((x * u) * (z * y), x * u, Q)
    BY <1>13, <1>14, <1>15
  <2> QED BY <1>0, <2>1, CongVia
<1>17. Cong(x * u, RootPower(i) * u, Q)
  <2>1. Cong(x, RootPower(i), Q) /\ Cong(u, u, Q)
    BY <1>0, <1>10, <1>11, CongSwap, CongSame
  <2> QED BY <1>0, <2>1, CongTimes
<1>18. Cong(y, RootPower(i) * u, Q)
  BY <1>0, <1>16, <1>17, CongVia
<1> QED BY <1>18 DEF y, G, u
-----------------------------------------------------------------------------
\* The ring GR(q,2), read by congruences of the two coordinates.

\* An element of GR(q,2) whose coordinates are x and y modulo q.
Reads(a, x, y) == a \in Gr /\ Cong(a[1], x, Q) /\ Cong(a[2], y, Q)

LEMMA GrCoordinates ==
  /\ Q \in Int /\ GrOne \in Gr /\ Reads(GrOne, 1, 0)
  /\ \A a \in Gr : a[1] \in Int /\ a[2] \in Int /\ Reads(a, a[1], a[2])
<1>1. Q \in Int /\ Zq = 0 .. Q - 1 /\ Q >= 9
  BY TheirPrimes DEF Zq
<1>2. ASSUME NEW a \in Gr PROVE a[1] \in Int /\ a[2] \in Int /\ Reads(a, a[1], a[2])
  <2>1. a[1] \in Int /\ a[2] \in Int
    BY <1>1 DEF Gr
  <2> QED BY <1>1, <2>1, CongSame DEF Reads
<1>3. GrOne \in Gr /\ GrOne[1] = 1 /\ GrOne[2] = 0
  BY <1>1 DEF Gr, GrOne
<1> QED BY <1>1, <1>2, <1>3

LEMMA ReadsSame ==
  ASSUME NEW a, NEW b, NEW x, NEW y, Reads(a, x, y), Reads(b, x, y)
  PROVE  a = b
<1>1. Q \in Nat \ {0} /\ Q \in Int /\ Zq = 0 .. Q - 1
  BY TheirPrimes DEF Zq
<1>2. a \in Gr /\ b \in Gr
  BY DEF Reads
<1>3. a[1] \in 0 .. Q - 1 /\ a[2] \in 0 .. Q - 1 /\ b[1] \in 0 .. Q - 1 /\ b[2] \in 0 .. Q - 1
  BY <1>1, <1>2 DEF Gr
<1>4. Cong(a[1], b[1], Q)
  <2>1. Cong(a[1], x, Q) /\ Cong(x, b[1], Q)
    BY <1>1, CongSwap DEF Reads
  <2> QED BY <1>1, <2>1, CongVia
<1>5. Cong(a[2], b[2], Q)
  <2>1. Cong(a[2], y, Q) /\ Cong(y, b[2], Q)
    BY <1>1, CongSwap DEF Reads
  <2> QED BY <1>1, <2>1, CongVia
<1>6. a[1] = b[1] /\ a[2] = b[2]
  BY <1>1, <1>3, <1>4, <1>5, SameResidue
<1> QED BY <1>2, <1>6 DEF Gr

LEMMA ReadsVia ==
  ASSUME NEW a, NEW x, NEW y, NEW u, NEW c, Reads(a, x, y), Cong(x, u, Q), Cong(y, c, Q)
  PROVE  Reads(a, u, c)
<1>1. Q \in Int
  BY TheirPrimes
<1>2. Cong(a[1], u, Q) /\ Cong(a[2], c, Q)
  BY <1>1, CongVia DEF Reads
<1> QED BY <1>2 DEF Reads

\* Sums modulo q.
LEMMA AddIs ==
  ASSUME NEW x \in Int, NEW y \in Int
  PROVE  /\ Add(x, y) \in Zq /\ Cong(Add(x, y), x + y, Q)
         /\ Sub(x, y) \in Zq /\ Cong(Sub(x, y), x - y, Q)
<1>1. Q \in Nat \ {0} /\ Q \in Int /\ Zq = 0 .. Q - 1
  BY TheirPrimes DEF Zq
<1>2. x + y \in Int /\ x - y \in Int /\ x - y + Q \in Int
  BY <1>1
<1>3. Add(x, y) \in 0 .. Q - 1 /\ Cong(Add(x, y), x + y, Q)
  BY <1>1, <1>2, RemainderIs DEF Add
<1>4. Sub(x, y) \in 0 .. Q - 1 /\ Cong(Sub(x, y), x - y + Q, Q)
  BY <1>1, <1>2, RemainderIs DEF Sub
<1>5. Cong(x - y + Q, x - y, Q)
  <2>1. x - y + Q = (x - y) + 1 * Q /\ 1 \in Int
    BY <1>1, <1>2
  <2> QED BY <1>2, <2>1 DEF Cong
<1>6. Cong(Sub(x, y), x - y, Q)
  BY <1>1, <1>4, <1>5, CongVia
<1> QED BY <1>1, <1>3, <1>4, <1>6

\* The operations on what the arguments read.
LEMMA ReadsMul ==
  ASSUME NEW a, NEW b, NEW x, NEW y, NEW u, NEW c, Reads(a, x, y), Reads(b, u, c)
  PROVE  Reads(gr_mul(a, b), x * u + 3 * (y * c), x * c + y * u)
<1>0. Q \in Int /\ Zq \subseteq Int
  BY TheirPrimes DEF Zq
<1>1. /\ Cong(a[1], x, Q) /\ Cong(a[2], y, Q) /\ Cong(b[1], u, Q) /\ Cong(b[2], c, Q)
  BY DEF Reads
<1>2. a[1] \in Int /\ a[2] \in Int /\ b[1] \in Int /\ b[2] \in Int
  BY <1>1 DEF Cong
<1>3. /\ Cong(Mul(a[1], b[1]), x * u, Q) /\ Mul(a[1], b[1]) \in Int
  <2>1. Mul(a[1], b[1]) \in Zq /\ Cong(Mul(a[1], b[1]), a[1] * b[1], Q)
    BY <1>2, MulIs
  <2>2. Cong(a[1] * b[1], x * u, Q)
    BY <1>0, <1>1, CongTimes
  <2>3. Cong(Mul(a[1], b[1]), x * u, Q)
    BY <1>0, <2>1, <2>2, CongVia
  <2> QED BY <1>0, <2>1, <2>3
<1>4. /\ Cong(Mul(a[2], b[2]), y * c, Q) /\ Mul(a[2], b[2]) \in Int
  <2>1. Mul(a[2], b[2]) \in Zq /\ Cong(Mul(a[2], b[2]), a[2] * b[2], Q)
    BY <1>2, MulIs
  <2>2. Cong(a[2] * b[2], y * c, Q)
    BY <1>0, <1>1, CongTimes
  <2>3. Cong(Mul(a[2], b[2]), y * c, Q)
    BY <1>0, <2>1, <2>2, CongVia
  <2> QED BY <1>0, <2>1, <2>3
<1>5. /\ Cong(Mul(a[1], b[2]), x * c, Q) /\ Mul(a[1], b[2]) \in Int
  <2>1. Mul(a[1], b[2]) \in Zq /\ Cong(Mul(a[1], b[2]), a[1] * b[2], Q)
    BY <1>2, MulIs
  <2>2. Cong(a[1] * b[2], x * c, Q)
    BY <1>0, <1>1, CongTimes
  <2>3. Cong(Mul(a[1], b[2]), x * c, Q)
    BY <1>0, <2>1, <2>2, CongVia
  <2> QED BY <1>0, <2>1, <2>3
<1>6. /\ Cong(Mul(a[2], b[1]), y * u, Q) /\ Mul(a[2], b[1]) \in Int
  <2>1. Mul(a[2], b[1]) \in Zq /\ Cong(Mul(a[2], b[1]), a[2] * b[1], Q)
    BY <1>2, MulIs
  <2>2. Cong(a[2] * b[1], y * u, Q)
    BY <1>0, <1>1, CongTimes
  <2>3. Cong(Mul(a[2], b[1]), y * u, Q)
    BY <1>0, <2>1, <2>2, CongVia
  <2> QED BY <1>0, <2>1, <2>3
<1>7. Cong(Mul(AEX_NR, Mul(a[2], b[2])), 3 * (y * c), Q) /\ Mul(AEX_NR, Mul(a[2], b[2])) \in Int
  <2>1. AEX_NR = 3 /\ AEX_NR \in Int
    BY DEF AEX_NR
  <2> DEFINE d == Mul(a[2], b[2])
  <2>2. d \in Int /\ Cong(d, y * c, Q)
    BY <1>4
  <2> HIDE DEF d
  <2>3. Mul(AEX_NR, d) \in Zq /\ Cong(Mul(AEX_NR, d), AEX_NR * d, Q)
    BY <2>1, <2>2, MulIs
  <2>4. Cong(AEX_NR, AEX_NR, Q)
    BY <1>0, <2>1, CongSame
  <2>5. Cong(AEX_NR * d, AEX_NR * (y * c), Q)
    BY <1>0, <2>2, <2>4, CongTimes
  <2>6. Cong(Mul(AEX_NR, d), AEX_NR * (y * c), Q)
    BY <1>0, <2>3, <2>5, CongVia
  <2> QED BY <1>0, <2>1, <2>3, <2>6 DEF d
<1> DEFINE m1 == Mul(a[1], b[1])
           m2 == Mul(AEX_NR, Mul(a[2], b[2]))
           m3 == Mul(a[1], b[2])
           m4 == Mul(a[2], b[1])
<1>8. gr_mul(a, b) = <<Add(m1, m2), Add(m3, m4)>>
  BY DEF gr_mul
<1>9. /\ m1 \in Int /\ m2 \in Int /\ m3 \in Int /\ m4 \in Int
      /\ Cong(m1, x * u, Q) /\ Cong(m2, 3 * (y * c), Q) /\ Cong(m3, x * c, Q) /\ Cong(m4, y * u, Q)
  BY <1>3, <1>4, <1>5, <1>6, <1>7
<1> HIDE DEF m1, m2, m3, m4
<1>10. Add(m1, m2) \in Zq /\ Cong(Add(m1, m2), x * u + 3 * (y * c), Q)
  <2>1. Add(m1, m2) \in Zq /\ Cong(Add(m1, m2), m1 + m2, Q)
    BY <1>9, AddIs
  <2>2. Cong(m1 + m2, x * u + 3 * (y * c), Q)
    BY <1>0, <1>9, CongPlus
  <2> QED BY <1>0, <2>1, <2>2, CongVia
<1>11. Add(m3, m4) \in Zq /\ Cong(Add(m3, m4), x * c + y * u, Q)
  <2>1. Add(m3, m4) \in Zq /\ Cong(Add(m3, m4), m3 + m4, Q)
    BY <1>9, AddIs
  <2>2. Cong(m3 + m4, x * c + y * u, Q)
    BY <1>0, <1>9, CongPlus
  <2> QED BY <1>0, <2>1, <2>2, CongVia
<1> QED BY <1>8, <1>10, <1>11 DEF Reads, Gr

LEMMA ReadsSub ==
  ASSUME NEW a, NEW b, NEW x, NEW y, NEW u, NEW c, Reads(a, x, y), Reads(b, u, c)
  PROVE  Reads(gr_sub(a, b), x - u, y - c)
<1>0. Q \in Int
  BY TheirPrimes
<1>1. /\ Cong(a[1], x, Q) /\ Cong(a[2], y, Q) /\ Cong(b[1], u, Q) /\ Cong(b[2], c, Q)
  BY DEF Reads
<1>2. a[1] \in Int /\ a[2] \in Int /\ b[1] \in Int /\ b[2] \in Int
  BY <1>1 DEF Cong
<1>3. Sub(a[1], b[1]) \in Zq /\ Cong(Sub(a[1], b[1]), x - u, Q)
  <2>1. Sub(a[1], b[1]) \in Zq /\ Cong(Sub(a[1], b[1]), a[1] - b[1], Q)
    BY <1>2, AddIs
  <2>2. Cong(a[1] - b[1], x - u, Q)
    BY <1>0, <1>1, CongPlus
  <2> QED BY <1>0, <2>1, <2>2, CongVia
<1>4. Sub(a[2], b[2]) \in Zq /\ Cong(Sub(a[2], b[2]), y - c, Q)
  <2>1. Sub(a[2], b[2]) \in Zq /\ Cong(Sub(a[2], b[2]), a[2] - b[2], Q)
    BY <1>2, AddIs
  <2>2. Cong(a[2] - b[2], y - c, Q)
    BY <1>0, <1>1, CongPlus
  <2> QED BY <1>0, <2>1, <2>2, CongVia
<1> QED BY <1>3, <1>4 DEF Reads, Gr, gr_sub

LEMMA ReadsScalar ==
  ASSUME NEW a, NEW x, NEW y, NEW e, NEW u, Reads(a, x, y), Cong(e, u, Q)
  PROVE  Reads(gr_scalar(a, e), x * u, y * u)
<1>0. Q \in Int
  BY TheirPrimes
<1>1. Cong(a[1], x, Q) /\ Cong(a[2], y, Q)
  BY DEF Reads
<1>2. a[1] \in Int /\ a[2] \in Int /\ e \in Int
  BY <1>1 DEF Cong
<1>3. Mul(a[1], e) \in Zq /\ Cong(Mul(a[1], e), x * u, Q)
  <2>1. Mul(a[1], e) \in Zq /\ Cong(Mul(a[1], e), a[1] * e, Q)
    BY <1>2, MulIs
  <2>2. Cong(a[1] * e, x * u, Q)
    BY <1>0, <1>1, CongTimes
  <2> QED BY <1>0, <2>1, <2>2, CongVia
<1>4. Mul(a[2], e) \in Zq /\ Cong(Mul(a[2], e), y * u, Q)
  <2>1. Mul(a[2], e) \in Zq /\ Cong(Mul(a[2], e), a[2] * e, Q)
    BY <1>2, MulIs
  <2>2. Cong(a[2] * e, y * u, Q)
    BY <1>0, <1>1, CongTimes
  <2> QED BY <1>0, <2>1, <2>2, CongVia
<1> QED BY <1>3, <1>4 DEF Reads, Gr, gr_scalar

\* GR(q,2) is a commutative ring.
LEMMA GrMulLaws ==
  /\ \A a, b \in Gr : gr_mul(a, b) \in Gr /\ gr_mul(a, b) = gr_mul(b, a)
  /\ \A a \in Gr : gr_mul(a, GrOne) = a /\ gr_mul(GrOne, a) = a
<1>1. ASSUME NEW a \in Gr, NEW b \in Gr PROVE gr_mul(a, b) \in Gr /\ gr_mul(a, b) = gr_mul(b, a)
  <2> DEFINE x == a[1]
             y == a[2]
             u == b[1]
             c == b[2]
  <2>1. x \in Int /\ y \in Int /\ u \in Int /\ c \in Int /\ Reads(a, x, y) /\ Reads(b, u, c)
    BY GrCoordinates
  <2> HIDE DEF x, y, u, c
  <2>2. /\ Reads(gr_mul(a, b), x * u + 3 * (y * c), x * c + y * u)
        /\ Reads(gr_mul(b, a), u * x + 3 * (c * y), u * y + c * x)
    BY <2>1, ReadsMul
  <2>3. u * x + 3 * (c * y) = x * u + 3 * (y * c) /\ u * y + c * x = x * c + y * u
    BY <2>1
  <2>4. gr_mul(a, b) = gr_mul(b, a)
    BY <2>2, <2>3, ReadsSame
  <2> QED BY <2>2, <2>4 DEF Reads
<1>2. ASSUME NEW a \in Gr PROVE gr_mul(a, GrOne) = a
  <2> DEFINE x == a[1]
             y == a[2]
  <2>1. x \in Int /\ y \in Int /\ Reads(a, x, y) /\ Reads(GrOne, 1, 0)
    BY GrCoordinates
  <2> HIDE DEF x, y
  <2>2. Reads(gr_mul(a, GrOne), x * 1 + 3 * (y * 0), x * 0 + y * 1)
    BY <2>1, ReadsMul
  <2>3. x * 1 + 3 * (y * 0) = x /\ x * 0 + y * 1 = y
    BY <2>1
  <2> QED BY <2>1, <2>2, <2>3, ReadsSame
<1>3. GrOne \in Gr
  BY GrCoordinates
<1> QED BY <1>1, <1>2, <1>3

LEMMA GrMulAssoc ==
  ASSUME NEW a \in Gr, NEW b \in Gr, NEW d \in Gr
  PROVE  gr_mul(gr_mul(a, b), d) = gr_mul(a, gr_mul(b, d))
<1> DEFINE x == a[1]
           y == a[2]
           u == b[1]
           c == b[2]
           e == d[1]
           z == d[2]
<1>1. /\ x \in Int /\ y \in Int /\ u \in Int /\ c \in Int /\ e \in Int /\ z \in Int
      /\ Reads(a, x, y) /\ Reads(b, u, c) /\ Reads(d, e, z)
  BY GrCoordinates
<1> HIDE DEF x, y, u, c, e, z
<1> DEFINE l1 == x * u + 3 * (y * c)
           l2 == x * c + y * u
           r1 == u * e + 3 * (c * z)
           r2 == u * z + c * e
<1>2. Reads(gr_mul(a, b), l1, l2) /\ Reads(gr_mul(b, d), r1, r2)
  BY <1>1, ReadsMul
<1>3. /\ l1 * e + 3 * (l2 * z) = x * r1 + 3 * (y * r2)
      /\ l1 * z + l2 * e = x * r2 + y * r1
  BY <1>1
<1> HIDE DEF l1, l2, r1, r2
<1>4. Reads(gr_mul(gr_mul(a, b), d), l1 * e + 3 * (l2 * z), l1 * z + l2 * e)
  BY <1>1, <1>2, ReadsMul
<1>5. Reads(gr_mul(a, gr_mul(b, d)), x * r1 + 3 * (y * r2), x * r2 + y * r1)
  BY <1>1, <1>2, ReadsMul
<1> QED BY <1>3, <1>4, <1>5, ReadsSame

\* Products of four, the middle ones exchanged.
LEMMA GrMulSwap ==
  ASSUME NEW a \in Gr, NEW b \in Gr, NEW c \in Gr, NEW d \in Gr
  PROVE  gr_mul(gr_mul(a, b), gr_mul(c, d)) = gr_mul(gr_mul(a, c), gr_mul(b, d))
<1>1. gr_mul(c, d) \in Gr /\ gr_mul(b, d) \in Gr /\ gr_mul(b, c) = gr_mul(c, b)
  BY GrMulLaws
<1>2. gr_mul(gr_mul(a, b), gr_mul(c, d)) = gr_mul(a, gr_mul(b, gr_mul(c, d)))
  BY <1>1, GrMulAssoc
<1>3. gr_mul(b, gr_mul(c, d)) = gr_mul(gr_mul(b, c), d)
  BY GrMulAssoc
<1>4. gr_mul(gr_mul(c, b), d) = gr_mul(c, gr_mul(b, d))
  BY GrMulAssoc
<1>5. gr_mul(a, gr_mul(c, gr_mul(b, d))) = gr_mul(gr_mul(a, c), gr_mul(b, d))
  BY <1>1, GrMulAssoc
<1> QED BY <1>1, <1>2, <1>3, <1>4, <1>5

\* Factors of Z_q come out of a product and can be taken together.
LEMMA GrScalarLaws ==
  /\ \A a \in Gr, e \in Int : gr_scalar(a, e) \in Gr
  /\ \A a, b \in Gr, e, d \in Int :
       gr_mul(gr_scalar(a, e), gr_scalar(b, d)) = gr_scalar(gr_mul(a, b), e * d)
<1>0. Q \in Int
  BY TheirPrimes
<1>1. ASSUME NEW a \in Gr, NEW e \in Int PROVE gr_scalar(a, e) \in Gr
  BY <1>0, GrCoordinates, CongSame, ReadsScalar DEF Reads
<1>2. ASSUME NEW a \in Gr, NEW b \in Gr, NEW e \in Int, NEW d \in Int
      PROVE  gr_mul(gr_scalar(a, e), gr_scalar(b, d)) = gr_scalar(gr_mul(a, b), e * d)
  <2> DEFINE x == a[1]
             y == a[2]
             u == b[1]
             c == b[2]
  <2>1. /\ x \in Int /\ y \in Int /\ u \in Int /\ c \in Int /\ e * d \in Int
        /\ Reads(a, x, y) /\ Reads(b, u, c)
    BY GrCoordinates
  <2> HIDE DEF x, y, u, c
  <2>2. Cong(e, e, Q) /\ Cong(d, d, Q) /\ Cong(e * d, e * d, Q)
    BY <1>0, <2>1, CongSame
  <2>3. Reads(gr_scalar(a, e), x * e, y * e) /\ Reads(gr_scalar(b, d), u * d, c * d)
    BY <2>1, <2>2, ReadsScalar
  <2>4. Reads(gr_mul(gr_scalar(a, e), gr_scalar(b, d)),
              (x * e) * (u * d) + 3 * ((y * e) * (c * d)), (x * e) * (c * d) + (y * e) * (u * d))
    BY <2>3, ReadsMul
  <2>5. Reads(gr_mul(a, b), x * u + 3 * (y * c), x * c + y * u)
    BY <2>1, ReadsMul
  <2>6. Reads(gr_scalar(gr_mul(a, b), e * d), (x * u + 3 * (y * c)) * (e * d), (x * c + y * u) * (e * d))
    BY <2>2, <2>5, ReadsScalar
  <2>7. /\ (x * e) * (u * d) + 3 * ((y * e) * (c * d)) = (x * u + 3 * (y * c)) * (e * d)
        /\ (x * e) * (c * d) + (y * e) * (u * d) = (x * c + y * u) * (e * d)
    BY <2>1
  <2> QED BY <2>4, <2>6, <2>7, ReadsSame
<1> QED BY <1>1, <1>2

LEMMA GrScalarSame ==
  ASSUME NEW a \in Gr, NEW e \in Int, NEW d \in Int, NEW c \in Int, Cong(e * d, c, Q)
  PROVE  gr_scalar(gr_scalar(a, e), d) = gr_scalar(a, c)
<1> DEFINE x == a[1]
           y == a[2]
<1>0. Q \in Int /\ x \in Int /\ y \in Int /\ Reads(a, x, y)
  BY GrCoordinates
<1> HIDE DEF x, y
<1>1. Cong(e, e, Q) /\ Cong(d, d, Q) /\ Cong(c, e * d, Q)
  BY <1>0, CongSame, CongSwap
<1>2. Reads(gr_scalar(a, e), x * e, y * e)
  BY <1>0, <1>1, ReadsScalar
<1>3. Reads(gr_scalar(gr_scalar(a, e), d), (x * e) * d, (y * e) * d)
  BY <1>1, <1>2, ReadsScalar
<1>4. Reads(gr_scalar(a, c), x * (e * d), y * (e * d))
  BY <1>0, <1>1, ReadsScalar
<1>5. (x * e) * d = x * (e * d) /\ (y * e) * d = y * (e * d)
  BY <1>0
<1> QED BY <1>3, <1>4, <1>5, ReadsSame

LEMMA GrScalarOne == ASSUME NEW a \in Gr PROVE gr_scalar(a, 1) = a
<1> DEFINE x == a[1]
           y == a[2]
<1>0. Q \in Int /\ x \in Int /\ y \in Int /\ Reads(a, x, y)
  BY GrCoordinates
<1> HIDE DEF x, y
<1>1. Cong(1, 1, Q)
  BY <1>0, CongSame
<1>2. Reads(gr_scalar(a, 1), x * 1, y * 1)
  BY <1>0, <1>1, ReadsScalar
<1>3. x * 1 = x /\ y * 1 = y
  BY <1>0
<1> QED BY <1>0, <1>2, <1>3, ReadsSame

\* gr_inv inverts what GrUnit accepts.
LEMMA GrInverse ==
  ASSUME NEW a \in Gr, GrUnit(a)
  PROVE  gr_inv(a) \in Gr /\ gr_mul(a, gr_inv(a)) = GrOne
<1> DEFINE x == a[1]
           y == a[2]
           n == Norm(a)
           u == ZqInverse(n)
           b == <<x, Sub(0, y)>>
<1>0. Q \in Int /\ x \in Int /\ y \in Int /\ Reads(a, x, y) /\ Zq \subseteq Int
  BY GrCoordinates, TheirPrimes DEF Zq
<1>1. n \in Int /\ Cong(n, x * x - 3 * (y * y), Q)
  <2> DEFINE c == Mul(x, x)
             d == Mul(y, y)
             e == Mul(AEX_NR, d)
  <2>0. AEX_NR = 3 /\ AEX_NR \in Int
    BY DEF AEX_NR
  <2>1. n = Sub(c, e)
    BY DEF Norm
  <2> HIDE DEF x, y
  <2>2. c \in Int /\ Cong(c, x * x, Q) /\ d \in Int /\ Cong(d, y * y, Q)
    BY <1>0, MulIs
  <2> HIDE DEF c, d, n
  <2>3. e \in Int /\ Cong(e, AEX_NR * d, Q)
    BY <1>0, <2>0, <2>2, MulIs
  <2>4. Cong(AEX_NR * d, AEX_NR * (y * y), Q)
    <3>1. Cong(AEX_NR, AEX_NR, Q)
      BY <1>0, <2>0, CongSame
    <3> QED BY <1>0, <2>2, <3>1, CongTimes
  <2> HIDE DEF e
  <2>5. Cong(e, 3 * (y * y), Q)
    BY <1>0, <2>0, <2>3, <2>4, CongVia
  <2>6. Cong(c - e, x * x - 3 * (y * y), Q)
    BY <1>0, <2>2, <2>5, CongPlus
  <2>7. n \in Int /\ Cong(n, c - e, Q)
    BY <1>0, <2>1, <2>2, <2>3, AddIs
  <2> QED BY <1>0, <2>6, <2>7, CongVia
<1>2. u \in Int /\ Cong(n * u, 1, Q)
  <2>1. Invertible(n)
    BY DEF GrUnit
  <2> HIDE DEF n
  <2> QED BY <1>0, <1>1, <2>1, ZqInverseIs
<1>3. Reads(b, x, -y)
  <2>1. Sub(0, y) \in Zq /\ Cong(Sub(0, y), 0 - y, Q)
    <3> DEFINE z == 0
    <3>1. z \in Int
      OBVIOUS
    <3> HIDE DEF z
    <3>2. Sub(z, y) \in Zq /\ Cong(Sub(z, y), z - y, Q)
      BY <1>0, <3>1, AddIs
    <3> QED BY <3>2 DEF z
  <2>2. 0 - y = -y /\ x \in Zq
    BY <1>0 DEF Gr
  <2>3. Cong(x, x, Q)
    BY <1>0, CongSame
  <2> HIDE DEF x, y
  <2> QED BY <2>1, <2>2, <2>3 DEF Reads, Gr
<1>4. gr_inv(a) = gr_scalar(b, u)
  BY DEF gr_inv
<1> HIDE DEF x, y, n, u, b
<1>5. Cong(u, u, Q)
  BY <1>0, <1>2, CongSame
<1>6. Reads(gr_inv(a), x * u, (-y) * u)
  BY <1>3, <1>4, <1>5, ReadsScalar
<1>7. Reads(gr_mul(a, gr_inv(a)), x * (x * u) + 3 * (y * ((-y) * u)), x * ((-y) * u) + y * (x * u))
  BY <1>0, <1>6, ReadsMul
<1>8. /\ x * (x * u) + 3 * (y * ((-y) * u)) = (x * x - 3 * (y * y)) * u
      /\ x * ((-y) * u) + y * (x * u) = 0
  BY <1>0, <1>2
<1>9. Cong((x * x - 3 * (y * y)) * u, 1, Q)
  <2>1. Cong(x * x - 3 * (y * y), n, Q)
    BY <1>0, <1>1, CongSwap
  <2>2. Cong((x * x - 3 * (y * y)) * u, n * u, Q)
    BY <1>0, <1>5, <2>1, CongTimes
  <2> QED BY <1>0, <1>2, <2>2, CongVia
<1>10. Reads(gr_mul(a, gr_inv(a)), 1, 0)
  <2>1. Cong(0, 0, Q)
    BY <1>0, CongSame
  <2>2. Reads(gr_mul(a, gr_inv(a)), (x * x - 3 * (y * y)) * u, 0)
    BY <1>7, <1>8
  <2> QED BY <1>9, <2>1, <2>2, ReadsVia
<1>11. gr_mul(a, gr_inv(a)) = GrOne
  BY <1>10, GrCoordinates, ReadsSame
<1> QED BY <1>6, <1>11 DEF Reads
-----------------------------------------------------------------------------
\* Products and powers in GR(q,2).

\* Products in GR(q,2).
GrSeqs == [Nat -> Gr]
GrProductsOf(F) ==
  CHOOSE fn \in [Nat -> Gr] : fn[0] = GrOne /\ \A k \in Nat : fn[k + 1] = gr_mul(fn[k], F[k])
GrProd(F, n) == GrProductsOf(F)[n]

LEMMA GrProdUnfolds ==
  ASSUME NEW F \in GrSeqs
  PROVE  /\ GrProd(F, 0) = GrOne
         /\ \A k \in Nat : GrProd(F, k) \in Gr /\ GrProd(F, k + 1) = gr_mul(GrProd(F, k), F[k])
<1> DEFINE g == [k \in Nat |-> [c \in Gr |-> gr_mul(c, F[k])]]
<1>1. g \in Steps(Gr) /\ \A k \in Nat, c \in Gr : g[k][c] = gr_mul(c, F[k])
  BY GrMulLaws DEF Steps, GrSeqs
<1> HIDE DEF g
<1>2. PICK fn : Iterates(Gr, fn, GrOne, g)
  BY <1>1, GrCoordinates, Iteration
<1>3. fn[0] = GrOne /\ \A k \in Nat : fn[k + 1] = gr_mul(fn[k], F[k])
  BY <1>1, <1>2 DEF Iterates
<1>4. /\ GrProductsOf(F) \in [Nat -> Gr] /\ GrProductsOf(F)[0] = GrOne
      /\ \A k \in Nat : GrProductsOf(F)[k + 1] = gr_mul(GrProductsOf(F)[k], F[k])
  BY <1>2, <1>3 DEF GrProductsOf, Iterates
<1> QED BY <1>4 DEF GrProd

LEMMA GrProdSame ==
  ASSUME NEW F \in GrSeqs, NEW G \in GrSeqs, NEW n \in Nat, \A i \in Nat : i < n => F[i] = G[i]
  PROVE  GrProd(F, n) = GrProd(G, n)
<1> DEFINE S == {k \in Nat : k <= n => GrProd(F, k) = GrProd(G, k)}
<1>1. 0 \in S
  BY GrProdUnfolds
<1>2. ASSUME NEW k \in Nat, k \in S PROVE k + 1 \in S
  <2> SUFFICES ASSUME k + 1 <= n PROVE GrProd(F, k + 1) = GrProd(G, k + 1)
    OBVIOUS
  <2>1. GrProd(F, k) = GrProd(G, k) /\ F[k] = G[k]
    BY <1>2
  <2> QED BY <2>1, GrProdUnfolds
<1> HIDE DEF S
<1>3. n \in S
  BY <1>1, <1>2, AllNumbers
<1> QED BY <1>3 DEF S

LEMMA GrProdTimes ==
  ASSUME NEW F \in GrSeqs, NEW G \in GrSeqs, NEW H \in GrSeqs, NEW n \in Nat,
         \A i \in Nat : i < n => H[i] = gr_mul(F[i], G[i])
  PROVE  GrProd(H, n) = gr_mul(GrProd(F, n), GrProd(G, n))
<1> DEFINE S == {k \in Nat : k <= n => GrProd(H, k) = gr_mul(GrProd(F, k), GrProd(G, k))}
<1>1. 0 \in S
  BY GrProdUnfolds, GrCoordinates, GrMulLaws
<1>2. ASSUME NEW k \in Nat, k \in S PROVE k + 1 \in S
  <2> SUFFICES ASSUME k + 1 <= n PROVE GrProd(H, k + 1) = gr_mul(GrProd(F, k + 1), GrProd(G, k + 1))
    OBVIOUS
  <2>1. GrProd(H, k) = gr_mul(GrProd(F, k), GrProd(G, k)) /\ H[k] = gr_mul(F[k], G[k])
    BY <1>2
  <2>2. /\ GrProd(H, k + 1) = gr_mul(GrProd(H, k), H[k])
        /\ GrProd(F, k + 1) = gr_mul(GrProd(F, k), F[k])
        /\ GrProd(G, k + 1) = gr_mul(GrProd(G, k), G[k])
        /\ GrProd(F, k) \in Gr /\ GrProd(G, k) \in Gr
    BY GrProdUnfolds
  <2>3. F[k] \in Gr /\ G[k] \in Gr
    BY DEF GrSeqs
  <2>4. gr_mul(gr_mul(GrProd(F, k), GrProd(G, k)), gr_mul(F[k], G[k]))
        = gr_mul(gr_mul(GrProd(F, k), F[k]), gr_mul(GrProd(G, k), G[k]))
    BY <2>2, <2>3, GrMulSwap
  <2> QED BY <2>1, <2>2, <2>4
<1> HIDE DEF S
<1>3. n \in S
  BY <1>1, <1>2, AllNumbers
<1> QED BY <1>3 DEF S

\* Each factor a multiple by a number: so is the product.
LEMMA GrProdScalar ==
  ASSUME NEW F \in GrSeqs, NEW G \in Seqs, NEW H \in GrSeqs, NEW n \in Nat,
         \A i \in Nat : i < n => H[i] = gr_scalar(F[i], G[i])
  PROVE  GrProd(H, n) = gr_scalar(GrProd(F, n), Prod(G, n))
<1> DEFINE S == {k \in Nat : k <= n => GrProd(H, k) = gr_scalar(GrProd(F, k), Prod(G, k))}
<1>1. 0 \in S
  BY GrProdUnfolds, ProdUnfolds, GrCoordinates, GrScalarOne
<1>2. ASSUME NEW k \in Nat, k \in S PROVE k + 1 \in S
  <2> SUFFICES ASSUME k + 1 <= n
               PROVE  GrProd(H, k + 1) = gr_scalar(GrProd(F, k + 1), Prod(G, k + 1))
    OBVIOUS
  <2>1. GrProd(H, k) = gr_scalar(GrProd(F, k), Prod(G, k)) /\ H[k] = gr_scalar(F[k], G[k])
    BY <1>2
  <2>2. /\ GrProd(H, k + 1) = gr_mul(GrProd(H, k), H[k])
        /\ GrProd(F, k + 1) = gr_mul(GrProd(F, k), F[k]) /\ GrProd(F, k) \in Gr
    BY GrProdUnfolds
  <2>3. Prod(G, k + 1) = Prod(G, k) * G[k] /\ Prod(G, k) \in Int
    BY ProdUnfolds
  <2>4. F[k] \in Gr /\ G[k] \in Int
    BY DEF GrSeqs, Seqs
  <2>5. gr_mul(gr_scalar(GrProd(F, k), Prod(G, k)), gr_scalar(F[k], G[k]))
        = gr_scalar(gr_mul(GrProd(F, k), F[k]), Prod(G, k) * G[k])
    BY <2>2, <2>3, <2>4, GrScalarLaws
  <2> QED BY <2>1, <2>2, <2>3, <2>5
<1> HIDE DEF S
<1>3. n \in S
  BY <1>1, <1>2, AllNumbers
<1> QED BY <1>3 DEF S

LEMMA GrProdAlone ==
  ASSUME NEW F \in GrSeqs, NEW n \in Nat, NEW j \in Nat, j < n,
         \A i \in Nat : i < n /\ i # j => F[i] = GrOne
  PROVE  GrProd(F, n) = F[j]
<1> DEFINE S == {k \in Nat : k <= n => GrProd(F, k) = IF k <= j THEN GrOne ELSE F[j]}
<1>0. GrOne \in Gr /\ gr_mul(GrOne, GrOne) = GrOne
  BY GrCoordinates, GrMulLaws
<1>1. 0 \in S
  BY GrProdUnfolds
<1>2. ASSUME NEW k \in Nat, k \in S PROVE k + 1 \in S
  <2> SUFFICES ASSUME k + 1 <= n PROVE GrProd(F, k + 1) = IF k + 1 <= j THEN GrOne ELSE F[j]
    OBVIOUS
  <2>1. GrProd(F, k) = IF k <= j THEN GrOne ELSE F[j]
    BY <1>2
  <2>2. GrProd(F, k + 1) = gr_mul(GrProd(F, k), F[k]) /\ F[k] \in Gr /\ F[j] \in Gr
    BY GrProdUnfolds DEF GrSeqs
  <2>3. gr_mul(GrOne, F[j]) = F[j] /\ gr_mul(F[j], GrOne) = F[j]
    BY <2>2, GrMulLaws
  <2>4. CASE k < j
    <3>1. F[k] = GrOne
      BY <2>4
    <3> QED BY <1>0, <2>1, <2>2, <2>4, <3>1
  <2>5. CASE k = j
    BY <2>1, <2>2, <2>3, <2>5
  <2>6. CASE k > j
    <3>1. F[k] = GrOne
      BY <2>6
    <3> QED BY <2>1, <2>2, <2>3, <2>6, <3>1
  <2> QED BY <2>4, <2>5, <2>6
<1> HIDE DEF S
<1>3. n \in S
  BY <1>1, <1>2, AllNumbers
<1> QED BY <1>3 DEF S

LEMMA GrProdInsert ==
  ASSUME NEW F \in GrSeqs, NEW G \in GrSeqs, NEW n \in Nat, NEW j \in Nat, j < n,
         G[j] = GrOne, \A i \in Nat : i < n /\ i # j => F[i] = G[i]
  PROVE  GrProd(F, n) = gr_mul(F[j], GrProd(G, n))
<1> DEFINE L == [i \in Nat |-> IF i = j THEN F[j] ELSE GrOne]
<1>1. L \in GrSeqs /\ L[j] = F[j] /\ \A i \in Nat : i # j => L[i] = GrOne
  BY GrCoordinates DEF GrSeqs
<1> HIDE DEF L
<1>2. \A i \in Nat : i < n => F[i] = gr_mul(L[i], G[i])
  <2> SUFFICES ASSUME NEW i \in Nat, i < n PROVE F[i] = gr_mul(L[i], G[i])
    OBVIOUS
  <2>1. F[i] \in Gr /\ G[i] \in Gr
    BY DEF GrSeqs
  <2>2. gr_mul(F[i], GrOne) = F[i] /\ gr_mul(GrOne, G[i]) = G[i]
    BY <2>1, GrMulLaws
  <2>3. CASE i = j
    BY <1>1, <2>2, <2>3
  <2>4. CASE i # j
    BY <1>1, <2>2, <2>4
  <2> QED BY <2>3, <2>4
<1>3. GrProd(F, n) = gr_mul(GrProd(L, n), GrProd(G, n))
  BY <1>1, <1>2, GrProdTimes
<1>4. GrProd(L, n) = L[j]
  BY <1>1, GrProdAlone
<1> QED BY <1>1, <1>3, <1>4

LEMMA GrProdSplit ==
  ASSUME NEW F \in GrSeqs, NEW G \in GrSeqs, NEW l \in Nat, NEW n \in Nat,
         \A i \in Nat : i < n => G[i] = F[l + i]
  PROVE  GrProd(F, l + n) = gr_mul(GrProd(F, l), GrProd(G, n))
<1> DEFINE S == {k \in Nat : k <= n => GrProd(F, l + k) = gr_mul(GrProd(F, l), GrProd(G, k))}
<1>1. 0 \in S
  <2>1. GrProd(F, l) \in Gr /\ GrProd(G, 0) = GrOne /\ l + 0 = l
    BY GrProdUnfolds
  <2> QED BY <2>1, GrMulLaws
<1>2. ASSUME NEW k \in Nat, k \in S PROVE k + 1 \in S
  <2> SUFFICES ASSUME k + 1 <= n
               PROVE  GrProd(F, l + (k + 1)) = gr_mul(GrProd(F, l), GrProd(G, k + 1))
    OBVIOUS
  <2>1. GrProd(F, l + k) = gr_mul(GrProd(F, l), GrProd(G, k)) /\ G[k] = F[l + k]
    BY <1>2
  <2>2. GrProd(F, (l + k) + 1) = gr_mul(GrProd(F, l + k), F[l + k]) /\ l + k \in Nat
    BY GrProdUnfolds
  <2>3. GrProd(G, k + 1) = gr_mul(GrProd(G, k), G[k]) /\ GrProd(F, l) \in Gr /\ GrProd(G, k) \in Gr
    BY GrProdUnfolds
  <2>4. G[k] \in Gr
    BY DEF GrSeqs
  <2>5. gr_mul(gr_mul(GrProd(F, l), GrProd(G, k)), G[k]) = gr_mul(GrProd(F, l), gr_mul(GrProd(G, k), G[k]))
    BY <2>3, <2>4, GrMulAssoc
  <2>6. l + (k + 1) = (l + k) + 1
    OBVIOUS
  <2> QED BY <2>1, <2>2, <2>3, <2>5, <2>6
<1> HIDE DEF S
<1>3. n \in S
  BY <1>1, <1>2, AllNumbers
<1> QED BY <1>3 DEF S

\* Powers.
GrPow(x, n) == GrProd([k \in Nat |-> x], n)

LEMMA GrPowLaws ==
  ASSUME NEW x \in Gr
  PROVE  /\ GrPow(x, 0) = GrOne
         /\ \A k \in Nat : GrPow(x, k) \in Gr /\ GrPow(x, k + 1) = gr_mul(GrPow(x, k), x)
         /\ \A k \in Nat : GrPow(x, k + k) = gr_mul(GrPow(x, k), GrPow(x, k))
         /\ \A k \in Nat : GrPow(gr_mul(x, x), k) = GrPow(x, k + k)
<1> DEFINE F == [k \in Nat |-> x]
           G == [k \in Nat |-> gr_mul(x, x)]
<1>1. F \in GrSeqs /\ G \in GrSeqs
  BY GrMulLaws DEF GrSeqs
<1>2. \A k \in Nat : F[k] = x /\ G[k] = gr_mul(F[k], F[k])
  OBVIOUS
<1>3. \A k \in Nat : GrPow(x, k) = GrProd(F, k) /\ GrPow(gr_mul(x, x), k) = GrProd(G, k)
  BY DEF GrPow
<1> HIDE DEF F, G
<1>4. GrPow(x, 0) = GrOne
  BY <1>1, <1>3, GrProdUnfolds
<1>5. \A k \in Nat : GrPow(x, k) \in Gr /\ GrPow(x, k + 1) = gr_mul(GrPow(x, k), x)
  BY <1>1, <1>2, <1>3, GrProdUnfolds
<1>6. ASSUME NEW k \in Nat
      PROVE  /\ GrPow(x, k + k) = gr_mul(GrPow(x, k), GrPow(x, k))
             /\ GrPow(gr_mul(x, x), k) = gr_mul(GrPow(x, k), GrPow(x, k))
  <2>1. \A i \in Nat : i < k => F[i] = F[k + i]
    <3> SUFFICES ASSUME NEW i \in Nat PROVE F[i] = F[k + i]
      OBVIOUS
    <3>1. k + i \in Nat
      OBVIOUS
    <3> QED BY <1>2, <3>1
  <2>2. GrProd(F, k + k) = gr_mul(GrProd(F, k), GrProd(F, k))
    BY <1>1, <2>1, GrProdSplit
  <2>3. \A i \in Nat : i < k => G[i] = gr_mul(F[i], F[i])
    BY <1>2
  <2>4. GrProd(G, k) = gr_mul(GrProd(F, k), GrProd(F, k))
    BY <1>1, <2>3, GrProdTimes
  <2>5. k + k \in Nat
    OBVIOUS
  <2> QED BY <1>3, <2>2, <2>4, <2>5
<1> QED BY <1>4, <1>5, <1>6
-----------------------------------------------------------------------------
\* The denominators of the basis multiply to x^TAU - 1.

\* The denominators of the basis functions, for any root.
Dens(x, w) == [j \in Nat |-> gr_sub(x, <<Pow(w, j) % Q, 0>>)]

LEMMA DensRead ==
  ASSUME NEW x, NEW a, NEW b, Reads(x, a, b), NEW w \in Int, NEW j \in Nat
  PROVE  Reads(Dens(x, w)[j], a - Pow(w, j), b)
<1> DEFINE c == Pow(w, j)
           d == c % Q
<1>1. c \in Int /\ Q \in Nat \ {0} /\ Q \in Int /\ Zq = 0 .. Q - 1
  BY PowUnfolds, TheirPrimes DEF Zq
<1>2. Dens(x, w)[j] = gr_sub(x, <<d, 0>>)
  BY DEF Dens
<1> HIDE DEF c
<1>3. d \in 0 .. Q - 1 /\ Cong(d, c, Q)
  BY <1>1, RemainderIs
<1> HIDE DEF d
<1>4. Reads(<<d, 0>>, c, 0)
  <2>1. <<d, 0>> \in Gr /\ Cong(0, 0, Q)
    BY <1>1, <1>3, CongSame DEF Gr
  <2> QED BY <1>3, <2>1 DEF Reads
<1>5. Reads(Dens(x, w)[j], a - c, b - 0)
  BY <1>2, <1>4, ReadsSub
<1>6. b - 0 = b
  BY DEF Reads, Cong
<1> QED BY <1>5, <1>6 DEF c

LEMMA DensTyped ==
  ASSUME NEW x \in Gr, NEW w \in Int
  PROVE  Dens(x, w) \in GrSeqs
<1>1. \A j \in Nat : Dens(x, w)[j] \in Gr
  BY GrCoordinates, DensRead DEF Reads
<1>2. Dens(x, w) = [j \in Nat |-> Dens(x, w)[j]]
  BY DEF Dens
<1> DEFINE F == Dens(x, w)
<1> HIDE DEF F
<1>3. F \in [Nat -> Gr]
  BY <1>1, <1>2 DEF F
<1> QED BY <1>3 DEF F, GrSeqs

\* The factors of opposite powers give one of the squares.
LEMMA DensPair ==
  ASSUME NEW x \in Gr, NEW w \in Int, NEW half \in Nat \ {0}, MinusRoot(w, half, Q), NEW j \in Nat
  PROVE  gr_mul(Dens(x, w)[j], Dens(x, w)[half + j]) = Dens(gr_mul(x, x), w * w)[j]
<1> DEFINE a == x[1]
           b == x[2]
           c == Pow(w, j)
           d == Pow(w, half + j)
           l == Dens(x, w)[j]
           u == Dens(x, w)[half + j]
           y == Dens(gr_mul(x, x), w * w)[j]
<1>1. a \in Int /\ b \in Int /\ Q \in Int /\ Reads(x, a, b)
  BY GrCoordinates
<1>2. half + j \in Nat /\ w * w \in Int /\ c \in Int
  BY PowUnfolds
<1>3. Cong(d, -c, Q) /\ Pow(w * w, j) = c * c
  BY PrimitiveTurns
<1>4. Reads(l, a - c, b) /\ Reads(u, a - d, b)
  BY <1>1, <1>2, DensRead
<1>5. Reads(gr_mul(x, x), a * a + 3 * (b * b), a * b + b * a)
  BY <1>1, ReadsMul
<1>6. Reads(y, (a * a + 3 * (b * b)) - c * c, a * b + b * a)
  BY <1>2, <1>3, <1>5, DensRead
<1> HIDE DEF a, b, c, d, l, u, y
<1>7. Reads(u, a - (-c), b)
  <2>1. Cong(a, a, Q) /\ Cong(b, b, Q)
    BY <1>1, CongSame
  <2>2. Cong(a - d, a - (-c), Q)
    BY <1>1, <1>3, <2>1, CongPlus
  <2> QED BY <1>4, <2>1, <2>2, ReadsVia
<1>8. Reads(gr_mul(l, u), (a - c) * (a - (-c)) + 3 * (b * b), (a - c) * b + b * (a - (-c)))
  BY <1>4, <1>7, ReadsMul
<1>9. /\ (a - c) * (a - (-c)) + 3 * (b * b) = (a * a + 3 * (b * b)) - c * c
      /\ (a - c) * b + b * (a - (-c)) = a * b + b * a
  BY <1>1, <1>2
<1>10. gr_mul(l, u) = y
  BY <1>6, <1>8, <1>9, ReadsSame
<1> QED BY <1>10 DEF l, u, y

\* Multiplied with each other they are x^n - 1.
LEMMA DensDoubled ==
  ASSUME NEW half \in Nat \ {0}, TwoPower(half),
         \A x \in Gr, c \in Int : Primitive(c, half) =>
           GrProd(Dens(x, c), half) = gr_sub(GrPow(x, half), GrOne),
         NEW x \in Gr, NEW w \in Int, Primitive(w, 2 * half)
  PROVE  GrProd(Dens(x, w), 2 * half) = gr_sub(GrPow(x, 2 * half), GrOne)
<1>1. MinusRoot(w, half, Q)
  <2>1. 2 * half # 1
    OBVIOUS
  <2>2. PICK l \in Nat \ {0} : 2 * half = 2 * l /\ MinusRoot(w, l, Q)
    BY <2>1 DEF Primitive
  <2>3. l = half
    BY <2>2
  <2> QED BY <2>2, <2>3
<1>2. Primitive(w * w, half)
  <2>1. ASSUME half # 1 PROVE \E l \in Nat \ {0} : half = 2 * l /\ MinusRoot(w * w, l, Q)
    <3>1. PICK l \in Nat \ {0} : half = 2 * l
      BY <2>1, TwoHalf
    <3>2. MinusRoot(w, 2 * l, Q) /\ l \in Nat /\ Q \in Int
      BY <1>1, <3>1, TheirPrimes
    <3> QED BY <3>1, <3>2, MinusRootSquare
  <2> QED BY <2>1 DEF Primitive
<1> DEFINE y == gr_mul(x, x)
           F == Dens(x, w)
           U == [j \in Nat |-> F[half + j]]
           G == Dens(y, w * w)
<1>3. y \in Gr /\ w * w \in Int /\ half + half = 2 * half
  BY GrMulLaws
<1>4. F \in GrSeqs /\ G \in GrSeqs
  <2> HIDE DEF y
  <2> QED BY <1>3, DensTyped
<1>5. \A j \in Nat : j < half => G[j] = gr_mul(F[j], F[half + j])
  BY <1>1, DensPair
<1>6. GrProd(G, half) = gr_sub(GrPow(y, half), GrOne)
  <2> HIDE DEF y
  <2> QED BY <1>2, <1>3
<1>7. GrPow(y, half) = GrPow(x, half + half)
  BY GrPowLaws
<1> HIDE DEF F, G, y
<1>8. U \in GrSeqs /\ \A j \in Nat : j < half => U[j] = F[half + j]
  <2>1. \A j \in Nat : half + j \in Nat
    OBVIOUS
  <2>2. \A j \in Nat : F[half + j] \in Gr
    BY <1>4, <2>1 DEF GrSeqs
  <2> QED BY <2>2 DEF GrSeqs
<1> HIDE DEF U
<1>9. GrProd(F, half + half) = gr_mul(GrProd(F, half), GrProd(U, half))
  BY <1>4, <1>8, GrProdSplit
<1>10. GrProd(G, half) = gr_mul(GrProd(F, half), GrProd(U, half))
  <2>1. \A j \in Nat : j < half => G[j] = gr_mul(F[j], U[j])
    BY <1>5, <1>8
  <2> QED BY <1>4, <1>8, <2>1, GrProdTimes
<1> QED BY <1>3, <1>6, <1>7, <1>9, <1>10 DEF F

LEMMA DensMultiply ==
  ASSUME NEW n, TwoPower(n), NEW x \in Gr, NEW w \in Int, Primitive(w, n)
  PROVE  GrProd(Dens(x, w), n) = gr_sub(GrPow(x, n), GrOne)
<1> DEFINE Holds(k) == \A y \in Gr, c \in Int : Primitive(c, k) =>
                         GrProd(Dens(y, c), k) = gr_sub(GrPow(y, k), GrOne)
           S == {k \in Nat : TwoPower(k) => Holds(k)}
<1>0. n \in Nat
  BY DEF TwoPower
<1>1. 1 \in S
  <2>1. ASSUME NEW y \in Gr, NEW c \in Int PROVE GrProd(Dens(y, c), 1) = gr_sub(GrPow(y, 1), GrOne)
    <3>1. 0 \in Nat /\ 0 + 1 = 1
      OBVIOUS
    <3>2. GrPow(y, 1) = y
      <4>1. GrPow(y, 0 + 1) = gr_mul(GrPow(y, 0), y) /\ GrPow(y, 0) = GrOne
        BY <3>1, GrPowLaws
      <4> QED BY <3>1, <4>1, GrMulLaws
    <3>3. GrProd(Dens(y, c), 1) = Dens(y, c)[0]
      <4>1. Dens(y, c) \in GrSeqs
        BY DensTyped
      <4> DEFINE F == Dens(y, c)
      <4> HIDE DEF F
      <4>2. F \in GrSeqs
        BY <4>1 DEF F
      <4>3. GrProd(F, 0 + 1) = gr_mul(GrProd(F, 0), F[0]) /\ GrProd(F, 0) = GrOne /\ F[0] \in Gr
        BY <3>1, <4>2, GrProdUnfolds DEF GrSeqs
      <4>4. GrProd(F, 1) = F[0]
        BY <3>1, <4>3, GrMulLaws
      <4> QED BY <4>4 DEF F
    <3>4. Dens(y, c)[0] = gr_sub(y, GrOne)
      <4>1. Pow(c, 0) = 1
        BY PowUnfolds
      <4>2. 1 % Q = 1
        BY TheirPrimes
      <4>3. Dens(y, c)[0] = gr_sub(y, <<Pow(c, 0) % Q, 0>>)
        BY <3>1 DEF Dens
      <4> QED BY <4>1, <4>2, <4>3 DEF GrOne
    <3> QED BY <3>2, <3>3, <3>4
  <2>2. Holds(1)
    BY <2>1
  <2> HIDE DEF Holds
  <2> QED BY <2>2
<1>2. ASSUME NEW k \in Nat, TwoPower(k), k \in S PROVE 2 * k \in S
  <2>1. k \in Nat \ {0} /\ Holds(k)
    BY <1>2 DEF TwoPower
  <2>2. Holds(2 * k)
    BY <1>2, <2>1, DensDoubled
  <2> HIDE DEF Holds
  <2> QED BY <2>2
<1> HIDE DEF S
<1>3. \A k \in Nat : TwoPower(k) => k \in S
  BY <1>1, <1>2, TwoInduction
<1>4. Holds(n)
  <2> HIDE DEF Holds
  <2> QED BY <1>0, <1>3 DEF S
<1> QED BY <1>4

\* gr_pow squares and multiplies its way to the power.
LEMMA GrPowIs ==
  ASSUME NEW x \in Gr, NEW n \in Nat
  PROVE  gr_pow(x, n) = GrPow(x, n)
<1> DEFINE Step(k, c) == gr_mul(gr_mul(c, c), IF k % 2 = 1 THEN x ELSE GrOne)
           Eq(fn) == fn = [k \in 0 .. n |-> IF k = 0 THEN GrOne
                             ELSE LET half == fn[k \div 2]
                                  IN  gr_mul(gr_mul(half, half), IF k % 2 = 1 THEN x ELSE GrOne)]
           q == CHOOSE fn : Eq(fn)
           sol == [k \in 0 .. n |-> GrPow(x, k)]
<1>1. ASSUME NEW k \in 1 .. n PROVE GrPow(x, k) = Step(k, GrPow(x, k \div 2))
  <2> DEFINE h2 == k \div 2
             c == GrPow(x, h2)
  <2>1. h2 \in Nat /\ ((k = h2 + h2 /\ k % 2 = 0) \/ (k = (h2 + h2) + 1 /\ k % 2 = 1))
    <3>1. h2 \in Nat /\ (k = h2 + h2 \/ k = (h2 + h2) + 1) /\ k = h2 * 2 + (k % 2)
      OBVIOUS
    <3> QED BY <3>1
  <2> HIDE DEF h2
  <2>2. h2 + h2 \in Nat
    BY <2>1
  <2>3. /\ GrPow(x, h2 + h2) = gr_mul(c, c)
        /\ GrPow(x, (h2 + h2) + 1) = gr_mul(GrPow(x, h2 + h2), x) /\ GrPow(x, h2 + h2) \in Gr
    BY <2>1, <2>2, GrPowLaws
  <2> HIDE DEF c
  <2>4. CASE k = h2 + h2 /\ k % 2 = 0
    <3>1. Step(k, c) = gr_mul(gr_mul(c, c), GrOne)
      BY <2>4
    <3>2. gr_mul(gr_mul(c, c), GrOne) = gr_mul(c, c)
      BY <2>3, GrMulLaws
    <3> QED BY <2>3, <2>4, <3>1, <3>2 DEF h2, c
  <2>5. CASE k = (h2 + h2) + 1 /\ k % 2 = 1
    <3>1. Step(k, c) = gr_mul(gr_mul(c, c), x)
      BY <2>5
    <3> QED BY <2>3, <2>5, <3>1 DEF h2, c
  <2> QED BY <2>1, <2>4, <2>5
<1>2. GrPow(x, 0) = GrOne
  BY GrPowLaws
<1>3. \A k \in 1 .. n : k \div 2 \in 0 .. k - 1 /\ k \div 2 \in 0 .. n
  OBVIOUS
<1>4. Eq(sol)
  <2>1. ASSUME NEW k \in 0 .. n PROVE sol[k] = IF k = 0 THEN GrOne ELSE Step(k, sol[k \div 2])
    <3>1. CASE k = 0
      BY <1>2, <3>1
    <3>2. CASE k # 0
      <4>1. k \in 1 .. n /\ k \div 2 \in 0 .. n
        BY <1>3, <3>2
      <4> HIDE DEF Step
      <4> QED BY <1>1, <3>2, <4>1
    <3> QED BY <3>1, <3>2
  <2>2. sol = [k \in 0 .. n |-> sol[k]]
    OBVIOUS
  <2> HIDE DEF sol
  <2> QED BY <2>1, <2>2
<1> HIDE DEF sol
<1>5. Eq(q)
  BY <1>4
<1>6. gr_pow(x, n) = q[n]
  BY DEF gr_pow
<1> HIDE DEF q
<1>7. q[0] = GrOne /\ \A k \in 1 .. n : q[k] = Step(k, q[k \div 2])
  BY <1>5
<1> HIDE DEF Eq, Step
<1> DEFINE S == {k \in 0 .. n : q[k] = GrPow(x, k)}
<1>8. ASSUME NEW k \in 0 .. n, \A j \in 0 .. k - 1 : j \in S PROVE k \in S
  <2>1. CASE k = 0
    BY <1>2, <1>7, <2>1
  <2>2. CASE k # 0
    <3>1. k \in 1 .. n /\ k \div 2 \in 0 .. k - 1
      BY <1>3, <2>2
    <3>2. q[k \div 2] = GrPow(x, k \div 2)
      BY <1>8, <3>1
    <3> QED BY <1>1, <1>7, <3>1, <3>2
  <2> QED BY <2>1, <2>2
<1> HIDE DEF S
<1>9. n \in S
  BY <1>8, CourseOfValues
<1> QED BY <1>6, <1>9 DEF S
-----------------------------------------------------------------------------
\* Products over some of the nodes.

\* A product over some of the nodes: the others contribute one.
Masked(F, S) == [j \in Nat |-> IF j \in S THEN F[j] ELSE GrOne]
OverSet(F, S) == GrProd(Masked(F, S), TAU)

LEMMA MaskedTyped ==
  ASSUME NEW F \in GrSeqs, NEW S
  PROVE  Masked(F, S) \in GrSeqs /\ OverSet(F, S) \in Gr
<1>1. Masked(F, S) \in GrSeqs
  BY GrCoordinates DEF Masked, GrSeqs
<1> QED BY <1>1, GrProdUnfolds, NodesRoot DEF OverSet

LEMMA OverNone == ASSUME NEW F \in GrSeqs PROVE OverSet(F, {}) = GrOne
<1> DEFINE G == Masked(F, {})
<1>1. G \in GrSeqs
  BY MaskedTyped
<1>2. \A j \in Nat : G[j] = GrOne
  BY DEF Masked
<1> HIDE DEF G
<1>3. TAU \in Nat /\ 0 \in Nat /\ 0 < TAU
  BY NodesRoot
<1>4. GrProd(G, TAU) = G[0]
  BY <1>1, <1>2, <1>3, GrProdAlone
<1> QED BY <1>2, <1>3, <1>4 DEF OverSet, G

LEMMA OverAll == ASSUME NEW F \in GrSeqs PROVE OverSet(F, Nodes) = GrProd(F, TAU)
<1>1. TAU \in Nat /\ \A j \in Nat : j < TAU => j \in Nodes
  BY NodesRoot DEF Nodes
<1>2. Masked(F, Nodes) \in GrSeqs /\ \A j \in Nat : j < TAU => Masked(F, Nodes)[j] = F[j]
  BY <1>1, MaskedTyped DEF Masked
<1> QED BY <1>1, <1>2, GrProdSame DEF OverSet

LEMMA OverInsert ==
  ASSUME NEW F \in GrSeqs, NEW S, NEW j \in Nodes, j \in S
  PROVE  OverSet(F, S) = gr_mul(F[j], OverSet(F, S \ {j}))
<1> DEFINE G == Masked(F, S)
           H == Masked(F, S \ {j})
<1>1. TAU \in Nat /\ j \in Nat /\ j < TAU
  BY NodesRoot DEF Nodes
<1>2. G \in GrSeqs /\ H \in GrSeqs
  BY MaskedTyped
<1>3. G[j] = F[j] /\ H[j] = GrOne /\ \A i \in Nat : i # j => G[i] = H[i]
  BY <1>1 DEF Masked
<1> HIDE DEF G, H
<1>4. GrProd(G, TAU) = gr_mul(G[j], GrProd(H, TAU))
  BY <1>1, <1>2, <1>3, GrProdInsert
<1> QED BY <1>3, <1>4 DEF OverSet, G, H

LEMMA OverBoth ==
  ASSUME NEW F \in GrSeqs, NEW S, NEW U, S \cap U = {}
  PROVE  OverSet(F, S \cup U) = gr_mul(OverSet(F, S), OverSet(F, U))
<1> DEFINE G == Masked(F, S)
           H == Masked(F, U)
           L == Masked(F, S \cup U)
<1>1. TAU \in Nat
  BY NodesRoot
<1>2. G \in GrSeqs /\ H \in GrSeqs /\ L \in GrSeqs
  BY MaskedTyped
<1>3. \A i \in Nat : i < TAU => L[i] = gr_mul(G[i], H[i])
  <2> SUFFICES ASSUME NEW i \in Nat PROVE L[i] = gr_mul(G[i], H[i])
    OBVIOUS
  <2>1. F[i] \in Gr /\ GrOne \in Gr
    BY GrCoordinates DEF GrSeqs
  <2>2. gr_mul(F[i], GrOne) = F[i] /\ gr_mul(GrOne, F[i]) = F[i] /\ gr_mul(GrOne, GrOne) = GrOne
    BY <2>1, GrMulLaws
  <2>3. CASE i \in S
    BY <2>2, <2>3 DEF Masked
  <2>4. CASE i \in U
    BY <2>2, <2>4 DEF Masked
  <2>5. CASE i \notin S \cup U
    BY <2>2, <2>5 DEF Masked
  <2> QED BY <2>3, <2>4, <2>5
<1> HIDE DEF G, H, L
<1>4. GrProd(L, TAU) = gr_mul(GrProd(G, TAU), GrProd(H, TAU))
  BY <1>1, <1>2, <1>3, GrProdTimes
<1> QED BY <1>4 DEF OverSet, G, H, L

\* ProductOver is that product, in whatever order it takes the nodes.
LEMMA ProductOverIs ==
  ASSUME NEW F \in GrSeqs, NEW S \in SUBSET Nodes, NEW fun, \A j \in S : fun[j] = F[j]
  PROVE  ProductOver(S, fun) = OverSet(F, S)
<1> DEFINE Eq(z) == z = [U \in SUBSET S |->
                           IF U = {} THEN GrOne
                           ELSE LET x == CHOOSE y \in U : TRUE IN gr_mul(fun[x], z[U \ {x}])]
           it == CHOOSE z : Eq(z)
           ct == [U \in SUBSET S |-> OverSet(F, U)]
<1>1. IsFiniteSet(S) /\ \A U \in SUBSET S : IsFiniteSet(U)
  <2>1. 0 \in Int /\ TAU - 1 \in Int
    BY NodesRoot
  <2>2. IsFiniteSet(Nodes)
    BY <2>1, FS_Interval DEF Nodes
  <2> QED BY <2>2, FS_Subset
<1>2. ASSUME NEW U \in SUBSET S, NEW x \in U PROVE ct[U] = gr_mul(fun[x], ct[U \ {x}])
  BY OverInsert
<1>3. ct[{}] = GrOne
  BY OverNone
<1>4. Eq(ct)
  <2>1. ASSUME NEW U \in SUBSET S
        PROVE  ct[U] = IF U = {} THEN GrOne ELSE LET x == CHOOSE y \in U : TRUE IN gr_mul(fun[x], ct[U \ {x}])
    <3>1. CASE U = {}
      BY <1>3, <3>1
    <3>2. CASE U # {}
      <4> DEFINE x == CHOOSE y \in U : TRUE
      <4>1. x \in U
        BY <3>2
      <4> HIDE DEF x, ct
      <4>2. ct[U] = gr_mul(fun[x], ct[U \ {x}])
        BY <1>2, <4>1
      <4> QED BY <3>2, <4>2 DEF x
    <3> QED BY <3>1, <3>2
  <2>2. ct = [U \in SUBSET S |-> ct[U]]
    OBVIOUS
  <2> HIDE DEF ct
  <2> QED BY <2>1, <2>2
<1> HIDE DEF ct
<1>5. Eq(it)
  BY <1>4
<1>6. ProductOver(S, fun) = it[S]
  BY DEF ProductOver, FoldFunctionOnSet, MapThenFoldSet
<1> HIDE DEF it
<1>7. PICK n \in Nat : n = Cardinality(S)
  BY <1>1, FS_CardinalityType
<1> DEFINE Agree == {k \in Nat : \A U \in SUBSET S : Cardinality(U) = k => it[U] = ct[U]}
<1>8. 0 \in Agree
  <2>1. \A U \in SUBSET S : Cardinality(U) = 0 => U = {}
    BY <1>1, FS_EmptySet
  <2>2. it[{}] = GrOne
    BY <1>5
  <2> QED BY <1>3, <2>1, <2>2
<1>9. ASSUME NEW k \in Nat, k \in Agree PROVE k + 1 \in Agree
  <2> SUFFICES ASSUME NEW U \in SUBSET S, Cardinality(U) = k + 1 PROVE it[U] = ct[U]
    OBVIOUS
  <2>1. U # {}
    BY FS_EmptySet
  <2> DEFINE x == CHOOSE y \in U : TRUE
  <2>2. x \in U
    BY <2>1
  <2>3. it[U] = gr_mul(fun[x], it[U \ {x}])
    BY <1>5, <2>1
  <2> HIDE DEF x
  <2>4. Cardinality(U \ {x}) = k /\ U \ {x} \in SUBSET S
    <3>1. Cardinality(U \ {x}) = (k + 1) - 1
      BY <1>1, <2>2, FS_RemoveElement
    <3>2. (k + 1) - 1 = k
      OBVIOUS
    <3> QED BY <3>1, <3>2
  <2>5. it[U \ {x}] = ct[U \ {x}]
    BY <1>9, <2>4
  <2> QED BY <1>2, <2>2, <2>3, <2>5
<1> HIDE DEF Agree, Eq
<1>10. n \in Agree
  BY <1>8, <1>9, AllNumbers
<1>11. it[S] = ct[S]
  BY <1>7, <1>10 DEF Agree
<1> QED BY <1>6, <1>11 DEF ct
-----------------------------------------------------------------------------
\* aex_lagrange: prefix products, one inversion and the way back.

\* The denominators of aex_lagrange.
LEMMA DenominatorIs ==
  ASSUME NEW x \in Gr, NEW j \in Nat
  PROVE  Denominator(x, j) = Dens(x, Root)[j]
<1>1. Q \in Nat \ {0} /\ Q \in Int /\ Zq = 0 .. Q - 1 /\ Root \in Int
  BY NodesRoot, TheirPrimes DEF Zq
<1> DEFINE c == Pow(Root, j)
           d == RootPower(j)
<1>2. c \in Int /\ d \in 0 .. Q - 1 /\ Cong(d, c, Q)
  BY <1>1, PowUnfolds, RootPowerIs
<1> HIDE DEF c, d
<1>3. c % Q \in 0 .. Q - 1 /\ Cong(c % Q, c, Q)
  BY <1>1, <1>2, RemainderIs
<1> DEFINE e == c % Q
<1> HIDE DEF e
<1>4. Cong(d, e, Q)
  <2>1. Cong(c, e, Q)
    BY <1>1, <1>3, CongSwap DEF e
  <2> QED BY <1>1, <1>2, <2>1, CongVia
<1>5. d = e
  BY <1>1, <1>2, <1>3, <1>4, SameResidue DEF e
<1> QED BY <1>5 DEF Denominator, Dens, c, d, e

\* The prefix products.
LEMMA PrefixIs ==
  ASSUME NEW x \in Gr, NEW i \in 0 .. TAU
  PROVE  Prefix(x)[i] = OverSet(Dens(x, Root), 0 .. i - 1)
<1> DEFINE F == Dens(x, Root)
           Eq(fn) == fn = [k \in 0 .. TAU |-> IF k = 0 THEN GrOne
                             ELSE gr_mul(fn[k - 1], Denominator(x, k - 1))]
           q == CHOOSE fn : Eq(fn)
           sol == [k \in 0 .. TAU |-> OverSet(F, 0 .. k - 1)]
<1>1. TAU \in Nat /\ Root \in Int
  BY NodesRoot
<1>2. F \in GrSeqs /\ \A j \in Nat : Denominator(x, j) = F[j]
  BY <1>1, DensTyped, DenominatorIs
<1> HIDE DEF F
<1>3. OverSet(F, 0 .. 0 - 1) = GrOne
  <2>1. 0 .. 0 - 1 = {}
    OBVIOUS
  <2> QED BY <1>2, <2>1, OverNone
<1>4. ASSUME NEW k \in 1 .. TAU
      PROVE  OverSet(F, 0 .. k - 1) = gr_mul(OverSet(F, 0 .. (k - 1) - 1), Denominator(x, k - 1))
  <2>1. /\ k - 1 \in Nodes /\ k - 1 \in 0 .. k - 1 /\ k - 1 \in Nat
        /\ (0 .. k - 1) \ {k - 1} = 0 .. (k - 1) - 1
    BY <1>1 DEF Nodes
  <2>2. OverSet(F, 0 .. k - 1) = gr_mul(F[k - 1], OverSet(F, 0 .. (k - 1) - 1))
    <3> DEFINE S == 0 .. k - 1
               j == k - 1
    <3>1. j \in Nodes /\ j \in S
      BY <2>1
    <3>2. S \ {j} = 0 .. (k - 1) - 1
      BY <2>1
    <3> HIDE DEF S, j
    <3>3. OverSet(F, S) = gr_mul(F[j], OverSet(F, S \ {j}))
      BY <1>2, <3>1, OverInsert
    <3> QED BY <3>2, <3>3 DEF S, j
  <2>3. F[k - 1] \in Gr /\ OverSet(F, 0 .. (k - 1) - 1) \in Gr
    BY <1>2, <2>1, MaskedTyped DEF GrSeqs
  <2> QED BY <1>2, <2>1, <2>2, <2>3, GrMulLaws
<1>5. Eq(sol)
  <2>1. ASSUME NEW k \in 0 .. TAU
        PROVE  sol[k] = IF k = 0 THEN GrOne ELSE gr_mul(sol[k - 1], Denominator(x, k - 1))
    <3>1. CASE k = 0
      BY <1>3, <3>1
    <3>2. CASE k # 0
      <4>1. k \in 1 .. TAU /\ k - 1 \in 0 .. TAU
        BY <1>1, <3>2
      <4> QED BY <1>4, <3>2, <4>1
    <3> QED BY <3>1, <3>2
  <2>2. sol = [k \in 0 .. TAU |-> sol[k]]
    OBVIOUS
  <2> HIDE DEF sol
  <2> QED BY <2>1, <2>2
<1> HIDE DEF sol
<1>6. Eq(q)
  BY <1>5
<1>7. Prefix(x) = q
  BY DEF Prefix
<1> HIDE DEF q
<1>8. q[0] = GrOne /\ \A k \in 1 .. TAU : q[k] = gr_mul(q[k - 1], Denominator(x, k - 1))
  BY <1>1, <1>6
<1> HIDE DEF Eq
<1> DEFINE S == {k \in Nat : k <= TAU => q[k] = OverSet(F, 0 .. k - 1)}
<1>9. 0 \in S
  BY <1>3, <1>8
<1>10. ASSUME NEW k \in Nat, k \in S PROVE k + 1 \in S
  <2> SUFFICES ASSUME k + 1 <= TAU PROVE q[k + 1] = OverSet(F, 0 .. (k + 1) - 1)
    OBVIOUS
  <2>1. k + 1 \in 1 .. TAU /\ (k + 1) - 1 = k /\ k <= TAU
    BY <1>1
  <2>2. q[k] = OverSet(F, 0 .. k - 1)
    BY <1>10, <2>1
  <2>3. q[k + 1] = gr_mul(q[k], Denominator(x, k))
    BY <1>8, <2>1
  <2>4. OverSet(F, 0 .. (k + 1) - 1) = gr_mul(OverSet(F, 0 .. k - 1), Denominator(x, k))
    BY <1>4, <2>1
  <2> QED BY <2>2, <2>3, <2>4
<1> HIDE DEF S
<1>11. i \in S
  BY <1>9, <1>10, AllNumbers
<1>12. i \in Nat /\ i <= TAU
  BY <1>1
<1> QED BY <1>7, <1>11, <1>12 DEF S, F

\* The way back: inverses of what is still to come.
Backwards(x) ==
  CHOOSE fn : fn = [i \in Nodes |-> IF i = TAU - 1 THEN gr_inv(Prefix(x)[TAU])
                                    ELSE gr_mul(fn[i + 1], Denominator(x, i + 1))]

LEMMA BackwardsIs ==
  ASSUME NEW x \in Gr, GrUnit(OverSet(Dens(x, Root), Nodes)), NEW i \in Nodes
  PROVE  Backwards(x)[i] = gr_mul(gr_inv(OverSet(Dens(x, Root), Nodes)),
                                  OverSet(Dens(x, Root), i + 1 .. TAU - 1))
<1> DEFINE F == Dens(x, Root)
           g == gr_inv(OverSet(F, Nodes))
           Val(k) == gr_mul(g, OverSet(F, k + 1 .. TAU - 1))
           Eq(fn) == fn = [k \in Nodes |-> IF k = TAU - 1 THEN gr_inv(Prefix(x)[TAU])
                                           ELSE gr_mul(fn[k + 1], Denominator(x, k + 1))]
           q == Backwards(x)
           sol == [k \in Nodes |-> Val(k)]
<1>1. TAU \in Nat /\ Root \in Int /\ TAU >= 2 /\ Nodes = 0 .. TAU - 1
  BY NodesRoot DEF Nodes
<1>2. F \in GrSeqs /\ \A j \in Nat : Denominator(x, j) = F[j]
  BY <1>1, DensTyped, DenominatorIs
<1>3. g = gr_inv(Prefix(x)[TAU])
  BY <1>1, PrefixIs
<1> HIDE DEF F
<1>4. g \in Gr
  <2>1. OverSet(F, Nodes) \in Gr
    BY <1>2, MaskedTyped
  <2> QED BY <2>1, GrInverse DEF F
<1> HIDE DEF g
<1>5. Val(TAU - 1) = gr_inv(Prefix(x)[TAU])
  <2>1. (TAU - 1) + 1 .. TAU - 1 = {}
    BY <1>1
  <2>2. OverSet(F, (TAU - 1) + 1 .. TAU - 1) = GrOne
    BY <1>2, <2>1, OverNone
  <2> QED BY <1>3, <1>4, <2>2, GrMulLaws
<1>6. ASSUME NEW k \in 0 .. TAU - 2 PROVE Val(k) = gr_mul(Val(k + 1), Denominator(x, k + 1))
  <2> DEFINE a == OverSet(F, (k + 1) + 1 .. TAU - 1)
             b == F[k + 1]
  <2>1. /\ k + 1 \in Nodes /\ k + 1 \in k + 1 .. TAU - 1 /\ k + 1 \in Nat
        /\ (k + 1 .. TAU - 1) \ {k + 1} = (k + 1) + 1 .. TAU - 1
    BY <1>1
  <2>2. OverSet(F, k + 1 .. TAU - 1) = gr_mul(b, a)
    <3> DEFINE S == k + 1 .. TAU - 1
               j == k + 1
    <3>1. j \in Nodes /\ j \in S
      BY <2>1
    <3>2. S \ {j} = (k + 1) + 1 .. TAU - 1
      BY <2>1
    <3> HIDE DEF S, j
    <3>3. OverSet(F, S) = gr_mul(F[j], OverSet(F, S \ {j}))
      BY <1>2, <3>1, OverInsert
    <3> QED BY <3>2, <3>3 DEF S, j
  <2>3. a \in Gr /\ b \in Gr
    BY <1>2, <2>1, MaskedTyped DEF GrSeqs
  <2>4. Val(k + 1) = gr_mul(g, a) /\ Denominator(x, k + 1) = b
    BY <1>2, <2>1
  <2> HIDE DEF a, b
  <2>5. gr_mul(b, a) = gr_mul(a, b)
    BY <2>3, GrMulLaws
  <2>6. gr_mul(gr_mul(g, a), b) = gr_mul(g, gr_mul(a, b))
    BY <1>4, <2>3, GrMulAssoc
  <2> QED BY <2>2, <2>4, <2>5, <2>6
<1> HIDE DEF Val
<1>7. Eq(sol)
  <2>1. ASSUME NEW k \in Nodes
        PROVE  sol[k] = IF k = TAU - 1 THEN gr_inv(Prefix(x)[TAU])
                        ELSE gr_mul(sol[k + 1], Denominator(x, k + 1))
    <3>1. CASE k = TAU - 1
      BY <1>5, <3>1
    <3>2. CASE k # TAU - 1
      <4>1. k \in 0 .. TAU - 2 /\ k + 1 \in Nodes
        BY <1>1, <3>2
      <4> QED BY <1>6, <3>2, <4>1
    <3> QED BY <3>1, <3>2
  <2>2. sol = [k \in Nodes |-> sol[k]]
    OBVIOUS
  <2> HIDE DEF sol
  <2> QED BY <2>1, <2>2
<1> HIDE DEF sol
<1>8. Eq(q)
  BY <1>7 DEF Backwards
<1> HIDE DEF q
<1>9. q[TAU - 1] = Val(TAU - 1) /\ \A k \in 0 .. TAU - 2 : q[k] = gr_mul(q[k + 1], Denominator(x, k + 1))
  <2>1. TAU - 1 \in Nodes /\ \A k \in 0 .. TAU - 2 : k \in Nodes /\ k # TAU - 1
    BY <1>1
  <2> QED BY <1>5, <1>8, <2>1
<1> HIDE DEF Eq
<1> DEFINE S == {k \in Nat : k <= TAU - 1 => q[TAU - 1 - k] = Val(TAU - 1 - k)}
<1>10. 0 \in S
  <2>1. TAU - 1 - 0 = TAU - 1
    BY <1>1
  <2> QED BY <1>9, <2>1
<1>11. ASSUME NEW k \in Nat, k \in S PROVE k + 1 \in S
  <2> DEFINE j == TAU - 1 - (k + 1)
  <2> SUFFICES ASSUME k + 1 <= TAU - 1 PROVE q[j] = Val(j)
    OBVIOUS
  <2>1. j \in 0 .. TAU - 2 /\ j + 1 = TAU - 1 - k /\ k <= TAU - 1
    BY <1>1
  <2> HIDE DEF j
  <2>2. q[j + 1] = Val(j + 1)
    BY <1>11, <2>1
  <2> QED BY <1>6, <1>9, <2>1, <2>2
<1> HIDE DEF S
<1>12. \A k \in Nat : k \in S
  BY <1>10, <1>11, AllNumbers
<1>13. TAU - 1 - i \in Nat /\ TAU - 1 - i <= TAU - 1 /\ TAU - 1 - (TAU - 1 - i) = i
  BY <1>1
<1>14. q[i] = Val(i)
  BY <1>12, <1>13 DEF S
<1> QED BY <1>14 DEF q, Val, F, g

\* What aex_lagrange returns.
LEMMA LagrangeValues ==
  ASSUME NEW x \in Gr
  PROVE  /\ LagrangeOk(x) <=> GrUnit(Basis0(x))
         /\ aex_lagrange(x) # << >>
         /\ aex_lagrange(x)[0] = Basis0(x)
         /\ LagrangeOk(x) => \A i \in Nodes : aex_lagrange(x)[i + 1] = BasisAt(i, x)
<1> DEFINE F == Dens(x, Root)
           full == OverSet(F, Nodes)
           xt == gr_sub(gr_pow(x, TAU), GrOne)
           out2(i) == gr_scalar(gr_scalar(gr_mul(xt, gr_mul(Backwards(x)[i], Prefix(x)[i])), RootPower(i)),
                                ZqInverse(TAU))
<1>1. TAU \in Nat /\ Root \in Int /\ TAU >= 2 /\ Nodes = 0 .. TAU - 1
  BY NodesRoot DEF Nodes
<1>2. F \in GrSeqs /\ \A j \in Nat : Denominator(x, j) = F[j]
  BY <1>1, DensTyped, DenominatorIs
<1>3. xt = full
  <2>1. gr_pow(x, TAU) = GrPow(x, TAU)
    BY <1>1, GrPowIs
  <2>2. GrProd(F, TAU) = gr_sub(GrPow(x, TAU), GrOne)
    BY TauTwo, NodesRoot, DensMultiply
  <2>3. full = GrProd(F, TAU)
    BY <1>2, OverAll
  <2> QED BY <2>1, <2>2, <2>3
<1>4. Basis0(x) = full
  <2>1. \A j \in Nodes : [e \in Nodes |-> Denominator(x, e)][j] = F[j]
    BY <1>1, <1>2
  <2> HIDE DEF F
  <2> QED BY <1>2, <2>1, ProductOverIs DEF Basis0
<1>5. Prefix(x)[TAU] = full
  BY <1>1, PrefixIs
<1>6. aex_lagrange(x) = [i \in 0 .. TAU |-> IF i = 0 THEN xt ELSE out2(i - 1)]
  BY DEF aex_lagrange, Backwards
<1> HIDE DEF full, xt, out2
<1>7. aex_lagrange(x)[0] = xt /\ \A i \in Nodes : aex_lagrange(x)[i + 1] = out2(i)
  <2>1. 0 \in 0 .. TAU
    BY <1>1
  <2>2. \A i \in Nodes : i + 1 \in 0 .. TAU /\ i + 1 # 0 /\ (i + 1) - 1 = i
    BY <1>1
  <2> QED BY <1>6, <2>1, <2>2
<1>8. aex_lagrange(x) # << >>
  <2>1. 0 \in DOMAIN aex_lagrange(x)
    BY <1>1, <1>6
  <2>2. 0 \notin DOMAIN << >>
    OBVIOUS
  <2> QED BY <2>1, <2>2
<1>9. ASSUME LagrangeOk(x), NEW i \in Nodes PROVE out2(i) = BasisAt(i, x)
  <2> DEFINE rest == OverSet(F, Nodes \ {i})
             below == OverSet(F, 0 .. i - 1)
             above == OverSet(F, i + 1 .. TAU - 1)
             g == gr_inv(full)
             c == RootPower(i)
             u == ZqInverse(TAU)
             d == Prod(Divisors(i), TAU)
  <2>0. i \in Nat /\ i \in 0 .. TAU /\ i \in 0 .. TAU - 1
    BY <1>1
  <2>1. full \in Gr /\ rest \in Gr /\ below \in Gr /\ above \in Gr
    <3> HIDE DEF F
    <3> QED BY <1>2, MaskedTyped DEF full
  <2>2. g \in Gr /\ gr_mul(full, g) = GrOne
    <3>1. GrUnit(full)
      BY <1>5, <1>9 DEF LagrangeOk
    <3> QED BY <2>1, <3>1, GrInverse
  <2>3. rest = gr_mul(below, above)
    <3>1. /\ (0 .. i - 1) \cap (i + 1 .. TAU - 1) = {}
          /\ (0 .. i - 1) \cup (i + 1 .. TAU - 1) = Nodes \ {i}
      BY <1>1, <2>0
    <3> DEFINE S == 0 .. i - 1
               U == i + 1 .. TAU - 1
    <3>2. S \cap U = {} /\ S \cup U = Nodes \ {i}
      BY <3>1
    <3> HIDE DEF S, U, F
    <3>3. OverSet(F, S \cup U) = gr_mul(OverSet(F, S), OverSet(F, U))
      BY <1>2, <3>2, OverBoth
    <3> QED BY <3>2, <3>3 DEF S, U
  <2>4. Prefix(x)[i] = below
    BY <2>0, PrefixIs
  <2>5. Backwards(x)[i] = gr_mul(g, above)
    <3>1. GrUnit(OverSet(F, Nodes))
      BY <1>5, <1>9 DEF LagrangeOk, full
    <3> QED BY <3>1, BackwardsIs DEF full
  <2>6. BasisAt(i, x) = gr_scalar(rest, d)
    <3> DEFINE H == [j \in Nat |-> gr_scalar(F[j], Divisors(i)[j])]
               fun == [j \in Nodes |-> gr_scalar(Denominator(x, j), ZqInverse(Sub(RootPower(i), RootPower(j))))]
               L == Masked(F, Nodes \ {i})
               M2 == Masked(H, Nodes \ {i})
    <3>1. /\ Divisors(i) \in Seqs /\ (\A j \in Nat : Divisors(i)[j] \in Int)
          /\ \A j \in Nat : j \notin Nodes \ {i} => Divisors(i)[j] = 1
      BY DivisorsInvert DEF Divisors, Seqs
    <3>2. BasisAt(i, x) = ProductOver(Nodes \ {i}, fun)
      BY DEF BasisAt
    <3>3. \A j \in Nodes \ {i} : fun[j] = H[j]
      BY <1>1, <1>2 DEF Divisors
    <3> HIDE DEF fun, F
    <3>4. H \in GrSeqs /\ \A j \in Nat : H[j] = gr_scalar(F[j], Divisors(i)[j])
      BY <1>2, <3>1, GrScalarLaws DEF GrSeqs
    <3> HIDE DEF H
    <3>5. ProductOver(Nodes \ {i}, fun) = OverSet(H, Nodes \ {i})
      BY <3>3, <3>4, ProductOverIs
    <3>6. L \in GrSeqs /\ M2 \in GrSeqs
      BY <1>2, <3>4, MaskedTyped
    <3>7. \A j \in Nat : j < TAU => M2[j] = gr_scalar(L[j], Divisors(i)[j])
      <4> SUFFICES ASSUME NEW j \in Nat PROVE M2[j] = gr_scalar(L[j], Divisors(i)[j])
        OBVIOUS
      <4>1. CASE j \in Nodes \ {i}
        BY <3>4, <4>1 DEF Masked
      <4>2. CASE j \notin Nodes \ {i}
        <5>1. M2[j] = GrOne /\ L[j] = GrOne /\ Divisors(i)[j] = 1
          BY <3>1, <4>2 DEF Masked
        <5> QED BY <5>1, GrCoordinates, GrScalarOne
      <4> QED BY <4>1, <4>2
    <3> HIDE DEF L, M2
    <3>8. GrProd(M2, TAU) = gr_scalar(GrProd(L, TAU), Prod(Divisors(i), TAU))
      BY <1>1, <3>1, <3>6, <3>7, GrProdScalar
    <3> QED BY <3>2, <3>5, <3>8 DEF OverSet, L, M2
  <2>7. c \in Int /\ u \in Int /\ d \in Int /\ Cong(c * u, d, Q)
    <3>1. c \in Int
      BY <2>0, RootPowerIs, TheirPrimes DEF Zq
    <3>2. u \in Int
      BY TauInvertible, ZqInverseIs, TheirPrimes DEF Zq
    <3>3. Q \in Int /\ Cong(d, c * u, Q)
      BY DivisorsMultiply, TheirPrimes
    <3> HIDE DEF c, u, d
    <3>4. Cong(c * u, d, Q)
      BY <3>3, CongSwap
    <3> QED BY <3>1, <3>2, <3>4 DEF Cong
  <2>8. out2(i) = gr_scalar(gr_scalar(gr_mul(full, gr_mul(gr_mul(g, above), below)), c), u)
    BY <1>3, <2>4, <2>5 DEF out2
  <2> HIDE DEF rest, below, above, g, c, u, d
  <2>9. gr_mul(full, gr_mul(gr_mul(g, above), below)) = rest
    <3>1. gr_mul(gr_mul(g, above), below) = gr_mul(g, gr_mul(above, below))
      BY <2>1, <2>2, GrMulAssoc
    <3>2. gr_mul(above, below) = rest
      BY <2>1, <2>3, GrMulLaws
    <3>3. gr_mul(full, gr_mul(g, rest)) = gr_mul(gr_mul(full, g), rest)
      BY <2>1, <2>2, GrMulAssoc
    <3>4. gr_mul(GrOne, rest) = rest
      BY <2>1, GrMulLaws
    <3> QED BY <2>2, <3>1, <3>2, <3>3, <3>4
  <2>10. gr_scalar(gr_scalar(rest, c), u) = gr_scalar(rest, d)
    BY <2>1, <2>7, GrScalarSame
  <2> QED BY <2>6, <2>8, <2>9, <2>10
<1>10. LagrangeOk(x) <=> GrUnit(Basis0(x))
  BY <1>4, <1>5 DEF LagrangeOk
<1> QED BY <1>3, <1>4, <1>7, <1>8, <1>9, <1>10
-----------------------------------------------------------------------------
\* The theorem about the states of the proof.

\* What the prover keeps of the basis: nothing before it has answered, then the
\* values for the challenge it was asked, or nothing if the inversion failed.
BasisInv ==
  /\ pc \in Phases
  /\ asked[2].x \in Gr
  /\ pc \in {"extract", "commit", "respond"} => lev = << >>
  /\ pc \in {"open"} \cup Verifying =>
       lev = IF LagrangeOk(asked[2].x) THEN aex_lagrange(asked[2].x) ELSE << >>

LEMMA BasisInvInit == Init => BasisInv
<1>1. GrZero \in Gr
  BY TheirPrimes DEF Gr, GrZero, Zq
<1> QED BY <1>1 DEF Init, BasisInv, NoChallenge, Phases, Verifying

LEMMA BasisInvKept == ASSUME BasisInv, [Next]_vars PROVE BasisInv'
<1>1. CASE Extraction
  BY <1>1 DEF BasisInv, Extraction, sent, Phases, Verifying
<1>2. CASE Encode
  BY <1>2 DEF BasisInv, Encode, sent, Phases, Verifying
<1>3. CASE CommitRows
  <2>1. PICK ch \in Challenges : asked' = << <<o'.root, com_d>>, ch >>
    BY <1>3 DEF CommitRows
  <2>2. asked'[2].x \in Gr
    BY <2>1, PismallAssumption
  <2>3. pc = "commit" /\ pc' = "respond" /\ lev' = lev
    BY <1>3 DEF CommitRows
  <2> QED BY <2>2, <2>3 DEF BasisInv, Phases, Verifying
<1>4. CASE Respond
  <2>1. pc = "respond" /\ asked' = asked
    BY <1>4 DEF Respond
  <2>2. CASE ~LagrangeOk(asked[2].x)
    <3>1. pc' = "sent" /\ lev' = lev
      BY <1>4, <2>2 DEF Respond, RespondTo
    <3> QED BY <2>1, <2>2, <3>1 DEF BasisInv, Phases, Verifying
  <2>3. CASE LagrangeOk(asked[2].x)
    <3>1. pc' = "open" /\ lev' = aex_lagrange(asked[2].x)
      BY <1>4, <2>3 DEF Respond, RespondTo
    <3> QED BY <2>1, <2>3, <3>1 DEF BasisInv, Phases, Verifying
  <2> QED BY <2>2, <2>3
<1>5. CASE Open
  <2>1. pc = "open" /\ pc' = "sent" /\ asked' = asked /\ lev' = lev
    BY <1>5 DEF Open
  <2> QED BY <2>1 DEF BasisInv, Phases, Verifying
<1>6. CASE Rehash
  <2>1. pc = "sent" /\ pc' \in {"relation", "verdict"} /\ asked' = asked /\ lev' = lev
    BY <1>6 DEF Rehash, Challenge, sent
  <2> QED BY <2>1 DEF BasisInv, Phases, Verifying
<1>7. CASE VerifyRelation
  <2>1. pc = "relation" /\ pc' \in {"openings", "verdict"} /\ asked' = asked /\ lev' = lev
    BY <1>7 DEF VerifyRelation, sent
  <2> QED BY <2>1 DEF BasisInv, Phases, Verifying
<1>8. CASE VerifyOpenings
  <2>1. pc = "openings" /\ pc' = "identities" /\ asked' = asked /\ lev' = lev
    BY <1>8 DEF VerifyOpenings, sent
  <2> QED BY <2>1 DEF BasisInv, Phases, Verifying
<1>9. CASE VerifyIdentities
  <2>1. pc = "identities" /\ pc' = "verdict" /\ asked' = asked /\ lev' = lev
    BY <1>9 DEF VerifyIdentities, sent
  <2> QED BY <2>1 DEF BasisInv, Phases, Verifying
<1>10. CASE VerifyAgain
  <2>1. pc = "verdict" /\ pc' = "sent" /\ asked' = asked /\ lev' = lev
    BY <1>10 DEF VerifyAgain, sent
  <2> QED BY <2>1 DEF BasisInv, Phases, Verifying
<1>11. CASE Clear
  <2>1. pc' \in {"done", "undefined"} /\ asked' = asked
    BY <1>11 DEF Clear
  <2> QED BY <2>1 DEF BasisInv, Phases, Verifying
<1>12. CASE UNCHANGED vars
  <2>1. pc' = pc /\ asked' = asked /\ lev' = lev
    BY <1>12 DEF vars, sent
  <2> QED BY <2>1 DEF BasisInv
<1> QED BY <1>1, <1>2, <1>3, <1>4, <1>5, <1>6, <1>7, <1>8, <1>9, <1>10, <1>11, <1>12
        DEF Next, Stopped

\* What the prover of pismall.cpp weighs its openings with: aex_lagrange, which goes
\* through the prefix products and one inversion, fails exactly if the product of
\* the denominators is no unit, and otherwise gives l_0 and the l_i by definition.
THEOREM BasisByDefinition == Spec => []LagrangeIsBasis
<1>1. BasisInv => LagrangeIsBasis
  <2> SUFFICES ASSUME BasisInv, pc = "sent" PROVE LagrangeIsBasis
    BY DEF LagrangeIsBasis
  <2> DEFINE x == asked[2].x
  <2>1. x \in Gr /\ lev = IF LagrangeOk(x) THEN aex_lagrange(x) ELSE << >>
    BY DEF BasisInv, Verifying
  <2> HIDE DEF x
  <2>2. /\ LagrangeOk(x) <=> GrUnit(Basis0(x))
        /\ aex_lagrange(x) # << >>
        /\ aex_lagrange(x)[0] = Basis0(x)
        /\ LagrangeOk(x) => \A i \in Nodes : aex_lagrange(x)[i + 1] = BasisAt(i, x)
    BY <2>1, LagrangeValues
  <2>3. lev # << >> <=> LagrangeOk(x)
    BY <2>1, <2>2
  <2>4. LagrangeOk(x) => lev[0] = Basis0(x) /\ \A i \in Nodes : lev[i + 1] = BasisAt(i, x)
    BY <2>1, <2>2
  <2> QED BY <2>2, <2>3, <2>4 DEF LagrangeIsBasis, x
<1> QED BY <1>1, BasisInvInit, BasisInvKept, PTL DEF Spec
=============================================================================
