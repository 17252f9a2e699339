---------------------------- MODULE RingTheorems ----------------------------
(***************************************************************************)
(* Consequences of the ring laws of RqRing that the protocol proofs cite,  *)
(* induction over an interval of numbers, and sums of ring elements.       *)
(***************************************************************************)
EXTENDS RqRing, WellFoundedInduction, TLAPS

\* Subtraction undoes addition.
LEMMA MinusPlus ==
  ASSUME NEW a \in R, NEW b \in R
  PROVE  Minus(Plus(a, b), b) = a
<1>1. Plus(a, b) \in R /\ Plus(a, b) = Plus(b, a)
  BY RingClosed, RingLaws
<1>2. Minus(Plus(a, b), b) = a <=> Plus(a, b) = Plus(b, a)
  BY <1>1, RingLaws
<1> QED BY <1>1, <1>2

LEMMA PlusMinus ==
  ASSUME NEW a \in R, NEW b \in R
  PROVE  Plus(b, Minus(a, b)) = a
<1>1. Minus(a, b) \in R
  BY RingClosed
<1>2. Minus(a, b) = Minus(a, b) <=> a = Plus(b, Minus(a, b))
  BY <1>1, RingLaws
<1> QED BY <1>2

LEMMA MinusSelf == ASSUME NEW a \in R PROVE Minus(a, a) = Zero
<1>1. Plus(a, Zero) = a /\ Zero \in R
  BY RingClosed, RingLaws
<1>2. Minus(a, a) = Zero <=> a = Plus(a, Zero)
  BY <1>1, RingLaws
<1> QED BY <1>1, <1>2

\* x + y = y only for x = 0.
LEMMA Cancel ==
  ASSUME NEW x \in R, NEW y \in R
  PROVE  Plus(x, y) = y <=> x = Zero
<1>1. Plus(x, y) = y => x = Minus(y, y)
  BY MinusPlus
<1>2. Minus(y, y) = Zero
  BY MinusSelf
<1>3. Plus(Zero, y) = y
  BY RingClosed, RingLaws
<1> QED BY <1>1, <1>2, <1>3

\* (a + b) + (c + d) = (a + c) + (b + d).
LEMMA Interchange ==
  ASSUME NEW a \in R, NEW b \in R, NEW c \in R, NEW d \in R
  PROVE  Plus(Plus(a, b), Plus(c, d)) = Plus(Plus(a, c), Plus(b, d))
<1>1. Plus(Plus(a, b), Plus(c, d)) = Plus(a, Plus(b, Plus(c, d)))
  BY RingClosed, RingLaws, SMTT(20)
<1>2. Plus(b, Plus(c, d)) = Plus(c, Plus(b, d))
  BY RingClosed, RingLaws, SMTT(20)
<1>3. Plus(Plus(a, c), Plus(b, d)) = Plus(a, Plus(c, Plus(b, d)))
  BY RingClosed, RingLaws, SMTT(20)
<1> QED BY <1>1, <1>2, <1>3

\* (a + b) - (c + d) = (a - c) + (b - d).
LEMMA MinusSums ==
  ASSUME NEW a \in R, NEW b \in R, NEW c \in R, NEW d \in R
  PROVE  Minus(Plus(a, b), Plus(c, d)) = Plus(Minus(a, c), Minus(b, d))
<1> DEFINE x == Minus(a, c)
           z == Minus(b, d)
<1>1. x \in R /\ z \in R /\ Plus(c, d) \in R /\ Plus(x, z) \in R /\ Plus(a, b) \in R
  BY RingClosed
<1>2. Plus(Plus(c, d), Plus(x, z)) = Plus(Plus(c, x), Plus(d, z))
  BY <1>1, Interchange
<1>3. Plus(c, x) = a /\ Plus(d, z) = b
  BY PlusMinus
<1>4. Plus(a, b) = Plus(Plus(c, d), Plus(x, z))
  BY <1>2, <1>3
<1> HIDE DEF x, z
<1>5. Minus(Plus(a, b), Plus(c, d)) = Plus(x, z)
  BY <1>1, <1>4, RingLaws
<1> QED BY <1>5 DEF x, z

\* Multiplication distributes over subtraction.
LEMMA TimesMinus ==
  ASSUME NEW b \in R, NEW c \in R, NEW d \in R
  PROVE  Times(b, Minus(c, d)) = Minus(Times(b, c), Times(b, d))
<1> DEFINE x == Minus(c, d)
<1>1. x \in R /\ Times(b, c) \in R /\ Times(b, d) \in R /\ Times(b, x) \in R
  BY RingClosed
<1>2. c = Plus(d, x)
  BY PlusMinus
<1>3. Times(b, c) = Plus(Times(b, d), Times(b, x))
  BY <1>1, <1>2, RingLaws
<1> QED BY <1>1, <1>3, RingLaws

\* The negative of x, as the code writes it: 0 - x.
Neg(x) == Minus(Zero, x)

LEMMA NegCancels ==
  ASSUME NEW a \in R
  PROVE  Neg(a) \in R /\ Plus(a, Neg(a)) = Zero
BY RingClosed, PlusMinus DEF Neg

\* Subtraction is the addition of the negative.
LEMMA MinusIsPlusNeg ==
  ASSUME NEW a \in R, NEW b \in R
  PROVE  Minus(a, b) = Plus(a, Neg(b))
<1>1. Plus(a, Zero) = a /\ Plus(Zero, b) = b /\ Zero \in R
  BY RingClosed, RingLaws
<1>2. Minus(Plus(a, Zero), Plus(Zero, b)) = Plus(Minus(a, Zero), Minus(Zero, b))
  BY <1>1, MinusSums
<1>3. Minus(a, Zero) = a
  BY <1>1, MinusPlus
<1> QED BY <1>1, <1>2, <1>3 DEF Neg

LEMMA TimesZero == ASSUME NEW a \in R PROVE Times(a, Zero) = Zero
<1>1. Times(a, Minus(Zero, Zero)) = Minus(Times(a, Zero), Times(a, Zero))
  BY RingClosed, TimesMinus
<1>2. Minus(Zero, Zero) = Zero /\ Minus(Times(a, Zero), Times(a, Zero)) = Zero
  BY RingClosed, MinusSelf
<1> QED BY <1>1, <1>2

LEMMA TimesNeg ==
  ASSUME NEW a \in R, NEW b \in R
  PROVE  /\ Times(a, Neg(b)) = Neg(Times(a, b))
         /\ Times(Neg(b), a) = Neg(Times(b, a))
<1>1. Times(a, Neg(b)) = Neg(Times(a, b))
  BY RingClosed, TimesMinus, TimesZero DEF Neg
<1>2. Times(Neg(b), a) = Times(a, Neg(b)) /\ Times(b, a) = Times(a, b)
  BY NegCancels, RingLaws
<1> QED BY <1>1, <1>2

LEMMA NegNeg == ASSUME NEW a \in R PROVE Neg(Neg(a)) = a
<1>1. Plus(Neg(a), a) = Zero /\ Neg(a) \in R
  BY NegCancels, RingLaws
<1>2. Minus(Plus(a, Neg(a)), Neg(a)) = a
  BY <1>1, MinusPlus
<1> QED BY <1>2, NegCancels DEF Neg

\* 0 - x is zero only for x = 0.
LEMMA NegIsZero == ASSUME NEW a \in R PROVE Neg(a) = Zero <=> a = Zero
<1>1. Neg(Zero) = Zero
  BY RingClosed, MinusSelf DEF Neg
<1> QED BY <1>1, NegNeg

\* (a + b) * c = a * c + b * c, and the same for a difference.
LEMMA TimesRight ==
  ASSUME NEW a \in R, NEW b \in R, NEW c \in R
  PROVE  /\ Times(Plus(a, b), c) = Plus(Times(a, c), Times(b, c))
         /\ Times(Minus(a, b), c) = Minus(Times(a, c), Times(b, c))
<1>1. /\ Times(Plus(a, b), c) = Times(c, Plus(a, b))
      /\ Times(Minus(a, b), c) = Times(c, Minus(a, b))
      /\ Times(a, c) = Times(c, a) /\ Times(b, c) = Times(c, b)
  BY RingClosed, RingLaws
<1>2. Times(c, Plus(a, b)) = Plus(Times(c, a), Times(c, b))
  BY RingLaws
<1>3. Times(c, Minus(a, b)) = Minus(Times(c, a), Times(c, b))
  BY TimesMinus
<1> QED BY <1>1, <1>2, <1>3

\* (a * b) * c = (a * c) * b.
LEMMA TimesSwap ==
  ASSUME NEW a \in R, NEW b \in R, NEW c \in R
  PROVE  Times(Times(a, b), c) = Times(Times(a, c), b)
<1>1. Times(Times(a, b), c) = Times(a, Times(b, c)) /\ Times(Times(a, c), b) = Times(a, Times(c, b))
  BY RingLaws
<1>2. Times(b, c) = Times(c, b)
  BY RingLaws
<1> QED BY <1>1, <1>2

\* Dividing by a unit and multiplying with it.
LEMMA UnitDivides ==
  ASSUME NEW a \in R, NEW u \in R, Unit(u)
  PROVE  /\ Times(a, Inv(u)) \in R
         /\ Times(Times(a, Inv(u)), u) = a
         /\ Times(Times(a, u), Inv(u)) = a
<1>1. Inv(u) \in R /\ Times(u, Inv(u)) = One
  BY UnitLaws
<1>2. Times(Times(a, u), Inv(u)) = a
  BY <1>1, RingLaws
<1> QED BY <1>1, <1>2, TimesSwap, RingClosed

\* A unit annihilates only zero.
LEMMA UnitAnnihilates ==
  ASSUME NEW a \in R, NEW u \in R, Unit(u)
  PROVE  Times(a, u) = Zero <=> a = Zero
<1>1. Inv(u) \in R /\ Zero \in R
  BY UnitLaws, RingClosed
<1>2. ASSUME Times(a, u) = Zero PROVE a = Zero
  <2>1. a = Times(Zero, Inv(u))
    BY <1>2, UnitDivides
  <2>2. Times(Zero, Inv(u)) = Times(Inv(u), Zero)
    BY <1>1, RingLaws
  <2> QED BY <1>1, <2>1, <2>2, TimesZero
<1>3. ASSUME a = Zero PROVE Times(a, u) = Zero
  BY <1>1, <1>3, TimesZero, RingLaws
<1> QED BY <1>2, <1>3
-----------------------------------------------------------------------------
\* The least number of a set of numbers: the library states it for every
\* well-founded relation, without an operator as a parameter.
LEMMA LeastNumber ==
  ASSUME NEW S \in SUBSET Nat, S # {}
  PROVE  \E x \in S : \A y \in S : x <= y
<1> DEFINE Less == OpToRel(<, Nat)
<1>1. IsWellFoundedOn(Less, Nat)
  BY NatLessThanWellFounded
<1>2. \A x, y \in Nat : <<x, y>> \in Less <=> x < y
  BY DEF OpToRel
<1> HIDE DEF Less
<1>3. PICK x \in S : \A y \in S : <<y, x>> \notin Less
  BY <1>1, WFMin
<1>4. \A y \in S : ~ (y < x)
  BY <1>2, <1>3
<1> QED BY <1>4

\* Induction over 0 .. n, the statement given as the set of numbers it holds for.
LEMMA Induction ==
  ASSUME NEW n \in Nat, NEW S, 0 \in S, \A k \in 0 .. n - 1 : k \in S => k + 1 \in S
  PROVE  0 .. n \subseteq S
<1> DEFINE Bad == {k \in 0 .. n : k \notin S}
<1> SUFFICES ASSUME Bad # {} PROVE FALSE
  OBVIOUS
<1>1. Bad \in SUBSET Nat
  OBVIOUS
<1>2. PICK x \in Bad : \A y \in Bad : x <= y
  BY <1>1, LeastNumber
<1>3. x \in 0 .. n /\ x \notin S /\ x # 0 /\ x - 1 \in 0 .. n - 1
  BY <1>2
<1>4. x - 1 \in S
  BY <1>2, <1>3
<1> QED BY <1>3, <1>4
-----------------------------------------------------------------------------
\* The running sums Sum is the last of, for every bound up to the length of x.
LEMMA SumUnfolds ==
  ASSUME NEW N \in Nat, NEW x \in [0 .. N - 1 -> R]
  PROVE  \E G \in [0 .. N -> R] :
           /\ G[0] = Zero
           /\ \A k \in 1 .. N : G[k] = Plus(G[k - 1], x[k - 1])
           /\ \A k \in 0 .. N : Sum(x, k) = G[k]
<1> DEFINE Eq(g, n) == /\ g \in [0 .. n -> R] /\ g[0] = Zero
                       /\ \A k \in 1 .. n : g[k] = Plus(g[k - 1], x[k - 1])
           Has == {n \in Nat : \E g : Eq(g, n)}
<1>1. 0 \in Has
  <2>1. Eq([k \in 0 .. 0 |-> Zero], 0)
    BY RingClosed
  <2> QED BY <2>1
<1>2. ASSUME NEW n \in 0 .. N - 1, n \in Has PROVE n + 1 \in Has
  <2>1. PICK g : Eq(g, n)
    BY <1>2
  <2> DEFINE h == [k \in 0 .. n + 1 |-> IF k <= n THEN g[k] ELSE Plus(g[n], x[n])]
  <2>2. n \in 0 .. n /\ n \in Nat /\ n + 1 \in Nat
    OBVIOUS
  <2>3. Plus(g[n], x[n]) \in R
    BY <2>1, <2>2, RingClosed
  <2>4. h \in [0 .. n + 1 -> R] /\ h[0] = Zero
    BY <2>1, <2>2, <2>3
  <2>5. ASSUME NEW k \in 1 .. n + 1 PROVE h[k] = Plus(h[k - 1], x[k - 1])
    <3>1. CASE k <= n
      BY <2>1, <2>2, <3>1
    <3>2. CASE k = n + 1
      BY <2>2, <3>2
    <3> QED BY <2>2, <3>1, <3>2
  <2> HIDE DEF h
  <2>6. Eq(h, n + 1)
    BY <2>4, <2>5
  <2> QED BY <2>2, <2>6
<1> HIDE DEF Has
<1>3. 0 .. N \subseteq Has
  BY <1>1, <1>2, Induction
<1>4. PICK G : Eq(G, N)
  <2>1. N \in Has
    BY <1>3
  <2> QED BY <2>1 DEF Has
<1>5. ASSUME NEW n \in 0 .. N PROVE Sum(x, n) = G[n]
  <2> DEFINE Def(g) == [k \in 0 .. n |-> IF k = 0 THEN Zero ELSE Plus(g[k - 1], x[k - 1])]
             p == CHOOSE g : g = Def(g)
             h == [k \in 0 .. n |-> G[k]]
  <2>1. h = Def(h)
    <3>1. \A k \in 0 .. n : k # 0 => k \in 1 .. N /\ k - 1 \in 0 .. n
      OBVIOUS
    <3> QED BY <1>4, <3>1
  <2> HIDE DEF h
  <2>2. p = Def(p)
    BY <2>1
  <2>3. Sum(x, n) = p[n]
    BY DEF Sum
  <2> HIDE DEF p
  <2> DEFINE S == {k \in 0 .. n : p[k] = G[k]}
  <2>4. 0 \in S
    BY <1>4, <2>2
  <2>5. ASSUME NEW k \in 0 .. n - 1, k \in S PROVE k + 1 \in S
    <3>1. k + 1 \in 0 .. n /\ k + 1 \in 1 .. N /\ k + 1 - 1 = k /\ k + 1 # 0
      OBVIOUS
    <3>2. p[k + 1] = Plus(p[k], x[k]) /\ G[k + 1] = Plus(G[k], x[k])
      BY <1>4, <2>2, <3>1
    <3> QED BY <2>5, <3>1, <3>2
  <2> HIDE DEF S
  <2>6. 0 .. n \subseteq S
    BY <2>4, <2>5, Induction
  <2>7. n \in 0 .. n
    OBVIOUS
  <2> QED BY <2>3, <2>6, <2>7 DEF S
<1> QED BY <1>4, <1>5

\* The two equations of a sum.
LEMMA SumEquations ==
  ASSUME NEW N \in Nat, NEW x \in [0 .. N - 1 -> R]
  PROVE  /\ Sum(x, 0) = Zero
         /\ \A k \in 0 .. N : Sum(x, k) \in R
         /\ \A k \in 0 .. N - 1 : Sum(x, k + 1) = Plus(Sum(x, k), x[k])
<1>1. PICK G \in [0 .. N -> R] :
        /\ G[0] = Zero
        /\ \A k \in 1 .. N : G[k] = Plus(G[k - 1], x[k - 1])
        /\ \A k \in 0 .. N : Sum(x, k) = G[k]
  BY SumUnfolds
<1>2. \A k \in 0 .. N - 1 : k + 1 \in 1 .. N /\ k + 1 - 1 = k /\ k \in 0 .. N /\ k + 1 \in 0 .. N
  OBVIOUS
<1>3. Sum(x, 0) = Zero /\ \A k \in 0 .. N : Sum(x, k) \in R
  BY <1>1
<1>4. ASSUME NEW k \in 0 .. N - 1 PROVE Sum(x, k + 1) = Plus(Sum(x, k), x[k])
  <2>1. G[k + 1] = Plus(G[k], x[k])
    BY <1>1, <1>2
  <2> QED BY <1>1, <1>2, <2>1
<1> QED BY <1>3, <1>4

\* A sum of zeros.
LEMMA SumZero ==
  ASSUME NEW N \in Nat, NEW x \in [0 .. N - 1 -> R], \A k \in 0 .. N - 1 : x[k] = Zero
  PROVE  Sum(x, N) = Zero
<1> DEFINE S == {k \in 0 .. N : Sum(x, k) = Zero}
<1>1. 0 \in S
  BY SumEquations
<1>2. ASSUME NEW k \in 0 .. N - 1, k \in S PROVE k + 1 \in S
  <2>1. Sum(x, k + 1) = Plus(Sum(x, k), x[k])
    BY SumEquations
  <2> QED BY <1>2, <2>1, RingClosed, RingLaws
<1> HIDE DEF S
<1>3. 0 .. N \subseteq S
  BY <1>1, <1>2, Induction
<1> QED BY <1>3 DEF S

\* The sum of the pointwise sums.
LEMMA SumPlus ==
  ASSUME NEW N \in Nat, NEW x \in [0 .. N - 1 -> R], NEW g \in [0 .. N - 1 -> R],
         NEW h \in [0 .. N - 1 -> R], \A k \in 0 .. N - 1 : h[k] = Plus(x[k], g[k])
  PROVE  Sum(h, N) = Plus(Sum(x, N), Sum(g, N))
<1> DEFINE S == {k \in 0 .. N : Sum(h, k) = Plus(Sum(x, k), Sum(g, k))}
<1>1. 0 \in S
  <2>1. Sum(h, 0) = Zero /\ Sum(x, 0) = Zero /\ Sum(g, 0) = Zero
    BY SumEquations
  <2>2. Plus(Zero, Zero) = Zero
    BY RingClosed, RingLaws
  <2> QED BY <2>1, <2>2
<1>2. ASSUME NEW k \in 0 .. N - 1, k \in S PROVE k + 1 \in S
  <2>1. /\ Sum(h, k + 1) = Plus(Sum(h, k), h[k])
        /\ Sum(x, k + 1) = Plus(Sum(x, k), x[k])
        /\ Sum(g, k + 1) = Plus(Sum(g, k), g[k])
        /\ Sum(x, k) \in R /\ Sum(g, k) \in R
    <3>1. k \in 0 .. N
      OBVIOUS
    <3>2. Sum(h, k + 1) = Plus(Sum(h, k), h[k])
      BY SumEquations
    <3>3. Sum(x, k + 1) = Plus(Sum(x, k), x[k]) /\ Sum(x, k) \in R
      BY <3>1, SumEquations
    <3>4. Sum(g, k + 1) = Plus(Sum(g, k), g[k]) /\ Sum(g, k) \in R
      BY <3>1, SumEquations
    <3> QED BY <3>2, <3>3, <3>4
  <2>2. Plus(Plus(Sum(x, k), Sum(g, k)), Plus(x[k], g[k])) =
          Plus(Plus(Sum(x, k), x[k]), Plus(Sum(g, k), g[k]))
    BY <2>1, Interchange
  <2> QED BY <1>2, <2>1, <2>2
<1> HIDE DEF S
<1>3. 0 .. N \subseteq S
  BY <1>1, <1>2, Induction
<1> QED BY <1>3 DEF S

\* A common factor.
LEMMA SumTimes ==
  ASSUME NEW N \in Nat, NEW x \in [0 .. N - 1 -> R], NEW b \in R,
         NEW h \in [0 .. N - 1 -> R], \A k \in 0 .. N - 1 : h[k] = Times(b, x[k])
  PROVE  Sum(h, N) = Times(b, Sum(x, N))
<1> DEFINE S == {k \in 0 .. N : Sum(h, k) = Times(b, Sum(x, k))}
<1>1. 0 \in S
  <2>1. Sum(h, 0) = Zero /\ Sum(x, 0) = Zero
    BY SumEquations
  <2> QED BY <2>1, TimesZero
<1>2. ASSUME NEW k \in 0 .. N - 1, k \in S PROVE k + 1 \in S
  <2>1. /\ Sum(h, k + 1) = Plus(Sum(h, k), h[k])
        /\ Sum(x, k + 1) = Plus(Sum(x, k), x[k])
        /\ Sum(x, k) \in R
    BY SumEquations
  <2>2. Times(b, Plus(Sum(x, k), x[k])) = Plus(Times(b, Sum(x, k)), Times(b, x[k]))
    BY <2>1, RingLaws
  <2> QED BY <1>2, <2>1, <2>2
<1> HIDE DEF S
<1>3. 0 .. N \subseteq S
  BY <1>1, <1>2, Induction
<1> QED BY <1>3 DEF S

\* The sum of the pointwise differences.
LEMMA SumMinus ==
  ASSUME NEW N \in Nat, NEW x \in [0 .. N - 1 -> R], NEW g \in [0 .. N - 1 -> R],
         NEW h \in [0 .. N - 1 -> R], \A k \in 0 .. N - 1 : h[k] = Minus(x[k], g[k])
  PROVE  Sum(h, N) = Minus(Sum(x, N), Sum(g, N))
<1>1. \A k \in 0 .. N - 1 : x[k] = Plus(h[k], g[k])
  <2> TAKE k \in 0 .. N - 1
  <2>1. x[k] \in R /\ g[k] \in R /\ h[k] \in R /\ h[k] = Minus(x[k], g[k])
    OBVIOUS
  <2>2. Plus(g[k], Minus(x[k], g[k])) = x[k]
    BY <2>1, PlusMinus
  <2> QED BY <2>1, <2>2, RingLaws
<1>2. Sum(x, N) = Plus(Sum(h, N), Sum(g, N))
  BY <1>1, SumPlus
<1>3. Sum(h, N) \in R /\ Sum(g, N) \in R
  <2>1. N \in 0 .. N
    OBVIOUS
  <2>2. Sum(h, N) \in R
    BY <2>1, SumEquations
  <2>3. Sum(g, N) \in R
    BY <2>1, SumEquations
  <2> QED BY <2>2, <2>3
<1> QED BY <1>2, <1>3, MinusPlus

\* Summing a matrix by rows and by columns.
LEMMA SumsExchange ==
  ASSUME NEW K \in Nat, NEW L \in Nat, NEW M \in [(0 .. K - 1) \X (0 .. L - 1) -> R]
  PROVE  Sum([k \in 0 .. K - 1 |-> Sum([l \in 0 .. L - 1 |-> M[k, l]], L)], K)
           = Sum([l \in 0 .. L - 1 |-> Sum([k \in 0 .. K - 1 |-> M[k, l]], K)], L)
<1> DEFINE Row(k) == [l \in 0 .. L - 1 |-> M[k, l]]
           Col(l) == [k \in 0 .. K - 1 |-> M[k, l]]
           rows == [k \in 0 .. K - 1 |-> Sum(Row(k), L)]
           Partial(n) == [l \in 0 .. L - 1 |-> Sum(Col(l), n)]
           S == {n \in 0 .. K : Sum(rows, n) = Sum(Partial(n), L)}
<1>1. ASSUME NEW k \in 0 .. K - 1
      PROVE  /\ Row(k) \in [0 .. L - 1 -> R] /\ \A l \in 0 .. L - 1 : Row(k)[l] = M[k, l]
             /\ Sum(Row(k), L) \in R
  <2> DEFINE x == Row(k)
  <2>1. x \in [0 .. L - 1 -> R] /\ \A l \in 0 .. L - 1 : x[l] = M[k, l]
    OBVIOUS
  <2> HIDE DEF x
  <2>2. L \in 0 .. L
    OBVIOUS
  <2>3. Sum(x, L) \in R
    BY <2>1, <2>2, SumEquations
  <2> QED BY <2>1, <2>3 DEF x
<1>2. ASSUME NEW l \in 0 .. L - 1
      PROVE  /\ Sum(Col(l), 0) = Zero
             /\ \A n \in 0 .. K : Sum(Col(l), n) \in R
             /\ \A n \in 0 .. K - 1 : Sum(Col(l), n + 1) = Plus(Sum(Col(l), n), M[n, l])
  <2> DEFINE x == Col(l)
  <2>1. x \in [0 .. K - 1 -> R] /\ \A n \in 0 .. K - 1 : x[n] = M[n, l]
    OBVIOUS
  <2> HIDE DEF x
  <2>2. /\ Sum(x, 0) = Zero
        /\ \A n \in 0 .. K : Sum(x, n) \in R
        /\ \A n \in 0 .. K - 1 : Sum(x, n + 1) = Plus(Sum(x, n), x[n])
    BY <2>1, SumEquations
  <2> QED BY <2>1, <2>2 DEF x
<1> HIDE DEF Row, Col
<1>3. ASSUME NEW n \in 0 .. K
      PROVE  Partial(n) \in [0 .. L - 1 -> R] /\ \A l \in 0 .. L - 1 : Partial(n)[l] = Sum(Col(l), n)
  BY <1>2
<1>4. rows \in [0 .. K - 1 -> R] /\ \A k \in 0 .. K - 1 : rows[k] = Sum(Row(k), L)
  BY <1>1
<1> HIDE DEF rows, Partial
<1>5. 0 \in S
  <2>1. 0 \in 0 .. K
    OBVIOUS
  <2>2. \A l \in 0 .. L - 1 : Partial(0)[l] = Zero
    BY <1>2, <1>3, <2>1
  <2>3. Sum(Partial(0), L) = Zero
    BY <1>3, <2>1, <2>2, SumZero
  <2>4. Sum(rows, 0) = Zero
    BY <1>4, SumEquations
  <2> QED BY <2>1, <2>3, <2>4
<1>6. ASSUME NEW n \in 0 .. K - 1, n \in S PROVE n + 1 \in S
  <2> DEFINE x == Partial(n)
             g == Row(n)
             h == Partial(n + 1)
  <2>1. n \in 0 .. K /\ n + 1 \in 0 .. K
    OBVIOUS
  <2>2. x \in [0 .. L - 1 -> R] /\ g \in [0 .. L - 1 -> R] /\ h \in [0 .. L - 1 -> R]
    BY <1>1, <1>3, <2>1
  <2>3. \A l \in 0 .. L - 1 : h[l] = Plus(x[l], g[l])
    BY <1>1, <1>2, <1>3, <2>1
  <2>4. Sum(rows, n + 1) = Plus(Sum(rows, n), rows[n])
    BY <1>4, SumEquations
  <2>5. rows[n] = Sum(g, L) /\ Sum(rows, n) = Sum(x, L)
    BY <1>4, <1>6
  <2> HIDE DEF x, g, h
  <2>6. Sum(h, L) = Plus(Sum(x, L), Sum(g, L))
    BY <2>2, <2>3, SumPlus
  <2> QED BY <2>1, <2>4, <2>5, <2>6 DEF h
<1> HIDE DEF S
<1>7. 0 .. K \subseteq S
  BY <1>5, <1>6, Induction
<1>8. Sum(rows, K) = Sum(Partial(K), L)
  BY <1>7 DEF S
<1> QED BY <1>8 DEF rows, Partial, Row, Col
=============================================================================
