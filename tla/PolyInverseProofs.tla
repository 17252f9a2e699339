-------------------------- MODULE PolyInverseProofs --------------------------
(***************************************************************************)
(* Theorems about PolyInverse and the modules it is composed of, for every *)
(* word size, basis, degree and input: residue_inverse is correct and does *)
(* not overflow, the kernels of ops.hpp compute what they promise, no word *)
(* of the transforms leaves the range its users rely on, and what comes    *)
(* out of the inversion is the inverse, if there is one.                   *)
(***************************************************************************)
EXTENDS PolyInverse, WellFoundedInduction, TLAPS

LEMMA Division ==
  ASSUME NEW x \in Nat, NEW y \in Nat, y > 0
  PROVE  /\ x \div y \in Nat
         /\ x - (x \div y) * y \in 0 .. y - 1
         /\ x >= y => x \div y >= 1
OBVIOUS

LEMMA ModMultiple ==
  ASSUME NEW k \in Int, NEW d \in Nat \ {0}, NEW m \in 0 .. d - 1
  PROVE  (k * d + m) % d = m
<1> DEFINE x == k * d + m
           s == x \div d
           e == x % d
<1>1. x \in Int
  OBVIOUS
<1>2. s \in Int /\ e \in 0 .. d - 1 /\ x = s * d + e
  BY <1>1
<1> HIDE DEF s, e
<1>3. (k - s) * d = e - m
  BY <1>2
<1>4. k - s >= 1 => (k - s) * d >= d
  BY <1>2
<1>5. k - s <= -1 => (k - s) * d <= -d
  BY <1>2
<1>6. k - s = 0
  BY <1>2, <1>3, <1>4, <1>5
<1>7. e = m
  BY <1>2, <1>3, <1>6
<1> QED BY <1>7 DEF e

LEMMA ProductSign ==
  ASSUME NEW x \in Int, NEW y \in Int
  PROVE  /\ x >= 0 /\ y >= 0 => x * y >= 0
         /\ x <= 0 /\ y >= 0 => x * y <= 0
         /\ x >= 1 /\ y >= 0 => x * y >= y
         /\ x <= -1 /\ y >= 0 => x * y <= -y
         /\ x >= 0 /\ y >= 2 => x * y >= 2 * x
         /\ x <= 0 /\ y >= 2 => x * y <= 2 * x
OBVIOUS

\* The weighted sum of Alternating bounds each coefficient by the modulus.
LEMMA CoefficientBound ==
  ASSUME NEW x \in Int, NEW x1 \in Int, NEW y \in Nat, NEW y1 \in Nat, NEW p \in Nat,
         y >= 1,
         \/ x <= 0 /\ x1 >= 1 /\ x1 * y - x * y1 = p
         \/ x >= 0 /\ x1 <= -1 /\ x * y1 - x1 * y = p
  PROVE  -p <= x1 /\ x1 <= p
<1>1. CASE x <= 0 /\ x1 >= 1 /\ x1 * y - x * y1 = p
  <2>1. x * y1 <= 0 /\ x1 * y >= x1
    BY <1>1
  <2>2. QED
    BY <1>1, <2>1
<1>2. CASE x >= 0 /\ x1 <= -1 /\ x * y1 - x1 * y = p
  <2>1. x * y1 >= 0 /\ x1 * y <= x1
    BY <1>2
  <2>2. QED
    BY <1>2, <2>1
<1>3. QED
  BY <1>1, <1>2

LEMMA InitIInv == Init => IInv
<1> SUFFICES ASSUME Init PROVE IInv
  OBVIOUS
<1>1. TypeOK /\ pm \in Nat /\ pm >= 2
  BY ModuliAssumption DEF Init, TypeOK
<1>2. Decreasing /\ Alternating /\ -pm <= 2 * t /\ 2 * t <= pm
  BY <1>1 DEF Init, Decreasing, Alternating
<1>3. Bezout(r, t)
  <2>1. r = 1 * pm + t * a
    BY <1>1 DEF Init
  <2>2. QED
    BY <2>1 DEF Bezout
<1>4. Bezout(r1, t1)
  <2>1. r1 = 0 * pm + t1 * a
    BY <1>1 DEF Init
  <2>2. QED
    BY <2>1 DEF Bezout
<1>5. QED
  BY <1>1, <1>2, <1>3, <1>4 DEF Init, IInv, LoopInv, ReturnsInverse

LEMMA IterateStep == ASSUME IInv, Iterate PROVE IInv'
<1> DEFINE q == Quo
<1>1. /\ pc = "loop" /\ r1 # 0 /\ LoopInv
      /\ pm \in Nat /\ pm >= 2 /\ a \in 1 .. pm - 1
      /\ t \in Int /\ t1 \in Int /\ r \in Nat /\ r1 \in Nat /\ r1 > 0 /\ r >= 2 /\ r1 < r
  BY ModuliAssumption DEF IInv, TypeOK, LoopInv, Decreasing, Iterate
<1>2. q \in Nat /\ q >= 1 /\ r - q * r1 \in 0 .. r1 - 1
  BY <1>1, Division DEF Quo
<1>3. /\ t' = t1 /\ t1' = t - q * t1 /\ r' = r1 /\ r1' = r - q * r1
      /\ UNCHANGED <<a, pm, pc>>
  BY DEF Iterate
<1> HIDE DEF q
<1>4. TypeOK'
  BY <1>1, <1>2, <1>3 DEF IInv, TypeOK
<1>5. Decreasing'
  BY <1>1, <1>2, <1>3 DEF LoopInv, Decreasing
<1>6. Bezout(r, t)' /\ Bezout(r1, t1)'
  <2>1. PICK s \in Int : r = s * pm + t * a
    BY <1>1 DEF LoopInv, Bezout
  <2>2. PICK s1 \in Int : r1 = s1 * pm + t1 * a
    BY <1>1 DEF LoopInv, Bezout
  <2>3. r - q * r1 = (s - q * s1) * pm + (t - q * t1) * a
    BY <2>1, <2>2, <1>1, <1>2
  <2>4. s - q * s1 \in Int
    BY <1>2, <2>1, <2>2
  <2>5. QED
    BY <2>2, <2>3, <2>4, <1>3 DEF Bezout
<1>7. Alternating'
  <2>1. ASSUME t <= 0, t1 >= 1, t1 * r - t * r1 = pm
        PROVE  t' >= 0 /\ t1' <= -1 /\ t' * r1' - t1' * r' = pm
    <3>1. q * t1 >= 1
      BY <2>1, <1>1, <1>2
    <3>2. t1 * (r - q * r1) - (t - q * t1) * r1 = t1 * r - t * r1
      BY <1>1, <1>2
    <3>3. QED
      BY <2>1, <3>1, <3>2, <1>1, <1>2, <1>3
  <2>2. ASSUME t >= 0, t1 <= -1, t * r1 - t1 * r = pm
        PROVE  t' <= 0 /\ t1' >= 1 /\ t1' * r' - t' * r1' = pm
    <3>1. q * t1 <= -1
      BY <2>2, <1>1, <1>2
    <3>2. (t - q * t1) * r1 - t1 * (r - q * r1) = t * r1 - t1 * r
      BY <1>1, <1>2
    <3>3. QED
      BY <2>2, <3>1, <3>2, <1>1, <1>2, <1>3
  <2>3. QED
    BY <2>1, <2>2, <1>1, <1>3 DEF LoopInv, Alternating
<1>8. -pm <= 2 * t1 /\ 2 * t1 <= pm
  <2>1. CASE t <= 0 /\ t1 >= 1 /\ t1 * r - t * r1 = pm
    BY <2>1, <1>1, ProductSign
  <2>2. CASE t >= 0 /\ t1 <= -1 /\ t * r1 - t1 * r = pm
    BY <2>2, <1>1, ProductSign
  <2>3. QED
    BY <2>1, <2>2, <1>1 DEF LoopInv, Alternating
<1>9. QED
  BY <1>1, <1>3, <1>4, <1>5, <1>6, <1>7, <1>8 DEF IInv, LoopInv, ReturnsInverse

\* The products the loop forms stay within the modulus.
LEMMA QuotientBound ==
  ASSUME IInv, pc = "loop", r1 # 0
  PROVE  Within(Quo * t1) /\ Within(Quo * r1)
<1> DEFINE q == Quo
<1>1. /\ LoopInv /\ pm \in Nat /\ pm >= 2
      /\ t \in Int /\ t1 \in Int /\ r \in Nat /\ r1 \in Nat /\ r1 >= 1 /\ r <= pm
  BY ModuliAssumption DEF IInv, TypeOK, LoopInv, Decreasing
<1>2. q \in Nat /\ q * r1 \in Int /\ 0 <= q * r1 /\ q * r1 <= r
  BY <1>1, Division DEF Quo
<1> HIDE DEF q
<1>3. /\ q * t1 \in Int
      /\ (q * t1) * r1 = t1 * (q * r1)
  BY <1>1, <1>2
<1>4. CASE t <= 0 /\ t1 >= 1 /\ t1 * r - t * r1 = pm
  <2>1. t * r1 <= 0 /\ t1 * (q * r1) <= t1 * r /\ q * t1 >= 0
    BY <1>1, <1>2, <1>4
  <2>2. q * t1 <= (q * t1) * r1
    BY <1>1, <1>3, <2>1
  <2>3. QED
    BY <1>1, <1>2, <1>3, <1>4, <2>1, <2>2 DEF Within, q
<1>5. CASE t >= 0 /\ t1 <= -1 /\ t * r1 - t1 * r = pm
  <2>1. t * r1 >= 0 /\ t1 * (q * r1) >= t1 * r /\ q * t1 <= 0
    BY <1>1, <1>2, <1>5
  <2>2. q * t1 >= (q * t1) * r1
    BY <1>1, <1>3, <2>1
  <2>3. QED
    BY <1>1, <1>2, <1>3, <1>5, <2>1, <2>2 DEF Within, q
<1>6. QED
  BY <1>1, <1>4, <1>5 DEF LoopInv, Alternating

LEMMA ReturnStep == ASSUME IInv, Return PROVE IInv'
<1>1. /\ pc = "loop" /\ r1 = 0 /\ LoopInv
      /\ pm \in Moduli /\ pm \in Nat /\ pm >= 2 /\ a \in 1 .. pm - 1
      /\ t \in Int /\ t1 \in Int /\ r \in Nat /\ r >= 1 /\ r < pm
      /\ -pm <= 2 * t /\ 2 * t <= pm
  BY ModuliAssumption DEF IInv, TypeOK, LoopInv, Decreasing, Return
<1>2. /\ t' = (IF t < 0 THEN t + pm ELSE t)
      /\ pc' = "done" /\ UNCHANGED <<a, pm, t1, r, r1>>
  BY DEF Return
<1>3. -pm <= t1 /\ t1 <= pm
  BY <1>1, CoefficientBound DEF LoopInv, Alternating
<1>4. r = 1
  <2>1. \E e \in 1 .. pm : r * e = pm
    <3>1. CASE t <= 0 /\ t1 >= 1 /\ t1 * r - t * r1 = pm
      <4>1. r * t1 = pm
        BY <3>1, <1>1
      <4>2. QED
        BY <3>1, <4>1, <1>1, <1>3
    <3>2. CASE t >= 0 /\ t1 <= -1 /\ t * r1 - t1 * r = pm
      <4>1. r * (-t1) = pm /\ -t1 \in 1 .. pm
        BY <3>2, <1>1, <1>3
      <4>2. QED
        BY <4>1
    <3>3. QED
      BY <3>1, <3>2, <1>1 DEF LoopInv, Alternating
  <2>2. r \notin 2 .. pm - 1
    BY <2>1, <1>1, ModuliAssumption
  <2>3. QED
    BY <2>2, <1>1
<1>5. PICK s \in Int : 1 = s * pm + t * a
  BY <1>1, <1>4 DEF LoopInv, Bezout
<1>6. t # 0
  <2>1. ASSUME t = 0 PROVE FALSE
    <3>1. s * pm = 1
      BY <2>1, <1>1, <1>5
    <3>2. s <= 0 => s * pm <= 0
      BY <1>1
    <3>3. s >= 1 => s * pm >= pm
      BY <1>1
    <3>4. QED
      BY <3>1, <3>2, <3>3, <1>1
  <2>2. QED
    BY <2>1
<1>7. t' \in 1 .. pm - 1
  BY <1>1, <1>2, <1>6
<1>8. (t' * a) % pm = 1
  <2>1. \E k \in Int : t' * a = k * pm + 1
    <3>1. CASE t < 0
      <4>1. (t + pm) * a = (a - s) * pm + 1 /\ a - s \in Int
        BY <1>1, <1>5
      <4>2. QED
        BY <3>1, <4>1, <1>2
    <3>2. CASE ~(t < 0)
      <4>1. t * a = (-s) * pm + 1 /\ -s \in Int
        BY <1>1, <1>5
      <4>2. QED
        BY <3>2, <4>1, <1>2
    <3>3. QED
      BY <3>1, <3>2
  <2>2. \A k \in Int : (k * pm + 1) % pm = 1
    <3>1. 1 \in 0 .. pm - 1 /\ pm \in Nat \ {0}
      BY <1>1
    <3> QED BY <3>1, ModMultiple
  <2>3. QED
    BY <2>1, <2>2
<1>9. TypeOK'
  BY <1>1, <1>2, <1>7 DEF IInv, TypeOK
<1>10. Within(t1)'
  BY <1>2, <1>3 DEF Within
<1>11. QED
  BY <1>2, <1>7, <1>8, <1>9, <1>10 DEF IInv, ReturnsInverse

LEMMA NextIInv == IInv /\ [Next]_vars => IInv'
<1> SUFFICES ASSUME IInv, [Next]_vars PROVE IInv'
  OBVIOUS
<1>1. CASE UNCHANGED vars
  BY <1>1 DEF vars, IInv, TypeOK, LoopInv, Decreasing, Bezout, Alternating, ReturnsInverse, Within
<1>2. QED
  BY <1>1, IterateStep, ReturnStep DEF Next, Stopped

\* The loop invariants of the extended Euclidean algorithm.
THEOREM InvariantCorrect == Spec => []IInv
<1>1. QED
  BY InitIInv, NextIInv, PTL DEF Spec

\* The function returns the inverse, reduced, for every prime and residue.
THEOREM InverseCorrect == Spec => []ReturnsInverse
<1>1. IInv => ReturnsInverse
  BY DEF IInv
<1>2. QED
  BY <1>1, InvariantCorrect, PTL

LEMMA InvariantFits == IInv => CoefficientsFit
<1> SUFFICES ASSUME IInv PROVE CoefficientsFit
  OBVIOUS
<1>1. pm \in Nat /\ pm >= 2 /\ t \in Int /\ t1 \in Int /\ r \in Nat /\ r1 \in Nat
  BY ModuliAssumption DEF IInv, TypeOK
<1>2. CASE pc = "done"
  BY <1>1, <1>2 DEF IInv, ReturnsInverse, CoefficientsFit, Within
<1>3. CASE pc = "loop"
  <2>1. Within(t)
    BY <1>1, <1>3 DEF IInv, LoopInv, Within
  <2>2. Within(t1)
    BY <1>1, <1>3, CoefficientBound DEF IInv, LoopInv, Decreasing, Alternating, Within
  <2>3. ASSUME r1 # 0 PROVE Within(Quo * t1) /\ Within(Quo * r1)
    BY <1>1, <1>3, <2>3, QuotientBound
  <2>4. QED
    BY <1>3, <2>1, <2>2, <2>3 DEF CoefficientsFit
<1>4. QED
  BY <1>2, <1>3 DEF IInv, TypeOK

\* No coefficient and no product leaves the range -pm .. pm.
THEOREM NoOverflow == Spec => []CoefficientsFit
<1>1. QED
  BY InvariantFits, InvariantCorrect, PTL
-----------------------------------------------------------------------------
\* Division with remainder: the quotient is unique.
LEMMA DivisionBounds ==
  ASSUME NEW x \in Nat, NEW d \in Nat \ {0}
  PROVE  /\ x \div d \in Nat
         /\ (x \div d) * d <= x
         /\ x < (x \div d) * d + d
  BY Z3

\* A product with a positive factor reflects the order.
LEMMA CancelLess ==
  ASSUME NEW x \in Int, NEW y \in Int, NEW c \in Nat \ {0}, c * x < c * y
  PROVE  x < y
<1>1. SUFFICES ASSUME x >= y PROVE c * x >= c * y
  BY <1>1
<1>2. c * (x - y) >= 0
  BY <1>1
<1> QED BY <1>2

LEMMA Monotone ==
  ASSUME NEW x \in Int, NEW y \in Int, NEW c \in Nat, x <= y
  PROVE  c * x <= c * y
<1>1. c * (y - x) >= 0
  OBVIOUS
<1> QED BY <1>1

\* A word that is already one is not changed.
LEMMA LowOfWord ==
  ASSUME NEW x \in 0 .. W - 1
  PROVE  Low(x) = x
  BY WordAssumption DEF Low

\* The lazy product of a butterfly: for every word x, whether reduced or not,
\* the difference that is left is below twice the modulus and congruent to x * y,
\* so that no intermediate value of a layer leaves the word ("p is small enough",
\* ops.hpp:224).
THEOREM ShoupBelowTwice ==
  ASSUME NEW p \in Nat \ {0}, 2 * p <= W,
         NEW y \in 0 .. p - 1, NEW x \in 0 .. W - 1
  PROVE  LET z == ShoupLazy(x, y, compute_shoup(y, p), p)
         IN  z \in 0 .. 2 * p - 1 /\ \E k \in Nat : x * y = k * p + z
<1> DEFINE yp == (y * W) \div p
           q  == (x * yp) \div W
           z  == x * y - q * p
<1>1. y * W \in Nat /\ W \in Nat \ {0} /\ x \in Nat /\ y \in Nat
  BY WordAssumption
<1>2. /\ yp \in Nat
      /\ yp * p <= y * W
      /\ y * W <= yp * p + p
  <2>1. y * W < yp * p + p /\ yp \in Nat /\ yp * p <= y * W
    BY <1>1, DivisionBounds
  <2> QED BY <2>1, <1>1
<1>3. x * yp \in Nat
  BY <1>1, <1>2
<1>4. /\ q \in Nat
      /\ q * W <= x * yp
      /\ x * yp < q * W + W
  BY <1>1, <1>3, DivisionBounds
<1> HIDE DEF yp, q
<1>5. z \in Int
  BY <1>1, <1>4
<1>6. W * 0 <= W * z
  <2>1. p * (q * W) <= p * (x * yp)
    BY <1>1, <1>3, <1>4, Monotone
  <2>2. x * (yp * p) <= x * (y * W)
    BY <1>1, <1>2, Monotone
  <2>3. W * z = x * (y * W) - p * (q * W)
    BY <1>1, <1>4
  <2>4. p * (x * yp) = x * (yp * p)
    BY <1>1, <1>2
  <2> QED BY <2>1, <2>2, <2>3, <2>4, <1>1, <1>2, <1>4
<1>7. W * z < W * (2 * p)
  <2>1. x * (y * W) <= x * (yp * p + p)
    BY <1>1, <1>2, Monotone
  <2>2. x * (yp * p + p) = p * (x * yp) + p * x
    BY <1>1, <1>2
  <2>3. p * (x * yp + 1) <= p * (q * W + W)
    BY <1>1, <1>3, <1>4, Monotone
  <2>4. p * (x + 1) <= p * W
    BY <1>1, Monotone
  <2>5. p * (x * yp + 1) = p * (x * yp) + p /\ p * (q * W + W) = p * (q * W) + p * W
    BY <1>1, <1>3, <1>4
  <2>6. p * (x + 1) = p * x + p
    BY <1>1
  <2>7. W * z = x * (y * W) - p * (q * W) /\ W * (2 * p) = p * W + p * W
    BY <1>1, <1>4
  <2> QED BY <2>1, <2>2, <2>3, <2>4, <2>5, <2>6, <2>7, <1>1, <1>2, <1>3, <1>4
<1>8. 0 <= z
  <2>1. CASE z < 0
    <3>1. W * (z + 1) <= W * 0
      BY <2>1, <1>1, <1>5, Monotone
    <3>2. W * (z + 1) = W * z + W
      BY <1>1, <1>5
    <3> QED BY <3>1, <3>2, <1>1, <1>6, <1>5
  <2> QED BY <2>1, <1>5
<1>9. z < 2 * p
  BY <1>1, <1>5, <1>7, CancelLess
<1>10. Low(z) = z
  BY <1>5, <1>8, <1>9, <1>1, LowOfWord
<1>11. ShoupLazy(x, y, compute_shoup(y, p), p) = z
  <2>1. y % p = y
    BY <1>1
  <2>2. compute_shoup(y, p) = yp
    BY <2>1 DEF compute_shoup, yp
  <2> QED BY <2>2, <1>10 DEF ShoupLazy, High, q
<1>12. x * y = q * p + z
  BY <1>1, <1>4
<1> QED BY <1>4, <1>5, <1>8, <1>9, <1>11, <1>12

\* The division-free product is exact wherever the low word of the modulus's
\* quotient leaves room for a product of residues; every modulus of params.hpp
\* does, by some sixty bits.
THEOREM MulmodExact ==
  ASSUME NEW p \in Nat \ {0}, 2 * p <= W, Pn(p) * W + p * p <= W * W,
         NEW x \in 0 .. p - 1, NEW y \in 0 .. p - 1
  PROVE  mulmod(x, y, p) = (x * y) % p
<1> DEFINE res == x * y
           nq  == Newton(p)
           hi  == Pn_hi(p)
           lo  == Pn(p)
           rh  == High(res)
           rl  == Low(res)
           sum == lo * rh + res * hi
           q   == sum \div W
           rem   == res - q * p
<1>1. W \in Nat \ {0} /\ W * W \in Nat \ {0} /\ x \in Nat /\ y \in Nat
  BY WordAssumption
<1>2. res \in Nat /\ res < p * p
  <2>1. p * y <= p * (p - 1) /\ y * x <= y * p
    BY <1>1, Monotone
  <2> QED BY <2>1, <1>1
<1>3. nq \in Nat /\ nq * p <= W * W /\ W * W < nq * p + p
  BY <1>1, DivisionBounds DEF Newton
<1> HIDE DEF nq, res
<1>4. hi \in Nat /\ lo \in 0 .. W - 1 /\ nq = hi * W + lo
  BY <1>1, <1>3, Z3 DEF Pn, Pn_hi, High, Low, nq
<1>5. rh \in Nat /\ rl \in 0 .. W - 1 /\ res = rh * W + rl
  BY <1>1, <1>2, Z3 DEF High, Low
<1>6. lo * W + p * p <= W * W
  OBVIOUS
<1> HIDE DEF hi, lo, rh, rl
<1>7. sum \in Nat
  BY <1>2, <1>4, <1>5
<1>8. sum * W + rl * lo = res * nq
  BY <1>1, <1>2, <1>4, <1>5
<1>9. q \in Nat /\ q * W <= sum /\ sum < q * W + W
  BY <1>1, <1>7, DivisionBounds
<1> HIDE DEF sum, q
<1> USE <1>1, <1>2, <1>3, <1>4, <1>5, <1>7, <1>9
\* What the truncated products lose.
<1>10. 0 <= rl * lo /\ rl * lo <= lo * W
  <2>1. lo * rl <= lo * W /\ lo * 0 <= lo * rl
    BY Monotone
  <2> QED BY <2>1
<1>11. p * (res * nq) <= res * (W * W) /\ res * (W * W) <= p * (res * nq) + res * p
  <2>1. res * (nq * p) <= res * (W * W) /\ res * (W * W) <= res * (nq * p + p)
    BY Monotone
  <2>2. res * (nq * p) = p * (res * nq) /\ res * (nq * p + p) = p * (res * nq) + res * p
    OBVIOUS
  <2> QED BY <2>1, <2>2
<1>12. sum < W * W
  <2>1. sum * W <= res * nq
    BY <1>8, <1>10
  <2>2. p * (sum * W) <= p * (res * nq)
    BY <2>1, Monotone
  <2>3. (W * W) * (res + 1) <= (W * W) * (p * p)
    BY Monotone
  <2>4. (W * W) * (res + 1) = res * (W * W) + W * W
    OBVIOUS
  <2>5. p * (sum * W) < (W * W) * (p * p)
    BY <1>11, <2>2, <2>3, <2>4
  <2>6. (p * W) * sum < (p * W) * (p * W)
    <3>1. p * (sum * W) = (p * W) * sum /\ (W * W) * (p * p) = (p * W) * (p * W)
      OBVIOUS
    <3> QED BY <2>5, <3>1
  <2>7. p * W \in Nat \ {0}
    OBVIOUS
  <2>8. sum < p * W
    BY <2>6, <2>7, CancelLess
  <2>9. W * p <= W * W
    BY Monotone
  <2> QED BY <2>8, <2>9
<1>13. rem \in Int
  BY DEF rem
<1>14. 0 <= rem
  <2>1. W * (q * W) <= W * sum
    BY Monotone
  <2>2. q * (W * W) <= res * nq
    <3>1. W * (q * W) = q * (W * W) /\ W * sum = sum * W
      OBVIOUS
    <3> QED BY <2>1, <3>1, <1>8, <1>10
  <2>3. p * (q * (W * W)) <= p * (res * nq)
    BY <2>2, Monotone
  <2>4. p * (q * (W * W)) = (W * W) * (q * p)
    OBVIOUS
  <2>5. (W * W) * (q * p) <= (W * W) * res
    BY <2>3, <2>4, <1>11
  <2>6. CASE rem < 0
    <3>1. (W * W) * (res + 1) <= (W * W) * (q * p)
      BY <2>6, Monotone
    <3>2. (W * W) * (res + 1) = (W * W) * res + W * W
      OBVIOUS
    <3> QED BY <3>1, <3>2, <2>5
  <2> QED BY <2>6, <1>13
<1>15. rem < 2 * p
  <2>1. W * (sum + 1) <= W * (q * W + W)
    BY Monotone
  <2>2. res * nq <= q * (W * W) + W * W - W + lo * W
    <3>1. W * (sum + 1) = sum * W + W /\ W * (q * W + W) = q * (W * W) + W * W
      OBVIOUS
    <3> QED BY <2>1, <3>1, <1>8, <1>10
  <2>3. res * nq + res <= q * (W * W) + W * W + W * W - W
    BY <2>2, <1>6
  <2>4. p * (res * nq + res) <= p * (q * (W * W) + W * W + W * W - W)
    BY <2>3, Monotone
  <2>5. p * (res * nq + res) = p * (res * nq) + res * p
    OBVIOUS
  <2>6. p * (q * (W * W) + W * W + W * W - W) = (W * W) * (q * p + 2 * p) - p * W
    OBVIOUS
  <2>7. (W * W) * res < (W * W) * (q * p + 2 * p)
    <3>1. p * W > 0 /\ (W * W) * res = res * (W * W)
      OBVIOUS
    <3> QED BY <2>4, <2>5, <2>6, <1>11, <3>1
  <2>8. res < q * p + 2 * p
    BY <2>7, CancelLess
  <2> QED BY <2>8
<1>16. mulmod(x, y, p) = Correct(rem, p)
  <2>1. sum % (W * W) = sum
    BY <1>12
  <2>2. Quotient(res, p) = q
    BY <2>1 DEF Quotient, High, q, sum, lo, hi, rh
  <2>3. Low(rem) = rem
    BY <1>13, <1>14, <1>15, LowOfWord
  <2> QED BY <2>2, <2>3 DEF mulmod, res
<1>17. CASE rem < p
  <2>1. res = q * p + rem /\ rem \in 0 .. p - 1
    BY <1>13, <1>14, <1>17
  <2>2. res % p = rem
    BY <2>1, ModMultiple
  <2> QED BY <2>2, <1>13, <1>16, <1>17 DEF Correct, res
<1>18. CASE rem >= p
  <2>1. rem - p \in 0 .. p - 1 /\ q + 1 \in Nat /\ res = (q + 1) * p + (rem - p)
    BY <1>13, <1>15, <1>18
  <2>2. PICK e \in Int, f \in 0 .. p - 1 : e = q + 1 /\ f = rem - p
    BY <2>1
  <2>3. res % p = f
    BY <2>1, <2>2, ModMultiple
  <2> QED BY <2>2, <2>3, <1>13, <1>16, <1>18 DEF Correct, res
<1> QED BY <1>13, <1>17, <1>18
-----------------------------------------------------------------------------
LEMMA SumStaysBelow ==
  ASSUME NEW p \in Nat \ {0}, 4 * p <= W,
         NEW u0 \in 0 .. 2 * p - 1, NEW u1 \in 0 .. 2 * p - 1
  PROVE  SumOf(u0, u1, p) \in 0 .. 2 * p - 1
<1>1. Low(u0 + u1) = u0 + u1
  BY WordAssumption, LowOfWord
<1> QED BY <1>1 DEF SumOf, Correct

LEMMA DiffFitsWord ==
  ASSUME NEW p \in Nat \ {0}, 4 * p <= W,
         NEW u0 \in 0 .. 2 * p - 1, NEW u1 \in 0 .. 2 * p - 1
  PROVE  LazyDiff(u0, u1, p) = u0 - u1 + 2 * p /\ LazyDiff(u0, u1, p) \in 0 .. W - 1
<1>1. u0 - u1 + 2 * p \in 0 .. W - 1
  BY WordAssumption
<1> QED BY <1>1, LowOfWord DEF LazyDiff

\* The partner of an index within its block, and the entry of the table it needs.
LEMMA Partners ==
  ASSUME NEW h \in Nat \ {0}, NEW M \in Nat, NEW j \in 0 .. M * (2 * h) - 1
  PROVE  /\ j % (2 * h) \in 0 .. 2 * h - 1
         /\ j % (2 * h) < h => j + h \in 0 .. M * (2 * h) - 1
         /\ j % (2 * h) >= h => j - h \in 0 .. M * (2 * h) - 1
<1> DEFINE wd == 2 * h
           e == j \div wd
           i == j % wd
<1>1. wd \in Nat \ {0} /\ j \in Nat /\ M * wd \in Nat
  OBVIOUS
<1>2. e \in Nat /\ i \in 0 .. wd - 1 /\ j = e * wd + i
  BY <1>1, Z3
<1> HIDE DEF e, i
<1>3. wd * e < wd * M
  <2>1. wd * e <= j /\ j < wd * M
    BY <1>1, <1>2
  <2> QED BY <2>1, <1>1, <1>2
<1>4. e < M
  BY <1>1, <1>2, <1>3, CancelLess
<1>5. wd * (e + 1) <= wd * M
  BY <1>1, <1>2, <1>4, Monotone
<1>6. wd * (e + 1) = e * wd + wd
  BY <1>1, <1>2
<1>7. e * wd \in Nat
  BY <1>1, <1>2
<1> QED BY <1>1, <1>2, <1>5, <1>6, <1>7 DEF i

\* "WordsFit" for one layer: whatever powers its table holds, words below 2p go to
\* words below 2p, and no sum or difference on the way leaves the word as long as
\* the modulus leaves two bits of it free (algos.hpp:29).
THEOREM LayerStaysBelow ==
  ASSUME NEW p \in Nat \ {0}, 4 * p <= W,
         NEW h \in Nat \ {0}, NEW M \in Nat,
         NEW x \in [Ix(M * (2 * h)) -> 0 .. 2 * p - 1],
         NEW tb \in [Ix(h) -> 0 .. p - 1]
  PROVE  Layer(x, 2 * h, tb, Shoups(tb, p), p) \in [Ix(M * (2 * h)) -> 0 .. 2 * p - 1]
<1> DEFINE wd == 2 * h
           sz == M * wd
           y(j) == LET i == j % wd
                       k == i - wd \div 2
                   IN  IF i < wd \div 2
                         THEN SumOf(x[j], x[j + wd \div 2], p)
                         ELSE ShoupLazy(LazyDiff(x[j - wd \div 2], x[j], p),
                                        tb[k], Shoups(tb, p)[k], p)
<1>1. wd \div 2 = h
  OBVIOUS
<1>2. ASSUME NEW j \in 0 .. sz - 1 PROVE y(j) \in 0 .. 2 * p - 1
  <2> DEFINE i == j % wd
  <2>1. /\ i \in 0 .. wd - 1
        /\ i < h => j + h \in 0 .. sz - 1
        /\ i >= h => j - h \in 0 .. sz - 1
    BY Partners
  <2> HIDE DEF i
  <2>2. CASE i < h
    <3>1. x[j] \in 0 .. 2 * p - 1 /\ x[j + h] \in 0 .. 2 * p - 1
      BY <2>1, <2>2 DEF Ix
    <3>2. y(j) = SumOf(x[j], x[j + h], p)
      BY <1>1, <2>2 DEF i
    <3> QED BY <3>1, <3>2, SumStaysBelow
  <2>3. CASE i >= h
    <3> DEFINE k == i - h
               d == LazyDiff(x[j - h], x[j], p)
    <3>1. x[j] \in 0 .. 2 * p - 1 /\ x[j - h] \in 0 .. 2 * p - 1
      BY <2>1, <2>3 DEF Ix
    <3>2. k \in Ix(h)
      BY <2>1, <2>3 DEF Ix
    <3>3. tb[k] \in 0 .. p - 1 /\ tb[k] % p = tb[k]
      <4>1. tb[k] \in 0 .. p - 1
        BY <3>2
      <4> QED BY <4>1
    <3>4. Shoups(tb, p)[k] = compute_shoup(tb[k], p)
      BY <3>2, <3>3 DEF Shoups, compute_shoup
    <3>5. d \in 0 .. W - 1
      BY <3>1, DiffFitsWord
    <3>6. ShoupLazy(d, tb[k], compute_shoup(tb[k], p), p) \in 0 .. 2 * p - 1
      <4> HIDE DEF d, k
      <4>1. 2 * p <= W
        BY WordAssumption
      <4> QED BY <3>3, <3>5, <4>1, ShoupBelowTwice
    <3>7. ~(i < h)
      BY <2>1, <2>3
    <3>8. y(j) = ShoupLazy(d, tb[k], Shoups(tb, p)[k], p)
      BY <1>1, <3>7 DEF i
    <3> QED BY <3>4, <3>6, <3>8
  <2> QED BY <2>1, <2>2, <2>3
<1>3. DOMAIN x = 0 .. sz - 1
  BY DEF Ix
<1>4. Layer(x, wd, tb, Shoups(tb, p), p) = [j \in 0 .. sz - 1 |-> y(j)]
  BY <1>3 DEF Layer
<1> QED BY <1>2, <1>4 DEF Ix
-----------------------------------------------------------------------------
(***************************************************************************)
(* The kernels on the operands their callers have.                         *)
(***************************************************************************)
\* What params.hpp guarantees of a modulus.
Spare(p) == p \in Nat /\ p >= 2 /\ 4 * p <= W /\ Pn(p) * W + p * p <= W * W

LEMMA ModBelow ==
  ASSUME NEW x \in Int, NEW d \in Nat \ {0}
  PROVE  x % d \in 0 .. d - 1 /\ \E e \in Int : x = e * d + (x % d)
<1>1. x \div d \in Int /\ x % d \in 0 .. d - 1 /\ x = (x \div d) * d + (x % d)
  BY Z3
<1> QED BY <1>1

LEMMA MulmodBelow ==
  ASSUME NEW p, Spare(p), NEW x \in 0 .. p - 1, NEW y \in 0 .. p - 1
  PROVE  mulmod(x, y, p) = (x * y) % p /\ mulmod(x, y, p) \in 0 .. p - 1
<1>1. p \in Nat \ {0} /\ 2 * p <= W /\ Pn(p) * W + p * p <= W * W
  BY WordAssumption DEF Spare
<1>2. x * y \in Int
  BY <1>1
<1> QED BY <1>1, <1>2, MulmodExact, ModBelow

LEMMA ShoupExact ==
  ASSUME NEW p, Spare(p), NEW x \in 0 .. W - 1, NEW y \in 0 .. p - 1
  PROVE  /\ mulmod_shoup(x, y, compute_shoup(y, p), p) = (x * y) % p
         /\ mulmod_shoup(x, y, compute_shoup(y, p), p) \in 0 .. p - 1
<1> DEFINE z == ShoupLazy(x, y, compute_shoup(y, p), p)
<1>1. p \in Nat \ {0} /\ 2 * p <= W /\ x \in Int /\ y \in Int /\ W \in Nat
  BY WordAssumption DEF Spare
<1>2. z \in 0 .. 2 * p - 1 /\ \E k \in Nat : x * y = k * p + z
  BY <1>1, ShoupBelowTwice
<1> HIDE DEF z
<1>3. PICK k \in Nat : x * y = k * p + z
  BY <1>2
<1>4. Correct(z, p) = (x * y) % p
  <2>1. CASE z < p
    <3>1. z \in 0 .. p - 1 /\ k \in Int
      BY <1>1, <1>2, <2>1
    <3>2. (k * p + z) % p = z
      BY <1>1, <3>1, ModMultiple
    <3> QED BY <1>1, <1>2, <1>3, <2>1, <3>1, <3>2 DEF Correct
  <2>2. CASE z >= p
    <3>1. PICK e \in Int, f \in 0 .. p - 1 : e = k + 1 /\ f = z - p
      BY <1>1, <1>2, <2>2
    <3>2. x * y = e * p + f
      BY <1>1, <1>2, <1>3, <3>1
    <3>3. (e * p + f) % p = f
      BY <1>1, ModMultiple
    <3> QED BY <1>2, <2>2, <3>1, <3>2, <3>3 DEF Correct
  <2> QED BY <1>1, <1>2, <2>1, <2>2
<1>5. x * y \in Int
  BY <1>1
<1> QED BY <1>1, <1>4, <1>5, ModBelow DEF mulmod_shoup, z

LEMMA AddmodExact ==
  ASSUME NEW p, Spare(p), NEW x \in 0 .. p - 1, NEW y \in 0 .. p
  PROVE  addmod(x, y, p) = (x + y) % p
<1>1. p \in Nat \ {0} /\ x + y \in 0 .. W - 1 /\ W \in Nat
  BY WordAssumption DEF Spare
<1>2. Low(x + y) = x + y
  BY <1>1, LowOfWord
<1>3. CASE x + y < p
  <2>1. x + y \in 0 .. p - 1 /\ x + y = 0 * p + (x + y)
    BY <1>1, <1>3
  <2>2. PICK f \in 0 .. p - 1 : f = x + y
    BY <2>1
  <2>3. (0 * p + f) % p = f
    BY <1>1, ModMultiple
  <2> QED BY <1>1, <1>2, <1>3, <2>1, <2>2, <2>3 DEF addmod, Correct
<1>4. CASE x + y >= p
  <2>1. PICK f \in 0 .. p - 1 : f = x + y - p
    BY <1>1, <1>4
  <2>2. x + y = 1 * p + f
    BY <1>1, <2>1
  <2>3. (1 * p + f) % p = f
    BY <1>1, ModMultiple
  <2> QED BY <1>1, <1>2, <1>4, <2>1, <2>2, <2>3 DEF addmod, Correct
<1> QED BY <1>1, <1>3, <1>4

\* The lanes of the vectorised sum compare as the words do.
LEMMA LanesCompare ==
  ASSUME NEW e \in Nat \ {0}, W = 2 * e, NEW z \in 0 .. e - 1
  PROVE  AsSigned(Low(z - e)) = z - e
<1>1. z - e = (-1) * W + (z + e) /\ z + e \in 0 .. W - 1 /\ W \in Nat \ {0}
  OBVIOUS
<1>2. PICK y \in 0 .. W - 1 : y = z + e
  BY <1>1
<1>3. ((-1) * W + y) % W = y
  BY <1>1, ModMultiple
<1>4. Low(z - e) = y
  BY <1>1, <1>2, <1>3 DEF Low
<1>5. W \div 2 = e
  OBVIOUS
<1>6. ~ (y < e) /\ y - W = z - e
  BY <1>1, <1>2
<1> QED BY <1>4, <1>5, <1>6 DEF AsSigned

LEMMA LanesExact ==
  ASSUME NEW p, Spare(p), NEW x \in 0 .. p - 1, NEW y \in 0 .. p - 1
  PROVE  addmod_avx2(x, y, p) = (x + y) % p
<1>1. PICK e \in Nat \ {0} : W = 2 * e
  <2>1. W \in Nat \ {0} /\ W % 2 = 0
    BY WordAssumption
  <2> QED BY <2>1
<1>2. p \in Nat \ {0} /\ 2 * p <= e /\ x + y \in 0 .. W - 1 /\ p - 1 \in 0 .. e - 1
  BY <1>1 DEF Spare
<1>3. PICK z \in 0 .. e - 1 : z = x + y
  BY <1>1, <1>2
<1>4. Low(x + y) = z /\ W \div 2 = e
  BY <1>1, <1>2, <1>3, LowOfWord
<1>5. AsSigned(Low(z - e)) = z - e
  BY <1>1, LanesCompare
<1>6. PICK d \in 0 .. e - 1 : d = p - 1
  BY <1>2
<1>7. AsSigned(Low(d - e)) = d - e /\ d - e = p - e - 1
  BY <1>1, <1>2, <1>6, LanesCompare
<1>8. addmod_avx2(x, y, p) = IF z - e > d - e THEN Low(z - p) ELSE z
  BY <1>4, <1>5, <1>7 DEF addmod_avx2
<1>9. addmod(x, y, p) = (x + y) % p
  BY <1>2, AddmodExact
<1>10. addmod(x, y, p) = IF z >= p THEN z - p ELSE z
  BY <1>4 DEF addmod, Correct
<1>11. CASE z >= p
  <2>1. z - p \in 0 .. W - 1 /\ z - e > d - e
    BY <1>1, <1>2, <1>3, <1>6, <1>11
  <2>2. Low(z - p) = z - p
    BY <2>1, LowOfWord
  <2> QED BY <1>8, <1>9, <1>10, <1>11, <2>1, <2>2
<1>12. CASE ~ (z >= p)
  <2>1. ~ (z - e > d - e)
    BY <1>1, <1>2, <1>3, <1>6, <1>12
  <2> QED BY <1>8, <1>9, <1>10, <1>12, <2>1
<1> QED BY <1>11, <1>12

LEMMA SubmodExact ==
  ASSUME NEW p, Spare(p), NEW x \in 0 .. p - 1, NEW y \in 0 .. p - 1
  PROVE  submod(x, y, p) = (x - y) % p
<1>1. p \in Nat \ {0} /\ p - y \in 0 .. p /\ p - y \in 0 .. W - 1 /\ W \in Nat
  BY WordAssumption DEF Spare
<1>2. PICK c \in 0 .. p : c = p - y
  BY <1>1
<1>3. Low(p - y) = c
  BY <1>1, <1>2, LowOfWord
<1>4. addmod(x, c, p) = (x + c) % p
  BY AddmodExact
<1>5. (x + c) % p = (x - y) % p
  <2>1. PICK e \in Int, f \in 0 .. p - 1 : x - y = e * p + f
    <3>1. x - y \in Int
      BY <1>1
    <3>2. (x - y) % p \in 0 .. p - 1 /\ \E e \in Int : x - y = e * p + ((x - y) % p)
      BY <1>1, <3>1, ModBelow
    <3>3. PICK f \in 0 .. p - 1 : f = (x - y) % p
      BY <3>2
    <3> QED BY <3>2, <3>3
  <2>2. x + c = (e + 1) * p + f
    BY <1>1, <1>2, <2>1
  <2>3. PICK g \in Int : g = e + 1
    OBVIOUS
  <2>4. (e * p + f) % p = f
    BY <1>1, ModMultiple
  <2>5. (g * p + f) % p = f
    BY <1>1, ModMultiple
  <2> QED BY <2>1, <2>2, <2>3, <2>4, <2>5
<1> QED BY <1>3, <1>4, <1>5 DEF submod

LEMMA LazyCongruent ==
  ASSUME NEW p, Spare(p), NEW x \in 0 .. W - 1, NEW y \in 0 .. p - 1,
         NEW z, z = ShoupLazy(x, y, compute_shoup(y, p), p)
  PROVE  z \in 0 .. 2 * p - 1 /\ (z - y * x) % p = 0
<1>1. p \in Nat \ {0} /\ 2 * p <= W /\ x \in Int /\ y \in Int
  BY WordAssumption DEF Spare
<1>2. z \in 0 .. 2 * p - 1 /\ \E k \in Nat : x * y = k * p + z
  BY <1>1, ShoupBelowTwice
<1>3. PICK k \in Nat : x * y = k * p + z
  BY <1>2
<1>4. PICK e \in Int : e = -k
  OBVIOUS
<1>5. z - y * x = e * p + 0
  BY <1>1, <1>2, <1>3, <1>4
<1>6. 0 \in 0 .. p - 1
  BY <1>1
<1>7. (e * p + 0) % p = 0
  BY <1>1, <1>6, ModMultiple
<1> QED BY <1>2, <1>5, <1>7
-----------------------------------------------------------------------------
(***************************************************************************)
(* The recursive functions of Transform: each has values, in the range its *)
(* step keeps, wherever it is defined.                                     *)
(***************************************************************************)
\* The least number of a set of numbers: the library states it for every
\* well-founded relation, without an operator as a parameter.
LEMMA LeastNumber ==
  ASSUME NEW S \in SUBSET Nat, S # {}
  PROVE  \E x \in S : \A y \in S : x <= y
<1> DEFINE Less == OpToRel(<, Nat)
<1>1. IsWellFoundedOn(Less, Nat)
  BY NatLessThanWellFounded
<1>2. \A x, y \in Nat : <<x, y>> \in Less <=> x < y
  BY DEF OpToRel
<1> HIDE DEF Less
<1>3. PICK x \in S : \A y \in S : <<y, x>> \notin Less
  BY <1>1, WFMin
<1>4. \A y \in S : ~ (y < x)
  BY <1>2, <1>3
<1> QED BY <1>4

\* A set that holds every number of an interval whose predecessors there it holds
\* holds the whole interval.
LEMMA CourseOfValues ==
  ASSUME NEW b \in Nat, NEW m \in Nat, NEW S,
         \A k \in b .. m : (\A j \in b .. k - 1 : j \in S) => k \in S
  PROVE  b .. m \subseteq S
<1> DEFINE Bad == {k \in b .. m : k \notin S}
<1> SUFFICES ASSUME Bad # {} PROVE FALSE
  OBVIOUS
<1>1. Bad \in SUBSET Nat
  OBVIOUS
<1>2. PICK x \in Bad : \A y \in Bad : x <= y
  BY <1>1, LeastNumber
<1>3. \A j \in b .. x - 1 : j \in S
  BY <1>2
<1> QED BY <1>2, <1>3

\* h starts with w at b and takes, at every later k, a step from its value at d[k].
RecursionOver(b, m, S, w, d, g) ==
  /\ b \in Nat /\ m \in Nat /\ b <= m /\ w \in S
  /\ d \in [b + 1 .. m -> Nat] /\ \A k \in b + 1 .. m : d[k] \in b .. k - 1
  /\ g \in [b + 1 .. m -> [S -> S]]
SolvedBy(h, b, m, S, w, d, g) ==
  /\ h \in [b .. m -> S] /\ h[b] = w
  /\ \A k \in b + 1 .. m : h[k] = g[k][h[d[k]]]

\* There is such a function.
LEMMA Recursion ==
  ASSUME NEW b, NEW m, NEW S, NEW w, NEW d, NEW g, RecursionOver(b, m, S, w, d, g)
  PROVE  \E h : SolvedBy(h, b, m, S, w, d, g)
<1> USE DEF RecursionOver
<1> DEFINE Eq(h, l) == /\ h \in [b .. l -> S] /\ h[b] = w
                       /\ \A k \in b + 1 .. l : h[k] = g[k][h[d[k]]]
           Has == {l \in b .. m : \E h : Eq(h, l)}
<1>1. ASSUME NEW l \in b .. m, \A j \in b .. l - 1 : j \in Has
      PROVE  l \in Has
  <2>1. CASE l = b
    <3>1. Eq([k \in b .. b |-> w], b)
      OBVIOUS
    <3> QED BY <2>1, <3>1
  <2>2. CASE l # b
    <3>1. l - 1 \in b .. l - 1 /\ l \in b + 1 .. m
      BY <2>2
    <3>2. PICK h : Eq(h, l - 1)
      BY <1>1, <3>1
    <3> DEFINE e == [k \in b .. l |-> IF k <= l - 1 THEN h[k] ELSE g[l][h[d[l]]]]
    <3>3. d[l] \in b .. l - 1 /\ h[d[l]] \in S /\ g[l][h[d[l]]] \in S
      BY <3>1, <3>2
    <3>4. e \in [b .. l -> S] /\ e[b] = w
      BY <3>1, <3>2, <3>3
    <3>5. ASSUME NEW k \in b + 1 .. l PROVE e[k] = g[k][e[d[k]]]
      <4>1. CASE k = l
        BY <3>1, <3>3, <4>1
      <4>2. CASE k # l
        <5>1. k \in b + 1 .. l - 1 /\ k \in b + 1 .. m
          BY <4>2
        <5>2. d[k] \in b .. l - 1 /\ e[d[k]] = h[d[k]] /\ e[k] = h[k]
          BY <5>1, SMTT(30)
        <5> QED BY <3>2, <5>1, <5>2
      <4> QED BY <4>1, <4>2
    <3> HIDE DEF e
    <3>6. Eq(e, l)
      BY <3>4, <3>5
    <3> QED BY <3>6
  <2> QED BY <2>1, <2>2
<1> HIDE DEF Has
<1>2. b .. m \subseteq Has
  BY <1>1, CourseOfValues
<1>3. m \in Has
  BY <1>2
<1> QED BY <1>3 DEF Has, SolvedBy

\* The squarings of a residue, down to the residue itself.
LEMMA SquaredFunction ==
  ASSUME NEW p, Spare(p), NEW w \in 0 .. p - 1, NEW m \in Nat \ {0}
  PROVE  \E q : /\ Squared(w, m, p) = q[m] /\ q[1] = w
                /\ \A k \in 1 .. m : /\ q[k] \in 0 .. p - 1
                                     /\ k # 1 => q[k] = mulmod(q[k \div 2], q[k \div 2], p)
<1> DEFINE S == 0 .. p - 1
           d == [k \in 2 .. m |-> k \div 2]
           g == [k \in 2 .. m |-> [v \in S |-> mulmod(v, v, p)]]
           Def(f) == [k \in 1 .. m |-> IF k = 1 THEN w
                                       ELSE LET v == f[k \div 2] IN mulmod(v, v, p)]
           q == CHOOSE f : f = Def(f)
<1>1. \A k \in 2 .. m : k \div 2 \in 1 .. k - 1
  OBVIOUS
<1>2. d \in [1 + 1 .. m -> Nat] /\ \A k \in 1 + 1 .. m : d[k] \in 1 .. k - 1 /\ d[k] = k \div 2
  BY <1>1
<1>3. \A v \in S : mulmod(v, v, p) \in S
  BY MulmodBelow
<1>4. g \in [1 + 1 .. m -> [S -> S]] /\ \A k \in 1 + 1 .. m, v \in S : g[k][v] = mulmod(v, v, p)
  BY <1>3
<1>5. 1 \in Nat /\ m \in Nat /\ 1 <= m /\ w \in S
  OBVIOUS
<1> HIDE DEF d, g, S
<1>6. PICK h \in [1 .. m -> S] : h[1] = w /\ \A k \in 1 + 1 .. m : h[k] = g[k][h[d[k]]]
  <2>1. RecursionOver(1, m, S, w, d, g)
    BY <1>2, <1>4, <1>5 DEF RecursionOver
  <2>2. PICK h : SolvedBy(h, 1, m, S, w, d, g)
    BY <2>1, Recursion
  <2> QED BY <2>2 DEF SolvedBy
<1>7. ASSUME NEW k \in 1 .. m, k # 1 PROVE h[k] = mulmod(h[k \div 2], h[k \div 2], p)
  <2>1. k \in 1 + 1 .. m /\ k \div 2 \in 1 .. m
    BY <1>1, <1>7
  <2>2. d[k] = k \div 2 /\ h[k \div 2] \in S /\ h[k] = g[k][h[d[k]]]
    BY <1>2, <1>6, <2>1
  <2> QED BY <1>4, <2>1, <2>2
<1>8. h = Def(h)
  BY <1>6, <1>7
<1>9. q = Def(q)
  BY <1>8
<1>10. Squared(w, m, p) = q[m]
  BY DEF Squared
<1> HIDE DEF q
<1> DEFINE Good == {k \in 1 .. m : q[k] \in S}
<1>11. ASSUME NEW k \in 1 .. m, \A j \in 1 .. k - 1 : j \in Good PROVE k \in Good
  <2>1. CASE k = 1
    BY <1>5, <1>9, <2>1
  <2>2. CASE k # 1
    <3>1. k \div 2 \in 1 .. k - 1
      BY <1>1, <2>2
    <3>2. q[k \div 2] \in S
      BY <1>11, <3>1
    <3>3. q[k] = mulmod(q[k \div 2], q[k \div 2], p)
      BY <1>9, <2>2
    <3> QED BY <1>3, <3>2, <3>3
  <2> QED BY <2>1, <2>2
<1> HIDE DEF Good
<1>12. 1 .. m \subseteq Good
  BY <1>5, <1>11, CourseOfValues
<1>13. \A k \in 1 .. m : q[k] \in 0 .. p - 1
  BY <1>12 DEF Good, S
<1>14. q[1] = w
  BY <1>5, <1>9
<1>15. \A k \in 1 .. m : k # 1 => q[k] = mulmod(q[k \div 2], q[k \div 2], p)
  BY <1>9
<1> QED BY <1>10, <1>13, <1>14, <1>15

LEMMA SquaredBelow ==
  ASSUME NEW p, Spare(p), NEW w \in 0 .. p - 1, NEW m \in Nat \ {0}
  PROVE  Squared(w, m, p) \in 0 .. p - 1
<1>1. m \in 1 .. m
  OBVIOUS
<1> QED BY <1>1, SquaredFunction

\* The powers that a table holds.
LEMMA PowersBelow ==
  ASSUME NEW p, Spare(p), NEW w \in 0 .. p - 1, NEW base \in 0 .. p - 1, NEW sz \in Nat \ {0}
  PROVE  /\ Powers(w, base, sz, p) \in [Ix(sz) -> 0 .. p - 1]
         /\ Powers(w, base, sz, p)[0] = w
         /\ \A i \in 1 .. sz - 1 :
              Powers(w, base, sz, p)[i] = mulmod(Powers(w, base, sz, p)[i - 1], base, p)
<1> DEFINE S == 0 .. p - 1
           m == sz - 1
           d == [k \in 1 .. m |-> k - 1]
           g == [k \in 1 .. m |-> [v \in S |-> mulmod(v, base, p)]]
           Def(f) == [i \in Ix(sz) |-> IF i = 0 THEN w ELSE mulmod(f[i - 1], base, p)]
           q == CHOOSE f : f = Def(f)
<1>1. Ix(sz) = 0 .. m /\ m \in Nat
  BY DEF Ix
<1>2. d \in [0 + 1 .. m -> Nat] /\ \A k \in 0 + 1 .. m : d[k] \in 0 .. k - 1 /\ d[k] = k - 1
  OBVIOUS
<1>3. \A v \in S : mulmod(v, base, p) \in S
  BY MulmodBelow
<1>4. g \in [0 + 1 .. m -> [S -> S]] /\ \A k \in 0 + 1 .. m, v \in S : g[k][v] = mulmod(v, base, p)
  BY <1>3
<1>5. 0 \in Nat /\ 0 <= m /\ w \in S
  BY <1>1
<1> HIDE DEF d, g, S, m
<1>6. PICK h \in [0 .. m -> S] : h[0] = w /\ \A k \in 0 + 1 .. m : h[k] = g[k][h[d[k]]]
  <2>1. RecursionOver(0, m, S, w, d, g)
    BY <1>1, <1>2, <1>4, <1>5 DEF RecursionOver
  <2>2. PICK h : SolvedBy(h, 0, m, S, w, d, g)
    BY <2>1, Recursion
  <2> QED BY <2>2 DEF SolvedBy
<1>7. ASSUME NEW k \in 0 .. m, k # 0 PROVE h[k] = mulmod(h[k - 1], base, p)
  <2>1. k \in 0 + 1 .. m /\ k - 1 \in 0 .. m
    BY <1>1, <1>7
  <2>2. d[k] = k - 1 /\ h[k - 1] \in S /\ h[k] = g[k][h[d[k]]]
    BY <1>2, <1>6, <2>1
  <2> QED BY <1>4, <2>1, <2>2
<1>8. h = Def(h)
  BY <1>1, <1>6, <1>7
<1>9. q = Def(q)
  BY <1>8
<1>10. Powers(w, base, sz, p) = [i \in Ix(sz) |-> q[i]]
  BY DEF Powers
<1> HIDE DEF q
<1> DEFINE Good == {k \in 0 .. m : q[k] \in S}
<1>11. ASSUME NEW k \in 0 .. m, \A j \in 0 .. k - 1 : j \in Good PROVE k \in Good
  <2>1. CASE k = 0
    BY <1>1, <1>5, <1>9, <2>1
  <2>2. CASE k # 0
    <3>1. k - 1 \in 0 .. k - 1
      BY <1>1, <2>2
    <3>2. q[k - 1] \in S
      BY <1>11, <3>1
    <3>3. q[k] = mulmod(q[k - 1], base, p)
      BY <1>1, <1>9, <2>2
    <3> QED BY <1>3, <3>2, <3>3
  <2> QED BY <2>1, <2>2
<1> HIDE DEF Good
<1>12. 0 .. m \subseteq Good
  BY <1>1, <1>5, <1>11, CourseOfValues
<1> DEFINE P == Powers(w, base, sz, p)
<1>13. P \in [Ix(sz) -> 0 .. p - 1]
  BY <1>1, <1>10, <1>12 DEF Good, S
<1>14. P[0] = w
  BY <1>1, <1>9, <1>10
<1>15. ASSUME NEW i \in 1 .. sz - 1 PROVE P[i] = mulmod(P[i - 1], base, p)
  <2>1. i \in Ix(sz) /\ i - 1 \in Ix(sz) /\ i # 0
    BY DEF Ix
  <2>2. q[i] = mulmod(q[i - 1], base, p)
    BY <1>9, <2>1
  <2> QED BY <1>10, <2>1, <2>2
<1> QED BY <1>13, <1>14, <1>15

\* The index with its bits in the opposite order, one bit after the other.
LEMMA ReversedFunction ==
  ASSUME NEW i \in Nat, NEW m \in Nat \ {0}
  PROVE  \E q : /\ permut_compute(i, m) = q[m] /\ q[1] = 0
                /\ \A k \in 1 .. m : /\ q[k] \in 0 .. k - 1
                                     /\ k # 1 => q[k] = 2 * q[k \div 2] + ((i \div (k \div 2)) % 2)
<1> DEFINE bit(k) == (i \div (k \div 2)) % 2
           d == [k \in 2 .. m |-> k \div 2]
           g == [k \in 2 .. m |-> [v \in Int |-> 2 * v + bit(k)]]
           Def(f) == [k \in 1 .. m |-> IF k = 1 THEN 0 ELSE 2 * f[k \div 2] + bit(k)]
           q == CHOOSE f : f = Def(f)
<1>1. \A k \in 2 .. m : /\ k \div 2 \in 1 .. k - 1 /\ 2 * (k \div 2) <= k
                        /\ k \div 2 \in Nat \ {0}
  OBVIOUS
<1>2. d \in [1 + 1 .. m -> Nat] /\ \A k \in 1 + 1 .. m : d[k] \in 1 .. k - 1 /\ d[k] = k \div 2
  BY <1>1
<1>3. \A k \in 2 .. m : bit(k) \in 0 .. 1
  <2> TAKE k \in 2 .. m
  <2>1. k \div 2 \in Nat \ {0}
    BY <1>1
  <2>2. i \div (k \div 2) \in Int
    BY <2>1, DivisionBounds
  <2>3. 2 \in Nat \ {0}
    OBVIOUS
  <2>4. bit(k) \in 0 .. 2 - 1
    BY <2>2, <2>3, ModBelow
  <2> QED BY <2>4
<1> HIDE DEF bit
<1>4. g \in [1 + 1 .. m -> [Int -> Int]] /\ \A k \in 1 + 1 .. m, v \in Int : g[k][v] = 2 * v + bit(k)
  BY <1>3
<1>5. 1 \in Nat /\ m \in Nat /\ 1 <= m /\ 0 \in Int
  OBVIOUS
<1> HIDE DEF d, g
<1>6. PICK h \in [1 .. m -> Int] : h[1] = 0 /\ \A k \in 1 + 1 .. m : h[k] = g[k][h[d[k]]]
  <2>1. RecursionOver(1, m, Int, 0, d, g)
    BY <1>2, <1>4, <1>5 DEF RecursionOver
  <2>2. PICK h : SolvedBy(h, 1, m, Int, 0, d, g)
    BY <2>1, Recursion
  <2> QED BY <2>2 DEF SolvedBy
<1>7. ASSUME NEW k \in 1 .. m, k # 1 PROVE h[k] = 2 * h[k \div 2] + bit(k)
  <2>1. k \in 1 + 1 .. m /\ k \div 2 \in 1 .. m
    BY <1>1, <1>7
  <2>2. d[k] = k \div 2 /\ h[k \div 2] \in Int /\ h[k] = g[k][h[d[k]]]
    BY <1>2, <1>6, <2>1
  <2> QED BY <1>4, <2>1, <2>2
<1>8. h = Def(h)
  BY <1>6, <1>7
<1>9. q = Def(q)
  BY <1>8
<1>10. permut_compute(i, m) = q[m]
  BY DEF permut_compute, bit
<1> HIDE DEF q
<1> DEFINE Good == {k \in 1 .. m : q[k] \in 0 .. k - 1}
<1>11. ASSUME NEW k \in 1 .. m, \A j \in 1 .. k - 1 : j \in Good PROVE k \in Good
  <2>1. CASE k = 1
    BY <1>9, <2>1
  <2>2. CASE k # 1
    <3>1. k \div 2 \in 1 .. k - 1 /\ 2 * (k \div 2) <= k /\ bit(k) \in 0 .. 1
      BY <1>1, <1>3, <2>2
    <3>2. q[k \div 2] \in 0 .. (k \div 2) - 1
      BY <1>11, <3>1
    <3>3. q[k] = 2 * q[k \div 2] + bit(k)
      BY <1>9, <2>2
    <3>4. PICK u \in Nat, v \in Int, c \in 0 .. 1 : u = k \div 2 /\ v = q[k \div 2] /\ c = bit(k)
      BY <3>1, <3>2, SMTT(30)
    <3>5. q[k] = 2 * v + c /\ 0 <= v /\ v <= u - 1 /\ 2 * u <= k
      BY <3>1, <3>2, <3>3, <3>4
    <3>6. q[k] \in 0 .. k - 1
      BY <3>5
    <3> QED BY <3>6
  <2> QED BY <2>1, <2>2
<1> HIDE DEF Good
<1>12. 1 .. m \subseteq Good
  BY <1>5, <1>11, CourseOfValues
<1>13. \A k \in 1 .. m : q[k] \in 0 .. k - 1
  BY <1>12 DEF Good
<1>14. q[1] = 0
  BY <1>5, <1>9
<1>15. \A k \in 1 .. m : k # 1 => q[k] = 2 * q[k \div 2] + bit(k)
  BY <1>9
<1> QED BY <1>10, <1>13, <1>14, <1>15 DEF bit

\* It is an index again.
LEMMA ReversedBelow ==
  ASSUME NEW i \in Nat, NEW m \in Nat \ {0}
  PROVE  permut_compute(i, m) \in 0 .. m - 1
<1>1. m \in 1 .. m
  OBVIOUS
<1> QED BY <1>1, ReversedFunction

-----------------------------------------------------------------------------
(***************************************************************************)
(* The tables.                                                             *)
(***************************************************************************)
LEMMA ModuliSpare ==
  ASSUME NEW p \in Moduli
  PROVE  Spare(p) /\ MaxDegree \in Nat \ {0} /\ MaxDegree < p
<1>1. p \in Nat /\ p >= 2 /\ 4 * p <= W /\ Pn(p) * W + p * p <= W * W
  BY ModuliAssumption, BasisAssumption
<1>2. MaxDegree \in Nat \ {0} /\ p % (2 * MaxDegree) = 1
  BY BasisAssumption DEF Widths
<1>3. ASSUME p <= MaxDegree PROVE FALSE
  <2>1. PICK f \in 0 .. (2 * MaxDegree) - 1 : f = p
    BY <1>1, <1>2, <1>3
  <2>2. 2 * MaxDegree \in Nat \ {0}
    BY <1>2
  <2>3. (0 * (2 * MaxDegree) + f) % (2 * MaxDegree) = f
    BY <2>2, ModMultiple
  <2> QED BY <1>1, <1>2, <2>1, <2>3
<1> QED BY <1>1, <1>2, <1>3 DEF Spare

\* The literals that params.hpp lists are residues.
LEMMA LiteralsBelow ==
  ASSUME NEW p \in Moduli
  PROVE  primitive_root(p) \in 0 .. p - 1 /\ invkMaxPolyDegree(p) \in 0 .. p - 1
<1>1. p \in Nat /\ p >= 2
  BY ModuliAssumption
<1>2. primitive_root(p) \in 2 .. p - 1
  BY BasisAssumption DEF primitive_root
<1>3. invkMaxPolyDegree(p) \in 1 .. p - 1
  BY BasisAssumption DEF invkMaxPolyDegree
<1> QED BY <1>1, <1>2, <1>3

\* The widths of the layers are even, and halves of each other down to 4.
LEMMA WidthsHalve ==
  ASSUME NEW m \in Nat, NEW wd \in Widths(m)
  PROVE  /\ wd \in Nat /\ 2 <= wd /\ wd <= m
         /\ wd = 2 * (wd \div 2) /\ wd \div 2 \in Nat \ {0}
         /\ wd # 2 => wd >= 4
         /\ wd > 4 => wd \div 2 \in Widths(m) \ {2}
<1>1. wd \in 2 .. m /\ \A d \in 2 .. wd : wd % d = 0 => d % 2 = 0
  BY DEF Widths
<1>2. wd \in Nat /\ wd \in Nat \ {0} /\ 2 <= wd /\ wd <= m
  BY <1>1
<1>3. \A d \in 2 .. wd, k \in Int : wd = k * d => d % 2 = 0
  <2> SUFFICES ASSUME NEW d \in 2 .. wd, NEW k \in Int, wd = k * d PROVE wd % d = 0
    BY <1>1
  <2>1. d \in Nat \ {0} /\ 0 \in 0 .. d - 1 /\ wd = k * d + 0
    BY <1>2
  <2> QED BY <2>1, ModMultiple
<1>4. wd % 2 = 0
  <2>1. wd \in 2 .. wd /\ wd = 1 * wd
    BY <1>2
  <2> QED BY <1>3, <2>1
<1>5. wd = 2 * (wd \div 2) /\ wd \div 2 \in Nat \ {0}
  BY <1>2, <1>4
<1>6. PICK h \in Nat \ {0} : h = wd \div 2
  BY <1>5
<1>7. wd # 2 => wd >= 4
  BY <1>2, <1>5
<1>8. ASSUME wd > 4 PROVE h \in Widths(m) \ {2}
  <2>1. h \in 2 .. m /\ h # 2
    BY <1>2, <1>5, <1>6, <1>8
  <2>2. ASSUME NEW d \in 2 .. h, h % d = 0 PROVE d % 2 = 0
    <3>1. d \in Nat \ {0} /\ h \in Int
      BY <2>1
    <3>2. PICK e \in Int : h = e * d + (h % d)
      BY <3>1, ModBelow
    <3>3. PICK k \in Int : k = 2 * e
      OBVIOUS
    <3>4. wd = k * d
      BY <1>5, <1>6, <2>2, <3>1, <3>2, <3>3
    <3>5. d \in 2 .. wd
      BY <1>5, <1>6, <3>1
    <3> QED BY <1>3, <3>4, <3>5
  <2> QED BY <2>1, <2>2 DEF Widths
<1> QED BY <1>2, <1>5, <1>6, <1>7, <1>8

\* A table of m residues.
Table(m, p) == [Ix(m) -> 0 .. p - 1]

LEMMA WtabBelow ==
  ASSUME NEW p, Spare(p), NEW w \in 0 .. p - 1, NEW m \in Nat \ {0}, NEW K \in Widths(m)
  PROVE  /\ prep_wtab(w, m, p)[K] \in Table(K \div 2, p)
         /\ prep_wtabshoup(prep_wtab(w, m, p), p)[K] = Shoups(prep_wtab(w, m, p)[K], p)
<1>1. K \div 2 \in Nat \ {0} /\ K \in Nat \ {0} /\ K <= m
  BY WidthsHalve
<1>2. m \div K \in Nat \ {0}
  <2>1. m \div K \in Nat /\ m \div K >= 1
    BY <1>1, Division
  <2> QED BY <2>1
<1>3. Squared(w, m \div K, p) \in 0 .. p - 1
  BY <1>2, SquaredBelow
<1>4. 1 \in 0 .. p - 1
  BY DEF Spare
<1>5. prep_wtab(w, m, p)[K] = Powers(1, Squared(w, m \div K, p), K \div 2, p)
      /\ DOMAIN prep_wtab(w, m, p) = Widths(m)
  BY DEF prep_wtab
<1>6. Powers(1, Squared(w, m \div K, p), K \div 2, p) \in Table(K \div 2, p)
  BY <1>1, <1>3, <1>4, PowersBelow DEF Table
<1> QED BY <1>5, <1>6 DEF prep_wtabshoup

\* What the transforms use of the tables of one modulus.
Tables(T, m, p) ==
  /\ T.phis \in Table(m, p) /\ T.shoupphis = Shoups(T.phis, p)
  /\ \A K \in Widths(m) :
       /\ T.omegas[K] \in Table(K \div 2, p)
       /\ T.shoupomegas[K] = Shoups(T.omegas[K], p)
       /\ T.invomegas[K] \in Table(K \div 2, p)
       /\ T.shoupinvomegas[K] = Shoups(T.invomegas[K], p)
  /\ T.invpoly_times_invphis \in Table(m, p)
  /\ T.shoupinvpoly_times_invphis = Shoups(T.invpoly_times_invphis, p)

LEMMA TablesBelow ==
  ASSUME NEW p \in Moduli, NEW m \in Widths(MaxDegree)
  PROVE  Tables(initialize(m, p), m, p)
<1> DEFINE phi     == Squared(primitive_root(p), MaxDegree \div m, p)
           phis    == Powers(1, phi, m, p)
           invphi  == mulmod(mulmod(phis[m - 1], phi, p), phis[m - 1], p)
           invdeg  == mulmod(invkMaxPolyDegree(p), MaxDegree \div m, p)
           invphis == Powers(invdeg, invphi, m, p)
           root    == mulmod(phi, phi, p)
           invroot == mulmod(invphi, invphi, p)
           omega   == prep_wtab(root, m, p)
           inv     == prep_wtab(invroot, m, p)
           T       == initialize(m, p)
<1>1. Spare(p) /\ MaxDegree \in Nat \ {0} /\ MaxDegree < p /\ p \in Nat
  BY ModuliSpare DEF Spare
<1>2. m \in Nat \ {0} /\ m <= MaxDegree
  BY <1>1, WidthsHalve
<1>3. MaxDegree \div m \in Nat \ {0} /\ MaxDegree \div m <= MaxDegree
  <2>1. MaxDegree \div m \in Nat /\ MaxDegree \div m >= 1 /\ (MaxDegree \div m) * m <= MaxDegree
    BY <1>1, <1>2, Division, DivisionBounds
  <2>2. PICK q \in Nat : q = MaxDegree \div m
    BY <2>1
  <2>3. q * 1 <= q * m
    BY <1>2, Monotone
  <2> QED BY <1>1, <1>2, <2>1, <2>2, <2>3
<1>4. MaxDegree \div m \in 0 .. p - 1
  BY <1>1, <1>3
<1>5. 1 \in 0 .. p - 1
  BY <1>1 DEF Spare
<1>6. phi \in 0 .. p - 1
  BY <1>1, <1>3, LiteralsBelow, SquaredBelow
<1>7. T = [phis |-> phis, shoupphis |-> Shoups(phis, p),
           omegas |-> omega, shoupomegas |-> prep_wtabshoup(omega, p),
           invomegas |-> inv, shoupinvomegas |-> prep_wtabshoup(inv, p),
           invpoly_times_invphis |-> invphis,
           shoupinvpoly_times_invphis |-> Shoups(invphis, p)]
  BY DEF initialize
<1> HIDE DEF phi, T
<1>8. phis \in Table(m, p)
  BY <1>1, <1>2, <1>5, <1>6, PowersBelow DEF Table
<1> HIDE DEF phis
<1>9. phis[m - 1] \in 0 .. p - 1
  <2>1. m - 1 \in Ix(m)
    BY <1>2 DEF Ix
  <2> QED BY <1>8, <2>1 DEF Table
<1>10. invphi \in 0 .. p - 1
  <2>1. mulmod(phis[m - 1], phi, p) \in 0 .. p - 1
    BY <1>1, <1>6, <1>9, MulmodBelow
  <2> QED BY <1>1, <1>9, <2>1, MulmodBelow
<1>11. invdeg \in 0 .. p - 1
  BY <1>1, <1>4, LiteralsBelow, MulmodBelow
<1> HIDE DEF invphi, invdeg
<1>12. invphis \in Table(m, p)
  BY <1>1, <1>2, <1>10, <1>11, PowersBelow DEF Table
<1>13. root \in 0 .. p - 1
  BY <1>1, <1>6, MulmodBelow
<1>14. invroot \in 0 .. p - 1
  BY <1>1, <1>10, MulmodBelow
<1> HIDE DEF invphis, root, invroot
<1>15. ASSUME NEW K \in Widths(m)
       PROVE  /\ omega[K] \in Table(K \div 2, p)
              /\ prep_wtabshoup(omega, p)[K] = Shoups(omega[K], p)
  BY <1>1, <1>2, <1>13, WtabBelow
<1>16. ASSUME NEW K \in Widths(m)
       PROVE  /\ inv[K] \in Table(K \div 2, p)
              /\ prep_wtabshoup(inv, p)[K] = Shoups(inv[K], p)
  BY <1>1, <1>2, <1>14, WtabBelow
<1> HIDE DEF omega, inv
<1>17. /\ T.phis = phis /\ T.shoupphis = Shoups(phis, p)
       /\ T.omegas = omega /\ T.shoupomegas = prep_wtabshoup(omega, p)
       /\ T.invomegas = inv /\ T.shoupinvomegas = prep_wtabshoup(inv, p)
       /\ T.invpoly_times_invphis = invphis
       /\ T.shoupinvpoly_times_invphis = Shoups(invphis, p)
  BY <1>7
<1> QED BY <1>8, <1>12, <1>15, <1>16, <1>17 DEF Tables, T
-----------------------------------------------------------------------------
(***************************************************************************)
(* What the loops of the transforms do to words in their range.            *)
(***************************************************************************)
LEMMA ShoupsAre ==
  ASSUME NEW p, Spare(p), NEW m, NEW y \in Table(m, p), NEW i \in Ix(m)
  PROVE  y[i] \in 0 .. p - 1 /\ Shoups(y, p)[i] = compute_shoup(y[i], p)
<1>1. y[i] \in 0 .. p - 1 /\ DOMAIN y = Ix(m)
  BY DEF Table
<1>2. y[i] % p = y[i]
  <2>1. p \in Nat \ {0}
    BY DEF Spare
  <2>2. (0 * p + y[i]) % p = y[i]
    BY <1>1, <2>1, ModMultiple
  <2> QED BY <1>1, <2>1, <2>2
<1> QED BY <1>1, <1>2 DEF Shoups, compute_shoup

LEMMA ShoupProductBelow ==
  ASSUME NEW p, Spare(p), NEW m, NEW x \in [Ix(m) -> 0 .. W - 1], NEW y \in Table(m, p)
  PROVE  ShoupProduct(x, y, Shoups(y, p), p) \in Table(m, p)
<1>1. ASSUME NEW i \in Ix(m) PROVE mulmod_shoup(x[i], y[i], Shoups(y, p)[i], p) \in 0 .. p - 1
  <2>1. y[i] \in 0 .. p - 1 /\ Shoups(y, p)[i] = compute_shoup(y[i], p) /\ x[i] \in 0 .. W - 1
    BY ShoupsAre
  <2> QED BY <2>1, ShoupExact
<1> QED BY <1>1 DEF ShoupProduct, Table

LEMMA StrictBelow ==
  ASSUME NEW p, Spare(p), NEW m, NEW x \in Table(m, 2 * p)
  PROVE  Strict(x, p) \in Table(m, p)
<1>1. ASSUME NEW i \in Ix(m) PROVE Correct(x[i], p) \in 0 .. p - 1
  <2>1. x[i] \in 0 .. 2 * p - 1 /\ p \in Nat
    BY DEF Table, Spare
  <2> QED BY <2>1 DEF Correct
<1> QED BY <1>1 DEF Strict, Table

LEMMA PermutBelow ==
  ASSUME NEW S, NEW m \in Nat \ {0}, NEW x \in [Ix(m) -> S], Cardinality(Ix(m)) = m
  PROVE  permut(x) \in [Ix(m) -> S]
<1>1. ASSUME NEW i \in Ix(m) PROVE x[permut_compute(i, m)] \in S
  <2>1. i \in Nat
    BY DEF Ix
  <2>2. permut_compute(i, m) \in Ix(m)
    BY <2>1, ReversedBelow DEF Ix
  <2> QED BY <2>2
<1> QED BY <1>1 DEF permut

LEMMA SignedDiffBelow ==
  ASSUME NEW p, Spare(p), NEW u0 \in 0 .. 2 * p - 1, NEW u1 \in 0 .. 2 * p - 1
  PROVE  SignedDiff(u0, u1, p) \in 0 .. 2 * p - 1
<1>1. W \in Nat \ {0} /\ p \in Nat /\ 4 * p <= W /\ u0 \in Int /\ u1 \in Int
  BY WordAssumption DEF Spare
<1>2. CASE u0 >= u1
  <2>1. u0 - u1 \in 0 .. W - 1 /\ u0 - u1 \in 0 .. 2 * p - 1 /\ ~(2 * (u0 - u1) >= W)
    BY <1>1, <1>2
  <2>2. Low(u0 - u1) = u0 - u1
    BY <2>1, LowOfWord
  <2> QED BY <2>1, <2>2 DEF SignedDiff
<1>3. CASE u0 < u1
  <2>1. PICK d \in 0 .. W - 1 : d = W + (u0 - u1)
    BY <1>1, <1>3
  <2>2. u0 - u1 = (-1) * W + d
    BY <1>1, <2>1
  <2>3. Low(u0 - u1) = d
    BY <1>1, <2>2, ModMultiple DEF Low
  <2>4. PICK c \in 0 .. W - 1 : c = u0 - u1 + 2 * p
    BY <1>1, <1>3
  <2>5. d + 2 * p = 1 * W + c
    BY <1>1, <2>1, <2>4
  <2>6. Low(d + 2 * p) = c
    BY <1>1, <2>5, ModMultiple DEF Low
  <2>7. 2 * d >= W /\ c \in 0 .. 2 * p - 1
    BY <1>1, <1>3, <2>1, <2>4
  <2> QED BY <2>3, <2>6, <2>7 DEF SignedDiff
<1> QED BY <1>1, <1>2, <1>3

LEMMA LastGroupBelow ==
  ASSUME NEW p, Spare(p), NEW u \in [0 .. 3 -> 0 .. 2 * p - 1], NEW w \in 0 .. p - 1,
         NEW i \in 0 .. 3
  PROVE  LastGroup(u, w, compute_shoup(w, p), p)[i + 1] \in 0 .. 2 * p - 1
<1> DEFINE v0 == SumOf(u[0], u[2], p)
           v2 == SignedDiff(u[0], u[2], p)
           v1 == SumOf(u[1], u[3], p)
           v3 == ShoupLazy(LazyDiff(u[1], u[3], p), w, compute_shoup(w, p), p)
<1>1. p \in Nat \ {0} /\ 4 * p <= W /\ 2 * p <= W
  BY WordAssumption DEF Spare
<1>2. u[0] \in 0 .. 2 * p - 1 /\ u[1] \in 0 .. 2 * p - 1 /\ u[2] \in 0 .. 2 * p - 1
      /\ u[3] \in 0 .. 2 * p - 1
  OBVIOUS
<1>3. v0 \in 0 .. 2 * p - 1 /\ v1 \in 0 .. 2 * p - 1
  BY <1>1, <1>2, SumStaysBelow
<1>4. v2 \in 0 .. 2 * p - 1
  BY <1>2, SignedDiffBelow
<1>5. v3 \in 0 .. 2 * p - 1
  <2>1. LazyDiff(u[1], u[3], p) \in 0 .. W - 1
    BY <1>1, <1>2, DiffFitsWord
  <2> QED BY <1>1, <2>1, ShoupBelowTwice
<1>6. LastGroup(u, w, compute_shoup(w, p), p)
        = <<SumOf(v0, v1, p), SignedDiff(v0, v1, p), SumOf(v2, v3, p), SignedDiff(v2, v3, p)>>
  BY DEF LastGroup
<1> HIDE DEF v0, v1, v2, v3
<1>7. SumOf(v0, v1, p) \in 0 .. 2 * p - 1
  BY <1>1, <1>3, SumStaysBelow
<1>8. SumOf(v2, v3, p) \in 0 .. 2 * p - 1
  BY <1>1, <1>4, <1>5, SumStaysBelow
<1>9. SignedDiff(v0, v1, p) \in 0 .. 2 * p - 1
  BY <1>3, SignedDiffBelow
<1>10. SignedDiff(v2, v3, p) \in 0 .. 2 * p - 1
  BY <1>4, <1>5, SignedDiffBelow
<1>11. i = 0 \/ i = 1 \/ i = 2 \/ i = 3
  OBVIOUS
<1> QED BY <1>6, <1>7, <1>8, <1>9, <1>10, <1>11

\* "WordsFit" for the last two layers.
LEMMA LastLayersStayBelow ==
  ASSUME NEW p, Spare(p), NEW m \in Nat, NEW sz, sz = m * 4,
         NEW x \in Table(sz, 2 * p), NEW tb \in Table(2, p)
  PROVE  LastLayers(x, tb, Shoups(tb, p), p) \in Table(sz, 2 * p)
<1> DEFINE u(j) == [i \in 0 .. 3 |-> x[4 * (j \div 4) + i]]
<1>1. DOMAIN x = Ix(sz) /\ Ix(sz) = 0 .. m * 4 - 1
  BY DEF Table, Ix
<1>2. tb[1] \in 0 .. p - 1 /\ Shoups(tb, p)[1] = compute_shoup(tb[1], p)
  <2>1. 1 \in Ix(2)
    BY DEF Ix
  <2> QED BY <2>1, ShoupsAre
<1>3. ASSUME NEW j \in Ix(sz)
      PROVE  LastGroup(u(j), tb[1], Shoups(tb, p)[1], p)[(j % 4) + 1] \in 0 .. 2 * p - 1
  <2>1. j \div 4 \in 0 .. m - 1 /\ j % 4 \in 0 .. 3
    BY <1>1
  <2>2. ASSUME NEW i \in 0 .. 3 PROVE x[4 * (j \div 4) + i] \in 0 .. 2 * p - 1
    <3>1. 4 * (j \div 4) + i \in Ix(sz)
      BY <1>1, <2>1
    <3> QED BY <3>1 DEF Table
  <2>3. u(j) \in [0 .. 3 -> 0 .. 2 * p - 1]
    BY <2>2
  <2> HIDE DEF u
  <2> QED BY <1>2, <2>1, <2>3, LastGroupBelow
<1>4. LastLayers(x, tb, Shoups(tb, p), p)
        = [j \in Ix(sz) |-> LastGroup(u(j), tb[1], Shoups(tb, p)[1], p)[(j % 4) + 1]]
  BY <1>1 DEF LastLayers
<1> HIDE DEF u
<1> QED BY <1>3, <1>4 DEF Table
-----------------------------------------------------------------------------
(***************************************************************************)
(* The inductive invariant of an inversion in place: the layers hand each  *)
(* other words below twice the modulus, everyone else gets residues; the   *)
(* widths halve down to 4 and divide the degree; while the slots are       *)
(* inverted, from the first one on, no residue is zero, and                *)
(* residue_inverse is at the modulus of the slot, in a state of its own    *)
(* invariant.                                                              *)
(***************************************************************************)
Phases == {"convert", "twist", "layers", "check", "slots", "permute", "permute again",
           "untwist", "lift", "done"}

Shape ==
  /\ coeffs \in Inputs /\ tab = [p \in Moduli |-> initialize(n, p)]
  /\ phase \in Phases
  /\ phase # "slots" => pc = "idle"

WidthDivides == N \in Widths(n) \ {2} /\ \E k \in Nat : n = k * N

Bound(p) == IF phase = "layers" THEN 2 * p ELSE p
Residues ==
  phase # "convert" =>
    op = [p \in Moduli |-> op[p]] /\ \A p \in Moduli : op[p] \in Table(n, Bound(p))

Counters ==
  phase \in {"convert", "twist", "check"} \/ (phase = "layers" /\ ~back) => cm = 1 /\ slot = 0

Slots ==
  phase = "slots" =>
    /\ cm \in 1 .. Len(Basis) /\ slot \in Ix(n)
    /\ \A p \in Moduli, i \in Ix(n) : op[p][i] # 0
    /\ pc # "idle" => pm = Basis[cm]

Euclid ==
  /\ pc = "idle" => /\ pm \in Moduli /\ t \in Int /\ t1 \in Int
                    /\ Within(t) /\ Within(t1)
  /\ pc # "idle" => IInv

PolyInv == Shape /\ WidthDivides /\ Residues /\ Counters /\ Slots /\ Euclid

\* What every step needs of the degree and the moduli.
LEMMA Degree ==
  ASSUME coeffs \in Inputs
  PROVE  /\ n \in Nat \ {0} /\ n \in Widths(MaxDegree) /\ n \in Widths(n) \ {2}
         /\ coeffs \in [Ix(n) -> Int] /\ Cardinality(Ix(n)) = n
         /\ \E k \in Nat : n = k * n
<1>1. n \in Widths(MaxDegree) \ {2} /\ coeffs \in [Ix(n) -> Int] /\ MaxDegree \in Nat
  BY BasisAssumption DEF n
<1>2. n \in Nat /\ 2 <= n
  BY <1>1, WidthsHalve
<1>3. n \in Widths(n) \ {2}
  BY <1>1, <1>2 DEF Widths
<1>4. DOMAIN coeffs = Ix(n)
  BY <1>1
<1>5. Cardinality(Ix(n)) = n
  BY <1>4 DEF n
<1>6. 1 \in Nat /\ n = 1 * n
  BY <1>2
<1> QED BY <1>1, <1>2, <1>3, <1>5, <1>6

LEMMA Indices ==
  ASSUME NEW c \in 1 .. Len(Basis)
  PROVE  Basis[c] \in Moduli
<1>1. Basis \in Seq(Nat) /\ Moduli = Range(Basis)
  BY BasisAssumption
<1>2. c \in DOMAIN Basis
  BY <1>1
<1> QED BY <1>1, <1>2 DEF Range

LEMMA TablesAre ==
  ASSUME PolyInv, NEW p \in Moduli
  PROVE  Spare(p) /\ Tables(tab[p], n, p) /\ p \in Nat /\ W \in Nat /\ 2 * p <= W
<1>1. Spare(p) /\ tab[p] = initialize(n, p) /\ n \in Widths(MaxDegree)
  BY ModuliSpare, Degree DEF PolyInv, Shape
<1> QED BY <1>1, TablesBelow, WordAssumption DEF Spare

LEMMA PolyInitInv == PolyInit => PolyInv
<1> SUFFICES ASSUME PolyInit PROVE PolyInv
  OBVIOUS
<1>1. coeffs \in Inputs /\ N = n /\ phase = "convert" /\ pc = "idle" /\ pm = Basis[1]
      /\ t = 0 /\ t1 = 1 /\ tab = [p \in Moduli |-> initialize(n, p)] /\ cm = 1 /\ slot = 0
  BY DEF PolyInit
<1>2. Shape /\ Residues /\ Counters /\ Slots
  BY <1>1 DEF Shape, Residues, Counters, Slots, Phases
<1>3. WidthDivides
  BY <1>1, Degree DEF WidthDivides
<1>4. pm \in Moduli
  <2>1. Basis \in Seq(Nat) /\ Basis # << >>
    BY BasisAssumption
  <2>2. 1 \in 1 .. Len(Basis)
    BY <2>1
  <2> QED BY <1>1, <2>2, Indices
<1>5. Euclid
  <2>1. pm \in Nat /\ pm >= 2
    BY <1>4, ModuliAssumption
  <2> QED BY <1>1, <1>4, <2>1 DEF Euclid, Within
<1> QED BY <1>2, <1>3, <1>5 DEF PolyInv

LEMMA ConvertStep == ASSUME PolyInv, Convert PROVE PolyInv'
<1>1. /\ op' = [p \in Moduli |-> mpz2poly(coeffs, p)] /\ phase' = "twist"
      /\ UNCHANGED <<coeffs, tab, N, back, cm, slot, ok, lifted, a, pm, t, t1, r, r1, pc>>
      /\ phase = "convert"
  BY DEF Convert, ForAllModuli, vars
<1>2. n' = n /\ pc = "idle" /\ coeffs \in [Ix(n) -> Int]
  BY <1>1, Degree DEF n, PolyInv, Shape
<1>3. ASSUME NEW p \in Moduli PROVE op'[p] \in Table(n, p)
  <2>1. p \in Nat \ {0}
    BY ModuliSpare DEF Spare
  <2>2. \A i \in Ix(n) : coeffs[i] % p \in 0 .. p - 1
    BY <1>2, <2>1, ModBelow
  <2> QED BY <1>1, <1>2, <2>2 DEF mpz2poly, Table
<1>4. Shape' /\ WidthDivides' /\ Counters' /\ Slots'
  BY <1>1, <1>2 DEF PolyInv, Shape, WidthDivides, Counters, Slots, Phases
<1>5. Residues'
  BY <1>1, <1>2, <1>3 DEF Residues, Bound
<1>6. Euclid'
  BY <1>1, <1>2 DEF PolyInv, Euclid, Within
<1> QED BY <1>4, <1>5, <1>6 DEF PolyInv

\* The parts a loop of the transforms does not touch.
LEMMA Untouched ==
  ASSUME PolyInv, phase \notin {"convert", "slots"}, UNCHANGED <<coeffs, tab, vars>>,
         phase' \in Phases \ {"slots"}
  PROVE  /\ Shape' /\ Slots' /\ Euclid' /\ n' = n /\ pc = "idle"
         /\ UNCHANGED N => WidthDivides'
<1>1. UNCHANGED <<a, pm, t, t1, r, r1, pc>> /\ n' = n /\ pc = "idle"
  BY DEF vars, n, PolyInv, Shape
<1> QED BY <1>1 DEF PolyInv, Shape, Slots, Euclid, Within, WidthDivides

LEMMA TwistStep == ASSUME PolyInv, Twist PROVE PolyInv'
<1>1. /\ op' = [p \in Moduli |-> ShoupProduct(op[p], tab[p].phis, tab[p].shoupphis, p)]
      /\ phase = "twist" /\ phase' = "layers"
      /\ UNCHANGED <<coeffs, tab, back, cm, slot, N, vars>>
  BY DEF Twist, ForAllModuli
<1>2. Shape' /\ Slots' /\ Euclid' /\ WidthDivides' /\ n' = n
  BY <1>1, Untouched DEF Phases
<1>3. ASSUME NEW p \in Moduli PROVE op'[p] \in Table(n, 2 * p)
  <2>1. /\ Spare(p) /\ tab[p].phis \in Table(n, p) /\ tab[p].shoupphis = Shoups(tab[p].phis, p)
        /\ p \in Nat /\ W \in Nat /\ 2 * p <= W
    BY TablesAre DEF Tables
  <2>2. op[p] \in Table(n, p)
    BY <1>1 DEF PolyInv, Residues, Bound
  <2>3. op[p] \in [Ix(n) -> 0 .. W - 1]
    BY <2>1, <2>2 DEF Table
  <2>4. op'[p] \in Table(n, p)
    BY <1>1, <2>1, <2>3, ShoupProductBelow
  <2> QED BY <2>1, <2>4 DEF Table
<1>4. Residues'
  BY <1>1, <1>2, <1>3 DEF Residues, Bound
<1>5. Counters'
  BY <1>1 DEF PolyInv, Counters
<1> QED BY <1>2, <1>4, <1>5 DEF PolyInv

\* The tables of the layer at hand.
LEMMA LayerTables ==
  ASSUME PolyInv, NEW p \in Moduli
  PROVE  wtab(p)[N] \in Table(N \div 2, p) /\ winvtab(p)[N] = Shoups(wtab(p)[N], p)
<1>1. Tables(tab[p], n, p) /\ N \in Widths(n)
  BY TablesAre DEF PolyInv, WidthDivides
<1> QED BY <1>1 DEF Tables, wtab, winvtab

LEMMA NttLoopStep == ASSUME PolyInv, NttLoop PROVE PolyInv'
<1>1. /\ op' = [p \in Moduli |-> Layer(op[p], N, wtab(p)[N], winvtab(p)[N], p)]
      /\ phase = "layers" /\ phase' = "layers" /\ N > 4 /\ N' = N \div 2
      /\ UNCHANGED <<coeffs, tab, back, cm, slot, vars>>
  BY DEF NttLoop, ForAllModuli
<1>2. Shape' /\ Slots' /\ Euclid' /\ n' = n
  BY <1>1, Untouched DEF Phases
<1>3. n \in Nat /\ N \in Widths(n)
  BY Degree DEF PolyInv, Shape, WidthDivides
<1>4. PICK h \in Nat \ {0} : h = N \div 2 /\ N = 2 * h /\ h \in Widths(n) \ {2}
  BY <1>1, <1>3, WidthsHalve
<1>5. PICK M \in Nat : n = M * N
  BY DEF PolyInv, WidthDivides
<1>6. WidthDivides'
  <2>1. 2 * M \in Nat /\ n = (2 * M) * h
    BY <1>4, <1>5
  <2>2. N' = h /\ n' = n
    BY <1>1, <1>2, <1>4
  <2> QED BY <1>4, <2>1, <2>2 DEF WidthDivides
<1>7. ASSUME NEW p \in Moduli PROVE op'[p] \in Table(n, 2 * p)
  <2>1. p \in Nat \ {0} /\ 4 * p <= W
    BY TablesAre DEF Spare
  <2>2. op[p] \in [Ix(M * (2 * h)) -> 0 .. 2 * p - 1]
    BY <1>1, <1>4, <1>5 DEF PolyInv, Residues, Bound, Table
  <2>3. wtab(p)[N] \in [Ix(h) -> 0 .. p - 1] /\ winvtab(p)[N] = Shoups(wtab(p)[N], p)
    BY <1>4, LayerTables DEF Table
  <2>4. Layer(op[p], 2 * h, wtab(p)[N], Shoups(wtab(p)[N], p), p)
          \in [Ix(M * (2 * h)) -> 0 .. 2 * p - 1]
    BY <2>1, <2>2, <2>3, LayerStaysBelow
  <2> QED BY <1>1, <1>4, <1>5, <2>3, <2>4 DEF Table
<1>8. Residues'
  BY <1>1, <1>2, <1>7 DEF Residues, Bound
<1>9. Counters'
  BY <1>1 DEF PolyInv, Counters
<1> QED BY <1>2, <1>6, <1>8, <1>9 DEF PolyInv

LEMMA NttLastStep == ASSUME PolyInv, NttLast PROVE PolyInv'
<1>1. /\ op' = [p \in Moduli |-> Strict(LastLayers(op[p], wtab(p)[4], winvtab(p)[4], p), p)]
      /\ phase = "layers" /\ N = 4 /\ phase' = (IF back THEN "permute again" ELSE "check")
      /\ UNCHANGED <<coeffs, tab, back, cm, slot, N, vars>>
  BY DEF NttLast, ForAllModuli
<1>2. Shape' /\ Slots' /\ Euclid' /\ WidthDivides' /\ n' = n
  BY <1>1, Untouched DEF Phases
<1>3. PICK M \in Nat : n = M * 4
  BY <1>1 DEF PolyInv, WidthDivides
<1>4. ASSUME NEW p \in Moduli PROVE op'[p] \in Table(n, p)
  <2>1. Spare(p)
    BY TablesAre
  <2>2. op[p] \in Table(n, 2 * p)
    BY <1>1 DEF PolyInv, Residues, Bound
  <2>3. wtab(p)[4] \in Table(2, p) /\ winvtab(p)[4] = Shoups(wtab(p)[4], p)
    <3>1. 4 \div 2 = 2
      OBVIOUS
    <3> QED BY <1>1, <3>1, LayerTables
  <2>4. LastLayers(op[p], wtab(p)[4], Shoups(wtab(p)[4], p), p) \in Table(n, 2 * p)
    BY <1>3, <2>1, <2>2, <2>3, LastLayersStayBelow
  <2>5. Strict(LastLayers(op[p], wtab(p)[4], Shoups(wtab(p)[4], p), p), p) \in Table(n, p)
    BY <2>1, <2>4, StrictBelow
  <2> QED BY <1>1, <2>3, <2>5
<1>5. Residues'
  BY <1>1, <1>2, <1>4 DEF Residues, Bound
<1>6. Counters'
  BY <1>1 DEF PolyInv, Counters
<1> QED BY <1>2, <1>5, <1>6 DEF PolyInv

LEMMA CheckStep == ASSUME PolyInv, Check PROVE PolyInv'
<1>1. /\ phase = "check" /\ phase' = (IF ok' THEN "slots" ELSE "done")
      /\ ok' = \A p \in Moduli, i \in Ix(n) : op[p][i] # 0
      /\ cm = 1 /\ slot = 0
      /\ UNCHANGED <<coeffs, tab, op, N, cm, slot, a, pm, t, t1, r, r1, pc>>
  BY DEF Check, vars, PolyInv, Counters
<1>2. n' = n /\ pc = "idle"
  BY <1>1 DEF n, PolyInv, Shape
<1>3. Shape' /\ WidthDivides' /\ Euclid'
  BY <1>1, <1>2 DEF PolyInv, Shape, WidthDivides, Euclid, Within, Phases
<1>4. Residues'
  BY <1>1, <1>2 DEF PolyInv, Residues, Bound
<1>5. Slots'
  <2>1. Len(Basis) >= 1
    BY BasisAssumption
  <2>2. 1 \in 1 .. Len(Basis) /\ 0 \in Ix(n)
    BY <2>1, Degree DEF Ix, PolyInv, Shape
  <2> QED BY <1>1, <1>2, <2>2 DEF Slots
<1>6. Counters'
  BY <1>1 DEF Counters
<1> QED BY <1>3, <1>4, <1>5, <1>6 DEF PolyInv

LEMMA InitNextIInv == Init' => IInv'
BY InitIInv, PTL

LEMMA CallStep == ASSUME PolyInv, Call PROVE PolyInv'
<1>1. /\ phase = "slots" /\ pc = "idle" /\ pm' = Basis[cm] /\ a' = op[Basis[cm]][slot]
      /\ t' = 0 /\ t1' = 1 /\ r' = pm' /\ r1' = a' /\ pc' = "loop"
      /\ UNCHANGED <<coeffs, tab, op, N, back, cm, slot, ok, lifted, phase>>
  BY DEF Call, polyVars
<1>2. /\ cm \in 1 .. Len(Basis) /\ slot \in Ix(n) /\ Basis[cm] \in Moduli /\ n' = n
      /\ op[Basis[cm]][slot] # 0
  BY <1>1, Indices DEF PolyInv, Slots, n
<1>3. op[Basis[cm]][slot] \in 1 .. pm' - 1
  <2>1. op[Basis[cm]] \in Table(n, Basis[cm])
    BY <1>1, <1>2 DEF PolyInv, Residues, Bound
  <2>2. op[Basis[cm]][slot] \in 0 .. Basis[cm] - 1 /\ Basis[cm] \in Nat
    BY <1>2, <2>1, ModuliAssumption DEF Table
  <2> QED BY <1>1, <1>2, <2>2
<1>4. IInv'
  <2>1. Init'
    BY <1>1, <1>2, <1>3 DEF Init
  <2> QED BY <2>1, InitNextIInv
<1>5. Euclid'
  BY <1>1, <1>4 DEF Euclid
<1>6. Shape' /\ WidthDivides' /\ Residues' /\ Counters'
  BY <1>1, <1>2 DEF PolyInv, Shape, WidthDivides, Residues, Bound, Counters
<1>7. Slots'
  BY <1>1, <1>2 DEF PolyInv, Slots
<1> QED BY <1>5, <1>6, <1>7 DEF PolyInv

LEMMA ResidueStep == ASSUME PolyInv, Residue PROVE PolyInv'
<1>1. /\ Iterate \/ Return
      /\ UNCHANGED <<coeffs, tab, op, N, back, cm, slot, ok, lifted, phase>>
  BY DEF Residue, polyVars
<1>2. pc = "loop" /\ pm' = pm /\ pc' \in {"loop", "done"}
  BY <1>1 DEF Iterate, Return
<1>3. phase = "slots" /\ IInv /\ n' = n
  BY <1>1, <1>2 DEF PolyInv, Shape, Euclid, n
<1>4. IInv'
  BY <1>1, <1>3, IterateStep, ReturnStep
<1>5. Euclid'
  BY <1>2, <1>4 DEF Euclid
<1>6. Shape' /\ WidthDivides' /\ Residues' /\ Counters'
  BY <1>1, <1>3 DEF PolyInv, Shape, WidthDivides, Residues, Bound, Counters
<1>7. Slots'
  BY <1>1, <1>2, <1>3 DEF PolyInv, Slots
<1> QED BY <1>5, <1>6, <1>7 DEF PolyInv

LEMMA StoreStep == ASSUME PolyInv, Store PROVE PolyInv'
<1>1. /\ phase = "slots" /\ pc = "done" /\ op' = [op EXCEPT ![Basis[cm]][slot] = t]
      /\ pc' = "idle" /\ slot' = (slot + 1) % n
      /\ cm' = (IF slot' = 0 THEN cm + 1 ELSE cm)
      /\ phase' = (IF cm' > Len(Basis) THEN "permute" ELSE "slots")
      /\ UNCHANGED <<coeffs, tab, N, back, a, pm, t, t1, r, r1>>
  BY DEF Store
<1>2. /\ cm \in 1 .. Len(Basis) /\ slot \in Ix(n) /\ Basis[cm] \in Moduli /\ n' = n
      /\ pm = Basis[cm] /\ IInv
      /\ \A p \in Moduli, i \in Ix(n) : op[p][i] # 0
  BY <1>1, Indices DEF PolyInv, Slots, Euclid, n
<1>3. t \in 1 .. pm - 1 /\ Within(t1) /\ t1 \in Int /\ pm \in Moduli /\ pm \in Nat
  BY <1>1, <1>2, ModuliAssumption DEF IInv, ReturnsInverse, TypeOK
<1>4. op = [p \in Moduli |-> op[p]] /\ \A p \in Moduli : op[p] \in Table(n, p)
  BY <1>1 DEF PolyInv, Residues, Bound
<1>5. /\ DOMAIN op' = Moduli /\ op' = [p \in Moduli |-> op'[p]]
      /\ \A p \in Moduli : p # pm => op'[p] = op[p]
      /\ op'[pm] = [op[pm] EXCEPT ![slot] = t]
  <2>1. DOMAIN op = Moduli
    BY <1>4
  <2> QED BY <1>1, <1>2, <2>1
<1>6. op'[pm] \in Table(n, pm) /\ \A i \in Ix(n) : op'[pm][i] # 0
  <2>1. op[pm] \in Table(n, pm) /\ t \in 0 .. pm - 1 /\ t # 0
    BY <1>3, <1>4
  <2>2. DOMAIN op[pm] = Ix(n)
    BY <2>1 DEF Table
  <2>3. \A i \in Ix(n) : op'[pm][i] = (IF i = slot THEN t ELSE op[pm][i])
    BY <1>2, <1>5, <2>2
  <2> QED BY <1>2, <1>3, <1>5, <2>1, <2>3 DEF Table
<1>7. ASSUME NEW p \in Moduli
      PROVE  op'[p] \in Table(n, p) /\ \A i \in Ix(n) : op'[p][i] # 0
  <2>1. CASE p = pm
    BY <1>6, <2>1
  <2>2. CASE p # pm
    <3>1. op'[p] = op[p]
      BY <1>5, <2>2
    <3> QED BY <1>2, <1>4, <3>1
  <2> QED BY <2>1, <2>2
<1>8. Residues'
  BY <1>1, <1>2, <1>5, <1>7 DEF Residues, Bound
<1>9. slot' \in Ix(n) /\ cm' \in Nat /\ cm' >= 1
  <2>1. n \in Nat \ {0} /\ slot + 1 \in Int
    BY <1>2, Degree DEF PolyInv, Shape, Ix
  <2>2. (slot + 1) % n \in 0 .. n - 1
    BY <2>1, ModBelow
  <2> QED BY <1>1, <1>2, <2>2 DEF Ix
<1>10. Slots'
  <2>1. phase' = "slots" => cm' \in 1 .. Len(Basis)
    <3>1. Len(Basis) \in Nat
      BY BasisAssumption
    <3> QED BY <1>1, <1>9, <3>1
  <2> QED BY <1>1, <1>2, <1>7, <1>9, <2>1 DEF Slots
<1>11. Shape' /\ WidthDivides' /\ Counters'
  BY <1>1, <1>2 DEF PolyInv, Shape, WidthDivides, Counters, Phases
<1>12. Euclid'
  BY <1>1, <1>3 DEF Euclid, Within
<1> QED BY <1>8, <1>10, <1>11, <1>12 DEF PolyInv

\* Both permutations.
LEMMA Permuted ==
  ASSUME PolyInv, phase \notin {"convert", "layers"}, NEW p \in Moduli
  PROVE  permut(op[p]) \in Table(n, p)
<1>1. n \in Nat \ {0} /\ Cardinality(Ix(n)) = n
  BY Degree DEF PolyInv, Shape
<1>2. op[p] \in Table(n, p)
  BY DEF PolyInv, Residues, Bound
<1> QED BY <1>1, <1>2, PermutBelow DEF Table

LEMMA PermuteStep == ASSUME PolyInv, Permute PROVE PolyInv'
<1>1. /\ op' = [p \in Moduli |-> permut(op[p])] /\ phase = "permute" /\ phase' = "layers"
      /\ back' = TRUE /\ N' = n /\ UNCHANGED <<coeffs, tab, vars>>
  BY DEF Permute, ForAllModuli
<1>2. Shape' /\ Slots' /\ Euclid' /\ n' = n
  BY <1>1, Untouched DEF Phases
<1>3. WidthDivides'
  BY <1>1, <1>2, Degree DEF WidthDivides, PolyInv, Shape
<1>4. ASSUME NEW p \in Moduli PROVE op'[p] \in Table(n, 2 * p)
  <2>1. op'[p] \in Table(n, p) /\ p \in Nat
    BY <1>1, Permuted, TablesAre
  <2> QED BY <2>1 DEF Table
<1>5. Residues'
  BY <1>1, <1>2, <1>4 DEF Residues, Bound
<1>6. Counters'
  BY <1>1 DEF Counters
<1> QED BY <1>2, <1>3, <1>5, <1>6 DEF PolyInv

LEMMA PermuteAgainStep == ASSUME PolyInv, PermuteAgain PROVE PolyInv'
<1>1. /\ op' = [p \in Moduli |-> permut(op[p])] /\ phase = "permute again"
      /\ phase' = "untwist" /\ UNCHANGED <<coeffs, tab, N, vars>>
  BY DEF PermuteAgain, ForAllModuli
<1>2. Shape' /\ Slots' /\ Euclid' /\ WidthDivides' /\ n' = n
  BY <1>1, Untouched DEF Phases
<1>3. \A p \in Moduli : op'[p] \in Table(n, p)
  BY <1>1, Permuted
<1>4. Residues'
  BY <1>1, <1>2, <1>3 DEF Residues, Bound
<1>5. Counters'
  BY <1>1 DEF Counters
<1> QED BY <1>2, <1>4, <1>5 DEF PolyInv

LEMMA UntwistStep == ASSUME PolyInv, Untwist PROVE PolyInv'
<1>1. /\ op' = [p \in Moduli |-> ShoupProduct(op[p], tab[p].invpoly_times_invphis,
                                              tab[p].shoupinvpoly_times_invphis, p)]
      /\ phase = "untwist" /\ phase' = "lift" /\ UNCHANGED <<coeffs, tab, N, vars>>
  BY DEF Untwist, ForAllModuli
<1>2. Shape' /\ Slots' /\ Euclid' /\ WidthDivides' /\ n' = n
  BY <1>1, Untouched DEF Phases
<1>3. ASSUME NEW p \in Moduli PROVE op'[p] \in Table(n, p)
  <2>1. /\ Spare(p) /\ tab[p].invpoly_times_invphis \in Table(n, p)
        /\ tab[p].shoupinvpoly_times_invphis = Shoups(tab[p].invpoly_times_invphis, p)
        /\ p \in Nat /\ W \in Nat /\ 2 * p <= W
    BY TablesAre DEF Tables
  <2>2. op[p] \in Table(n, p)
    BY <1>1 DEF PolyInv, Residues, Bound
  <2>3. op[p] \in [Ix(n) -> 0 .. W - 1]
    BY <2>1, <2>2 DEF Table
  <2> QED BY <1>1, <2>1, <2>3, ShoupProductBelow
<1>4. Residues'
  BY <1>1, <1>2, <1>3 DEF Residues, Bound
<1>5. Counters'
  BY <1>1 DEF Counters
<1> QED BY <1>2, <1>4, <1>5 DEF PolyInv

LEMMA LiftStep == ASSUME PolyInv, Lift PROVE PolyInv'
<1>1. phase = "lift" /\ phase' = "done" /\ UNCHANGED <<coeffs, tab, op, N, vars>>
  BY DEF Lift
<1>2. Shape' /\ Slots' /\ Euclid' /\ WidthDivides' /\ n' = n
  BY <1>1, Untouched DEF Phases
<1>3. Residues'
  BY <1>1, <1>2 DEF PolyInv, Residues, Bound
<1>4. Counters'
  BY <1>1 DEF Counters
<1> QED BY <1>2, <1>3, <1>4 DEF PolyInv

LEMMA PolyNextInv == PolyInv /\ [PolyNext]_<<polyVars, vars>> => PolyInv'
<1> SUFFICES ASSUME PolyInv, [PolyNext]_<<polyVars, vars>> PROVE PolyInv'
  OBVIOUS
<1>1. CASE UNCHANGED <<polyVars, vars>>
  <2>1. /\ UNCHANGED <<coeffs, tab, op, N, back, cm, slot, phase, a, pm, t, t1, r, r1, pc>>
        /\ n' = n
    BY <1>1 DEF polyVars, vars, n
  <2>2. Shape' /\ WidthDivides' /\ Residues' /\ Counters' /\ Slots'
    BY <2>1 DEF PolyInv, Shape, WidthDivides, Residues, Bound, Counters, Slots
  <2>3. IInv => IInv'
    BY <2>1 DEF IInv, TypeOK, LoopInv, Decreasing, Bezout, Alternating, ReturnsInverse, Within
  <2>4. Euclid'
    BY <2>1, <2>3 DEF PolyInv, Euclid, Within
  <2> QED BY <2>2, <2>4 DEF PolyInv
<1>2. CASE Work
  BY <1>2, ConvertStep, TwistStep, NttLoopStep, NttLastStep, CheckStep, CallStep, ResidueStep,
     StoreStep, PermuteStep, PermuteAgainStep, UntwistStep, LiftStep DEF Work
<1>3. CASE Finished
  BY <1>1, <1>3 DEF Finished
<1> QED BY <1>1, <1>2, <1>3 DEF PolyNext

\* The invariant of an inversion in place.
THEOREM PolyInvariantCorrect == PolySpec => []PolyInv
BY PolyInitInv, PolyNextInv, PTL DEF PolySpec
-----------------------------------------------------------------------------
\* No word of a transform leaves its range ("p is small enough (2 bits less than
\* limb)", ops.hpp), for every word size, basis, degree and input: the layers hand
\* each other words below twice the modulus, everyone else gets residues.
THEOREM WordsStayInRange == PolySpec => []WordsFit
<1>1. PolyInv => WordsFit
  <2> SUFFICES ASSUME PolyInv, phase \notin {"convert", "done"}, NEW p \in Moduli, NEW i \in Ix(n)
               PROVE  op[p][i] \in 0 .. (IF phase = "layers" THEN 2 * p ELSE p) - 1
    BY DEF WordsFit
  <2>1. op[p] \in Table(n, Bound(p))
    BY DEF PolyInv, Residues
  <2> QED BY <2>1 DEF Table, Bound
<1> QED BY <1>1, PolyInvariantCorrect, PTL

\* residue_inverse returns the inverse for every slot of every modulus that
\* poly_inverse calls it with.
THEOREM SlotsInverted == PolySpec => []ReturnsInverse
<1>1. PolyInv => ReturnsInverse
  BY DEF PolyInv, Euclid, IInv, ReturnsInverse
<1> QED BY <1>1, PolyInvariantCorrect, PTL

\* And no coefficient or product it forms on the way leaves the range -pm .. pm.
THEOREM SlotsDoNotOverflow == PolySpec => []CoefficientsFit
<1>1. PolyInv => CoefficientsFit
  BY InvariantFits DEF PolyInv, Euclid, CoefficientsFit
<1> QED BY <1>1, PolyInvariantCorrect, PTL

\* The kernels compute what their comments promise for the residue that is being
\* inverted and every other operand, and the lazy product for every word that a
\* butterfly can produce.
THEOREM KernelsCorrect == PolySpec => []KernelsExact
<1>1. PolyInv => KernelsExact
  <2> SUFFICES ASSUME PolyInv, pc = "loop", r = pm PROVE KernelsExact
    BY DEF KernelsExact
  <2>1. pm \in Moduli /\ a \in 1 .. pm - 1
    BY DEF PolyInv, Euclid, IInv, TypeOK
  <2>2. Spare(pm) /\ pm \in Nat /\ 4 * pm <= W /\ W \in Nat
    BY <2>1, ModuliSpare, WordAssumption DEF Spare
  <2>3. PICK p \in Nat, b \in Nat : p = pm /\ b = a /\ b \in 0 .. p - 1
    BY <2>1, <2>2
  <2>4. ASSUME NEW y \in 0 .. p - 1
        PROVE  /\ mulmod(b, y, p) = (b * y) % p
               /\ mulmod_shoup(y, b, compute_shoup(b, p), p) = (b * y) % p
               /\ addmod(b, y, p) = (b + y) % p
               /\ addmod_avx2(b, y, p) = (b + y) % p
               /\ submod(b, y, p) = (b - y) % p
    <3>1. Spare(p) /\ y \in 0 .. W - 1 /\ y \in 0 .. p /\ y * b = b * y
      BY <2>2, <2>3
    <3>2. mulmod(b, y, p) = (b * y) % p
      BY <2>3, <3>1, MulmodBelow
    <3>3. mulmod_shoup(y, b, compute_shoup(b, p), p) = (b * y) % p
      BY <2>3, <3>1, ShoupExact
    <3>4. addmod(b, y, p) = (b + y) % p
      BY <2>3, <3>1, AddmodExact
    <3>5. submod(b, y, p) = (b - y) % p
      BY <2>3, <3>1, SubmodExact
    <3>6. addmod_avx2(b, y, p) = (b + y) % p
      BY <2>3, <3>1, LanesExact
    <3> QED BY <3>2, <3>3, <3>4, <3>5, <3>6
  <2>5. ASSUME NEW y \in 0 .. 4 * p - 1
        PROVE  LET z == ShoupLazy(y, b, compute_shoup(b, p), p)
               IN  z < 2 * p /\ (z - b * y) % p = 0
    <3> DEFINE z == ShoupLazy(y, b, compute_shoup(b, p), p)
    <3>1. Spare(p) /\ y \in 0 .. W - 1
      BY <2>2, <2>3
    <3>2. z \in 0 .. 2 * p - 1 /\ (z - b * y) % p = 0
      BY <2>3, <3>1, LazyCongruent
    <3> HIDE DEF z
    <3>3. z < 2 * p /\ (z - b * y) % p = 0
      BY <3>2
    <3> QED BY <3>3 DEF z
  <2> QED BY <2>3, <2>4, <2>5 DEF KernelsExact
<1> QED BY <1>1, PolyInvariantCorrect, PTL
-----------------------------------------------------------------------------
(*****************************************************************************)
(* Integers for the theorem about the whole inversion: powers and sums by    *)
(* their first value and the step to the next one, as functions over all     *)
(* numbers.                                                                  *)
(*****************************************************************************)
\* Induction, the statement given as the set of numbers it holds for.
LEMMA Induction ==
  ASSUME NEW S, 0 \in S, \A k \in Nat : k \in S => k + 1 \in S
  PROVE  \A k \in Nat : k \in S
<1> DEFINE Bad == {k \in Nat : k \notin S}
<1> SUFFICES ASSUME Bad # {} PROVE FALSE
  OBVIOUS
<1>1. Bad \in SUBSET Nat
  OBVIOUS
<1>2. PICK x \in Bad : \A y \in Bad : x <= y
  BY <1>1, LeastNumber
<1>3. x \in Nat /\ x # 0 /\ x - 1 \in Nat
  BY <1>2
<1>4. x - 1 \in S
  BY <1>2, <1>3
<1>5. (x - 1) + 1 = x
  BY <1>3
<1> QED BY <1>2, <1>3, <1>4, <1>5

\* A function over all numbers, from its first value and the step to each next one.
IteratesTo(h, l, w, g) ==
  /\ h \in [0 .. l -> Int] /\ h[0] = w
  /\ \A k \in Nat : k < l => h[k + 1] = g[k][h[k]]

LEMMA Iteration ==
  ASSUME NEW w \in Int, NEW g \in [Nat -> [Int -> Int]]
  PROVE  \E h \in [Nat -> Int] : h[0] = w /\ \A k \in Nat : h[k + 1] = g[k][h[k]]
<1> DEFINE Has == {l \in Nat : \E h : IteratesTo(h, l, w, g)}
<1>1. 0 \in Has
  <2>1. IteratesTo([k \in 0 .. 0 |-> w], 0, w, g)
    BY DEF IteratesTo
  <2> QED BY <2>1
<1>2. ASSUME NEW l \in Nat, l \in Has PROVE l + 1 \in Has
  <2>1. PICK h : IteratesTo(h, l, w, g)
    BY <1>2
  <2> DEFINE e == [k \in 0 .. l + 1 |-> IF k <= l THEN h[k] ELSE g[l][h[l]]]
  <2>2. l \in 0 .. l /\ h[l] \in Int /\ g[l][h[l]] \in Int
    BY <2>1 DEF IteratesTo
  <2>3. e \in [0 .. l + 1 -> Int] /\ e[0] = w
    BY <2>1, <2>2 DEF IteratesTo
  <2>4. ASSUME NEW k \in Nat, k < l + 1 PROVE e[k + 1] = g[k][e[k]]
    <3>1. CASE k = l
      BY <2>2, <3>1
    <3>2. CASE k # l
      <4>1. k < l /\ k \in 0 .. l /\ k + 1 \in 0 .. l
        BY <2>4, <3>2
      <4>2. e[k] = h[k] /\ e[k + 1] = h[k + 1]
        BY <4>1
      <4> QED BY <2>1, <4>1, <4>2 DEF IteratesTo
    <3> QED BY <3>1, <3>2
  <2> HIDE DEF e
  <2>5. IteratesTo(e, l + 1, w, g)
    BY <2>3, <2>4 DEF IteratesTo
  <2> QED BY <2>5
<1> HIDE DEF Has
<1>3. \A l \in Nat : l \in Has
  BY <1>1, <1>2, Induction
<1>4. \A l \in Nat : \E h : IteratesTo(h, l, w, g)
  BY <1>3 DEF Has
<1> DEFINE q == [l \in Nat |-> CHOOSE h : IteratesTo(h, l, w, g)]
<1>5. \A l \in Nat : IteratesTo(q[l], l, w, g)
  BY <1>4
<1> HIDE DEF q
<1>6. ASSUME NEW l \in Nat PROVE q[l + 1][l] = q[l][l]
  <2> DEFINE S == {k \in Nat : k <= l => q[l + 1][k] = q[l][k]}
  <2>1. IteratesTo(q[l], l, w, g) /\ IteratesTo(q[l + 1], l + 1, w, g)
    BY <1>5
  <2>2. 0 \in S
    BY <2>1 DEF IteratesTo
  <2>3. ASSUME NEW k \in Nat, k \in S PROVE k + 1 \in S
    <3> SUFFICES ASSUME k + 1 <= l PROVE q[l + 1][k + 1] = q[l][k + 1]
      OBVIOUS
    <3>1. k < l /\ k < l + 1 /\ q[l + 1][k] = q[l][k]
      BY <2>3
    <3>2. q[l + 1][k + 1] = g[k][q[l + 1][k]] /\ q[l][k + 1] = g[k][q[l][k]]
      BY <2>1, <3>1 DEF IteratesTo
    <3> QED BY <3>1, <3>2
  <2> HIDE DEF S
  <2>4. \A k \in Nat : k \in S
    BY <2>2, <2>3, Induction
  <2> QED BY <2>4 DEF S
<1> DEFINE h == [l \in Nat |-> q[l][l]]
<1>7. ASSUME NEW l \in Nat PROVE h[l] \in Int
  <2>1. IteratesTo(q[l], l, w, g)
    BY <1>5
  <2>2. q[l][l] \in Int
    <3> DEFINE e == q[l]
    <3> HIDE DEF e
    <3>1. IteratesTo(e, l, w, g)
      BY <2>1 DEF e
    <3>2. e[l] \in Int
      BY <3>1 DEF IteratesTo
    <3> QED BY <3>2 DEF e
  <2> QED BY <2>2
<1>8. h[0] = w
  BY <1>5 DEF IteratesTo
<1>9. ASSUME NEW k \in Nat PROVE h[k + 1] = g[k][h[k]]
  <2>1. IteratesTo(q[k + 1], k + 1, w, g) /\ k < k + 1
    BY <1>5
  <2>2. q[k + 1][k + 1] = g[k][q[k + 1][k]]
    BY <2>1 DEF IteratesTo
  <2> QED BY <1>6, <2>2
<1>10. h \in [Nat -> Int]
  BY <1>7
<1> HIDE DEF h
<1> QED BY <1>8, <1>9, <1>10
-----------------------------------------------------------------------------
(***************************************************************************)
(* Powers and sums over all numbers.                                       *)
(***************************************************************************)
\* The powers of w and the sums of f.
PowersOf(w) == CHOOSE h \in [Nat -> Int] : h[0] = 1 /\ \A k \in Nat : h[k + 1] = h[k] * w
Pow(w, k) == PowersOf(w)[k]

SumsOf(f) == CHOOSE h \in [Nat -> Int] : h[0] = 0 /\ \A k \in Nat : h[k + 1] = h[k] + f[k]
Total(f, m) == SumsOf(f)[m]

\* Sequences of integers, as functions over all numbers.
Seqs == [Nat -> Int]

\* Powers and sums unfold.
LEMMA PowUnfolds ==
  ASSUME NEW w \in Int
  PROVE  /\ Pow(w, 0) = 1
         /\ \A k \in Nat : Pow(w, k) \in Int /\ Pow(w, k + 1) = Pow(w, k) * w
<1> DEFINE g == [k \in Nat |-> [v \in Int |-> v * w]]
<1>1. g \in [Nat -> [Int -> Int]] /\ \A k \in Nat, v \in Int : g[k][v] = v * w
  OBVIOUS
<1> HIDE DEF g
<1>2. PICK h \in [Nat -> Int] : h[0] = 1 /\ \A k \in Nat : h[k + 1] = g[k][h[k]]
  <2>1. 1 \in Int
    OBVIOUS
  <2> QED BY <1>1, <2>1, Iteration
<1>3. h[0] = 1 /\ \A k \in Nat : h[k + 1] = h[k] * w
  BY <1>1, <1>2
<1>4. PowersOf(w) \in [Nat -> Int] /\ PowersOf(w)[0] = 1 /\ \A k \in Nat : PowersOf(w)[k + 1] = PowersOf(w)[k] * w
  BY <1>3 DEF PowersOf
<1> QED BY <1>4 DEF Pow

LEMMA TotalUnfolds ==
  ASSUME NEW f \in Seqs
  PROVE  /\ Total(f, 0) = 0
         /\ \A k \in Nat : Total(f, k) \in Int /\ Total(f, k + 1) = Total(f, k) + f[k]
<1> DEFINE g == [k \in Nat |-> [v \in Int |-> v + f[k]]]
<1>1. g \in [Nat -> [Int -> Int]] /\ \A k \in Nat, v \in Int : g[k][v] = v + f[k]
  BY DEF Seqs
<1> HIDE DEF g
<1>2. PICK h \in [Nat -> Int] : h[0] = 0 /\ \A k \in Nat : h[k + 1] = g[k][h[k]]
  <2>1. 0 \in Int
    OBVIOUS
  <2> QED BY <1>1, <2>1, Iteration
<1>3. h[0] = 0 /\ \A k \in Nat : h[k + 1] = h[k] + f[k]
  BY <1>1, <1>2
<1>4. SumsOf(f) \in [Nat -> Int] /\ SumsOf(f)[0] = 0 /\ \A k \in Nat : SumsOf(f)[k + 1] = SumsOf(f)[k] + f[k]
  BY <1>3 DEF SumsOf
<1> QED BY <1>4 DEF Total

\* The laws of powers.
LEMMA PowAdd ==
  ASSUME NEW w \in Int, NEW i \in Nat, NEW j \in Nat
  PROVE  Pow(w, i + j) = Pow(w, i) * Pow(w, j)
<1> DEFINE S == {k \in Nat : Pow(w, i + k) = Pow(w, i) * Pow(w, k)}
<1>1. 0 \in S
  BY PowUnfolds
<1>2. ASSUME NEW k \in Nat, k \in S PROVE k + 1 \in S
  <2>1. Pow(w, i + (k + 1)) = Pow(w, i + k) * w
    <3>1. i + (k + 1) = (i + k) + 1 /\ i + k \in Nat
      OBVIOUS
    <3> QED BY <3>1, PowUnfolds
  <2>2. Pow(w, k + 1) = Pow(w, k) * w /\ Pow(w, k) \in Int /\ Pow(w, i) \in Int
    BY PowUnfolds
  <2>3. Pow(w, i + k) = Pow(w, i) * Pow(w, k)
    BY <1>2
  <2>4. (Pow(w, i) * Pow(w, k)) * w = Pow(w, i) * (Pow(w, k) * w)
    BY <2>2
  <2> QED BY <2>1, <2>2, <2>3, <2>4
<1> HIDE DEF S
<1>3. j \in S
  BY <1>1, <1>2, Induction
<1> QED BY <1>3 DEF S

LEMMA PowProduct ==
  ASSUME NEW w \in Int, NEW i \in Nat, NEW j \in Nat
  PROVE  Pow(w, i * j) = Pow(Pow(w, i), j)
<1> DEFINE v == Pow(w, i)
           S == {k \in Nat : Pow(w, i * k) = Pow(v, k)}
<1>1. v \in Int
  BY PowUnfolds
<1>2. 0 \in S
  <2>1. i * 0 = 0
    OBVIOUS
  <2> HIDE DEF v
  <2> QED BY <1>1, <2>1, PowUnfolds
<1>3. ASSUME NEW k \in Nat, k \in S PROVE k + 1 \in S
  <2>1. i * (k + 1) = i * k + i /\ i * k \in Nat
    OBVIOUS
  <2>2. Pow(w, i * k + i) = Pow(w, i * k) * v
    BY <2>1, PowAdd
  <2> HIDE DEF v
  <2>3. Pow(v, k + 1) = Pow(v, k) * v
    BY <1>1, PowUnfolds
  <2> QED BY <1>3, <2>1, <2>2, <2>3
<1> HIDE DEF S
<1>4. j \in S
  BY <1>2, <1>3, Induction
<1> QED BY <1>4 DEF S

LEMMA PowOne ==
  ASSUME NEW k \in Nat
  PROVE  Pow(1, k) = 1
<1> DEFINE S == {i \in Nat : Pow(1, i) = 1}
<1>1. 0 \in S
  BY PowUnfolds
<1>2. ASSUME NEW i \in Nat, i \in S PROVE i + 1 \in S
  BY <1>2, PowUnfolds
<1> HIDE DEF S
<1>3. k \in S
  BY <1>1, <1>2, Induction
<1> QED BY <1>3 DEF S

LEMMA PowOfProduct ==
  ASSUME NEW w \in Int, NEW v \in Int, NEW k \in Nat
  PROVE  Pow(w * v, k) = Pow(w, k) * Pow(v, k)
<1> DEFINE S == {i \in Nat : Pow(w * v, i) = Pow(w, i) * Pow(v, i)}
<1>1. w * v \in Int
  OBVIOUS
<1>2. 0 \in S
  BY <1>1, PowUnfolds
<1>3. ASSUME NEW i \in Nat, i \in S PROVE i + 1 \in S
  <2>1. /\ Pow(w * v, i + 1) = Pow(w * v, i) * (w * v)
        /\ Pow(w, i + 1) = Pow(w, i) * w /\ Pow(v, i + 1) = Pow(v, i) * v
        /\ Pow(w, i) \in Int /\ Pow(v, i) \in Int
    BY <1>1, PowUnfolds
  <2>2. (Pow(w, i) * Pow(v, i)) * (w * v) = (Pow(w, i) * w) * (Pow(v, i) * v)
    BY <2>1
  <2> QED BY <1>3, <2>1, <2>2
<1> HIDE DEF S
<1>4. k \in S
  BY <1>2, <1>3, Induction
<1> QED BY <1>4 DEF S
-----------------------------------------------------------------------------
(***************************************************************************)
(* Congruence modulo p.                                                    *)
(***************************************************************************)
\* x and y are integers that leave the same remainder modulo p.
Cong(x, y, p) == x \in Int /\ y \in Int /\ \E e \in Int : x = y + e * p

\* Congruence is an equivalence that sums, products and powers respect.
LEMMA CongSame == ASSUME NEW p \in Int, NEW x \in Int PROVE Cong(x, x, p)
<1>1. 0 \in Int /\ x = x + 0 * p
  OBVIOUS
<1> QED BY <1>1 DEF Cong

LEMMA CongSwap == ASSUME NEW p \in Int, NEW x, NEW y, Cong(x, y, p) PROVE Cong(y, x, p)
<1>1. x \in Int /\ y \in Int
  BY DEF Cong
<1>2. PICK e \in Int : x = y + e * p
  BY DEF Cong
<1>3. -e \in Int /\ y = x + (-e) * p
  BY <1>1, <1>2
<1> QED BY <1>1, <1>3 DEF Cong

LEMMA CongVia ==
  ASSUME NEW p \in Int, NEW x, NEW y, NEW z, Cong(x, y, p), Cong(y, z, p)
  PROVE  Cong(x, z, p)
<1>1. x \in Int /\ y \in Int /\ z \in Int
  BY DEF Cong
<1>2. PICK e \in Int : x = y + e * p
  BY DEF Cong
<1>3. PICK d \in Int : y = z + d * p
  BY DEF Cong
<1>4. d + e \in Int /\ x = z + (d + e) * p
  BY <1>1, <1>2, <1>3
<1> QED BY <1>1, <1>4 DEF Cong

LEMMA CongPlus ==
  ASSUME NEW p \in Int, NEW x, NEW y, NEW u, NEW v, Cong(x, y, p), Cong(u, v, p)
  PROVE  Cong(x + u, y + v, p) /\ Cong(x - u, y - v, p)
<1>1. x \in Int /\ y \in Int /\ u \in Int /\ v \in Int
  BY DEF Cong
<1>2. PICK e \in Int : x = y + e * p
  BY DEF Cong
<1>3. PICK d \in Int : u = v + d * p
  BY DEF Cong
<1>4. /\ e + d \in Int /\ x + u = (y + v) + (e + d) * p
      /\ e - d \in Int /\ x - u = (y - v) + (e - d) * p
  BY <1>1, <1>2, <1>3
<1>5. x + u \in Int /\ y + v \in Int /\ x - u \in Int /\ y - v \in Int
  BY <1>1
<1> QED BY <1>4, <1>5 DEF Cong

LEMMA CongTimes ==
  ASSUME NEW p \in Int, NEW x, NEW y, NEW u, NEW v, Cong(x, y, p), Cong(u, v, p)
  PROVE  Cong(x * u, y * v, p)
<1>1. x \in Int /\ y \in Int /\ u \in Int /\ v \in Int
  BY DEF Cong
<1>2. PICK e \in Int : x = y + e * p
  BY DEF Cong
<1>3. PICK d \in Int : u = v + d * p
  BY DEF Cong
<1>4. y * d + e * v + e * d * p \in Int /\ x * u = y * v + (y * d + e * v + e * d * p) * p
  BY <1>1, <1>2, <1>3
<1>5. x * u \in Int /\ y * v \in Int
  BY <1>1
<1> QED BY <1>4, <1>5 DEF Cong

LEMMA CongPow ==
  ASSUME NEW p \in Int, NEW x, NEW y, Cong(x, y, p), NEW k \in Nat
  PROVE  Cong(Pow(x, k), Pow(y, k), p)
<1> DEFINE S == {i \in Nat : Cong(Pow(x, i), Pow(y, i), p)}
<1>0. x \in Int /\ y \in Int
  BY DEF Cong
<1>1. 0 \in S
  <2>1. Pow(x, 0) = 1 /\ Pow(y, 0) = 1
    BY <1>0, PowUnfolds
  <2> QED BY <2>1, CongSame
<1>2. ASSUME NEW i \in Nat, i \in S PROVE i + 1 \in S
  <2>1. Cong(Pow(x, i) * x, Pow(y, i) * y, p)
    BY <1>2, CongTimes
  <2>2. Pow(x, i + 1) = Pow(x, i) * x /\ Pow(y, i + 1) = Pow(y, i) * y
    BY <1>0, PowUnfolds
  <2> QED BY <2>1, <2>2
<1> HIDE DEF S
<1>3. k \in S
  BY <1>1, <1>2, Induction
<1> QED BY <1>3 DEF S

\* Sums term by term.
LEMMA TotalSame ==
  ASSUME NEW f \in Seqs, NEW g \in Seqs, NEW m \in Nat, \A i \in Nat : i < m => f[i] = g[i]
  PROVE  Total(f, m) = Total(g, m)
<1> DEFINE S == {k \in Nat : k <= m => Total(f, k) = Total(g, k)}
<1>1. 0 \in S
  BY TotalUnfolds
<1>2. ASSUME NEW k \in Nat, k \in S PROVE k + 1 \in S
  <2> SUFFICES ASSUME k + 1 <= m PROVE Total(f, k + 1) = Total(g, k + 1)
    OBVIOUS
  <2>1. Total(f, k) = Total(g, k) /\ f[k] = g[k]
    BY <1>2
  <2> QED BY <2>1, TotalUnfolds
<1> HIDE DEF S
<1>3. m \in S
  BY <1>1, <1>2, Induction
<1> QED BY <1>3 DEF S

LEMMA TotalCong ==
  ASSUME NEW p \in Int, NEW f \in Seqs, NEW g \in Seqs, NEW m \in Nat,
         \A i \in Nat : i < m => Cong(f[i], g[i], p)
  PROVE  Cong(Total(f, m), Total(g, m), p)
<1> DEFINE S == {k \in Nat : k <= m => Cong(Total(f, k), Total(g, k), p)}
<1>1. 0 \in S
  <2>1. 0 \in Int
    OBVIOUS
  <2> QED BY <2>1, TotalUnfolds, CongSame
<1>2. ASSUME NEW k \in Nat, k \in S PROVE k + 1 \in S
  <2> SUFFICES ASSUME k + 1 <= m PROVE Cong(Total(f, k + 1), Total(g, k + 1), p)
    OBVIOUS
  <2>1. Cong(Total(f, k), Total(g, k), p) /\ Cong(f[k], g[k], p)
    BY <1>2
  <2>2. Cong(Total(f, k) + f[k], Total(g, k) + g[k], p)
    BY <2>1, CongPlus
  <2> QED BY <2>2, TotalUnfolds
<1> HIDE DEF S
<1>3. m \in S
  BY <1>1, <1>2, Induction
<1> QED BY <1>3 DEF S

LEMMA TotalPlus ==
  ASSUME NEW f \in Seqs, NEW g \in Seqs, NEW m \in Nat
  PROVE  Total([i \in Nat |-> f[i] + g[i]], m) = Total(f, m) + Total(g, m)
<1> DEFINE e == [i \in Nat |-> f[i] + g[i]]
           S == {k \in Nat : Total(e, k) = Total(f, k) + Total(g, k)}
<1>1. e \in Seqs /\ \A i \in Nat : e[i] = f[i] + g[i]
  BY DEF Seqs
<1> HIDE DEF e
<1>2. 0 \in S
  BY <1>1, TotalUnfolds
<1>3. ASSUME NEW k \in Nat, k \in S PROVE k + 1 \in S
  <2>1. /\ Total(e, k + 1) = Total(e, k) + e[k] /\ e[k] = f[k] + g[k]
        /\ Total(f, k + 1) = Total(f, k) + f[k] /\ Total(g, k + 1) = Total(g, k) + g[k]
        /\ Total(f, k) \in Int /\ Total(g, k) \in Int /\ f[k] \in Int /\ g[k] \in Int
    BY <1>1, TotalUnfolds DEF Seqs
  <2> QED BY <1>3, <2>1
<1> HIDE DEF S
<1>4. m \in S
  BY <1>2, <1>3, Induction
<1> QED BY <1>4 DEF S, e

LEMMA TotalTimes ==
  ASSUME NEW c \in Int, NEW f \in Seqs, NEW m \in Nat
  PROVE  Total([i \in Nat |-> c * f[i]], m) = c * Total(f, m)
<1> DEFINE e == [i \in Nat |-> c * f[i]]
           S == {k \in Nat : Total(e, k) = c * Total(f, k)}
<1>1. e \in Seqs /\ \A i \in Nat : e[i] = c * f[i]
  BY DEF Seqs
<1> HIDE DEF e
<1>2. 0 \in S
  BY <1>1, TotalUnfolds
<1>3. ASSUME NEW k \in Nat, k \in S PROVE k + 1 \in S
  <2>1. /\ Total(e, k + 1) = Total(e, k) + e[k] /\ e[k] = c * f[k]
        /\ Total(f, k + 1) = Total(f, k) + f[k]
        /\ Total(f, k) \in Int /\ f[k] \in Int
    BY <1>1, TotalUnfolds DEF Seqs
  <2>2. c * (Total(f, k) + f[k]) = c * Total(f, k) + c * f[k]
    BY <2>1
  <2> QED BY <1>3, <2>1, <2>2
<1> HIDE DEF S
<1>4. m \in S
  BY <1>2, <1>3, Induction
<1> QED BY <1>4 DEF S, e

LEMMA TotalZero ==
  ASSUME NEW f \in Seqs, NEW m \in Nat, \A i \in Nat : i < m => f[i] = 0
  PROVE  Total(f, m) = 0
<1> DEFINE S == {k \in Nat : k <= m => Total(f, k) = 0}
<1>1. 0 \in S
  BY TotalUnfolds
<1>2. ASSUME NEW k \in Nat, k \in S PROVE k + 1 \in S
  BY <1>2, TotalUnfolds
<1> HIDE DEF S
<1>3. m \in S
  BY <1>1, <1>2, Induction
<1> QED BY <1>3 DEF S

\* A sum with one term.
LEMMA TotalAlone ==
  ASSUME NEW f \in Seqs, NEW m \in Nat, NEW c \in Nat, c < m,
         \A i \in Nat : i < m /\ i # c => f[i] = 0
  PROVE  Total(f, m) = f[c]
<1> DEFINE S == {k \in Nat : k <= m => Total(f, k) = IF k > c THEN f[c] ELSE 0}
<1>1. 0 \in S
  BY TotalUnfolds
<1>2. ASSUME NEW k \in Nat, k \in S PROVE k + 1 \in S
  <2> SUFFICES ASSUME k + 1 <= m PROVE Total(f, k + 1) = IF k + 1 > c THEN f[c] ELSE 0
    OBVIOUS
  <2>1. Total(f, k + 1) = Total(f, k) + f[k] /\ Total(f, k) \in Int
    BY TotalUnfolds
  <2>2. Total(f, k) = IF k > c THEN f[c] ELSE 0
    BY <1>2
  <2>3. f[c] \in Int
    BY DEF Seqs
  <2>4. CASE k = c
    BY <2>1, <2>2, <2>3, <2>4
  <2>5. CASE k # c
    BY <2>1, <2>2, <2>3, <2>5
  <2> QED BY <2>4, <2>5
<1> HIDE DEF S
<1>3. m \in S
  BY <1>1, <1>2, Induction
<1> QED BY <1>3 DEF S

LEMMA TotalSplit ==
  ASSUME NEW f \in Seqs, NEW c \in Nat, NEW m \in Nat
  PROVE  Total(f, c + m) = Total(f, c) + Total([i \in Nat |-> f[c + i]], m)
<1> DEFINE e == [i \in Nat |-> f[c + i]]
           S == {k \in Nat : Total(f, c + k) = Total(f, c) + Total(e, k)}
<1>1. e \in Seqs /\ \A i \in Nat : e[i] = f[c + i]
  BY DEF Seqs
<1> HIDE DEF e
<1>2. 0 \in S
  <2>1. c + 0 = c /\ Total(e, 0) = 0 /\ Total(f, c) \in Int
    BY <1>1, TotalUnfolds
  <2> QED BY <2>1
<1>3. ASSUME NEW k \in Nat, k \in S PROVE k + 1 \in S
  <2>1. c + (k + 1) = (c + k) + 1 /\ c + k \in Nat
    OBVIOUS
  <2>2. Total(f, (c + k) + 1) = Total(f, c + k) + f[c + k]
    BY <2>1, TotalUnfolds
  <2>3. /\ Total(e, k + 1) = Total(e, k) + f[c + k] /\ Total(e, k) \in Int /\ Total(f, c) \in Int
        /\ f[c + k] \in Int
    BY <1>1, <2>1, TotalUnfolds DEF Seqs
  <2> QED BY <1>3, <2>1, <2>2, <2>3
<1> HIDE DEF S
<1>4. m \in S
  BY <1>2, <1>3, Induction
<1> QED BY <1>4 DEF S, e

\* A rectangle has one sum, by rows as by columns.
LEMMA TotalsExchange ==
  ASSUME NEW f \in [Nat -> Seqs], NEW c \in Nat, NEW m \in Nat
  PROVE  Total([i \in Nat |-> Total(f[i], m)], c)
           = Total([j \in Nat |-> Total([i \in Nat |-> f[i][j]], c)], m)
<1> DEFINE rows == [i \in Nat |-> Total(f[i], m)]
           col(j) == [i \in Nat |-> f[i][j]]
           cols(k) == [j \in Nat |-> Total(col(j), k)]
           S == {k \in Nat : Total(rows, k) = Total(cols(k), m)}
<1>1. \A i \in Nat : f[i] \in Seqs
  OBVIOUS
<1>2. rows \in Seqs /\ \A i \in Nat : rows[i] = Total(f[i], m)
  BY <1>1, TotalUnfolds DEF Seqs
<1>3. \A j \in Nat : col(j) \in Seqs /\ \A i \in Nat : col(j)[i] = f[i][j]
  BY <1>1 DEF Seqs
<1> HIDE DEF rows, col
<1>4. ASSUME NEW k \in Nat
      PROVE  cols(k) \in Seqs /\ \A j \in Nat : cols(k)[j] = Total(col(j), k)
  BY <1>3, TotalUnfolds DEF Seqs
<1> HIDE DEF cols
<1>5. 0 \in S
  <2>1. \A j \in Nat : cols(0)[j] = 0
    BY <1>3, <1>4, TotalUnfolds
  <2>2. Total(cols(0), m) = 0
    BY <1>4, <2>1, TotalZero
  <2> QED BY <1>2, <2>2, TotalUnfolds
<1>6. ASSUME NEW k \in Nat, k \in S PROVE k + 1 \in S
  <2> DEFINE e == [j \in Nat |-> cols(k)[j] + f[k][j]]
  <2>1. e \in Seqs /\ \A j \in Nat : e[j] = cols(k)[j] + f[k][j]
    BY <1>1, <1>4 DEF Seqs
  <2>2. Total(e, m) = Total(cols(k), m) + Total(f[k], m)
    BY <1>1, <1>4, TotalPlus
  <2> HIDE DEF e
  <2>3. \A j \in Nat : cols(k + 1)[j] = e[j]
    <3> TAKE j \in Nat
    <3>1. cols(k + 1)[j] = Total(col(j), k + 1) /\ cols(k)[j] = Total(col(j), k)
      BY <1>4
    <3>2. Total(col(j), k + 1) = Total(col(j), k) + col(j)[k] /\ col(j)[k] = f[k][j]
      BY <1>3, TotalUnfolds
    <3> QED BY <2>1, <3>1, <3>2
  <2>4. Total(cols(k + 1), m) = Total(e, m)
    BY <1>4, <2>1, <2>3, TotalSame
  <2>5. Total(rows, k + 1) = Total(rows, k) + Total(f[k], m)
    BY <1>2, TotalUnfolds
  <2> QED BY <1>6, <2>2, <2>4, <2>5
<1> HIDE DEF S
<1>7. c \in S
  BY <1>5, <1>6, Induction
<1> QED BY <1>7 DEF S, rows, cols, col

\* All factors but 1 are even: a power of two.
TwoPower(m) ==
  /\ m \in Nat \ {0}
  /\ \A d \in Nat, e \in Nat : m = d * e /\ d # 1 => \E j \in Nat : d = 2 * j

\* Halves, doubles and factors of powers of two.
LEMMA TwoHalf ==
  ASSUME NEW m, TwoPower(m), m # 1
  PROVE  \E h \in Nat \ {0} : m = 2 * h /\ TwoPower(h)
<1>1. m \in Nat \ {0} /\ m = m * 1
  BY DEF TwoPower
<1>2. PICK h \in Nat : m = 2 * h
  BY <1>1 DEF TwoPower
<1>3. h \in Nat \ {0}
  BY <1>1, <1>2
<1>4. ASSUME NEW d \in Nat, NEW e \in Nat, h = d * e, d # 1 PROVE \E j \in Nat : d = 2 * j
  <2>1. 2 * e \in Nat /\ m = d * (2 * e)
    BY <1>2, <1>4
  <2> QED BY <1>4, <2>1 DEF TwoPower
<1>5. TwoPower(h)
  BY <1>3, <1>4 DEF TwoPower
<1> QED BY <1>2, <1>3, <1>5

LEMMA TwoDouble ==
  ASSUME NEW m, TwoPower(m)
  PROVE  TwoPower(2 * m)
<1>1. m \in Nat \ {0} /\ 2 * m \in Nat \ {0}
  BY DEF TwoPower
<1>2. ASSUME NEW d \in Nat, NEW e \in Nat, 2 * m = d * e, d # 1 PROVE \E j \in Nat : d = 2 * j
  <2>1. PICK j \in Nat, b \in 0 .. 1 : d = 2 * j + b
    <3>1. d = 2 * (d \div 2) + (d % 2) /\ d \div 2 \in Nat /\ d % 2 \in 0 .. 1
      OBVIOUS
    <3> QED BY <3>1
  <2>2. PICK i \in Nat, c \in 0 .. 1 : e = 2 * i + c
    <3>1. e = 2 * (e \div 2) + (e % 2) /\ e \div 2 \in Nat /\ e % 2 \in 0 .. 1
      OBVIOUS
    <3> QED BY <3>1
  <2>3. CASE b = 0
    BY <2>1, <2>3
  <2>4. CASE b = 1
    <3>1. d * e = 2 * (2 * (j * i)) + 2 * i + 2 * (j * c) + c
      BY <2>1, <2>2, <2>4
    <3>2. j * i \in Nat /\ j * c \in Nat
      BY <2>2
    <3>3. c = 0
      BY <1>1, <1>2, <2>2, <3>1, <3>2
    <3>4. m = d * i
      <4>1. d * e = 2 * (d * i) /\ d * i \in Nat
        BY <2>2, <3>3
      <4> QED BY <1>1, <1>2, <4>1
    <3> QED BY <1>2, <3>4 DEF TwoPower
  <2> QED BY <2>3, <2>4
<1> QED BY <1>1, <1>2 DEF TwoPower

LEMMA TwoOne == TwoPower(1)
<1>1. ASSUME NEW d \in Nat, NEW e \in Nat, 1 = d * e, d # 1 PROVE FALSE
  <2>1. d # 0
    BY <1>1
  <2>2. d >= 2 /\ e # 0
    BY <1>1, <2>1
  <2>3. d * e >= d
    BY <2>2
  <2> QED BY <1>1, <2>2, <2>3
<1> QED BY <1>1 DEF TwoPower

\* What holds for 1 and passes from a power of two to its double holds for all.
LEMMA TwoInduction ==
  ASSUME NEW S, 1 \in S, \A m \in Nat : TwoPower(m) /\ m \in S => 2 * m \in S
  PROVE  \A m \in Nat : TwoPower(m) => m \in S
<1> DEFINE Bad == {m \in Nat : TwoPower(m) /\ m \notin S}
<1> SUFFICES ASSUME Bad # {} PROVE FALSE
  OBVIOUS
<1>1. Bad \in SUBSET Nat
  OBVIOUS
<1>2. PICK x \in Bad : \A y \in Bad : x <= y
  BY <1>1, LeastNumber
<1>3. TwoPower(x) /\ x \notin S /\ x # 1
  BY <1>2
<1>4. PICK h \in Nat \ {0} : x = 2 * h /\ TwoPower(h)
  BY <1>3, TwoHalf
<1>5. h < x
  BY <1>4
<1>6. h \notin Bad
  BY <1>2, <1>4, <1>5
<1>7. h \in S
  BY <1>4, <1>6
<1> QED BY <1>3, <1>4, <1>7

LEMMA TwoFactor ==
  ASSUME NEW c \in Nat, NEW d \in Nat, TwoPower(c * d)
  PROVE  TwoPower(c) /\ TwoPower(d)
<1>1. c * d \in Nat \ {0}
  BY DEF TwoPower
<1>2. c # 0 /\ d # 0
  BY <1>1
<1>3. ASSUME NEW e \in Nat, NEW i \in Nat, c = e * i, e # 1 PROVE \E j \in Nat : e = 2 * j
  <2>1. i * d \in Nat /\ c * d = e * (i * d)
    BY <1>3
  <2> QED BY <1>3, <2>1 DEF TwoPower
<1>4. ASSUME NEW e \in Nat, NEW i \in Nat, d = e * i, e # 1 PROVE \E j \in Nat : e = 2 * j
  <2>1. c * i \in Nat /\ c * d = e * (c * i)
    BY <1>4
  <2> QED BY <1>4, <2>1 DEF TwoPower
<1> QED BY <1>2, <1>3, <1>4 DEF TwoPower

LEMMA TwoDivides ==
  ASSUME NEW m, TwoPower(m), NEW b, TwoPower(b), m <= b
  PROVE  \E k \in Nat : b = k * m
<1> DEFINE S == {c \in Nat : \A d \in Nat : TwoPower(d) /\ d <= c => \E k \in Nat : c = k * d}
<1>0. m \in Nat /\ b \in Nat
  BY DEF TwoPower
<1>1. 1 \in S
  <2> SUFFICES ASSUME NEW d \in Nat, TwoPower(d), d <= 1 PROVE \E k \in Nat : 1 = k * d
    OBVIOUS
  <2>1. d = 1
    BY DEF TwoPower
  <2> QED BY <2>1
<1>2. ASSUME NEW c \in Nat, TwoPower(c), c \in S PROVE 2 * c \in S
  <2> SUFFICES ASSUME NEW d \in Nat, TwoPower(d), d <= 2 * c PROVE \E k \in Nat : 2 * c = k * d
    OBVIOUS
  <2>1. CASE d = 1
    <3>1. 2 * c \in Nat /\ 2 * c = (2 * c) * 1
      OBVIOUS
    <3> QED BY <2>1, <3>1
  <2>2. CASE d # 1
    <3>1. PICK h \in Nat \ {0} : d = 2 * h /\ TwoPower(h)
      BY <2>2, TwoHalf
    <3>2. h <= c
      BY <3>1
    <3>3. PICK k \in Nat : c = k * h
      BY <1>2, <3>1, <3>2
    <3>4. 2 * c = k * d
      BY <3>1, <3>3
    <3> QED BY <3>4
  <2> QED BY <2>1, <2>2
<1> HIDE DEF S
<1>3. b \in S
  BY <1>0, <1>1, <1>2, TwoInduction
<1> QED BY <1>0, <1>3 DEF S
-----------------------------------------------------------------------------
\* A prime, as ModuliAssumption has it.
IsPrime(p) == p \in Nat /\ p >= 2 /\ \A d \in 2 .. p - 1, e \in 1 .. p : d * e # p

\* Division with remainder of any integer.
LEMMA DivideBy ==
  ASSUME NEW z \in Int, NEW d \in Nat \ {0}
  PROVE  \E q \in Int, e \in 0 .. d - 1 : z = q * d + e
<1>1. z \div d \in Int /\ z % d \in 0 .. d - 1 /\ z = (z \div d) * d + (z % d)
  BY Z3
<1> QED BY <1>1

\* d is a combination of p and x.
Combines(d, p, x) == \E s \in Int, u \in Int : d = s * p + u * x

\* What is not zero modulo a prime has an inverse.
LEMMA PrimeInverse ==
  ASSUME NEW p, IsPrime(p), NEW x \in Int, ~ Cong(x, 0, p)
  PROVE  \E u \in Int : Cong(u * x, 1, p)
<1>1. p \in Nat \ {0} /\ p >= 2
  BY DEF IsPrime
<1> DEFINE S == {d \in Nat \ {0} : Combines(d, p, x)}
<1>2. Combines(p, p, x) /\ Combines(x, p, x)
  <2>1. p = 1 * p + 0 * x /\ x = 0 * p + 1 * x /\ 0 \in Int /\ 1 \in Int
    BY <1>1
  <2> QED BY <2>1, Zenon DEF Combines
<1>3. p \in S
  BY <1>1, <1>2
<1>4. PICK d \in S : \A e \in S : d <= e
  <2>1. S \in SUBSET Nat /\ S # {}
    BY <1>3
  <2> HIDE DEF S
  <2> QED BY <2>1, LeastNumber
<1>5. PICK s \in Int, u \in Int : d = s * p + u * x
  BY <1>4 DEF Combines
<1>6. d \in Nat \ {0}
  BY <1>4
<1>7. ASSUME NEW z \in Int, Combines(z, p, x) PROVE \E q \in Int : z = q * d
  <2>1. PICK q \in Int, e \in 0 .. d - 1 : z = q * d + e
    BY <1>6, DivideBy
  <2>2. PICK v \in Int, w \in Int : z = v * p + w * x
    BY <1>7 DEF Combines
  <2>3. e = (v - q * s) * p + (w - q * u) * x
    BY <1>1, <1>5, <2>1, <2>2
  <2>4. v - q * s \in Int /\ w - q * u \in Int
    OBVIOUS
  <2>5. Combines(e, p, x)
    BY <2>3, <2>4 DEF Combines
  <2>6. e = 0
    BY <1>4, <1>6, <2>1, <2>5
  <2> QED BY <2>1, <2>6
<1>8. PICK c \in Int : p = c * d
  <2>1. p \in Int
    BY <1>1
  <2> QED BY <1>2, <1>7, <2>1
<1>9. PICK b \in Int : x = b * d
  BY <1>2, <1>7
<1>10. c >= 1
  <2>1. c <= 0 => c * d <= 0
    BY <1>6
  <2> QED BY <1>1, <1>6, <1>8, <2>1
<1>11. d <= p /\ c <= p
  <2>1. c * d >= d /\ c * d >= c
    BY <1>6, <1>10
  <2> QED BY <1>1, <1>6, <1>8, <2>1
<1>12. d # p
  <2> SUFFICES ASSUME d = p PROVE FALSE
    OBVIOUS
  <2>1. x = 0 + b * p
    BY <1>1, <1>9
  <2> QED BY <2>1 DEF Cong
<1>13. d = 1
  <2> SUFFICES ASSUME d # 1 PROVE FALSE
    OBVIOUS
  <2>1. d \in 2 .. p - 1 /\ c \in 1 .. p /\ d * c = p
    BY <1>1, <1>6, <1>8, <1>10, <1>11, <1>12
  <2> QED BY <2>1 DEF IsPrime
<1>14. u * x = 1 + (-s) * p /\ -s \in Int /\ u * x \in Int
  BY <1>1, <1>5, <1>13
<1> QED BY <1>14 DEF Cong

\* A prime divides a factor of what it divides.
LEMMA PrimeDivides ==
  ASSUME NEW p, IsPrime(p), NEW x \in Int, NEW y \in Int, Cong(x * y, 0, p)
  PROVE  Cong(x, 0, p) \/ Cong(y, 0, p)
<1> SUFFICES ASSUME ~ Cong(x, 0, p) PROVE Cong(y, 0, p)
  OBVIOUS
<1>1. p \in Int
  BY DEF IsPrime
<1>2. PICK u \in Int : Cong(u * x, 1, p)
  BY PrimeInverse
<1>3. Cong((u * x) * y, 1 * y, p)
  BY <1>1, <1>2, CongSame, CongTimes
<1>4. Cong(u * (x * y), u * 0, p)
  BY <1>1, CongSame, CongTimes
<1>5. (u * x) * y = u * (x * y) /\ 1 * y = y /\ u * 0 = 0
  OBVIOUS
<1>6. Cong(y, u * (x * y), p)
  BY <1>1, <1>3, <1>5, CongSwap
<1> QED BY <1>1, <1>4, <1>5, <1>6, CongVia

LEMMA OneNotZero ==
  ASSUME NEW p \in Nat, p >= 3
  PROVE  ~ Cong(-1, 1, p) /\ ~ Cong(1, 0, p)
<1>1. ASSUME Cong(-1, 1, p) PROVE FALSE
  <2>1. PICK e \in Int : -1 = 1 + e * p
    BY <1>1 DEF Cong
  <2>2. e >= 0 => e * p >= 0
    OBVIOUS
  <2>3. e <= -1 => e * p <= -p
    OBVIOUS
  <2> QED BY <2>1, <2>2, <2>3
<1>2. ASSUME Cong(1, 0, p) PROVE FALSE
  <2>1. PICK e \in Int : 1 = 0 + e * p
    BY <1>2 DEF Cong
  <2>2. e <= 0 => e * p <= 0
    OBVIOUS
  <2>3. e >= 1 => e * p >= p
    OBVIOUS
  <2> QED BY <2>1, <2>2, <2>3
<1> QED BY <1>1, <1>2

\* A root of X^m + 1.
MinusRoot(v, m, p) == v \in Int /\ Cong(Pow(v, m), -1, p)

LEMMA MinusRootSquare ==
  ASSUME NEW p \in Int, NEW m \in Nat, NEW v, MinusRoot(v, 2 * m, p)
  PROVE  MinusRoot(v * v, m, p)
<1>1. v \in Int /\ v * v \in Int
  BY DEF MinusRoot
<1>2. v * v = Pow(v, 2)
  <2>1. Pow(v, 0 + 1) = 1 * v /\ Pow(v, 1 + 1) = Pow(v, 1) * v
    BY <1>1, PowUnfolds
  <2> QED BY <1>1, <2>1
<1>3. Pow(v * v, m) = Pow(v, 2 * m)
  BY <1>1, <1>2, PowProduct
<1> QED BY <1>1, <1>3 DEF MinusRoot

\* Its square is one.
LEMMA MinusRootTwice ==
  ASSUME NEW p \in Int, NEW m \in Nat, NEW v, MinusRoot(v, m, p)
  PROVE  Cong(Pow(v, 2 * m), 1, p)
<1>1. v \in Int
  BY DEF MinusRoot
<1>2. Pow(v, 2 * m) = Pow(v, m) * Pow(v, m)
  <2>1. 2 * m = m + m
    OBVIOUS
  <2> QED BY <1>1, <2>1, PowAdd
<1>3. Cong(Pow(v, m) * Pow(v, m), (-1) * (-1), p)
  BY CongTimes DEF MinusRoot
<1> QED BY <1>2, <1>3

\* Exponents may be reduced modulo the order.
LEMMA PowPeriod ==
  ASSUME NEW p \in Int, NEW v \in Int, NEW m \in Nat, Cong(Pow(v, m), 1, p),
         NEW k \in Nat, NEW i \in Nat
  PROVE  Cong(Pow(v, m * k + i), Pow(v, i), p)
<1>1. m * k \in Nat
  OBVIOUS
<1>2. Pow(v, m * k + i) = Pow(Pow(v, m), k) * Pow(v, i)
  BY <1>1, PowAdd, PowProduct
<1>3. Cong(Pow(Pow(v, m), k), Pow(1, k), p)
  BY CongPow
<1>4. Pow(1, k) = 1 /\ Pow(v, i) \in Int
  BY PowOne, PowUnfolds
<1>5. Cong(Pow(Pow(v, m), k) * Pow(v, i), 1 * Pow(v, i), p)
  BY <1>3, <1>4, CongSame, CongTimes
<1> QED BY <1>2, <1>4, <1>5

\* A root of X^m + 1 has order 2m if m is a power of two.
LEMMA RootOrder ==
  ASSUME NEW p \in Nat, p >= 3, NEW m, TwoPower(m), NEW v, MinusRoot(v, m, p),
         NEW e \in Nat, 0 < e, e < 2 * m
  PROVE  ~ Cong(Pow(v, e), 1, p)
<1> DEFINE S == {k \in Nat : \A w \in Int, i \in Nat :
                   MinusRoot(w, k, p) /\ 0 < i /\ i < 2 * k => ~ Cong(Pow(w, i), 1, p)}
<1>0. p \in Int /\ m \in Nat
  BY DEF TwoPower
<1>1. 1 \in S
  <2> SUFFICES ASSUME NEW w \in Int, NEW i \in Nat, MinusRoot(w, 1, p), 0 < i, i < 2 * 1,
                      Cong(Pow(w, i), 1, p)
               PROVE  FALSE
    OBVIOUS
  <2>1. i = 1
    OBVIOUS
  <2>2. Cong(-1, 1, p)
    BY <1>0, <2>1, CongSwap, CongVia DEF MinusRoot
  <2> QED BY <2>2, OneNotZero
<1>2. ASSUME NEW k \in Nat, TwoPower(k), k \in S PROVE 2 * k \in S
  <2> SUFFICES ASSUME NEW w \in Int, NEW i \in Nat, MinusRoot(w, 2 * k, p), 0 < i, i < 2 * (2 * k),
                      Cong(Pow(w, i), 1, p)
               PROVE  FALSE
    OBVIOUS
  <2>1. MinusRoot(w * w, k, p) /\ w * w \in Int
    BY <1>0, MinusRootSquare
  <2>2. \A j \in Nat : Pow(w * w, j) = Pow(w, j) * Pow(w, j)
    BY PowOfProduct
  <2>3. Cong(Pow(w * w, i), 1, p)
    <3>1. Cong(Pow(w, i) * Pow(w, i), 1 * 1, p)
      BY <1>0, CongTimes
    <3> QED BY <2>2, <3>1
  <2>4. PICK j \in Nat, b \in 0 .. 1 : i = 2 * j + b
    <3>1. i = 2 * (i \div 2) + (i % 2) /\ i \div 2 \in Nat /\ i % 2 \in 0 .. 1
      OBVIOUS
    <3> QED BY <3>1
  <2>5. CASE b = 0
    <3>1. i = j + j
      BY <2>4, <2>5
    <3>2. Pow(w * w, j) = Pow(w, i)
      BY <2>2, <3>1, PowAdd
    <3>3. 0 < j /\ j < 2 * k
      BY <3>1
    <3> QED BY <1>2, <2>1, <3>2, <3>3
  <2>6. CASE b = 1 /\ i < 2 * k
    BY <1>2, <2>1, <2>3, <2>6
  <2>7. CASE b = 1 /\ i >= 2 * k
    <3>1. PICK c \in Nat : i = (2 * k) * 1 + c /\ 0 < c /\ c < 2 * k
      <4>1. i - 2 * k \in Nat /\ i = (2 * k) * 1 + (i - 2 * k) /\ i - 2 * k # 0 /\ i - 2 * k < 2 * k
        BY <2>4, <2>7
      <4> QED BY <4>1
    <3>2. Cong(Pow(w * w, 2 * k), 1, p)
      BY <1>0, <2>1, MinusRootTwice
    <3>3. Cong(Pow(w * w, i), Pow(w * w, c), p)
      <4>1. 2 * k \in Nat /\ 1 \in Nat
        OBVIOUS
      <4> HIDE DEF S
      <4> QED BY <1>0, <2>1, <3>1, <3>2, <4>1, PowPeriod
    <3>4. Cong(Pow(w * w, c), 1, p)
      BY <1>0, <2>3, <3>3, CongSwap, CongVia
    <3> QED BY <1>2, <2>1, <3>1, <3>4
  <2> QED BY <2>4, <2>5, <2>6, <2>7
<1> HIDE DEF S
<1>3. m \in S
  BY <1>0, <1>1, <1>2, TwoInduction
<1> QED BY <1>0, <1>3 DEF S, MinusRoot

\* Its powers are all the roots of one of order 2m.
LEMMA RootsAre ==
  ASSUME NEW p, IsPrime(p), NEW m, TwoPower(m), NEW v, MinusRoot(v, m, p),
         NEW z \in Int, Cong(Pow(z, 2 * m), 1, p)
  PROVE  \E e \in Nat : e < 2 * m /\ Cong(z, Pow(v, e), p)
<1> DEFINE S == {k \in Nat : \A w \in Int, y \in Int :
                   MinusRoot(w, k, p) /\ Cong(Pow(y, 2 * k), 1, p)
                     => \E e \in Nat : e < 2 * k /\ Cong(y, Pow(w, e), p)}
<1>0. p \in Int /\ m \in Nat
  BY DEF TwoPower, IsPrime
\* From a square to its two roots.
<1>1. ASSUME NEW y \in Int, NEW u \in Int, Cong(y * y, u * u, p)
      PROVE  Cong(y, u, p) \/ Cong(y, -u, p)
  <2>1. Cong(y * y - u * u, u * u - u * u, p)
    <3>1. u * u \in Int
      OBVIOUS
    <3> QED BY <1>0, <1>1, <3>1, CongSame, CongPlus
  <2>2. (y - u) * (y + u) = y * y - u * u /\ u * u - u * u = 0 /\ y - u \in Int /\ y + u \in Int
    OBVIOUS
  <2>3. Cong((y - u) * (y + u), 0, p)
    BY <2>1, <2>2
  <2>4. Cong(y - u, 0, p) \/ Cong(y + u, 0, p)
    BY <2>2, <2>3, PrimeDivides
  <2>5. ASSUME Cong(y - u, 0, p) PROVE Cong(y, u, p)
    <3>1. Cong((y - u) + u, 0 + u, p)
      BY <1>0, <2>5, CongSame, CongPlus
    <3> QED BY <3>1
  <2>6. ASSUME Cong(y + u, 0, p) PROVE Cong(y, -u, p)
    <3>1. Cong((y + u) - u, 0 - u, p)
      BY <1>0, <2>6, CongSame, CongPlus
    <3> QED BY <3>1
  <2> QED BY <2>4, <2>5, <2>6
<1>2. 1 \in S
  <2> SUFFICES ASSUME NEW w \in Int, NEW y \in Int, MinusRoot(w, 1, p), Cong(Pow(y, 2 * 1), 1, p)
               PROVE  \E e \in Nat : e < 2 * 1 /\ Cong(y, Pow(w, e), p)
    OBVIOUS
  <2>1. Pow(y, 2 * 1) = y * y
    <3>1. Pow(y, 0 + 1) = 1 * y /\ Pow(y, 1 + 1) = Pow(y, 1) * y
      BY PowUnfolds
    <3> QED BY <3>1
  <2>2. Cong(y, 1, p) \/ Cong(y, -1, p)
    <3>1. Cong(y * y, 1 * 1, p)
      BY <2>1
    <3> QED BY <1>1, <3>1
  <2>3. Pow(w, 0) = 1 /\ Cong(-1, Pow(w, 1), p)
    BY <1>0, PowUnfolds, CongSwap DEF MinusRoot
  <2>4. ASSUME Cong(y, 1, p) PROVE \E e \in Nat : e < 2 * 1 /\ Cong(y, Pow(w, e), p)
    <3>1. 0 \in Nat /\ 0 < 2 * 1 /\ Cong(y, Pow(w, 0), p)
      BY <2>3, <2>4
    <3> QED BY <3>1
  <2>5. ASSUME Cong(y, -1, p) PROVE \E e \in Nat : e < 2 * 1 /\ Cong(y, Pow(w, e), p)
    <3>1. 1 \in Nat /\ 1 < 2 * 1 /\ Cong(y, Pow(w, 1), p)
      BY <1>0, <2>3, <2>5, CongVia
    <3> QED BY <3>1
  <2> QED BY <2>2, <2>4, <2>5
<1>3. ASSUME NEW k \in Nat, TwoPower(k), k \in S PROVE 2 * k \in S
  <2> SUFFICES ASSUME NEW w \in Int, NEW y \in Int, MinusRoot(w, 2 * k, p),
                      Cong(Pow(y, 2 * (2 * k)), 1, p)
               PROVE  \E e \in Nat : e < 2 * (2 * k) /\ Cong(y, Pow(w, e), p)
    OBVIOUS
  <2>1. MinusRoot(w * w, k, p) /\ w * w \in Int /\ y * y \in Int
    BY <1>0, MinusRootSquare
  <2>2. Cong(Pow(y * y, 2 * k), 1, p)
    <3>1. Pow(y * y, 2 * k) = Pow(y, 2 * k) * Pow(y, 2 * k)
      BY PowOfProduct
    <3>2. 2 * (2 * k) = 2 * k + 2 * k
      OBVIOUS
    <3>3. Pow(y, 2 * k + 2 * k) = Pow(y, 2 * k) * Pow(y, 2 * k)
      BY PowAdd
    <3> QED BY <3>1, <3>2, <3>3
  <2>3. PICK e \in Nat : e < 2 * k /\ Cong(y * y, Pow(w * w, e), p)
    BY <1>3, <2>1, <2>2
  <2> DEFINE u == Pow(w, e)
  <2>4. u \in Int /\ Pow(w * w, e) = u * u
    BY PowUnfolds, PowOfProduct
  <2>5. Cong(y, u, p) \/ Cong(y, -u, p)
    <3> HIDE DEF u
    <3> QED BY <1>1, <2>3, <2>4
  <2>6. CASE Cong(y, u, p)
    <3>1. e < 2 * (2 * k)
      BY <2>3
    <3> QED BY <2>6, <3>1
  <2>7. CASE Cong(y, -u, p)
    <3>1. 2 * k + e \in Nat /\ 2 * k + e < 2 * (2 * k)
      BY <2>3
    <3>2. Pow(w, 2 * k + e) = Pow(w, 2 * k) * u
      BY PowAdd
    <3>3. Cong(Pow(w, 2 * k) * u, (-1) * u, p)
      BY <1>0, <2>4, CongSame, CongTimes DEF MinusRoot
    <3>4. (-1) * u = -u
      BY <2>4
    <3>5. Cong(y, Pow(w, 2 * k + e), p)
      BY <1>0, <2>7, <3>2, <3>3, <3>4, CongSwap, CongVia
    <3> QED BY <3>1, <3>5
  <2> QED BY <2>5, <2>6, <2>7
<1> HIDE DEF S
<1>4. m \in S
  BY <1>0, <1>2, <1>3, TwoInduction
<1> QED BY <1>0, <1>4 DEF S, MinusRoot

\* The geometric sum.
LEMMA Geometric ==
  ASSUME NEW w \in Int, NEW m \in Nat
  PROVE  (w - 1) * Total([k \in Nat |-> Pow(w, k)], m) = Pow(w, m) - 1
<1> DEFINE f == [k \in Nat |-> Pow(w, k)]
           S == {k \in Nat : (w - 1) * Total(f, k) = Pow(w, k) - 1}
<1>1. f \in Seqs /\ \A k \in Nat : f[k] = Pow(w, k)
  BY PowUnfolds DEF Seqs
<1> HIDE DEF f
<1>2. 0 \in S
  BY <1>1, TotalUnfolds, PowUnfolds
<1>3. ASSUME NEW k \in Nat, k \in S PROVE k + 1 \in S
  <2>1. Total(f, k + 1) = Total(f, k) + Pow(w, k) /\ Total(f, k) \in Int
    BY <1>1, TotalUnfolds
  <2>2. Pow(w, k + 1) = Pow(w, k) * w /\ Pow(w, k) \in Int
    BY PowUnfolds
  <2>3. (w - 1) * (Total(f, k) + Pow(w, k)) = (w - 1) * Total(f, k) + (Pow(w, k) * w - Pow(w, k))
    BY <2>1, <2>2
  <2> QED BY <1>3, <2>1, <2>2, <2>3
<1> HIDE DEF S
<1>4. m \in S
  BY <1>2, <1>3, Induction
<1> QED BY <1>4 DEF S, f

\* The powers of a root other than one add up to zero.
LEMMA RootSum ==
  ASSUME NEW p, IsPrime(p), p >= 3, NEW m, TwoPower(m), NEW v, MinusRoot(v, m, p),
         NEW e \in Nat, 0 < e, e < 2 * m
  PROVE  Cong(Total([k \in Nat |-> Pow(v, e * k)], 2 * m), 0, p)
<1> DEFINE w == Pow(v, e)
           f == [k \in Nat |-> Pow(w, k)]
           s == Total(f, 2 * m)
<1>0. p \in Int /\ p \in Nat /\ m \in Nat /\ 2 * m \in Nat /\ v \in Int
  BY DEF TwoPower, IsPrime, MinusRoot
<1>1. w \in Int
  BY <1>0, PowUnfolds
<1>2. f = [k \in Nat |-> Pow(v, e * k)]
  <2>1. \A k \in Nat : Pow(w, k) = Pow(v, e * k)
    BY <1>0, PowProduct
  <2> QED BY <2>1
<1>3. Pow(w, 2 * m) = Pow(Pow(v, 2 * m), e)
  <2>1. e * (2 * m) = (2 * m) * e
    BY <1>0
  <2>2. Pow(w, 2 * m) = Pow(v, e * (2 * m)) /\ Pow(Pow(v, 2 * m), e) = Pow(v, (2 * m) * e)
    BY <1>0, PowProduct
  <2> QED BY <2>1, <2>2
<1>4. Cong(Pow(Pow(v, 2 * m), e), 1, p)
  <2>1. Cong(Pow(v, 2 * m), 1, p)
    BY <1>0, MinusRootTwice
  <2>2. Cong(Pow(Pow(v, 2 * m), e), Pow(1, e), p)
    BY <1>0, <2>1, CongPow
  <2> QED BY <2>2, PowOne
<1>5. ~ Cong(w, 1, p)
  BY <1>0, RootOrder
<1>6. s \in Int
  <2>1. f \in Seqs
    <3> HIDE DEF w
    <3> QED BY <1>1, PowUnfolds DEF Seqs
  <2> HIDE DEF f
  <2> QED BY <1>0, <2>1, TotalUnfolds
<1>7. (w - 1) * s = Pow(w, 2 * m) - 1
  <2> HIDE DEF w
  <2> QED BY <1>0, <1>1, Geometric
<1> HIDE DEF w, s, f
<1>8. Cong((w - 1) * s, 0, p)
  <2>0. Cong(1, 1, p)
    BY <1>0, CongSame
  <2>1. Cong(Pow(w, 2 * m) - 1, 1 - 1, p)
    BY <1>0, <1>3, <1>4, <2>0, CongPlus
  <2> QED BY <1>7, <2>1
<1>9. w - 1 \in Int
  BY <1>1
<1>10. Cong(w - 1, 0, p) => Cong(w, 1, p)
  <2> SUFFICES ASSUME Cong(w - 1, 0, p) PROVE Cong(w, 1, p)
    OBVIOUS
  <2>0. Cong(1, 1, p)
    BY <1>0, CongSame
  <2>1. Cong((w - 1) + 1, 0 + 1, p)
    BY <1>0, <2>0, CongPlus
  <2>2. (w - 1) + 1 = w /\ 0 + 1 = 1
    BY <1>1
  <2> QED BY <2>1, <2>2
<1>11. Cong(s, 0, p)
  BY <1>5, <1>6, <1>8, <1>9, <1>10, PrimeDivides
<1> QED BY <1>2, <1>11 DEF s

\* v and u are inverses of each other modulo p.
Inverses(v, u, p) == v \in Int /\ u \in Int /\ Cong(v * u, 1, p)

LEMMA PowInverse ==
  ASSUME NEW p \in Int, NEW v, NEW u, Inverses(v, u, p), NEW k \in Nat
  PROVE  Cong(Pow(v, k) * Pow(u, k), 1, p)
<1>1. v \in Int /\ u \in Int /\ Cong(Pow(v * u, k), Pow(1, k), p)
  BY CongPow DEF Inverses
<1> QED BY <1>1, PowOne, PowOfProduct

LEMMA InversesSwap ==
  ASSUME NEW p \in Int, NEW v, NEW u, Inverses(v, u, p) PROVE Inverses(u, v, p)
<1>1. v \in Int /\ u \in Int /\ v * u = u * v
  BY DEF Inverses
<1> QED BY <1>1 DEF Inverses

\* The inverse of a root is a root.
LEMMA InverseRoot ==
  ASSUME NEW p \in Int, NEW m \in Nat, NEW v, NEW u, Inverses(v, u, p), MinusRoot(v, m, p)
  PROVE  MinusRoot(u, m, p)
<1> DEFINE c == Pow(v, m)
           d == Pow(u, m)
<1>1. c \in Int /\ d \in Int /\ u \in Int
  BY PowUnfolds DEF Inverses
<1>2. Cong(c * d, 1, p)
  BY PowInverse
<1>3. Cong(c, -1, p)
  BY DEF MinusRoot
<1> HIDE DEF c, d
<1>4. Cong(c * d, (-1) * d, p)
  BY <1>1, <1>3, CongSame, CongTimes
<1>5. Cong((-1) * d, 1, p)
  BY <1>2, <1>4, CongSwap, CongVia
<1>6. Cong((-1) * ((-1) * d), (-1) * 1, p)
  <2>1. Cong(-1, -1, p)
    BY CongSame
  <2> QED BY <1>5, <2>1, CongTimes
<1>7. (-1) * ((-1) * d) = d /\ (-1) * 1 = -1
  BY <1>1
<1> QED BY <1>1, <1>6, <1>7 DEF MinusRoot, d

\* One power against another with a smaller exponent.
LEMMA PowCancels ==
  ASSUME NEW p \in Int, NEW v, NEW u, Inverses(v, u, p), NEW i \in Nat, NEW j \in Nat
  PROVE  Cong(Pow(v, i + j) * Pow(u, j), Pow(v, i), p)
<1>1. v \in Int /\ u \in Int
  BY DEF Inverses
<1>2. Pow(v, i) \in Int /\ Pow(v, j) \in Int /\ Pow(u, j) \in Int /\ Pow(v, i + j) = Pow(v, i) * Pow(v, j)
  BY <1>1, PowUnfolds, PowAdd
<1>3. Cong(Pow(v, i) * (Pow(v, j) * Pow(u, j)), Pow(v, i) * 1, p)
  BY <1>2, PowInverse, CongSame, CongTimes
<1>4. Pow(v, i) * (Pow(v, j) * Pow(u, j)) = Pow(v, i + j) * Pow(u, j) /\ Pow(v, i) * 1 = Pow(v, i)
  BY <1>2
<1> QED BY <1>3, <1>4

\* The terms of two rows of the transform and of its inverse.
Cross(v, u, i, j) == [k \in Nat |-> Pow(v, i * k) * Pow(u, j * k)]

LEMMA CrossSeq ==
  ASSUME NEW v \in Int, NEW u \in Int, NEW i \in Nat, NEW j \in Nat
  PROVE  Cross(v, u, i, j) \in Seqs /\ \A k \in Nat : Cross(v, u, i, j)[k] = Pow(v, i * k) * Pow(u, j * k)
<1>1. ASSUME NEW k \in Nat PROVE Pow(v, i * k) \in Int /\ Pow(u, j * k) \in Int
  <2>1. i * k \in Nat /\ j * k \in Nat
    OBVIOUS
  <2> QED BY <2>1, PowUnfolds
<1>2. ASSUME NEW k \in Nat PROVE Pow(v, i * k) * Pow(u, j * k) \in Int
  BY <1>1
<1> QED BY <1>2 DEF Cross, Seqs

LEMMA CrossAbove ==
  ASSUME NEW p, IsPrime(p), p >= 3, NEW m, TwoPower(m), NEW v, NEW u,
         MinusRoot(v, m, p), Inverses(v, u, p),
         NEW i \in Nat, NEW j \in Nat, j < i, i < 2 * m
  PROVE  Cong(Total(Cross(v, u, i, j), 2 * m), 0, p)
<1>0. p \in Int /\ m \in Nat /\ 2 * m \in Nat /\ v \in Int /\ u \in Int
  BY DEF IsPrime, TwoPower, Inverses
<1>1. PICK e \in Nat : e = i - j
  OBVIOUS
<1>2. 0 < e /\ e < 2 * m /\ i = e + j
  BY <1>0, <1>1
<1> DEFINE g == [k \in Nat |-> Pow(v, e * k)]
<1>3. g \in Seqs /\ \A k \in Nat : g[k] = Pow(v, e * k)
  <2>1. \A k \in Nat : e * k \in Nat
    OBVIOUS
  <2> QED BY <1>0, <2>1, PowUnfolds DEF Seqs
<1>4. Cong(Total(g, 2 * m), 0, p)
  BY <1>2, RootSum
<1> HIDE DEF g
<1>5. ASSUME NEW k \in Nat PROVE Cong(Cross(v, u, i, j)[k], g[k], p)
  <2>1. i * k = e * k + j * k /\ e * k \in Nat /\ j * k \in Nat
    BY <1>2
  <2>2. Cong(Pow(v, e * k + j * k) * Pow(u, j * k), Pow(v, e * k), p)
    BY <1>0, <2>1, PowCancels
  <2>3. Cross(v, u, i, j)[k] = Pow(v, i * k) * Pow(u, j * k)
    BY <1>0, CrossSeq
  <2> QED BY <1>2, <1>3, <2>1, <2>2, <2>3
<1>6. Cong(Total(Cross(v, u, i, j), 2 * m), Total(g, 2 * m), p)
  BY <1>0, <1>3, <1>5, CrossSeq, TotalCong
<1> QED BY <1>0, <1>4, <1>6, CongVia

LEMMA TotalConstant ==
  ASSUME NEW c \in Int, NEW m \in Nat
  PROVE  [k \in Nat |-> c] \in Seqs /\ Total([k \in Nat |-> c], m) = c * m
<1> DEFINE f == [k \in Nat |-> c]
           S == {k \in Nat : Total(f, k) = c * k}
<1>1. f \in Seqs /\ \A k \in Nat : f[k] = c
  BY DEF Seqs
<1> HIDE DEF f
<1>2. 0 \in S
  BY <1>1, TotalUnfolds
<1>3. ASSUME NEW k \in Nat, k \in S PROVE k + 1 \in S
  <2>1. Total(f, k + 1) = Total(f, k) + c
    BY <1>1, TotalUnfolds
  <2> QED BY <1>3, <2>1
<1> HIDE DEF S
<1>4. m \in S
  BY <1>2, <1>3, Induction
<1> QED BY <1>1, <1>4 DEF S, f

\* The rows of the transform are orthogonal to those of its inverse.
LEMMA Orthogonal ==
  ASSUME NEW p, IsPrime(p), p >= 3, NEW m, TwoPower(m), NEW v, NEW u,
         MinusRoot(v, m, p), Inverses(v, u, p),
         NEW i \in Nat, NEW j \in Nat, i < 2 * m, j < 2 * m
  PROVE  Cong(Total(Cross(v, u, i, j), 2 * m), IF i = j THEN 2 * m ELSE 0, p)
<1>0. p \in Int /\ m \in Nat /\ 2 * m \in Nat /\ v \in Int /\ u \in Int
  BY DEF IsPrime, TwoPower, Inverses
<1>1. CASE j < i
  BY <1>1, CrossAbove
<1>2. CASE i < j
  <2>1. MinusRoot(u, m, p) /\ Inverses(u, v, p)
    BY <1>0, InverseRoot, InversesSwap
  <2>2. Cong(Total(Cross(u, v, j, i), 2 * m), 0, p)
    BY <1>2, <2>1, CrossAbove
  <2>3. \A k \in Nat : Cross(u, v, j, i)[k] = Cross(v, u, i, j)[k]
    <3> TAKE k \in Nat
    <3>1. j * k \in Nat /\ i * k \in Nat
      OBVIOUS
    <3>2. Pow(u, j * k) \in Int /\ Pow(v, i * k) \in Int
      BY <1>0, <3>1, PowUnfolds
    <3>3. Pow(u, j * k) * Pow(v, i * k) = Pow(v, i * k) * Pow(u, j * k)
      BY <3>2
    <3>4. Cross(u, v, j, i)[k] = Pow(u, j * k) * Pow(v, i * k)
      BY <1>0, CrossSeq
    <3>5. Cross(v, u, i, j)[k] = Pow(v, i * k) * Pow(u, j * k)
      BY <1>0, CrossSeq
    <3> QED BY <3>3, <3>4, <3>5
  <2>4. Total(Cross(u, v, j, i), 2 * m) = Total(Cross(v, u, i, j), 2 * m)
    <3>1. Cross(u, v, j, i) \in Seqs
      BY <1>0, CrossSeq
    <3>2. Cross(v, u, i, j) \in Seqs
      BY <1>0, CrossSeq
    <3> QED BY <1>0, <2>3, <3>1, <3>2, TotalSame
  <2> QED BY <1>2, <2>2, <2>4
<1>3. CASE i = j
  <2> DEFINE g == [k \in Nat |-> 1]
  <2>1. g \in Seqs /\ Total(g, 2 * m) = 2 * m /\ \A k \in Nat : g[k] = 1
    <3>1. 1 * (2 * m) = 2 * m
      BY <1>0
    <3> QED BY <1>0, <3>1, TotalConstant
  <2> HIDE DEF g
  <2>2. ASSUME NEW k \in Nat PROVE Cong(Cross(v, u, i, j)[k], g[k], p)
    <3>1. i * k \in Nat /\ j * k = i * k
      BY <1>3
    <3>2. Cong(Pow(v, i * k) * Pow(u, i * k), 1, p)
      BY <1>0, <3>1, PowInverse
    <3>3. Cross(v, u, i, j)[k] = Pow(v, i * k) * Pow(u, j * k)
      BY <1>0, CrossSeq
    <3> QED BY <2>1, <3>1, <3>2, <3>3
  <2>3. Cong(Total(Cross(v, u, i, j), 2 * m), Total(g, 2 * m), p)
    BY <1>0, <2>1, <2>2, CrossSeq, TotalCong
  <2> QED BY <1>3, <2>1, <2>3
<1> QED BY <1>1, <1>2, <1>3

\* The terms and the value at z of the polynomial with coefficients x, m of them.
Terms(x, z) == [k \in Nat |-> x[k] * Pow(z, k)]
Value(x, z, m) == Total(Terms(x, z), m)

LEMMA TermsAre ==
  ASSUME NEW x \in Seqs, NEW z \in Int
  PROVE  Terms(x, z) \in Seqs /\ \A k \in Nat : Terms(x, z)[k] = x[k] * Pow(z, k)
<1>1. ASSUME NEW k \in Nat PROVE x[k] * Pow(z, k) \in Int
  <2>1. x[k] \in Int /\ Pow(z, k) \in Int
    BY PowUnfolds DEF Seqs
  <2> QED BY <2>1
<1> QED BY <1>1 DEF Terms, Seqs

LEMMA ValueIn ==
  ASSUME NEW x \in Seqs, NEW z \in Int, NEW m \in Nat
  PROVE  Value(x, z, m) \in Int
<1>1. Terms(x, z) \in Seqs
  BY TermsAre
<1> QED BY <1>1, TotalUnfolds DEF Value

\* Congruent coefficients and congruent points have congruent values.
LEMMA ValueCong ==
  ASSUME NEW p \in Int, NEW m \in Nat, NEW x \in Seqs, NEW y \in Seqs, NEW z, NEW w,
         Cong(z, w, p), \A k \in Nat : k < m => Cong(x[k], y[k], p)
  PROVE  Cong(Value(x, z, m), Value(y, w, m), p)
<1>1. z \in Int /\ w \in Int
  BY DEF Cong
<1>2. ASSUME NEW k \in Nat, k < m PROVE Cong(Terms(x, z)[k], Terms(y, w)[k], p)
  <2>1. Cong(Pow(z, k), Pow(w, k), p)
    BY CongPow
  <2>2. Cong(x[k] * Pow(z, k), y[k] * Pow(w, k), p)
    BY <1>2, <2>1, CongTimes
  <2>3. Terms(x, z)[k] = x[k] * Pow(z, k)
    BY <1>1, TermsAre
  <2>4. Terms(y, w)[k] = y[k] * Pow(w, k)
    BY <1>1, TermsAre
  <2> QED BY <2>2, <2>3, <2>4
<1>3. Terms(x, z) \in Seqs
  BY <1>1, TermsAre
<1>4. Terms(y, w) \in Seqs
  BY <1>1, TermsAre
<1>5. Cong(Total(Terms(x, z), m), Total(Terms(y, w), m), p)
  BY <1>2, <1>3, <1>4, TotalCong
<1> QED BY <1>5 DEF Value

\* The transform of the values at the powers of the inverse root.
LEMMA Inversion ==
  ASSUME NEW p, IsPrime(p), p >= 3, NEW m, TwoPower(m), NEW v, NEW u,
         MinusRoot(v, m, p), Inverses(v, u, p), NEW x \in Seqs, NEW y \in Seqs,
         \A i \in Nat : i < 2 * m => Cong(y[i], Value(x, Pow(u, i), 2 * m), p),
         NEW j \in Nat, j < 2 * m
  PROVE  Cong(Value(y, Pow(v, j), 2 * m), (2 * m) * x[j], p)
<1>0. p \in Int /\ m \in Nat /\ 2 * m \in Nat /\ v \in Int /\ u \in Int
  BY DEF IsPrime, TwoPower, Inverses
<1> DEFINE l == 2 * m
           row(i) == [k \in Nat |-> x[k] * Cross(v, u, j, k)[i]]
           rows == [i \in Nat |-> row(i)]
           col(k) == [i \in Nat |-> rows[i][k]]
           cols == [k \in Nat |-> Total(col(k), l)]
           sums == [i \in Nat |-> Total(rows[i], l)]
<1>1. ASSUME NEW i \in Nat, NEW k \in Nat
      PROVE Cross(v, u, j, k)[i] = Pow(v, j * i) * Pow(u, k * i) /\ Cross(v, u, j, k)[i] \in Int /\ x[k] \in Int
  <2>1. Cross(v, u, j, k) \in Seqs
    BY <1>0, CrossSeq
  <2>2. Cross(v, u, j, k)[i] = Pow(v, j * i) * Pow(u, k * i)
    BY <1>0, CrossSeq
  <2> QED BY <2>1, <2>2 DEF Seqs
<1>01. \A k \in Nat : x[k] \in Int /\ y[k] \in Int
  BY DEF Seqs
<1>2. ASSUME NEW i \in Nat PROVE row(i) \in Seqs /\ \A k \in Nat : row(i)[k] = x[k] * Cross(v, u, j, k)[i]
  <2>1. ASSUME NEW k \in Nat PROVE x[k] * Cross(v, u, j, k)[i] \in Int
    <3>1. Cross(v, u, j, k)[i] \in Int
      BY <1>1
    <3> QED BY <1>01, <3>1
  <2> QED BY <2>1 DEF Seqs
<1>3. rows \in [Nat -> Seqs] /\ \A i \in Nat : rows[i] \in Seqs /\ \A k \in Nat : rows[i][k] = x[k] * Cross(v, u, j, k)[i]
  BY <1>2
<1> HIDE DEF rows
\* The rows are the terms at Pow(v, j) of the transform of the values.
<1>4. ASSUME NEW i \in Nat, i < l PROVE Cong(Terms(y, Pow(v, j))[i], Total(rows[i], l), p)
  <2> DEFINE al == Pow(v, j * i)
             ti == Terms(x, Pow(u, i))
  <2>0. al \in Int /\ Pow(v, j) \in Int /\ Pow(u, i) \in Int /\ Pow(Pow(v, j), i) = al
    <3>1. j * i \in Nat
      OBVIOUS
    <3> QED BY <1>0, <3>1, PowUnfolds, PowProduct
  <2>1. ti \in Seqs /\ \A k \in Nat : ti[k] = x[k] * Pow(Pow(u, i), k)
    BY <2>0, TermsAre
  <2>2. Terms(y, Pow(v, j))[i] = y[i] * al
    <3>1. Terms(y, Pow(v, j))[i] = y[i] * Pow(Pow(v, j), i)
      BY <2>0, TermsAre
    <3> QED BY <2>0, <3>1
  <2>3. Cong(y[i] * al, Value(x, Pow(u, i), l) * al, p)
    <3>1. Cong(al, al, p)
      BY <1>0, <2>0, CongSame
    <3>2. Cong(y[i], Value(x, Pow(u, i), l), p)
      BY <1>4
    <3> HIDE DEF al, l
    <3> QED BY <1>0, <3>1, <3>2, CongTimes
  <2> DEFINE s == [k \in Nat |-> al * ti[k]]
  <2>4. s \in Seqs /\ \A k \in Nat : s[k] = al * ti[k]
    <3> HIDE DEF ti, al
    <3> QED BY <2>0, <2>1 DEF Seqs
  <2>5. Total(s, l) = al * Total(ti, l)
    <3> HIDE DEF ti, al, l
    <3>1. l \in Nat
      BY <1>0 DEF l
    <3> QED BY <2>0, <2>1, <3>1, TotalTimes
  <2> HIDE DEF s
  <2>6. ASSUME NEW k \in Nat PROVE s[k] = rows[i][k]
    <3>1. Pow(Pow(u, i), k) = Pow(u, k * i) /\ Pow(u, k * i) \in Int /\ x[k] \in Int
      <4>1. k * i = i * k /\ k * i \in Nat
        OBVIOUS
      <4>2. Pow(u, i * k) = Pow(Pow(u, i), k)
        BY <1>0, PowProduct
      <4>3. Pow(u, k * i) \in Int
        BY <1>0, <4>1, PowUnfolds
      <4> QED BY <1>01, <4>1, <4>2, <4>3
    <3>20. Cross(v, u, j, k)[i] = al * Pow(u, k * i)
      BY <1>1
    <3>2. rows[i][k] = x[k] * (al * Pow(u, k * i)) /\ s[k] = al * (x[k] * Pow(u, k * i))
      <4> HIDE DEF al, ti
      <4> QED BY <1>3, <2>1, <2>4, <3>1, <3>20
    <3> HIDE DEF al
    <3>3. al * (x[k] * Pow(u, k * i)) = x[k] * (al * Pow(u, k * i))
      BY <2>0, <3>1
    <3> QED BY <3>2, <3>3
  <2>7. Total(s, l) = Total(rows[i], l)
    BY <1>0, <1>3, <2>4, <2>6, TotalSame
  <2>8. Value(x, Pow(u, i), l) * al = al * Total(ti, l)
    <3>1. Total(ti, l) \in Int
      <4> HIDE DEF ti
      <4> QED BY <1>0, <2>1, TotalUnfolds
    <3>2. Value(x, Pow(u, i), l) = Total(ti, l)
      BY DEF Value
    <3> HIDE DEF ti, al, l
    <3> QED BY <2>0, <3>1, <3>2
  <2> QED BY <2>2, <2>3, <2>5, <2>7, <2>8
<1>5. sums \in Seqs /\ \A i \in Nat : sums[i] = Total(rows[i], l)
  <2>1. ASSUME NEW i \in Nat PROVE Total(rows[i], l) \in Int
    BY <1>0, <1>3, TotalUnfolds
  <2> QED BY <2>1 DEF Seqs
<1>6. Cong(Value(y, Pow(v, j), l), Total(sums, l), p)
  <2>1. Pow(v, j) \in Int
    BY <1>0, PowUnfolds
  <2>2. Terms(y, Pow(v, j)) \in Seqs
    BY <2>1, TermsAre
  <2> HIDE DEF sums
  <2>3. \A i \in Nat : i < l => Cong(Terms(y, Pow(v, j))[i], sums[i], p)
    BY <1>4, <1>5
  <2>4. l \in Nat
    BY <1>0
  <2> HIDE DEF l
  <2>5. Cong(Total(Terms(y, Pow(v, j)), l), Total(sums, l), p)
    BY <1>0, <1>5, <2>2, <2>3, <2>4, TotalCong
  <2> QED BY <2>5 DEF Value
<1>7. Total(sums, l) = Total(cols, l)
  BY <1>0, <1>3, TotalsExchange
<1>8. ASSUME NEW k \in Nat PROVE col(k) \in Seqs /\ \A i \in Nat : col(k)[i] = x[k] * Cross(v, u, j, k)[i]
  <2>1. \A i \in Nat : rows[i][k] = x[k] * Cross(v, u, j, k)[i] /\ rows[i][k] \in Int
    BY <1>3 DEF Seqs
  <2> QED BY <2>1 DEF Seqs
<1>9. ASSUME NEW k \in Nat PROVE Total(col(k), l) = x[k] * Total(Cross(v, u, j, k), l)
  <2> DEFINE g == Cross(v, u, j, k)
             e == [i \in Nat |-> x[k] * g[i]]
  <2>1. g \in Seqs
    BY <1>0, CrossSeq
  <2>2. x[k] \in Int
    BY <1>1
  <2> HIDE DEF g
  <2>3. Total(e, l) = x[k] * Total(g, l)
    BY <1>0, <2>1, <2>2, TotalTimes
  <2>4. e \in Seqs /\ \A i \in Nat : e[i] = x[k] * g[i]
    <3>1. \A i \in Nat : g[i] \in Int
      BY <2>1 DEF Seqs
    <3> QED BY <2>2, <3>1 DEF Seqs
  <2> HIDE DEF e
  <2>5. \A i \in Nat : e[i] = col(k)[i]
    BY <1>8, <2>4 DEF g
  <2>6. Total(e, l) = Total(col(k), l)
    <3> DEFINE c == col(k)
    <3>1. c \in Seqs /\ \A i \in Nat : e[i] = c[i]
      BY <1>8, <2>5
    <3> HIDE DEF c
    <3>2. Total(e, l) = Total(c, l)
      BY <1>0, <2>4, <3>1, TotalSame
    <3> QED BY <3>2 DEF c
  <2> QED BY <2>3, <2>6 DEF g
\* All columns but that of j vanish.
<1> DEFINE only == [k \in Nat |-> IF k = j THEN x[j] * l ELSE 0]
<1>10. only \in Seqs /\ \A k \in Nat : only[k] = IF k = j THEN x[j] * l ELSE 0
  <2>1. x[j] * l \in Int
    BY <1>0, <1>01
  <2> QED BY <2>1 DEF Seqs
<1>11. cols \in Seqs /\ \A k \in Nat : cols[k] = Total(col(k), l)
  <2>1. ASSUME NEW k \in Nat PROVE Total(col(k), l) \in Int
    <3> DEFINE c == col(k)
    <3>1. c \in Seqs
      BY <1>8
    <3> HIDE DEF c
    <3>2. Total(c, l) \in Int
      BY <1>0, <3>1, TotalUnfolds
    <3> QED BY <3>2 DEF c
  <2> QED BY <2>1 DEF Seqs
<1>12. ASSUME NEW k \in Nat, k < l PROVE Cong(cols[k], only[k], p)
  <2>1. Cong(Total(Cross(v, u, j, k), l), IF j = k THEN l ELSE 0, p)
    BY <1>12, Orthogonal
  <2>2. x[k] \in Int /\ Cong(x[k], x[k], p)
    BY <1>0, <1>1, CongSame
  <2>3. Cong(x[k] * Total(Cross(v, u, j, k), l), x[k] * (IF j = k THEN l ELSE 0), p)
    <3> DEFINE c == Total(Cross(v, u, j, k), l)
               d == IF j = k THEN l ELSE 0
    <3>1. Cong(c, d, p)
      BY <2>1
    <3> HIDE DEF c, d
    <3>2. Cong(x[k] * c, x[k] * d, p)
      BY <1>0, <2>2, <3>1, CongTimes
    <3> QED BY <3>2 DEF c, d
  <2>4. x[k] * (IF j = k THEN l ELSE 0) = only[k]
    BY <1>10, <2>2
  <2>5. cols[k] = x[k] * Total(Cross(v, u, j, k), l)
    BY <1>9, <1>11
  <2> QED BY <2>3, <2>4, <2>5
<1>13. Cong(Total(cols, l), Total(only, l), p)
  <2> HIDE DEF cols, only
  <2> QED BY <1>0, <1>10, <1>11, <1>12, TotalCong
<1>14. Total(only, l) = x[j] * l
  <2> HIDE DEF only
  <2>1. \A k \in Nat : k < l /\ k # j => only[k] = 0
    BY <1>10
  <2>2. Total(only, l) = only[j]
    BY <1>0, <1>10, <2>1, TotalAlone
  <2> QED BY <1>10, <2>2
<1>15. x[j] * l = l * x[j]
  <2>1. x[j] \in Int
    BY <1>01
  <2> QED BY <1>0, <2>1
<1> QED BY <1>0, <1>6, <1>7, <1>13, <1>14, <1>15, CongVia

\* What coefficient i of one factor adds to coefficient k of a product modulo X^l + 1.
Turned(x, y, l, k, i) ==
  IF i <= k THEN x[i] * y[k - i] ELSE IF i < l THEN -(x[i] * y[l + k - i]) ELSE 0

\* The part of one coefficient at a root of X^l + 1.
LEMMA TurnedColumn ==
  ASSUME NEW p \in Int, NEW l \in Nat, NEW z, MinusRoot(z, l, p),
         NEW x \in Seqs, NEW y \in Seqs, NEW h \in Seqs, NEW i \in Nat, i < l,
         \A k \in Nat : k < l => h[k] = Turned(x, y, l, k, i) * Pow(z, k)
  PROVE  Cong(Total(h, l), (x[i] * Pow(z, i)) * Value(y, z, l), p)
<1>0. z \in Int /\ x[i] \in Int /\ \A k \in Nat : y[k] \in Int /\ Pow(z, k) \in Int
  BY PowUnfolds DEF MinusRoot, Seqs
<1>1. PICK e \in Nat : e = l - i
  OBVIOUS
<1>2. l = i + e /\ l = e + i /\ 0 < e
  BY <1>1
<1> DEFINE c == x[i] * Pow(z, i)
           tt == Terms(y, z)
           hs == [k \in Nat |-> h[i + k]]
           ts == [k \in Nat |-> tt[e + k]]
           ct == [k \in Nat |-> c * tt[k]]
           cts == [k \in Nat |-> c * ts[k]]
<1>3. c \in Int
  BY <1>0
<1>4. tt \in Seqs /\ \A k \in Nat : tt[k] = y[k] * Pow(z, k) /\ tt[k] \in Int
  <2>1. tt \in Seqs /\ \A k \in Nat : tt[k] = y[k] * Pow(z, k)
    BY <1>0, TermsAre
  <2> HIDE DEF tt
  <2> QED BY <2>1 DEF Seqs
<1> HIDE DEF tt
<1>5. hs \in Seqs /\ \A k \in Nat : hs[k] = h[i + k]
  BY DEF Seqs
<1>6. ts \in Seqs /\ \A k \in Nat : ts[k] = tt[e + k]
  BY <1>4 DEF Seqs
<1>7. Total(h, l) = Total(h, i) + Total(hs, e)
  BY <1>2, TotalSplit
<1>8. Total(tt, l) = Total(tt, e) + Total(ts, i)
  BY <1>2, <1>4, TotalSplit
<1> HIDE DEF hs, ts
<1>9. ct \in Seqs /\ (\A k \in Nat : ct[k] = c * tt[k]) /\ Total(ct, e) = c * Total(tt, e)
  <2>1. ct \in Seqs
    <3> HIDE DEF c
    <3> QED BY <1>3, <1>4 DEF Seqs
  <2> HIDE DEF c
  <2>2. Total(ct, e) = c * Total(tt, e)
    BY <1>3, <1>4, TotalTimes
  <2> QED BY <2>1, <2>2
<1>10. cts \in Seqs /\ (\A k \in Nat : cts[k] = c * ts[k]) /\ Total(cts, i) = c * Total(ts, i)
  <2> HIDE DEF c
  <2>1. cts \in Seqs
    <3>1. \A k \in Nat : ts[k] \in Int
      BY <1>6 DEF Seqs
    <3> QED BY <1>3, <3>1 DEF Seqs
  <2>2. Total(cts, i) = c * Total(ts, i)
    BY <1>3, <1>6, TotalTimes
  <2> QED BY <2>1, <2>2
<1> HIDE DEF c, ct, cts
<1>11. ASSUME NEW k \in Nat, k < e PROVE hs[k] = ct[k]
  <2>1. i + k \in Nat /\ i + k < l /\ i <= i + k /\ (i + k) - i = k
    BY <1>2, <1>11
  <2>2. hs[k] = Turned(x, y, l, i + k, i) * Pow(z, i + k)
    BY <1>5, <2>1
  <2>3. Turned(x, y, l, i + k, i) = x[i] * y[k]
    BY <2>1 DEF Turned
  <2>4. Pow(z, i + k) = Pow(z, i) * Pow(z, k)
    BY <1>0, PowAdd
  <2>5. (x[i] * y[k]) * (Pow(z, i) * Pow(z, k)) = (x[i] * Pow(z, i)) * (y[k] * Pow(z, k))
    BY <1>0
  <2> QED BY <1>4, <1>9, <2>2, <2>3, <2>4, <2>5 DEF c
<1>12. Total(hs, e) = Total(ct, e)
  BY <1>5, <1>9, <1>11, TotalSame
<1>13. ASSUME NEW k \in Nat, k < i PROVE Cong(h[k], cts[k], p)
  <2> DEFINE yk == y[e + k]
             zk == Pow(z, k)
  <2>0. yk \in Int /\ zk \in Int /\ Pow(z, e) \in Int /\ Pow(z, i) \in Int /\ Pow(z, e + k) \in Int
    BY <1>0
  <2>1. ~ (i <= k) /\ k < l /\ l + k - i = e + k /\ e + k \in Nat
    BY <1>2, <1>13
  <2>2. h[k] = Turned(x, y, l, k, i) * zk
    BY <2>1
  <2>3. Turned(x, y, l, k, i) = -(x[i] * yk)
    BY <2>1 DEF Turned
  <2>4. cts[k] = c * (yk * Pow(z, e + k))
    BY <1>4, <1>6, <1>10, <2>1
  <2>5. Pow(z, e + k) = Pow(z, e) * zk /\ Pow(z, l) = Pow(z, i) * Pow(z, e)
    <3>1. Pow(z, e + k) = Pow(z, e) * zk
      BY <1>0, PowAdd
    <3>2. Pow(z, i + e) = Pow(z, i) * Pow(z, e)
      BY <1>0, PowAdd
    <3> QED BY <1>2, <3>1, <3>2
  <2> HIDE DEF yk, zk
  <2>6. c * (yk * (Pow(z, e) * zk)) = ((x[i] * yk) * zk) * (Pow(z, i) * Pow(z, e))
    BY <1>0, <2>0 DEF c
  <2>7. Cong(Pow(z, l), -1, p)
    BY DEF MinusRoot
  <2> DEFINE b == (x[i] * yk) * zk
  <2>8. b \in Int /\ Cong(b, b, p)
    <3>1. b \in Int
      BY <1>0, <2>0
    <3> QED BY <3>1, CongSame
  <2>9. (-(x[i] * yk)) * zk = b * (-1)
    BY <1>0, <2>0
  <2> HIDE DEF b
  <2>10. Cong(b * Pow(z, l), b * (-1), p)
    BY <2>7, <2>8, CongTimes
  <2>11. Cong(b * (-1), b * Pow(z, l), p)
    BY <2>10, CongSwap
  <2> QED BY <2>2, <2>3, <2>4, <2>5, <2>6, <2>9, <2>11 DEF b
<1>14. Cong(Total(h, i), Total(cts, i), p)
  BY <1>10, <1>13, TotalCong
<1>15. Total(ct, e) \in Int /\ Total(tt, e) \in Int /\ Total(ts, i) \in Int
  BY <1>4, <1>6, <1>9, TotalUnfolds
<1>16. Cong(Total(h, i) + Total(hs, e), Total(cts, i) + Total(ct, e), p)
  <2>1. Cong(Total(ct, e), Total(ct, e), p)
    BY <1>15, CongSame
  <2> QED BY <1>12, <1>14, <2>1, CongPlus
<1>17. Total(cts, i) + Total(ct, e) = c * Total(tt, l)
  <2>1. c * Total(ts, i) + c * Total(tt, e) = c * (Total(tt, e) + Total(ts, i))
    BY <1>3, <1>15
  <2> QED BY <1>8, <1>9, <1>10, <2>1
<1> QED BY <1>7, <1>16, <1>17 DEF c, tt, Value

\* The value of a product modulo X^l + 1 at a root of X^l + 1.
LEMMA Convolution ==
  ASSUME NEW p \in Int, NEW l \in Nat, NEW z, MinusRoot(z, l, p),
         NEW x \in Seqs, NEW y \in Seqs, NEW d \in Seqs, NEW turns \in [Nat -> Seqs],
         \A k \in Nat, i \in Nat : k < l /\ i < l => turns[k][i] = Turned(x, y, l, k, i),
         \A k \in Nat : k < l => d[k] = Total(turns[k], l)
  PROVE  Cong(Value(d, z, l), Value(x, z, l) * Value(y, z, l), p)
<1>0. z \in Int /\ \A k \in Nat : x[k] \in Int /\ y[k] \in Int /\ Pow(z, k) \in Int /\ d[k] \in Int
                                  /\ turns[k] \in Seqs /\ \A i \in Nat : turns[k][i] \in Int
  BY PowUnfolds DEF MinusRoot, Seqs
<1> DEFINE row(k) == [i \in Nat |-> Pow(z, k) * turns[k][i]]
           rows == [k \in Nat |-> row(k)]
           col(i) == [k \in Nat |-> rows[k][i]]
           cols == [i \in Nat |-> Total(col(i), l)]
           sums == [k \in Nat |-> Total(rows[k], l)]
           vy == Value(y, z, l)
           tx == Terms(x, z)
           scaled == [i \in Nat |-> vy * tx[i]]
<1>1. ASSUME NEW k \in Nat PROVE row(k) \in Seqs /\ Total(row(k), l) = Pow(z, k) * Total(turns[k], l)
  <2> DEFINE c == Pow(z, k)
             f == turns[k]
             rr == [i \in Nat |-> c * f[i]]
  <2>1. c \in Int /\ f \in Seqs /\ \A i \in Nat : f[i] \in Int
    BY <1>0
  <2> HIDE DEF c, f
  <2>2. rr \in Seqs
    BY <2>1 DEF Seqs
  <2>3. Total(rr, l) = c * Total(f, l)
    BY <2>1, TotalTimes
  <2> QED BY <2>2, <2>3 DEF c, f
<1>2. rows \in [Nat -> Seqs] /\ \A k \in Nat : rows[k] = row(k)
  BY <1>1
<1>3. \A k \in Nat, i \in Nat : rows[k][i] = Pow(z, k) * turns[k][i] /\ rows[k][i] \in Int
  BY <1>0
<1> HIDE DEF rows
<1>4. sums \in Seqs /\ \A k \in Nat : sums[k] = Total(rows[k], l)
  <2>1. \A k \in Nat : Total(rows[k], l) \in Int
    BY <1>2, TotalUnfolds
  <2> QED BY <2>1 DEF Seqs
<1>5. Value(d, z, l) = Total(sums, l)
  <2>1. Terms(d, z) \in Seqs
    BY <1>0, TermsAre
  <2>2. ASSUME NEW k \in Nat, k < l PROVE Terms(d, z)[k] = sums[k]
    <3>1. Terms(d, z)[k] = d[k] * Pow(z, k)
      BY <1>0, TermsAre
    <3>2. rows[k] = row(k) /\ Total(row(k), l) = Pow(z, k) * Total(turns[k], l)
      BY <1>1, <1>2
    <3>3. sums[k] = Pow(z, k) * Total(turns[k], l)
      BY <1>4, <3>2
    <3>4. d[k] = Total(turns[k], l) /\ d[k] \in Int /\ Pow(z, k) \in Int
      BY <1>0, <2>2
    <3>5. d[k] * Pow(z, k) = Pow(z, k) * d[k]
      BY <3>4
    <3> QED BY <3>1, <3>3, <3>4, <3>5
  <2> HIDE DEF sums
  <2>3. Total(Terms(d, z), l) = Total(sums, l)
    BY <1>4, <2>1, <2>2, TotalSame
  <2> QED BY <2>3 DEF Value
<1>6. Total(sums, l) = Total(cols, l)
  BY <1>2, TotalsExchange
<1>7. ASSUME NEW i \in Nat PROVE col(i) \in Seqs /\ \A k \in Nat : col(i)[k] = Pow(z, k) * turns[k][i]
  BY <1>3 DEF Seqs
<1>8. cols \in Seqs /\ \A i \in Nat : cols[i] = Total(col(i), l)
  <2>1. ASSUME NEW i \in Nat PROVE Total(col(i), l) \in Int
    <3> DEFINE c == col(i)
    <3>1. c \in Seqs
      BY <1>7
    <3> HIDE DEF c
    <3>2. Total(c, l) \in Int
      BY <3>1, TotalUnfolds
    <3> QED BY <3>2 DEF c
  <2> QED BY <2>1 DEF Seqs
<1>9. tx \in Seqs /\ (\A i \in Nat : tx[i] = x[i] * Pow(z, i) /\ tx[i] \in Int) /\ vy \in Int
  <2>1. tx \in Seqs /\ \A i \in Nat : tx[i] = x[i] * Pow(z, i)
    BY <1>0, TermsAre
  <2>2. vy \in Int
    BY <1>0, ValueIn
  <2> QED BY <1>0, <2>1, <2>2
<1> HIDE DEF vy, tx
<1>10. scaled \in Seqs /\ (\A i \in Nat : scaled[i] = vy * tx[i]) /\ Total(scaled, l) = vy * Total(tx, l)
  <2>1. scaled \in Seqs
    BY <1>9 DEF Seqs
  <2>2. Total(scaled, l) = vy * Total(tx, l)
    BY <1>9, TotalTimes
  <2> QED BY <2>1, <2>2
<1>11. ASSUME NEW i \in Nat, i < l PROVE Cong(cols[i], scaled[i], p)
  <2> DEFINE h == col(i)
  <2>1. h \in Seqs /\ \A k \in Nat : h[k] = Pow(z, k) * turns[k][i]
    BY <1>7
  <2>2. cols[i] = Total(h, l)
    BY <1>8
  <2> HIDE DEF h
  <2>3. ASSUME NEW k \in Nat, k < l PROVE h[k] = Turned(x, y, l, k, i) * Pow(z, k)
    <3>1. turns[k][i] = Turned(x, y, l, k, i) /\ turns[k][i] \in Int /\ Pow(z, k) \in Int
      BY <1>0, <1>11, <2>3
    <3>2. Pow(z, k) * turns[k][i] = turns[k][i] * Pow(z, k)
      BY <3>1
    <3> QED BY <2>1, <3>1, <3>2
  <2>4. Cong(Total(h, l), (x[i] * Pow(z, i)) * Value(y, z, l), p)
    BY <1>11, <2>1, <2>3, TurnedColumn
  <2>5. vy * tx[i] = (x[i] * Pow(z, i)) * vy
    BY <1>9
  <2> QED BY <1>10, <2>2, <2>4, <2>5 DEF vy
<1>12. Cong(Total(cols, l), Total(scaled, l), p)
  <2> HIDE DEF cols, scaled
  <2> QED BY <1>8, <1>10, <1>11, TotalCong
<1>13. vy * Total(tx, l) = Value(x, z, l) * vy
  <2>1. Total(tx, l) \in Int
    BY <1>9, TotalUnfolds
  <2> QED BY <1>9, <2>1 DEF Value, tx
<1> QED BY <1>5, <1>6, <1>10, <1>12, <1>13 DEF vy

LEMMA ValueTwisted ==
  ASSUME NEW x \in Seqs, NEW al \in Int, NEW b \in Int, NEW l \in Nat
  PROVE  Value(Terms(x, al), b, l) = Value(x, al * b, l)
<1>1. Terms(x, al) \in Seqs /\ \A k \in Nat : Terms(x, al)[k] = x[k] * Pow(al, k)
  BY TermsAre
<1> DEFINE f == Terms(Terms(x, al), b)
           g == Terms(x, al * b)
<1>2. f \in Seqs /\ \A k \in Nat : f[k] = Terms(x, al)[k] * Pow(b, k)
  BY <1>1, TermsAre
<1>3. g \in Seqs /\ \A k \in Nat : g[k] = x[k] * Pow(al * b, k)
  <2>1. al * b \in Int
    OBVIOUS
  <2> QED BY <2>1, TermsAre
<1> HIDE DEF f, g
<1>4. ASSUME NEW k \in Nat PROVE f[k] = g[k]
  <2>1. Pow(al * b, k) = Pow(al, k) * Pow(b, k)
    BY PowOfProduct
  <2>2. x[k] \in Int /\ Pow(al, k) \in Int /\ Pow(b, k) \in Int
    BY PowUnfolds DEF Seqs
  <2>3. (x[k] * Pow(al, k)) * Pow(b, k) = x[k] * (Pow(al, k) * Pow(b, k))
    BY <2>2
  <2> QED BY <1>1, <1>2, <1>3, <2>1, <2>3
<1>5. Total(f, l) = Total(g, l)
  BY <1>2, <1>3, <1>4, TotalSame
<1> QED BY <1>5 DEF Value, f, g

\* A polynomial that is one at all powers of a root is one.
LEMMA AllOnes ==
  ASSUME NEW p, IsPrime(p), p >= 3, NEW m, TwoPower(m), NEW w, NEW u,
         MinusRoot(w, m, p), Inverses(w, u, p), NEW rr \in Int, Cong((2 * m) * rr, 1, p),
         NEW x \in Seqs,
         \A j \in Nat : j < 2 * m => Cong(Value(x, Pow(w, j), 2 * m), 1, p),
         NEW j \in Nat, j < 2 * m
  PROVE  Cong(x[j], IF j = 0 THEN 1 ELSE 0, p)
<1>0. p \in Int /\ m \in Nat /\ 2 * m \in Nat /\ w \in Int /\ u \in Int /\ x[j] \in Int
  BY DEF IsPrime, TwoPower, Inverses, Seqs
<1> DEFINE ones == [k \in Nat |-> 1]
           delta == IF j = 0 THEN 1 ELSE 0
           l == 2 * m
<1>1. ones \in Seqs /\ \A k \in Nat : ones[k] = 1
  BY DEF Seqs
<1>2. MinusRoot(u, m, p) /\ Inverses(u, w, p)
  BY <1>0, InverseRoot, InversesSwap
<1> HIDE DEF ones
<1>3. Cong(Value(ones, Pow(u, j), l), l * x[j], p)
  <2>1. ASSUME NEW i \in Nat, i < 2 * m PROVE Cong(ones[i], Value(x, Pow(w, i), 2 * m), p)
    <3>1. Cong(Value(x, Pow(w, i), 2 * m), 1, p)
      BY <2>1
    <3> QED BY <1>0, <1>1, <3>1, CongSwap
  <2> QED BY <1>1, <1>2, <2>1, Inversion
<1>4. Value(ones, Pow(u, j), l) = Total(Cross(u, w, j, 0), l)
  <2> DEFINE f == Terms(ones, Pow(u, j))
             g == Cross(u, w, j, 0)
  <2>0. Pow(u, j) \in Int
    BY <1>0, PowUnfolds
  <2>1. f \in Seqs /\ \A k \in Nat : f[k] = ones[k] * Pow(Pow(u, j), k)
    BY <1>1, <2>0, TermsAre
  <2>2. g \in Seqs /\ \A k \in Nat : g[k] = Pow(u, j * k) * Pow(w, 0 * k)
    <3>1. 0 \in Nat
      OBVIOUS
    <3>2. Cross(u, w, j, 0) \in Seqs
      BY <1>0, <3>1, CrossSeq
    <3>3. \A k \in Nat : Cross(u, w, j, 0)[k] = Pow(u, j * k) * Pow(w, 0 * k)
      BY <1>0, <3>1, CrossSeq
    <3> QED BY <3>2, <3>3
  <2> HIDE DEF f, g
  <2>3. ASSUME NEW k \in Nat PROVE f[k] = g[k]
    <3>1. Pow(Pow(u, j), k) = Pow(u, j * k) /\ 0 * k = 0 /\ j * k \in Nat
      BY <1>0, PowProduct
    <3>2. Pow(w, 0) = 1 /\ Pow(u, j * k) \in Int
      BY <1>0, <3>1, PowUnfolds
    <3> QED BY <1>1, <2>1, <2>2, <3>1, <3>2
  <2>4. Total(f, l) = Total(g, l)
    BY <1>0, <2>1, <2>2, <2>3, TotalSame
  <2> QED BY <2>4 DEF Value, f, g
<1>5. Cong(Total(Cross(u, w, j, 0), l), IF j = 0 THEN l ELSE 0, p)
  BY <1>0, <1>2, Orthogonal
<1>6. Cong(l * x[j], l * delta, p)
  <2>1. (IF j = 0 THEN l ELSE 0) = l * delta
    BY <1>0
  <2> HIDE DEF l, delta
  <2>2. Cong(l * x[j], Total(Cross(u, w, j, 0), l), p)
    BY <1>0, <1>3, <1>4, CongSwap
  <2> QED BY <1>0, <1>5, <2>1, <2>2, CongVia
<1>7. ASSUME NEW z \in Int PROVE Cong(rr * (l * z), z, p)
  <2>1. Cong(z, z, p)
    BY <1>0, CongSame
  <2>2. Cong((l * rr) * z, 1 * z, p)
    BY <1>0, <2>1, CongTimes
  <2>3. (l * rr) * z = rr * (l * z) /\ 1 * z = z
    BY <1>0
  <2> QED BY <2>2, <2>3
<1>8. delta \in Int
  OBVIOUS
<1>9. Cong(rr * (l * x[j]), rr * (l * delta), p)
  <2>1. Cong(rr, rr, p)
    BY <1>0, CongSame
  <2> QED BY <1>0, <1>6, <2>1, CongTimes
<1> HIDE DEF delta, l
<1>10. Cong(x[j], rr * (l * x[j]), p)
  BY <1>0, <1>7, CongSwap
<1>11. Cong(rr * (l * delta), delta, p)
  BY <1>7, <1>8
<1>12. Cong(x[j], delta, p)
  BY <1>0, <1>9, <1>10, <1>11, CongVia
<1> QED BY <1>12 DEF delta

\* The points of the transform: odd powers of a root of X^(2m) + 1.
LEMMA Points ==
  ASSUME NEW p \in Int, NEW m \in Nat, NEW f, MinusRoot(f, 2 * m, p), NEW w, Cong(w, f * f, p),
         NEW j \in Nat
  PROVE  /\ Cong(f * Pow(w, j), Pow(f, 2 * j + 1), p)
         /\ MinusRoot(f * Pow(w, j), 2 * m, p)
<1>0. f \in Int /\ f * f \in Int /\ w \in Int /\ Pow(w, j) \in Int /\ 2 * m \in Nat
      /\ 2 * j \in Nat /\ 2 * j + 1 \in Nat /\ f * Pow(w, j) \in Int
  <2>1. f \in Int /\ w \in Int
    BY DEF MinusRoot, Cong
  <2>2. Pow(w, j) \in Int
    BY <2>1, PowUnfolds
  <2> QED BY <2>1, <2>2
<1>1. f * f = Pow(f, 2)
  <2>1. Pow(f, 0 + 1) = 1 * f /\ Pow(f, 1 + 1) = Pow(f, 1) * f
    BY <1>0, PowUnfolds
  <2> QED BY <1>0, <2>1
<1>2. Pow(f * f, j) = Pow(f, 2 * j)
  BY <1>0, <1>1, PowProduct
<1>3. Cong(Pow(w, j), Pow(f, 2 * j), p)
  BY <1>0, <1>2, CongPow
<1>4. Pow(f, 2 * j + 1) = Pow(f, 2 * j) * f /\ Pow(f, 2 * j) \in Int
  BY <1>0, PowUnfolds
<1>5. Cong(f * Pow(w, j), f * Pow(f, 2 * j), p)
  <2>1. Cong(f, f, p)
    BY <1>0, CongSame
  <2> QED BY <1>3, <2>1, CongTimes
<1>6. Cong(f * Pow(w, j), Pow(f, 2 * j + 1), p)
  <2>1. f * Pow(f, 2 * j) = Pow(f, 2 * j + 1)
    BY <1>0, <1>4
  <2> QED BY <1>5, <2>1
<1>7. Cong(Pow(f * Pow(w, j), 2 * m), Pow(Pow(f, 2 * j + 1), 2 * m), p)
  BY <1>0, <1>6, CongPow
\* Pow(f, 2m) to an odd power.
<1> DEFINE g == Pow(f, 2 * m)
<1>8. Pow(Pow(f, 2 * j + 1), 2 * m) = Pow(g, 2 * j + 1)
  <2>1. (2 * j + 1) * (2 * m) = (2 * m) * (2 * j + 1)
    BY <1>0
  <2>2. Pow(f, (2 * j + 1) * (2 * m)) = Pow(Pow(f, 2 * j + 1), 2 * m)
    BY <1>0, PowProduct
  <2>3. Pow(f, (2 * m) * (2 * j + 1)) = Pow(Pow(f, 2 * m), 2 * j + 1)
    BY <1>0, PowProduct
  <2> QED BY <2>1, <2>2, <2>3
<1>9. g \in Int /\ Cong(g, -1, p)
  BY DEF MinusRoot, Cong
<1>10. Cong(Pow(f, 2 * (2 * m)), 1, p)
  BY <1>0, MinusRootTwice
<1>11. Pow(g, 2 * j) = Pow(Pow(f, 2 * (2 * m)), j)
  <2>1. 2 * (2 * m) \in Nat /\ (2 * m) * (2 * j) = (2 * (2 * m)) * j
    BY <1>0
  <2>2. Pow(f, (2 * m) * (2 * j)) = Pow(g, 2 * j)
    BY <1>0, PowProduct
  <2>3. Pow(f, (2 * (2 * m)) * j) = Pow(Pow(f, 2 * (2 * m)), j)
    BY <1>0, <2>1, PowProduct
  <2> QED BY <2>1, <2>2, <2>3
<1> HIDE DEF g
<1>12. Cong(Pow(g, 2 * j), 1, p)
  <2>1. Cong(Pow(Pow(f, 2 * (2 * m)), j), Pow(1, j), p)
    BY <1>10, CongPow
  <2> QED BY <1>11, <2>1, PowOne
<1>13. Cong(Pow(g, 2 * j + 1), -1, p)
  <2>1. Pow(g, 2 * j + 1) = Pow(g, 2 * j) * g
    BY <1>0, <1>9, PowUnfolds
  <2>2. Cong(Pow(g, 2 * j) * g, 1 * (-1), p)
    BY <1>9, <1>12, CongTimes
  <2> QED BY <2>1, <2>2
<1>14. Cong(Pow(f * Pow(w, j), 2 * m), -1, p)
  BY <1>7, <1>8, <1>13, CongVia
<1> QED BY <1>0, <1>6, <1>14 DEF MinusRoot

\* There are no others.
LEMMA PointsAreAll ==
  ASSUME NEW p, IsPrime(p), p >= 3, NEW m, TwoPower(m), NEW f, MinusRoot(f, 2 * m, p),
         NEW w, Cong(w, f * f, p), NEW z, MinusRoot(z, 2 * m, p)
  PROVE  \E j \in Nat : j < 2 * m /\ Cong(z, f * Pow(w, j), p)
<1>0. p \in Int /\ p \in Nat /\ m \in Nat /\ 2 * m \in Nat /\ f \in Int /\ z \in Int /\ 2 * (2 * m) \in Nat
  BY DEF IsPrime, TwoPower, MinusRoot
<1>1. TwoPower(2 * m)
  BY TwoDouble
<1>2. Cong(Pow(z, 2 * (2 * m)), 1, p)
  BY <1>0, MinusRootTwice
<1>3. PICK e \in Nat : e < 2 * (2 * m) /\ Cong(z, Pow(f, e), p)
  BY <1>1, <1>2, <1>0, RootsAre
<1>4. PICK h \in Nat : e = 2 * h \/ e = 2 * h + 1
  <2>1. e = 2 * (e \div 2) \/ e = 2 * (e \div 2) + 1
    OBVIOUS
  <2>2. e \div 2 \in Nat
    OBVIOUS
  <2> QED BY <2>1, <2>2
<1>5. CASE e = 2 * h
  <2>1. Cong(Pow(z, 2 * m), Pow(Pow(f, e), 2 * m), p)
    BY <1>0, <1>3, CongPow
  <2>2. Pow(Pow(f, e), 2 * m) = Pow(Pow(f, 2 * (2 * m)), h)
    <3>1. e * (2 * m) = (2 * (2 * m)) * h
      BY <1>0, <1>5
    <3>2. Pow(f, e * (2 * m)) = Pow(Pow(f, e), 2 * m)
      BY <1>0, PowProduct
    <3>3. Pow(f, (2 * (2 * m)) * h) = Pow(Pow(f, 2 * (2 * m)), h)
      BY <1>0, PowProduct
    <3> QED BY <3>1, <3>2, <3>3
  <2>3. Cong(Pow(f, 2 * (2 * m)), 1, p)
    BY <1>0, MinusRootTwice
  <2>4. Cong(Pow(Pow(f, 2 * (2 * m)), h), 1, p)
    <3>1. Cong(Pow(Pow(f, 2 * (2 * m)), h), Pow(1, h), p)
      BY <1>0, <2>3, CongPow
    <3> QED BY <3>1, PowOne
  <2>5. Cong(Pow(z, 2 * m), 1, p)
    BY <1>0, <2>1, <2>2, <2>4, CongVia
  <2>6. Cong(-1, Pow(z, 2 * m), p)
    <3>1. Cong(Pow(z, 2 * m), -1, p)
      BY DEF MinusRoot
    <3> QED BY <1>0, <3>1, CongSwap
  <2>7. Cong(-1, 1, p)
    BY <1>0, <2>5, <2>6, CongVia
  <2> QED BY <1>0, <2>7, OneNotZero
<1>6. CASE e = 2 * h + 1
  <2>1. h < 2 * m
    BY <1>0, <1>3, <1>6
  <2>2. Cong(f * Pow(w, h), Pow(f, 2 * h + 1), p)
    BY <1>0, Points
  <2>3. Cong(Pow(f, 2 * h + 1), f * Pow(w, h), p)
    BY <1>0, <2>2, CongSwap
  <2>4. Cong(z, f * Pow(w, h), p)
    BY <1>0, <1>3, <1>6, <2>3, CongVia
  <2> QED BY <2>1, <2>4
<1> QED BY <1>4, <1>5, <1>6

\* What the points of the transform decide about a product modulo X^(2m) + 1.
LEMMA ProductIsOne ==
  ASSUME NEW p, IsPrime(p), p >= 3, NEW m, TwoPower(m), NEW f, MinusRoot(f, 2 * m, p),
         NEW fi, Inverses(f, fi, p),
         NEW w, Cong(w, f * f, p), MinusRoot(w, m, p), NEW u, Inverses(w, u, p),
         NEW rr \in Int, Cong((2 * m) * rr, 1, p),
         NEW x \in Seqs, NEW c \in Seqs, NEW d \in Seqs, NEW turns \in [Nat -> Seqs],
         \A k \in Nat, i \in Nat : k < 2 * m /\ i < 2 * m => turns[k][i] = Turned(x, c, 2 * m, k, i),
         \A k \in Nat : k < 2 * m => d[k] = Total(turns[k], 2 * m),
         \A j \in Nat : j < 2 * m =>
           Cong(Value(Terms(x, f), Pow(w, j), 2 * m) * Value(Terms(c, f), Pow(w, j), 2 * m), 1, p),
         NEW k \in Nat, k < 2 * m
  PROVE  Cong(d[k], IF k = 0 THEN 1 ELSE 0, p)
<1>0. p \in Int /\ p \in Nat /\ m \in Nat /\ 2 * m \in Nat /\ f \in Int /\ w \in Int /\ fi \in Int
      /\ d[k] \in Int
  BY DEF IsPrime, TwoPower, MinusRoot, Inverses, Seqs
<1> DEFINE e == Terms(d, f)
           delta == IF k = 0 THEN 1 ELSE 0
<1>1. e \in Seqs /\ e[k] = d[k] * Pow(f, k)
  BY <1>0, TermsAre
<1> HIDE DEF e
<1>2. ASSUME NEW j \in Nat, j < 2 * m PROVE Cong(Value(e, Pow(w, j), 2 * m), 1, p)
  <2> DEFINE z == f * Pow(w, j)
  <2>0. Pow(w, j) \in Int
    BY <1>0, PowUnfolds
  <2>1. MinusRoot(z, 2 * m, p)
    BY <1>0, Points
  <2>2. /\ Value(e, Pow(w, j), 2 * m) = Value(d, z, 2 * m)
        /\ Value(Terms(x, f), Pow(w, j), 2 * m) = Value(x, z, 2 * m)
        /\ Value(Terms(c, f), Pow(w, j), 2 * m) = Value(c, z, 2 * m)
    BY <1>0, <2>0, ValueTwisted DEF e
  <2> HIDE DEF z
  <2>3. Cong(Value(d, z, 2 * m), Value(x, z, 2 * m) * Value(c, z, 2 * m), p)
    BY <1>0, <2>1, Convolution
  <2>4. Cong(Value(x, z, 2 * m) * Value(c, z, 2 * m), 1, p)
    BY <1>2, <2>2
  <2> QED BY <1>0, <2>2, <2>3, <2>4, CongVia
<1>3. Cong(e[k], delta, p)
  BY <1>1, <1>2, AllOnes
<1>4. Pow(f, k) \in Int /\ Pow(fi, k) \in Int /\ Cong(Pow(f, k) * Pow(fi, k), 1, p)
  BY <1>0, PowUnfolds, PowInverse
<1>5. Cong(d[k] * (Pow(f, k) * Pow(fi, k)), d[k] * 1, p)
  <2> DEFINE b == d[k]
             g == Pow(f, k) * Pow(fi, k)
  <2>1. Cong(b, b, p) /\ Cong(g, 1, p)
    BY <1>0, <1>4, CongSame
  <2> HIDE DEF b, g
  <2>2. Cong(b * g, b * 1, p)
    BY <1>0, <2>1, CongTimes
  <2> QED BY <2>2 DEF b, g
<1>6. Cong(e[k] * Pow(fi, k), delta * Pow(fi, k), p)
  <2> DEFINE b == e[k]
             g == Pow(fi, k)
  <2>1. Cong(g, g, p) /\ Cong(b, delta, p)
    BY <1>0, <1>3, <1>4, CongSame
  <2> HIDE DEF b, g, delta
  <2>2. Cong(b * g, delta * g, p)
    BY <1>0, <2>1, CongTimes
  <2> QED BY <2>2 DEF b, g
<1>7. delta * Pow(fi, k) = delta
  <2>1. k = 0 => Pow(fi, k) = 1
    BY <1>0, PowUnfolds
  <2> QED BY <1>4, <2>1
<1>8. d[k] * (Pow(f, k) * Pow(fi, k)) = e[k] * Pow(fi, k) /\ d[k] * 1 = d[k]
  BY <1>0, <1>1, <1>4
<1> HIDE DEF delta
<1>9. Cong(d[k], e[k] * Pow(fi, k), p)
  BY <1>0, <1>5, <1>8, CongSwap
<1>10. Cong(d[k], delta, p)
  BY <1>0, <1>6, <1>7, <1>9, CongVia
<1> QED BY <1>10 DEF delta
-----------------------------------------------------------------------------
(*****************************************************************************)
(* The model's own arithmetic in these terms: the order that permut puts     *)
(* the words in, and the tables as powers of a root.                         *)
(*****************************************************************************)
\* Quotient and remainder from a decomposition.
LEMMA DivideIs ==
  ASSUME NEW x \in Int, NEW d \in Nat \ {0}, NEW q \in Int, NEW e \in 0 .. d - 1, x = q * d + e
  PROVE  x \div d = q /\ x % d = e
<1>1. (q * d + e) % d = e
  BY ModMultiple
<1>2. x \div d \in Int /\ x = (x \div d) * d + (x % d)
  BY Z3
<1>3. PICK z \in Int : z = x \div d
  BY <1>2
<1>4. (z - q) * d = 0
  BY <1>1, <1>2, <1>3
<1>5. z - q >= 1 => (z - q) * d >= d
  <2>1. z - q >= 1 => 1 * d <= (z - q) * d
    OBVIOUS
  <2> QED BY <2>1
<1>6. z - q <= -1 => (q - z) * d >= d
  <2>1. q - z >= 1 => 1 * d <= (q - z) * d
    OBVIOUS
  <2> QED BY <2>1
<1>7. (q - z) * d = -((z - q) * d)
  OBVIOUS
<1>8. z = q
  BY <1>4, <1>5, <1>6, <1>7
<1> QED BY <1>1, <1>3, <1>8

\* The reversal of the bits unfolds.
LEMMA ReversedUnfolds ==
  ASSUME NEW i \in Nat, NEW h \in Nat \ {0}
  PROVE  /\ permut_compute(i, 1) = 0
         /\ permut_compute(i, 2 * h) = 2 * permut_compute(i, h) + ((i \div h) % 2)
<1>1. permut_compute(i, 1) = 0
  <2>1. 1 \in Nat \ {0}
    OBVIOUS
  <2> QED BY <2>1, ReversedFunction
<1>2. PICK q : /\ permut_compute(i, h) = q[h] /\ q[1] = 0
               /\ \A k \in 1 .. h : /\ q[k] \in 0 .. k - 1
                                    /\ k # 1 => q[k] = 2 * q[k \div 2] + ((i \div (k \div 2)) % 2)
  BY ReversedFunction
<1>0. PICK d \in Nat \ {0} : d = 2 * h
  OBVIOUS
<1>3. PICK f : /\ permut_compute(i, d) = f[d] /\ f[1] = 0
               /\ \A k \in 1 .. d : /\ f[k] \in 0 .. k - 1
                                    /\ k # 1 => f[k] = 2 * f[k \div 2] + ((i \div (k \div 2)) % 2)
  BY ReversedFunction
<1> DEFINE S == {k \in Nat : f[k] = q[k]}
<1>4. ASSUME NEW k \in 1 .. h, \A j \in 1 .. k - 1 : j \in S PROVE k \in S
  <2>1. CASE k = 1
    BY <1>2, <1>3, <2>1
  <2>2. CASE k # 1
    <3>1. k \div 2 \in 1 .. k - 1
      BY <2>2
    <3>2. f[k \div 2] = q[k \div 2]
      BY <1>4, <3>1
    <3>3. k \in 1 .. d
      BY <1>0
    <3>4. f[k] = 2 * f[k \div 2] + ((i \div (k \div 2)) % 2)
      BY <1>3, <2>2, <3>3
    <3>5. q[k] = 2 * q[k \div 2] + ((i \div (k \div 2)) % 2)
      BY <1>2, <2>2
    <3> QED BY <3>2, <3>4, <3>5
  <2> QED BY <2>1, <2>2
<1> HIDE DEF S
<1>5. 1 .. h \subseteq S
  <2>1. 1 \in Nat /\ h \in Nat
    OBVIOUS
  <2> QED BY <1>4, <2>1, CourseOfValues
<1>6. f[h] = q[h]
  <2>1. h \in 1 .. h
    OBVIOUS
  <2> QED BY <1>5, <2>1 DEF S
<1>7. d \div 2 = h /\ d \in 1 .. d /\ d # 1
  BY <1>0
<1>8. f[d] = 2 * f[d \div 2] + ((i \div (d \div 2)) % 2)
  BY <1>3, <1>7
<1>9. f[d] = 2 * q[h] + ((i \div h) % 2)
  BY <1>6, <1>7, <1>8
<1> QED BY <1>0, <1>1, <1>2, <1>3, <1>9

\* The last bit of an index becomes the first one.
LEMMA ReversedSplits ==
  ASSUME NEW h, TwoPower(h), NEW b \in Nat, NEW c \in 0 .. 1
  PROVE  permut_compute(2 * b + c, 2 * h) = c * h + permut_compute(b, h)
<1> DEFINE S == {k \in Nat : \A x \in Nat, y \in 0 .. 1 :
                   permut_compute(2 * x + y, 2 * k) = y * k + permut_compute(x, k)}
<1>1. 1 \in S
  <2> SUFFICES ASSUME NEW x \in Nat, NEW y \in 0 .. 1
               PROVE permut_compute(2 * x + y, 2 * 1) = y * 1 + permut_compute(x, 1)
    OBVIOUS
  <2>1. 2 * x + y \in Nat /\ 1 \in Nat \ {0}
    OBVIOUS
  <2>2. permut_compute(2 * x + y, 2 * 1) = 2 * permut_compute(2 * x + y, 1) + (((2 * x + y) \div 1) % 2)
    BY <2>1, ReversedUnfolds
  <2>3. permut_compute(2 * x + y, 1) = 0
    BY <2>1, ReversedUnfolds
  <2>4. permut_compute(x, 1) = 0
    BY <2>1, ReversedUnfolds
  <2>5. (2 * x + y) \div 1 = 2 * x + y
    OBVIOUS
  <2>6. (2 * x + y) % 2 = y
    OBVIOUS
  <2> QED BY <2>2, <2>3, <2>4, <2>5, <2>6
<1>2. ASSUME NEW k \in Nat, TwoPower(k), k \in S PROVE 2 * k \in S
  <2> SUFFICES ASSUME NEW x \in Nat, NEW y \in 0 .. 1
               PROVE permut_compute(2 * x + y, 2 * (2 * k)) = y * (2 * k) + permut_compute(x, 2 * k)
    OBVIOUS
  <2>1. 2 * x + y \in Nat /\ k \in Nat \ {0} /\ 2 * k \in Nat \ {0}
    BY <1>2 DEF TwoPower
  <2>2. permut_compute(2 * x + y, 2 * (2 * k))
          = 2 * permut_compute(2 * x + y, 2 * k) + (((2 * x + y) \div (2 * k)) % 2)
    BY <2>1, ReversedUnfolds
  <2>3. permut_compute(x, 2 * k) = 2 * permut_compute(x, k) + ((x \div k) % 2)
    BY <2>1, ReversedUnfolds
  <2>4. permut_compute(2 * x + y, 2 * k) = y * k + permut_compute(x, k)
    BY <1>2
  <2>5. (2 * x + y) \div (2 * k) = x \div k
    <3>1. PICK q \in Int, e \in 0 .. k - 1 : q = x \div k /\ x = q * k + e
      <4>1. x \div k \in Int /\ x % k \in 0 .. k - 1 /\ x = (x \div k) * k + (x % k)
        BY <2>1, Z3
      <4> QED BY <4>1
    <3>2. 2 * x + y = q * (2 * k) + (2 * e + y) /\ 2 * e + y \in 0 .. 2 * k - 1
      BY <2>1, <3>1
    <3> QED BY <2>1, <3>1, <3>2, DivideIs
  <2>6. permut_compute(x, k) \in Int /\ y * k \in Int
    BY <2>1, ReversedBelow
  <2>7. 2 * (y * k + permut_compute(x, k)) = y * (2 * k) + 2 * permut_compute(x, k)
    BY <2>1, <2>6
  <2>8. (x \div k) % 2 \in Int
    <3>1. x \div k \in Int
      BY <2>1, DivisionBounds
    <3>2. 2 \in Nat \ {0}
      OBVIOUS
    <3> QED BY <3>1, <3>2, ModBelow
  <2> QED BY <2>1, <2>2, <2>3, <2>4, <2>5, <2>6, <2>7, <2>8
<1>3. h \in Nat
  BY DEF TwoPower
<1> HIDE DEF S
<1>4. h \in S
  BY <1>1, <1>2, <1>3, TwoInduction
<1> QED BY <1>4 DEF S

\* Only the last bits count.
LEMMA ReversedPeriod ==
  ASSUME NEW h, TwoPower(h), NEW b \in Nat, NEW c \in Nat
  PROVE  permut_compute(b + c * h, h) = permut_compute(b, h)
<1> DEFINE S == {k \in Nat : \A x \in Nat, y \in Nat :
                   permut_compute(x + y * k, k) = permut_compute(x, k)}
<1>1. 1 \in S
  <2> SUFFICES ASSUME NEW x \in Nat, NEW y \in Nat
               PROVE permut_compute(x + y * 1, 1) = permut_compute(x, 1)
    OBVIOUS
  <2>1. x + y * 1 \in Nat /\ 1 \in Nat \ {0}
    OBVIOUS
  <2>2. permut_compute(x + y * 1, 1) = 0
    BY <2>1, ReversedUnfolds
  <2>3. permut_compute(x, 1) = 0
    BY <2>1, ReversedUnfolds
  <2> QED BY <2>2, <2>3
<1>2. ASSUME NEW k \in Nat, TwoPower(k), k \in S PROVE 2 * k \in S
  <2> SUFFICES ASSUME NEW x \in Nat, NEW y \in Nat
               PROVE permut_compute(x + y * (2 * k), 2 * k) = permut_compute(x, 2 * k)
    OBVIOUS
  <2>0. k \in Nat \ {0}
    BY <1>2 DEF TwoPower
  <2>1. PICK z \in Nat : z = x + y * (2 * k)
    BY <2>0
  <2>2. permut_compute(z, 2 * k) = 2 * permut_compute(z, k) + ((z \div k) % 2)
    BY <2>0, ReversedUnfolds
  <2>3. permut_compute(x, 2 * k) = 2 * permut_compute(x, k) + ((x \div k) % 2)
    BY <2>0, ReversedUnfolds
  <2>4. permut_compute(z, k) = permut_compute(x, k)
    <3>1. 2 * y \in Nat /\ z = x + (2 * y) * k
      BY <2>0, <2>1
    <3> QED BY <1>2, <3>1
  <2>5. (z \div k) % 2 = (x \div k) % 2
    <3>1. PICK q \in Int, e \in 0 .. k - 1 : q = x \div k /\ x = q * k + e
      <4>1. x \div k \in Int /\ x % k \in 0 .. k - 1 /\ x = (x \div k) * k + (x % k)
        BY <2>0, Z3
      <4> QED BY <4>1
    <3>20. y * (2 * k) = (2 * y) * k /\ (q + 2 * y) * k = q * k + (2 * y) * k
      BY <2>0
    <3>2. z = (q + 2 * y) * k + e /\ q + 2 * y \in Int
      BY <2>0, <2>1, <3>1, <3>20
    <3>3. z \div k = q + 2 * y
      BY <2>0, <3>2, DivideIs
    <3>4. (q + 2 * y) % 2 = q % 2
      OBVIOUS
    <3> QED BY <3>1, <3>3, <3>4
  <2> QED BY <2>1, <2>2, <2>3, <2>4, <2>5
<1>3. h \in Nat
  BY DEF TwoPower
<1> HIDE DEF S
<1>4. h \in S
  BY <1>1, <1>2, <1>3, TwoInduction
<1> QED BY <1>4 DEF S

\* Reversed twice, the bits are as they were.
LEMMA ReversedTwice ==
  ASSUME NEW h, TwoPower(h), NEW i \in 0 .. h - 1
  PROVE  permut_compute(permut_compute(i, h), h) = i
<1> DEFINE S == {k \in Nat : \A x \in 0 .. k - 1 :
                   permut_compute(permut_compute(x, k), k) = x}
<1>1. 1 \in S
  <2>1. 0 \in Nat /\ 1 \in Nat \ {0}
    OBVIOUS
  <2>2. permut_compute(0, 1) = 0
    BY <2>1, ReversedUnfolds
  <2> QED BY <2>2
<1>2. ASSUME NEW k \in Nat, TwoPower(k), k \in S PROVE 2 * k \in S
  <2> SUFFICES ASSUME NEW x \in 0 .. 2 * k - 1
               PROVE permut_compute(permut_compute(x, 2 * k), 2 * k) = x
    OBVIOUS
  <2>0. k \in Nat \ {0}
    BY <1>2 DEF TwoPower
  <2>1. PICK b \in Nat, c \in 0 .. 1 : x = 2 * b + c
    <3>1. x \div 2 \in Nat /\ x % 2 \in 0 .. 1 /\ x = 2 * (x \div 2) + (x % 2)
      OBVIOUS
    <3> QED BY <3>1
  <2>2. b \in 0 .. k - 1
    BY <2>0, <2>1
  <2>3. PICK s \in 0 .. k - 1 : s = permut_compute(b, k)
    BY <2>0, ReversedBelow
  <2>4. PICK y \in Nat : y = c * k + s
    BY <2>0
  <2>5. permut_compute(x, 2 * k) = y
    BY <1>2, <2>1, <2>3, <2>4, ReversedSplits
  <2>6. permut_compute(y, 2 * k) = 2 * permut_compute(y, k) + ((y \div k) % 2)
    BY <2>0, ReversedUnfolds
  <2>7. permut_compute(y, k) = b
    <3>1. permut_compute(s + c * k, k) = permut_compute(s, k)
      <4>1. s \in Nat /\ c \in Nat
        BY <2>0
      <4> QED BY <1>2, <4>1, ReversedPeriod
    <3>2. s + c * k = y
      BY <2>0, <2>4
    <3>3. permut_compute(s, k) = b
      BY <1>2, <2>2, <2>3
    <3> QED BY <3>1, <3>2, <3>3
  <2>8. y \div k = c
    BY <2>0, <2>4, DivideIs
  <2>9. c % 2 = c
    OBVIOUS
  <2> QED BY <2>1, <2>5, <2>6, <2>7, <2>8, <2>9
<1>3. h \in Nat
  BY DEF TwoPower
<1> HIDE DEF S
<1>4. h \in S
  BY <1>1, <1>2, <1>3, TwoInduction
<1> QED BY <1>4 DEF S

\* Remainders are congruent to what they are the remainder of.
LEMMA ModCong ==
  ASSUME NEW p \in Nat \ {0}, NEW x \in Int
  PROVE  Cong(x % p, x, p) /\ Cong(x, x % p, p)
<1>1. x % p \in 0 .. p - 1 /\ \E e \in Int : x = e * p + (x % p)
  BY ModBelow
<1>2. PICK e \in Int : x = e * p + (x % p)
  BY <1>1
<1>3. x % p \in Int /\ x = (x % p) + e * p
  BY <1>1, <1>2
<1>4. Cong(x, x % p, p)
  BY <1>3 DEF Cong
<1> QED BY <1>4, CongSwap

\* What is congruent has the same remainder.
LEMMA CongMod ==
  ASSUME NEW p \in Nat \ {0}, NEW x, NEW y \in 0 .. p - 1, Cong(x, y, p)
  PROVE  x % p = y
<1>1. PICK e \in Int : x = y + e * p
  BY DEF Cong
<1>2. x = e * p + y
  BY <1>1
<1> QED BY <1>2, ModMultiple

LEMMA ModIs ==
  ASSUME NEW p \in Nat \ {0}, NEW x \in Int, NEW y \in 0 .. p - 1, x % p = y
  PROVE  Cong(x, y, p)
BY ModCong

\* The products that fill the tables, up to congruence.
LEMMA MulmodCong ==
  ASSUME NEW p, Spare(p), NEW x \in 0 .. p - 1, NEW y \in 0 .. p - 1, NEW v, NEW w,
         Cong(x, v, p), Cong(y, w, p)
  PROVE  Cong(mulmod(x, y, p), v * w, p) /\ mulmod(x, y, p) \in 0 .. p - 1
<1>1. mulmod(x, y, p) = (x * y) % p /\ mulmod(x, y, p) \in 0 .. p - 1
  BY MulmodBelow
<1>2. p \in Nat \ {0} /\ x * y \in Int
  BY DEF Spare
<1>3. Cong((x * y) % p, x * y, p)
  BY <1>2, ModCong
<1>4. Cong(x * y, v * w, p)
  <2>1. p \in Int
    BY <1>2
  <2> QED BY <2>1, CongTimes
<1>5. Cong((x * y) % p, v * w, p)
  <2>1. p \in Int
    BY <1>2
  <2> QED BY <1>3, <1>4, <2>1, CongVia
<1> QED BY <1>1, <1>5

LEMMA PowersCong ==
  ASSUME NEW p, Spare(p), NEW w \in 0 .. p - 1, NEW base \in 0 .. p - 1,
         NEW sz \in Nat \ {0}, NEW i \in Ix(sz), NEW d, NEW f, Cong(w, d, p), Cong(base, f, p)
  PROVE  Cong(Powers(w, base, sz, p)[i], d * Pow(f, i), p)
<1> DEFINE P == Powers(w, base, sz, p)
           S == {k \in Nat : k < sz => Cong(P[k], d * Pow(f, k), p)}
<1>0. p \in Int /\ d \in Int /\ f \in Int /\ base \in Int
  BY DEF Spare, Cong
<1>1. P \in [Ix(sz) -> 0 .. p - 1] /\ P[0] = w
      /\ \A j \in 1 .. sz - 1 : P[j] = mulmod(P[j - 1], base, p)
  BY PowersBelow
<1> HIDE DEF P
<1>2. 0 \in S
  <2>1. Pow(f, 0) = 1
    BY <1>0, PowUnfolds
  <2> QED BY <1>0, <1>1, <2>1
<1>3. ASSUME NEW k \in Nat, k \in S PROVE k + 1 \in S
  <2> SUFFICES ASSUME k + 1 < sz PROVE Cong(P[k + 1], d * Pow(f, k + 1), p)
    OBVIOUS
  <2>1. k \in Ix(sz) /\ k + 1 \in 1 .. sz - 1 /\ (k + 1) - 1 = k
    BY DEF Ix
  <2>2. P[k] \in 0 .. p - 1 /\ P[k + 1] = mulmod(P[k], base, p)
    BY <1>1, <2>1
  <2>3. Cong(P[k], d * Pow(f, k), p)
    BY <1>3
  <2>4. Cong(mulmod(P[k], base, p), (d * Pow(f, k)) * f, p)
    BY <2>2, <2>3, MulmodCong
  <2>5. Pow(f, k + 1) = Pow(f, k) * f /\ Pow(f, k) \in Int
    BY <1>0, PowUnfolds
  <2>6. (d * Pow(f, k)) * f = d * (Pow(f, k) * f)
    BY <1>0, <2>5
  <2> QED BY <2>2, <2>4, <2>5, <2>6
<1>4. i \in Nat /\ i < sz
  BY DEF Ix
<1> HIDE DEF S
<1>5. i \in S
  BY <1>2, <1>3, <1>4, Induction
<1> QED BY <1>4, <1>5 DEF S, P

LEMMA SquaredCong ==
  ASSUME NEW p, Spare(p), NEW w \in 0 .. p - 1, NEW m, TwoPower(m)
  PROVE  Cong(Squared(w, m, p), Pow(w, m), p)
<1>0. p \in Int /\ w \in Int /\ m \in Nat \ {0} /\ m \in Nat
  BY DEF Spare, TwoPower
<1>1. PICK q : /\ Squared(w, m, p) = q[m] /\ q[1] = w
               /\ \A k \in 1 .. m : /\ q[k] \in 0 .. p - 1
                                    /\ k # 1 => q[k] = mulmod(q[k \div 2], q[k \div 2], p)
  BY <1>0, SquaredFunction
<1> DEFINE S == {k \in Nat : k \in 1 .. m => Cong(q[k], Pow(w, k), p)}
<1>2. 1 \in S
  <2>1. Pow(w, 0 + 1) = Pow(w, 0) * w /\ Pow(w, 0) = 1
    BY <1>0, PowUnfolds
  <2>2. Pow(w, 1) = w
    BY <1>0, <2>1
  <2>3. Cong(w, w, p)
    BY <1>0, CongSame
  <2> QED BY <1>1, <2>2, <2>3
<1>3. ASSUME NEW k \in Nat, TwoPower(k), k \in S PROVE 2 * k \in S
  <2> SUFFICES ASSUME 2 * k \in 1 .. m PROVE Cong(q[2 * k], Pow(w, 2 * k), p)
    OBVIOUS
  <2>1. PICK d \in 1 .. m : d = 2 * k
    OBVIOUS
  <2>0. m \in Nat /\ d \in 1 .. m
    BY <1>0
  <2>2. d \div 2 = k /\ d # 1 /\ k \in 1 .. m /\ 2 * k = k + k
    <3>1. d \in Nat /\ 1 <= d /\ d <= m
      BY <2>0
    <3>2. 1 <= k /\ k <= m /\ d # 1 /\ 2 * k = k + k
      BY <2>0, <2>1, <3>1
    <3>3. d \div 2 = k
      BY <2>1
    <3> QED BY <2>0, <3>2, <3>3
  <2>3. q[d] = mulmod(q[k], q[k], p) /\ q[k] \in 0 .. p - 1
    BY <1>1, <2>1, <2>2
  <2>4. Cong(q[k], Pow(w, k), p)
    BY <1>3, <2>2
  <2>5. Cong(mulmod(q[k], q[k], p), Pow(w, k) * Pow(w, k), p)
    BY <2>3, <2>4, MulmodCong
  <2>6. Pow(w, k + k) = Pow(w, k) * Pow(w, k)
    BY <1>0, PowAdd
  <2> QED BY <2>1, <2>2, <2>3, <2>5, <2>6
<1> HIDE DEF S
<1>4. m \in S
  BY <1>0, <1>2, <1>3, TwoInduction
<1>5. m \in 1 .. m
  BY <1>0
<1> QED BY <1>1, <1>4, <1>5 DEF S

\* The widths are the powers of two.
LEMMA WidthsTwo ==
  ASSUME NEW m \in Nat, NEW K
  PROVE  K \in Widths(m) <=> TwoPower(K) /\ 2 <= K /\ K <= m
<1>1. ASSUME K \in Widths(m) PROVE TwoPower(K) /\ 2 <= K /\ K <= m
  <2>1. K \in 2 .. m /\ \A d \in 2 .. K : K % d = 0 => d % 2 = 0
    BY <1>1 DEF Widths
  <2>2. K \in Nat \ {0} /\ 2 <= K /\ K <= m
    BY <2>1
  <2>3. ASSUME NEW d \in Nat, NEW e \in Nat, K = d * e, d # 1 PROVE \E j \in Nat : d = 2 * j
    <3>1. d # 0 /\ e # 0
      BY <2>2, <2>3
    <3>2. d <= K
      <4>1. 1 <= e
        BY <3>1
      <4>2. d * 1 <= d * e
        BY <4>1, Monotone
      <4> QED BY <2>3, <4>2
    <3>3. d \in 2 .. K /\ d \in Nat \ {0} /\ 0 \in 0 .. d - 1 /\ K = e * d + 0
      BY <2>2, <2>3, <3>1, <3>2
    <3>4. K % d = 0
      BY <3>3, ModMultiple
    <3>5. d % 2 = 0
      BY <2>1, <3>3, <3>4
    <3>6. d = 2 * (d \div 2) /\ d \div 2 \in Nat
      BY <3>5
    <3> QED BY <3>6
  <2> QED BY <2>2, <2>3 DEF TwoPower
<1>2. ASSUME TwoPower(K), 2 <= K, K <= m PROVE K \in Widths(m)
  <2>1. K \in 2 .. m /\ K \in Nat \ {0}
    BY <1>2 DEF TwoPower
  <2>2. ASSUME NEW d \in 2 .. K, K % d = 0 PROVE d % 2 = 0
    <3>1. d \in Nat \ {0} /\ d \in Nat
      OBVIOUS
    <3>2. PICK e \in Int : K = e * d + (K % d)
      <4>1. K \in Int
        BY <2>1
      <4> QED BY <3>1, <4>1, ModBelow
    <3>3. K = d * e
      BY <2>2, <3>1, <3>2
    <3>4. e \in Nat
      <4>1. e < 0 => d * e <= -d
        <5>1. e < 0 => d * (-e) >= d * 1
          <6>1. e < 0 => 1 <= -e /\ -e \in Nat
            OBVIOUS
          <6> QED BY <3>1, <6>1, Monotone
        <5> QED BY <3>1, <5>1
      <4> QED BY <2>1, <3>1, <3>3, <4>1
    <3>5. PICK j \in Nat : d = 2 * j
      BY <1>2, <3>1, <3>3, <3>4 DEF TwoPower
    <3> QED BY <3>5
  <2> QED BY <2>1, <2>2 DEF Widths
<1> QED BY <1>1, <1>2

\* What the tables of one modulus are the powers of: a root f of X^m + 1, its
\* inverse fi, their squares w and u, and an inverse d of the degree.
Roots(m, p, f, fi, w, u, d) ==
  /\ MinusRoot(f, m, p) /\ Inverses(f, fi, p)
  /\ Cong(w, f * f, p) /\ Cong(u, fi * fi, p)
  /\ d \in Int /\ Cong(m * d, 1, p)
\* The tables of a modulus, as powers of those roots.
RootTables(T, m, p, f, fi, w, u, d) ==
  /\ \A i \in Ix(m) : Cong(T.phis[i], Pow(f, i), p)
  /\ \A i \in Ix(m) : Cong(T.invpoly_times_invphis[i], d * Pow(fi, i), p)
  /\ \A K \in Widths(m) : \A i \in Ix(K \div 2) :
       /\ Cong(T.omegas[K][i], Pow(w, (m \div K) * i), p)
       /\ Cong(T.invomegas[K][i], Pow(u, (m \div K) * i), p)

\* A width divides the degree.
LEMMA WidthQuotient ==
  ASSUME NEW m, TwoPower(m), NEW K \in Widths(m)
  PROVE  TwoPower(m \div K) /\ m = (m \div K) * K
<1>1. m \in Nat /\ TwoPower(K) /\ K <= m /\ K \in Nat \ {0}
  <2>1. m \in Nat
    BY DEF TwoPower
  <2>2. TwoPower(K) /\ K <= m
    BY <2>1, WidthsTwo
  <2> QED BY <2>1, <2>2 DEF TwoPower
<1>2. PICK k \in Nat : m = k * K
  BY <1>1, TwoDivides
<1>3. m = k * K + 0 /\ 0 \in 0 .. K - 1
  BY <1>1, <1>2
<1>4. m \div K = k
  BY <1>1, <1>3, DivideIs
<1>5. TwoPower(k)
  BY <1>1, <1>2, TwoFactor
<1> QED BY <1>2, <1>4, <1>5

LEMMA WtabCong ==
  ASSUME NEW p, Spare(p), NEW w \in 0 .. p - 1, NEW m, TwoPower(m), NEW K \in Widths(m),
         NEW i \in Ix(K \div 2)
  PROVE  Cong(prep_wtab(w, m, p)[K][i], Pow(w, (m \div K) * i), p)
<1> DEFINE k == m \div K
           v == Squared(w, k, p)
<1>0. p \in Int /\ w \in Int /\ m \in Nat /\ TwoPower(k) /\ K \div 2 \in Nat \ {0}
  <2>1. m \in Nat
    BY DEF TwoPower
  <2> QED BY <2>1, WidthQuotient, WidthsHalve DEF Spare
<1>1. k \in Nat /\ k \in Nat \ {0}
  BY <1>0 DEF TwoPower
<1>2. prep_wtab(w, m, p)[K] = Powers(1, v, K \div 2, p)
  BY DEF prep_wtab
<1> HIDE DEF k
<1>3. v \in 0 .. p - 1 /\ Cong(v, Pow(w, k), p)
  BY <1>0, <1>1, SquaredBelow, SquaredCong
<1> HIDE DEF v
<1>4. 1 \in 0 .. p - 1 /\ Cong(1, 1, p)
  BY <1>0, CongSame DEF Spare
<1>5. Cong(Powers(1, v, K \div 2, p)[i], 1 * Pow(Pow(w, k), i), p)
  BY <1>0, <1>3, <1>4, PowersCong
<1>6. i \in Nat
  BY DEF Ix
<1>7. Pow(w, k * i) = Pow(Pow(w, k), i) /\ Pow(w, k * i) \in Int
  <2>1. k * i \in Nat
    BY <1>1, <1>6
  <2>2. Pow(w, k * i) = Pow(Pow(w, k), i)
    BY <1>0, <1>1, <1>6, PowProduct
  <2> QED BY <1>0, <2>1, <2>2, PowUnfolds
<1>8. 1 * Pow(Pow(w, k), i) = Pow(w, k * i)
  BY <1>7
<1> QED BY <1>2, <1>5, <1>8 DEF k

\* The literals of params.hpp are a root of X^kMaxPolyDegree + 1 and the inverse of that degree.
LEMMA MaxDegreeTwo == TwoPower(MaxDegree) /\ MaxDegree \in Nat /\ 2 <= MaxDegree
<1>1. MaxDegree \in Nat /\ MaxDegree \in Widths(MaxDegree)
  BY BasisAssumption
<1> QED BY <1>1, WidthsTwo

LEMMA LiteralsAre ==
  ASSUME NEW p \in Moduli
  PROVE  /\ MinusRoot(primitive_root(p), MaxDegree, p)
         /\ Cong(invkMaxPolyDegree(p) * MaxDegree, 1, p)
<1> DEFINE g == primitive_root(p)
           k == invkMaxPolyDegree(p)
<1>1. Spare(p) /\ p \in Nat \ {0} /\ p \in Int /\ p >= 2
  BY ModuliSpare DEF Spare
<1>2. g \in 2 .. p - 1 /\ Squared(g, MaxDegree, p) = p - 1
  BY BasisAssumption DEF primitive_root
<1>3. k \in 1 .. p - 1 /\ (k * MaxDegree) % p = 1
  BY BasisAssumption DEF invkMaxPolyDegree
<1> HIDE DEF g, k
<1>4. g \in 0 .. p - 1 /\ g \in Int
  BY <1>1, <1>2
<1>5. Cong(p - 1, Pow(g, MaxDegree), p)
  BY <1>1, <1>2, <1>4, MaxDegreeTwo, SquaredCong
<1>6. Cong(p - 1, -1, p)
  <2>1. p - 1 = -1 + 1 * p
    BY <1>1
  <2> QED BY <1>1, <2>1 DEF Cong
<1>7. Cong(Pow(g, MaxDegree), -1, p)
  BY <1>1, <1>5, <1>6, CongSwap, CongVia
<1>8. Cong(k * MaxDegree, 1, p)
  <2>1. k * MaxDegree \in Int /\ 1 \in 0 .. p - 1
    BY <1>1, <1>3, MaxDegreeTwo
  <2> QED BY <1>1, <1>3, <2>1, ModIs
<1> QED BY <1>4, <1>7, <1>8 DEF MinusRoot, g, k

\* The tables hold the powers that the transforms of both directions need.
LEMMA TableRoots ==
  ASSUME NEW p \in Moduli, NEW m \in Widths(MaxDegree)
  PROVE  \E f, fi, w, u, d : Roots(m, p, f, fi, w, u, d) /\ RootTables(initialize(m, p), m, p, f, fi, w, u, d)
<1> DEFINE q       == MaxDegree \div m
           g       == primitive_root(p)
           inv0    == invkMaxPolyDegree(p)
           phi     == Squared(g, q, p)
           phis    == Powers(1, phi, m, p)
           half    == mulmod(phis[m - 1], phi, p)
           invphi  == mulmod(half, phis[m - 1], p)
           invdeg  == mulmod(inv0, q, p)
           invphis == Powers(invdeg, invphi, m, p)
           root    == mulmod(phi, phi, p)
           invroot == mulmod(invphi, invphi, p)
           omega   == prep_wtab(root, m, p)
           inv     == prep_wtab(invroot, m, p)
           T       == initialize(m, p)
<1>1. Spare(p) /\ MaxDegree < p /\ p \in Nat \ {0} /\ p \in Int
  BY ModuliSpare DEF Spare
<1>2. TwoPower(m) /\ m \in Nat \ {0} /\ m \in Nat /\ m <= MaxDegree
  <2>1. TwoPower(m) /\ m <= MaxDegree
    BY MaxDegreeTwo, WidthsTwo
  <2> QED BY <2>1 DEF TwoPower
<1>3. TwoPower(q) /\ MaxDegree = q * m
  BY MaxDegreeTwo, WidthQuotient
<1>4. T = [phis |-> phis, shoupphis |-> Shoups(phis, p),
           omegas |-> omega, shoupomegas |-> prep_wtabshoup(omega, p),
           invomegas |-> inv, shoupinvomegas |-> prep_wtabshoup(inv, p),
           invpoly_times_invphis |-> invphis,
           shoupinvpoly_times_invphis |-> Shoups(invphis, p)]
  BY DEF initialize
<1>5. g \in 0 .. p - 1 /\ MinusRoot(g, MaxDegree, p) /\ g \in Int
  <2>1. g \in 0 .. p - 1
    BY LiteralsBelow
  <2>2. MinusRoot(g, MaxDegree, p)
    BY LiteralsAre
  <2> QED BY <1>1, <2>1, <2>2
<1>6. inv0 \in 0 .. p - 1 /\ Cong(inv0 * MaxDegree, 1, p) /\ inv0 \in Int
  <2>1. inv0 \in 0 .. p - 1
    BY LiteralsBelow
  <2>2. Cong(inv0 * MaxDegree, 1, p)
    BY LiteralsAre
  <2> QED BY <1>1, <2>1, <2>2
<1>7. q \in Nat \ {0} /\ q \in Nat /\ q \in 0 .. p - 1
  <2>1. q \in Nat \ {0}
    BY <1>3 DEF TwoPower
  <2>2. q * 1 <= q * m
    BY <1>2, <2>1, Monotone
  <2> HIDE DEF q
  <2>3. q <= MaxDegree
    BY <1>3, <2>1, <2>2
  <2> QED BY <1>1, <2>1, <2>3, MaxDegreeTwo
<1> HIDE DEF g, inv0, q, T
<1>8. phi \in 0 .. p - 1 /\ Cong(phi, Pow(g, q), p) /\ phi \in Int
  <2>1. phi \in 0 .. p - 1
    BY <1>1, <1>5, <1>7, SquaredBelow
  <2>2. Cong(phi, Pow(g, q), p)
    BY <1>1, <1>3, <1>5, SquaredCong
  <2> QED BY <1>1, <2>1, <2>2
<1> HIDE DEF phi
<1>9. MinusRoot(phi, m, p)
  <2>1. Cong(Pow(phi, m), Pow(Pow(g, q), m), p)
    BY <1>1, <1>2, <1>8, CongPow
  <2>2. Pow(g, MaxDegree) = Pow(Pow(g, q), m)
    BY <1>2, <1>3, <1>5, <1>7, PowProduct
  <2>3. Cong(Pow(g, MaxDegree), -1, p)
    BY <1>5 DEF MinusRoot
  <2>4. Cong(Pow(phi, m), -1, p)
    BY <1>1, <2>1, <2>2, <2>3, CongVia
  <2> QED BY <1>8, <2>4 DEF MinusRoot
<1>10. 1 \in 0 .. p - 1 /\ Cong(1, 1, p)
  BY <1>1, CongSame DEF Spare
<1>11. \A i \in Ix(m) : Cong(phis[i], Pow(phi, i), p) /\ phis[i] \in 0 .. p - 1
  <2>1. Cong(phi, phi, p)
    BY <1>1, <1>8, CongSame
  <2>2. phis \in [Ix(m) -> 0 .. p - 1]
    BY <1>1, <1>2, <1>8, <1>10, PowersBelow
  <2> TAKE i \in Ix(m)
  <2>3. Cong(phis[i], 1 * Pow(phi, i), p)
    BY <1>1, <1>2, <1>8, <1>10, <2>1, PowersCong
  <2>4. i \in Nat
    BY DEF Ix
  <2>5. 1 * Pow(phi, i) = Pow(phi, i)
    <3>1. Pow(phi, i) \in Int
      BY <1>8, <2>4, PowUnfolds
    <3> QED BY <3>1
  <2>6. phis[i] \in 0 .. p - 1
    BY <2>2
  <2> QED BY <2>3, <2>5, <2>6
<1> DEFINE b == Pow(phi, m - 1)
<1>12. m - 1 \in Ix(m) /\ m - 1 \in Nat
  BY <1>2 DEF Ix
<1>13. b \in Int /\ b * phi = Pow(phi, m)
  <2>1. (m - 1) + 1 = m
    BY <1>2
  <2> QED BY <1>8, <1>12, <2>1, PowUnfolds
<1>14. Cong(phis[m - 1], b, p) /\ phis[m - 1] \in 0 .. p - 1
  BY <1>11, <1>12
<1> HIDE DEF phis, b
<1>15. Cong(phi, phi, p)
  BY <1>1, <1>8, CongSame
<1>16. Cong(half, b * phi, p) /\ half \in 0 .. p - 1
  BY <1>1, <1>8, <1>14, <1>15, MulmodCong
<1> HIDE DEF half
<1>17. Cong(invphi, (b * phi) * b, p) /\ invphi \in 0 .. p - 1
  BY <1>1, <1>14, <1>16, MulmodCong
<1> HIDE DEF invphi
<1>18. Inverses(phi, invphi, p) /\ invphi \in Int
  <2>1. invphi \in Int
    BY <1>1, <1>17
  <2>2. Cong(phi * invphi, phi * ((b * phi) * b), p)
    BY <1>1, <1>15, <1>17, CongTimes
  <2>3. phi * ((b * phi) * b) = (b * phi) * (b * phi)
    BY <1>8, <1>13
  <2>4. Cong(b * phi, -1, p)
    BY <1>9, <1>13 DEF MinusRoot
  <2>5. Cong((b * phi) * (b * phi), (-1) * (-1), p)
    BY <1>1, <2>4, CongTimes
  <2>6. (-1) * (-1) = 1
    OBVIOUS
  <2>7. Cong(phi * invphi, 1, p)
    BY <1>1, <2>2, <2>3, <2>5, <2>6, CongVia
  <2> QED BY <1>8, <2>1, <2>7 DEF Inverses
<1>19. invdeg \in 0 .. p - 1 /\ Cong(invdeg, inv0 * q, p)
  <2>1. Cong(inv0, inv0, p) /\ Cong(q, q, p)
    BY <1>1, <1>6, <1>7, CongSame
  <2> QED BY <1>1, <1>6, <1>7, <2>1, MulmodCong
<1> HIDE DEF invdeg
<1>20. Cong(m * invdeg, 1, p)
  <2>1. Cong(m, m, p)
    BY <1>1, <1>2, CongSame
  <2>2. Cong(m * invdeg, m * (inv0 * q), p)
    BY <1>1, <1>19, <2>1, CongTimes
  <2>3. m * (inv0 * q) = inv0 * (q * m)
    BY <1>2, <1>6, <1>7
  <2> QED BY <1>1, <1>3, <1>6, <2>2, <2>3, CongVia
<1>21. root \in 0 .. p - 1 /\ Cong(root, phi * phi, p)
  BY <1>1, <1>8, <1>15, MulmodCong
<1>22. invroot \in 0 .. p - 1 /\ Cong(invroot, invphi * invphi, p)
  <2>1. Cong(invphi, invphi, p)
    BY <1>1, <1>18, CongSame
  <2> QED BY <1>1, <1>17, <2>1, MulmodCong
<1> HIDE DEF root, invroot
<1>23. ASSUME NEW K \in Widths(m), NEW i \in Ix(K \div 2)
       PROVE  Cong(omega[K][i], Pow(root, (m \div K) * i), p)
  BY <1>1, <1>2, <1>21, WtabCong
<1>24. ASSUME NEW K \in Widths(m), NEW i \in Ix(K \div 2)
       PROVE  Cong(inv[K][i], Pow(invroot, (m \div K) * i), p)
  BY <1>1, <1>2, <1>22, WtabCong
<1>25. ASSUME NEW i \in Ix(m) PROVE Cong(invphis[i], invdeg * Pow(invphi, i), p)
  <2>1. Cong(invdeg, invdeg, p) /\ Cong(invphi, invphi, p)
    <3>1. invdeg \in Int
      BY <1>1, <1>19
    <3> QED BY <1>1, <1>18, <3>1, CongSame
  <2> QED BY <1>1, <1>2, <1>17, <1>19, <2>1, PowersCong
<1> HIDE DEF invphis, omega, inv
<1>26. /\ T.phis = phis /\ T.omegas = omega /\ T.invomegas = inv
       /\ T.invpoly_times_invphis = invphis
  BY <1>4
<1>27. Roots(m, p, phi, invphi, root, invroot, invdeg)
  <2>1. invdeg \in Int
    BY <1>1, <1>19
  <2> QED BY <1>9, <1>18, <1>20, <1>21, <1>22, <2>1 DEF Roots
<1>28. RootTables(T, m, p, phi, invphi, root, invroot, invdeg)
  BY <1>11, <1>23, <1>24, <1>25, <1>26 DEF RootTables
<1> QED BY <1>27, <1>28 DEF T
-----------------------------------------------------------------------------
(*****************************************************************************)
(* The forward loop and the inverse one, for any root: what the blocks of    *)
(* words between two layers carry.                                           *)
(*****************************************************************************)
\* What a layer does to the values of the polynomial in a block: the sums carry
\* those at the even powers, the turned differences those at the odd ones.
HalvesTo(y, yy, h, c, w, s, p) ==
  \A i \in Nat : i < h =>
    Cong(yy[i], IF s = 0 THEN y[i] + y[h + i] ELSE (y[i] - y[h + i]) * Pow(w, c * i), p)

LEMMA Butterfly ==
  ASSUME NEW p \in Int, NEW h \in Nat, NEW c \in Nat, NEW w, MinusRoot(w, c * h, p),
         NEW y \in Seqs, NEW yy \in Seqs, NEW s \in 0 .. 1, NEW e \in Nat,
         HalvesTo(y, yy, h, c, w, s, p)
  PROVE  Cong(Value(yy, Pow(w, (2 * c) * e), h), Value(y, Pow(w, c * (2 * e + s)), 2 * h), p)
<1> DEFINE z  == Pow(w, c * (2 * e + s))
           zz == Pow(w, (2 * c) * e)
           g  == Terms(y, z)
           gh == [i \in Nat |-> g[h + i]]
           gg == [i \in Nat |-> g[i] + gh[i]]
           q  == Terms(yy, zz)
<1>0. w \in Int /\ c * (2 * e + s) \in Nat /\ (2 * c) * e \in Nat /\ 2 * h \in Nat /\ s \in Nat
  BY DEF MinusRoot
<1>1. z \in Int /\ zz \in Int
  BY <1>0, PowUnfolds
<1>2. Cong(Pow(z, h), IF s = 0 THEN 1 ELSE -1, p)
  <2>1. Pow(z, h) = Pow(w, (c * h) * (2 * e + s))
    <3>1. Pow(w, (c * (2 * e + s)) * h) = Pow(z, h)
      BY <1>0, PowProduct
    <3>2. (c * (2 * e + s)) * h = (c * h) * (2 * e + s)
      <4>1. PICK k \in Nat : k = 2 * e + s
        BY <1>0
      <4> QED BY <4>1
    <3> QED BY <3>1, <3>2
  <2>2. PICK j \in Nat : j = c * h
    OBVIOUS
  <2>3. Pow(w, j * (2 * e + s)) = Pow(Pow(w, j), 2 * e + s)
    <3>1. 2 * e + s \in Nat
      BY <1>0
    <3> QED BY <1>0, <3>1, PowProduct
  <2>4. Cong(Pow(w, j), -1, p)
    BY <2>2 DEF MinusRoot
  <2>5. Cong(Pow(Pow(w, j), 2 * e + s), Pow(-1, 2 * e + s), p)
    <3>1. 2 * e + s \in Nat
      BY <1>0
    <3> QED BY <2>4, <3>1, CongPow
  <2>6. Pow(-1, 2 * e + s) = IF s = 0 THEN 1 ELSE -1
    <3>1. -1 \in Int /\ 2 * e \in Nat /\ 2 \in Nat
      OBVIOUS
    <3>2. Pow(-1, 2 * e + s) = Pow(-1, 2 * e) * Pow(-1, s)
      BY <1>0, <3>1, PowAdd
    <3>3. Pow(-1, 2 * e) = Pow(Pow(-1, 2), e)
      BY <3>1, PowProduct
    <3>4. Pow(-1, 0) = 1 /\ Pow(-1, 0 + 1) = Pow(-1, 0) * (-1) /\ Pow(-1, 1 + 1) = Pow(-1, 1) * (-1)
      <4>1. 0 \in Nat /\ 1 \in Nat
        OBVIOUS
      <4> QED BY <3>1, <4>1, PowUnfolds
    <3>5. Pow(-1, 1) = -1 /\ Pow(-1, 2) = 1
      BY <3>4
    <3>6. Pow(-1, 2 * e) = 1
      BY <3>3, <3>5, PowOne
    <3>7. s = 0 \/ s = 1
      OBVIOUS
    <3> QED BY <3>2, <3>4, <3>5, <3>6, <3>7
  <2> QED BY <2>1, <2>2, <2>3, <2>5, <2>6
<1>3. g \in Seqs /\ \A i \in Nat : g[i] = y[i] * Pow(z, i)
  BY <1>1, TermsAre
<1>4. q \in Seqs /\ \A i \in Nat : q[i] = yy[i] * Pow(zz, i)
  BY <1>1, TermsAre
<1>5. Value(y, z, 2 * h) = Total(g, 2 * h) /\ Value(yy, zz, h) = Total(q, h)
  BY DEF Value
<1> HIDE DEF g, q
<1>6. gh \in Seqs
  BY <1>3 DEF Seqs
<1>7. gg \in Seqs
  BY <1>3, <1>6 DEF Seqs
<1>8. Total(g, 2 * h) = Total(gg, h)
  <2>1. 2 * h = h + h
    OBVIOUS
  <2>2. Total(g, h + h) = Total(g, h) + Total(gh, h)
    BY <1>3, TotalSplit
  <2>3. Total(gg, h) = Total(g, h) + Total(gh, h)
    BY <1>3, <1>6, TotalPlus
  <2> QED BY <2>1, <2>2, <2>3
<1>9. ASSUME NEW i \in Nat, i < h PROVE Cong(q[i], gg[i], p)
  <2>1. gg[i] = y[i] * Pow(z, i) + y[h + i] * Pow(z, h + i)
    BY <1>3
  <2>2. Pow(z, h + i) = Pow(z, h) * Pow(z, i)
    BY <1>1, PowAdd
  <2>3. y[i] \in Int /\ y[h + i] \in Int /\ yy[i] \in Int /\ Pow(z, i) \in Int /\ Pow(z, h) \in Int
        /\ Pow(zz, i) \in Int
    <3>1. h + i \in Nat
      OBVIOUS
    <3>2. y[i] \in Int /\ y[h + i] \in Int /\ yy[i] \in Int
      BY <3>1 DEF Seqs
    <3>3. Pow(z, i) \in Int /\ Pow(z, h) \in Int /\ Pow(zz, i) \in Int
      BY <1>1, PowUnfolds
    <3> QED BY <3>2, <3>3
  <2>4. PICK sg \in Int : sg = IF s = 0 THEN 1 ELSE -1
    OBVIOUS
  <2>5. Cong(Pow(z, h), sg, p)
    BY <1>2, <2>4
  <2> DEFINE zi == Pow(z, i)
             zh == Pow(z, h)
             s0 == y[i] + sg * y[h + i]
  <2> HIDE DEF zi, zh
  <2>6. gg[i] = (y[i] + zh * y[h + i]) * zi
    <3>1. y[h + i] * (zh * zi) = (zh * y[h + i]) * zi /\ zh * y[h + i] \in Int
      BY <2>3 DEF zi, zh
    <3>2. gg[i] = y[i] * zi + (zh * y[h + i]) * zi
      BY <2>1, <2>2, <3>1 DEF zi, zh
    <3> QED BY <2>3, <3>1, <3>2 DEF zi
  <2>7. Cong(gg[i], s0 * zi, p)
    <3>1. Cong(y[h + i], y[h + i], p) /\ Cong(y[i], y[i], p) /\ Cong(zi, zi, p)
      BY <2>3, CongSame DEF zi
    <3>2. Cong(zh * y[h + i], sg * y[h + i], p)
      BY <2>5, <3>1, CongTimes DEF zh
    <3>3. Cong(y[i] + zh * y[h + i], s0, p)
      BY <3>1, <3>2, CongPlus
    <3> HIDE DEF s0
    <3>4. Cong((y[i] + zh * y[h + i]) * zi, s0 * zi, p)
      BY <3>1, <3>3, CongTimes
    <3> QED BY <2>6, <3>4
  <2>8. Cong(yy[i], IF s = 0 THEN y[i] + y[h + i] ELSE (y[i] - y[h + i]) * Pow(w, c * i), p)
    BY <1>9 DEF HalvesTo
  <2>9. Cong(q[i], s0 * zi, p)
    <3>0. s0 \in Int /\ zi \in Int
      BY <2>3 DEF zi
    <3>1. q[i] = yy[i] * Pow(zz, i)
      BY <1>4
    <3>2. Cong(Pow(zz, i), Pow(zz, i), p)
      BY <2>3, CongSame
    <3>3. CASE s = 0
      <4>1. s0 = y[i] + y[h + i]
        BY <2>3, <2>4, <3>3
      <4>2. Cong(yy[i], s0, p)
        BY <2>8, <3>3, <4>1
      <4> HIDE DEF s0
      <4>3. zz = z
        <5>1. (2 * c) * e = c * (2 * e + s)
          BY <3>3
        <5> QED BY <5>1
      <4>4. Cong(yy[i] * Pow(zz, i), s0 * Pow(zz, i), p)
        BY <3>2, <4>2, CongTimes
      <4> QED BY <3>1, <4>3, <4>4 DEF zi
    <3>4. CASE s = 1
      <4>1. s0 = y[i] - y[h + i]
        BY <2>3, <2>4, <3>4
      <4>2. Cong(yy[i], s0 * Pow(w, c * i), p)
        BY <2>8, <3>4, <4>1
      <4> HIDE DEF s0
      <4>3. Cong(yy[i] * Pow(zz, i), (s0 * Pow(w, c * i)) * Pow(zz, i), p)
        BY <3>2, <4>2, CongTimes
      <4>4. Pow(w, c * i) * Pow(zz, i) = zi
        <5>2. PICK j \in Nat : j = (2 * c) * e
          BY <1>0
        <5>3. Pow(zz, i) = Pow(w, j * i)
          <6>1. zz = Pow(w, j)
            BY <5>2
          <6> HIDE DEF zz
          <6>2. Pow(w, j * i) = Pow(Pow(w, j), i)
            BY <1>0, PowProduct
          <6> QED BY <6>1, <6>2
        <5>4. c * i \in Nat /\ j * i \in Nat
          OBVIOUS
        <5>5. Pow(w, c * i + j * i) = Pow(w, c * i) * Pow(w, j * i)
          BY <1>0, <5>4, PowAdd
        <5>6. PICK k \in Nat : k = c * (2 * e + s)
          BY <1>0
        <5>7. Pow(w, k * i) = Pow(Pow(w, k), i)
          BY <1>0, PowProduct
        <5>8. k = c + j
          BY <3>4, <5>2, <5>6
        <5>9. k * i = c * i + j * i
          BY <5>8
        <5> QED BY <5>3, <5>5, <5>6, <5>7, <5>9 DEF zi
      <4>5. (s0 * Pow(w, c * i)) * Pow(zz, i) = s0 * (Pow(w, c * i) * Pow(zz, i))
        <5>1. Pow(w, c * i) \in Int
          <6>1. c * i \in Nat
            OBVIOUS
          <6> QED BY <1>0, <6>1, PowUnfolds
        <5> QED BY <2>3, <3>0, <5>1
      <4> QED BY <3>1, <4>3, <4>4, <4>5
    <3>5. s = 0 \/ s = 1
      OBVIOUS
    <3> QED BY <3>3, <3>4, <3>5
  <2> QED BY <2>7, <2>9, CongSwap, CongVia
<1>10. Cong(Total(q, h), Total(gg, h), p)
  <2> HIDE DEF gg
  <2> QED BY <1>4, <1>7, <1>9, TotalCong
<1> QED BY <1>5, <1>8, <1>10

\* The words of block b of width K, as a sequence.
Block(x, K, b) == [i \in Nat |-> IF i < K THEN x[b * K + i] ELSE 0]

\* A layer over c blocks of width 2 * h.
Halved(x, xx, c, h, w, p) ==
  \A b \in Nat, i \in Nat : b < c /\ i < h =>
    /\ Cong(xx[b * (2 * h) + i], x[b * (2 * h) + i] + x[b * (2 * h) + (h + i)], p)
    /\ Cong(xx[b * (2 * h) + (h + i)],
            (x[b * (2 * h) + i] - x[b * (2 * h) + (h + i)]) * Pow(w, c * i), p)

\* What holds between the layers: block b carries the values of X at the powers of
\* w whose exponent is, modulo the number of blocks, b with its bits reversed.
BlocksHold(x, K, c, X, w, p) ==
  \A b \in Nat, e \in Nat : b < c /\ e < K =>
    Cong(Value(Block(x, K, b), Pow(w, c * e), K),
         Value(X, Pow(w, e * c + permut_compute(b, c)), c * K), p)

\* The words of a block are words of the polynomial.
LEMMA InBlock ==
  ASSUME NEW c \in Nat, NEW K \in Nat, NEW b \in Nat, NEW i \in Nat, b < c, i < K
  PROVE  b * K + i \in Ix(c * K)
<1>1. (b + 1) * K <= c * K
  <2>1. K * (b + 1) <= K * c
    BY Monotone
  <2> QED BY <2>1
<1>2. (b + 1) * K = b * K + K /\ b * K \in Nat /\ c * K \in Nat
  OBVIOUS
<1> QED BY <1>1, <1>2 DEF Ix

LEMMA BlockSeq ==
  ASSUME NEW c \in Nat, NEW K \in Nat, NEW x \in [Ix(c * K) -> Int], NEW b \in Nat, b < c
  PROVE  /\ Block(x, K, b) \in Seqs
         /\ \A i \in Nat : i < K => Block(x, K, b)[i] = x[b * K + i] /\ x[b * K + i] \in Int
<1>1. ASSUME NEW i \in Nat, i < K PROVE x[b * K + i] \in Int
  BY <1>1, InBlock
<1>2. \A i \in Nat : (IF i < K THEN x[b * K + i] ELSE 0) \in Int
  BY <1>1
<1> QED BY <1>1, <1>2 DEF Block, Seqs

\* A layer halves the blocks and keeps what they carry.
LEMMA BlocksHalve ==
  ASSUME NEW p \in Int, NEW c, TwoPower(c), NEW h \in Nat \ {0}, NEW w, MinusRoot(w, c * h, p),
         NEW x \in [Ix(c * (2 * h)) -> Int], NEW xx \in [Ix(c * (2 * h)) -> Int],
         NEW X \in Seqs, Halved(x, xx, c, h, w, p), BlocksHold(x, 2 * h, c, X, w, p)
  PROVE  BlocksHold(xx, h, 2 * c, X, w, p)
<1>0. c \in Nat \ {0} /\ c \in Nat /\ h \in Nat /\ 2 * h \in Nat /\ 2 * c \in Nat /\ c * (2 * h) = (2 * c) * h
  BY DEF TwoPower
<1> SUFFICES ASSUME NEW b \in Nat, NEW e \in Nat, b < 2 * c, e < h
             PROVE  Cong(Value(Block(xx, h, b), Pow(w, (2 * c) * e), h),
                         Value(X, Pow(w, e * (2 * c) + permut_compute(b, 2 * c)), (2 * c) * h), p)
  BY DEF BlocksHold
<1>1. PICK b0 \in Nat, s \in 0 .. 1 : b = 2 * b0 + s
  <2>1. b \div 2 \in Nat /\ b % 2 \in 0 .. 1 /\ b = 2 * (b \div 2) + (b % 2)
    OBVIOUS
  <2> QED BY <2>1
<1>2. b0 < c
  BY <1>0, <1>1
<1> DEFINE y  == Block(x, 2 * h, b0)
           yy == Block(xx, h, b)
<1>3. /\ y \in Seqs
      /\ \A i \in Nat : i < 2 * h => y[i] = x[b0 * (2 * h) + i]
  BY <1>0, <1>2, BlockSeq
<1>4. /\ yy \in Seqs
      /\ \A i \in Nat : i < h => yy[i] = xx[b * h + i]
  <2>1. PICK d \in Nat : d = 2 * c
    BY <1>0
  <2>2. xx \in [Ix(d * h) -> Int] /\ b < d
    BY <1>0, <2>1
  <2>3. /\ Block(xx, h, b) \in Seqs
        /\ \A i \in Nat : i < h => Block(xx, h, b)[i] = xx[b * h + i]
    <3>1. /\ Block(xx, h, b) \in Seqs
          /\ \A i \in Nat : i < h => Block(xx, h, b)[i] = xx[b * h + i] /\ xx[b * h + i] \in Int
      BY <1>0, <2>2, BlockSeq
    <3> QED BY <3>1
  <2> QED BY <2>3
<1> HIDE DEF y, yy
<1>5. HalvesTo(y, yy, h, c, w, s, p)
  <2> SUFFICES ASSUME NEW i \in Nat, i < h
               PROVE  Cong(yy[i], IF s = 0 THEN y[i] + y[h + i]
                                           ELSE (y[i] - y[h + i]) * Pow(w, c * i), p)
    BY DEF HalvesTo
  <2>1. y[i] = x[b0 * (2 * h) + i]
    BY <1>0, <1>3
  <2>2. y[h + i] = x[b0 * (2 * h) + (h + i)]
    <3>1. h + i \in Nat /\ h + i < 2 * h
      BY <1>0
    <3> QED BY <1>3, <3>1
  <2>3. yy[i] = xx[b * h + i]
    BY <1>4
  <2>4. b * h + i = IF s = 0 THEN b0 * (2 * h) + i ELSE b0 * (2 * h) + (h + i)
    <3>1. (2 * b0 + s) * h = b0 * (2 * h) + s * h /\ b0 * (2 * h) \in Nat /\ s * h \in Nat
      BY <1>0
    <3>2. s = 0 \/ s = 1
      OBVIOUS
    <3>3. s = 0 => s * h = 0
      BY <1>0
    <3>4. s = 1 => s * h = h
      BY <1>0
    <3> QED BY <1>0, <1>1, <3>1, <3>2, <3>3, <3>4
  <2>5. /\ Cong(xx[b0 * (2 * h) + i], x[b0 * (2 * h) + i] + x[b0 * (2 * h) + (h + i)], p)
        /\ Cong(xx[b0 * (2 * h) + (h + i)],
            (x[b0 * (2 * h) + i] - x[b0 * (2 * h) + (h + i)]) * Pow(w, c * i), p)
    BY <1>2 DEF Halved
  <2> QED BY <2>1, <2>2, <2>3, <2>4, <2>5
<1>6. Cong(Value(yy, Pow(w, (2 * c) * e), h), Value(y, Pow(w, c * (2 * e + s)), 2 * h), p)
  BY <1>0, <1>3, <1>4, <1>5, Butterfly
<1>7. 2 * e + s \in Nat /\ 2 * e + s < 2 * h
  BY <1>0
<1>8. Cong(Value(y, Pow(w, c * (2 * e + s)), 2 * h),
           Value(X, Pow(w, (2 * e + s) * c + permut_compute(b0, c)), c * (2 * h)), p)
  BY <1>2, <1>7 DEF BlocksHold, y
<1>9. (2 * e + s) * c + permut_compute(b0, c) = e * (2 * c) + permut_compute(b, 2 * c)
  <2>1. permut_compute(b, 2 * c) = s * c + permut_compute(b0, c)
    BY <1>1, ReversedSplits
  <2>2. permut_compute(b0, c) \in Int
    BY <1>0, ReversedBelow
  <2>3. (2 * e + s) * c = e * (2 * c) + s * c /\ e * (2 * c) \in Int /\ s * c \in Int
    BY <1>0
  <2> QED BY <2>1, <2>2, <2>3
<1>10. Cong(Value(yy, Pow(w, (2 * c) * e), h),
            Value(X, Pow(w, e * (2 * c) + permut_compute(b, 2 * c)), (2 * c) * h), p)
  BY <1>0, <1>6, <1>8, <1>9, CongVia
<1> QED BY <1>10 DEF yy

\* Before the first layer there is one block, after the last one word in each.
LEMMA BlocksStart ==
  ASSUME NEW p \in Int, NEW l \in Nat, NEW w \in Int, NEW x \in [Ix(l) -> Int], NEW X \in Seqs,
         \A i \in Ix(l) : Cong(x[i], X[i], p)
  PROVE  BlocksHold(x, l, 1, X, w, p)
<1> SUFFICES ASSUME NEW b \in Nat, NEW e \in Nat, b < 1, e < l
             PROVE  Cong(Value(Block(x, l, b), Pow(w, 1 * e), l),
                         Value(X, Pow(w, e * 1 + permut_compute(b, 1)), 1 * l), p)
  BY DEF BlocksHold
<1>1. b = 0 /\ 1 \in Nat \ {0} /\ 1 \in Nat /\ 1 * l = l /\ b * l = 0
  OBVIOUS
<1>2. permut_compute(b, 1) = 0
  BY <1>1, ReversedUnfolds
<1>3. /\ Block(x, l, b) \in Seqs
      /\ \A i \in Nat : i < l => Block(x, l, b)[i] = x[b * l + i]
  BY <1>1, BlockSeq
<1>4. ASSUME NEW i \in Nat, i < l PROVE Cong(Block(x, l, b)[i], X[i], p)
  <2>1. b * l + i = i /\ i \in Ix(l)
    BY <1>1, <1>4 DEF Ix
  <2> QED BY <1>3, <1>4, <2>1
<1>5. 1 * e = e /\ e * 1 + permut_compute(b, 1) = e
  BY <1>2
<1>6. Cong(Pow(w, e), Pow(w, e), p)
  <2>1. Pow(w, e) \in Int
    BY PowUnfolds
  <2> QED BY <2>1, CongSame
<1>7. Cong(Value(Block(x, l, b), Pow(w, e), l), Value(X, Pow(w, e), l), p)
  BY <1>3, <1>4, <1>6, ValueCong
<1> QED BY <1>1, <1>5, <1>7

\* Each word is the value at one power of the root, in the order of the reversed bits.
Transformed(x, X, w, l, p) ==
  \A b \in Ix(l) : Cong(x[b], Value(X, Pow(w, permut_compute(b, l)), l), p)

LEMMA BlocksEnd ==
  ASSUME NEW p \in Int, NEW l \in Nat \ {0}, NEW w \in Int, NEW x \in [Ix(l) -> Int], NEW X \in Seqs,
         BlocksHold(x, 1, l, X, w, p)
  PROVE  Transformed(x, X, w, l, p)
<1> SUFFICES ASSUME NEW b \in Ix(l)
             PROVE  Cong(x[b], Value(X, Pow(w, permut_compute(b, l)), l), p)
  BY DEF Transformed
<1>1. b \in Nat /\ b < l /\ l * 1 = l /\ 0 * l = 0 /\ l * 0 = 0 /\ 0 < 1 /\ 0 \in Nat /\ 1 \in Nat
  BY DEF Ix
<1>2. Cong(Value(Block(x, 1, b), Pow(w, l * 0), 1), Value(X, Pow(w, 0 * l + permut_compute(b, l)), l * 1), p)
  BY <1>1 DEF BlocksHold
<1>3. permut_compute(b, l) \in Int
  BY <1>1, ReversedBelow
<1>4. 0 * l + permut_compute(b, l) = permut_compute(b, l)
  BY <1>1, <1>3
<1>5. Value(Block(x, 1, b), Pow(w, 0), 1) = x[b]
  <2> DEFINE y == Block(x, 1, b)
             g == Terms(y, Pow(w, 0))
  <2>1. y \in Seqs /\ y[0] = x[b * 1 + 0]
    BY <1>1, BlockSeq
  <2>2. b * 1 + 0 = b
    BY <1>1
  <2>3. Pow(w, 0) = 1 /\ 1 \in Int
    BY PowUnfolds
  <2> HIDE DEF y
  <2>4. g \in Seqs /\ g[0] = y[0] * Pow(1, 0)
    <3>1. g \in Seqs /\ \A i \in Nat : g[i] = y[i] * Pow(Pow(w, 0), i)
      BY <2>1, <2>3, TermsAre
    <3> HIDE DEF g
    <3> QED BY <1>1, <2>3, <3>1
  <2>5. Pow(1, 0) = 1
    BY <1>1, PowOne
  <2>6. Value(y, Pow(w, 0), 1) = Total(g, 1)
    BY DEF Value
  <2> HIDE DEF g
  <2>7. Total(g, 0) = 0 /\ Total(g, 0 + 1) = Total(g, 0) + g[0]
    BY <1>1, <2>4, TotalUnfolds
  <2>8. y[0] \in Int
    BY <1>1, <2>1 DEF Seqs
  <2>9. Total(g, 1) = y[0]
    BY <2>4, <2>5, <2>7, <2>8
  <2> QED BY <2>1, <2>2, <2>6, <2>9 DEF y
<1> QED BY <1>1, <1>2, <1>4, <1>5

\* The kernels of a butterfly, up to congruence.
LEMMA LazyCong ==
  ASSUME NEW p, Spare(p), NEW x \in 0 .. W - 1, NEW y \in 0 .. p - 1, NEW v, Cong(y, v, p)
  PROVE  Cong(ShoupLazy(x, y, compute_shoup(y, p), p), x * v, p)
<1>1. p \in Nat \ {0} /\ 2 * p <= W /\ x \in Int /\ y \in Int /\ p \in Int
  BY WordAssumption DEF Spare
<1>2. PICK z \in 0 .. 2 * p - 1, k \in Nat :
        z = ShoupLazy(x, y, compute_shoup(y, p), p) /\ x * y = k * p + z
  BY <1>1, ShoupBelowTwice
<1>3. Cong(x * y, z, p)
  <2>1. x * y = z + k * p /\ z \in Int /\ x * y \in Int
    BY <1>1, <1>2
  <2> QED BY <2>1 DEF Cong
<1>4. Cong(x * y, x * v, p)
  <2>1. Cong(x, x, p)
    BY <1>1, CongSame
  <2> QED BY <1>1, <2>1, CongTimes
<1> QED BY <1>1, <1>2, <1>3, <1>4, CongSwap, CongVia

LEMMA SumCong ==
  ASSUME NEW p, Spare(p), NEW u0 \in 0 .. 2 * p - 1, NEW u1 \in 0 .. 2 * p - 1
  PROVE  SumOf(u0, u1, p) \in 0 .. 2 * p - 1 /\ Cong(SumOf(u0, u1, p), u0 + u1, p)
<1>1. p \in Nat \ {0} /\ p \in Int /\ W \in Nat /\ 4 * p <= W /\ u0 + u1 \in 0 .. W - 1 /\ u0 + u1 \in Int
  BY WordAssumption DEF Spare
<1>2. Low(u0 + u1) = u0 + u1
  BY <1>1, LowOfWord
<1>3. SumOf(u0, u1, p) = u0 + u1 \/ SumOf(u0, u1, p) = u0 + u1 - 2 * p
  <2>1. SumOf(u0, u1, p) = Correct(Low(u0 + u1), 2 * p)
    BY DEF SumOf
  <2>2. PICK s \in Int : s = u0 + u1
    BY <1>1
  <2>3. SumOf(u0, u1, p) = Correct(s, 2 * p)
    BY <1>2, <2>1, <2>2
  <2>4. SumOf(u0, u1, p) = s \/ SumOf(u0, u1, p) = s - 2 * p
    BY <2>3 DEF Correct
  <2> QED BY <1>1, <2>2, <2>4
<1>4. SumOf(u0, u1, p) \in 0 .. 2 * p - 1
  BY <1>1, SumStaysBelow
<1>5. u0 + u1 = u0 + u1 + 0 * p /\ u0 + u1 - 2 * p = u0 + u1 + (-2) * p
      /\ u0 + u1 - 2 * p \in Int
  BY <1>1
<1>6. Cong(SumOf(u0, u1, p), u0 + u1, p)
  BY <1>1, <1>3, <1>5 DEF Cong
<1> QED BY <1>4, <1>6

LEMMA LazyDiffCong ==
  ASSUME NEW p, Spare(p), NEW u0 \in 0 .. 2 * p - 1, NEW u1 \in 0 .. 2 * p - 1
  PROVE  LazyDiff(u0, u1, p) \in 0 .. W - 1 /\ Cong(LazyDiff(u0, u1, p), u0 - u1, p)
<1>1. p \in Nat \ {0} /\ p \in Int /\ 4 * p <= W /\ u0 - u1 \in Int
  BY DEF Spare
<1>2. LazyDiff(u0, u1, p) = u0 - u1 + 2 * p /\ LazyDiff(u0, u1, p) \in 0 .. W - 1
  BY <1>1, DiffFitsWord
<1>3. u0 - u1 + 2 * p \in Int
  BY <1>1
<1> QED BY <1>1, <1>2, <1>3 DEF Cong

LEMMA SignedDiffCong ==
  ASSUME NEW p, Spare(p), NEW u0 \in 0 .. 2 * p - 1, NEW u1 \in 0 .. 2 * p - 1
  PROVE  SignedDiff(u0, u1, p) \in 0 .. 2 * p - 1 /\ Cong(SignedDiff(u0, u1, p), u0 - u1, p)
<1>1. W \in Nat \ {0} /\ p \in Nat /\ 4 * p <= W /\ u0 \in Int /\ u1 \in Int /\ u0 - u1 \in Int
  BY WordAssumption DEF Spare
<1>2. CASE u0 >= u1
  <2>1. u0 - u1 \in 0 .. W - 1 /\ ~(2 * (u0 - u1) >= W)
    BY <1>1, <1>2
  <2>2. Low(u0 - u1) = u0 - u1
    BY <2>1, LowOfWord
  <2>3. SignedDiff(u0, u1, p) = u0 - u1
    BY <2>1, <2>2 DEF SignedDiff
  <2>4. Cong(u0 - u1, u0 - u1, p)
    BY <1>1, CongSame
  <2> QED BY <2>3, <2>4, SignedDiffBelow
<1>3. CASE u0 < u1
  <2>1. PICK d \in 0 .. W - 1 : d = W + (u0 - u1)
    BY <1>1, <1>3
  <2>2. u0 - u1 = (-1) * W + d
    BY <1>1, <2>1
  <2>3. Low(u0 - u1) = d
    BY <1>1, <2>2, ModMultiple DEF Low
  <2>4. PICK c \in 0 .. W - 1 : c = u0 - u1 + 2 * p
    BY <1>1, <1>3
  <2>5. d + 2 * p = 1 * W + c
    BY <1>1, <2>1, <2>4
  <2>6. Low(d + 2 * p) = c
    BY <1>1, <2>5, ModMultiple DEF Low
  <2>7. 2 * d >= W
    BY <1>1, <1>3, <2>1
  <2>8. SignedDiff(u0, u1, p) = c
    BY <2>3, <2>6, <2>7 DEF SignedDiff
  <2>9. Cong(c, u0 - u1, p)
    <3>1. c \in Int
      BY <1>1
    <3> QED BY <1>1, <2>4, <3>1 DEF Cong
  <2> QED BY <2>8, <2>9, SignedDiffBelow
<1> QED BY <1>1, <1>2, <1>3

\* One layer is the butterfly, whatever the lazy ranges.
LEMMA LayerHalves ==
  ASSUME NEW p, Spare(p), NEW c \in Nat, NEW h \in Nat \ {0}, NEW w,
         NEW x \in Table(c * (2 * h), 2 * p), NEW tb \in Table(h, p),
         \A i \in Ix(h) : Cong(tb[i], Pow(w, c * i), p)
  PROVE  Halved(x, Layer(x, 2 * h, tb, Shoups(tb, p), p), c, h, w, p)
<1> DEFINE xx == Layer(x, 2 * h, tb, Shoups(tb, p), p)
           wd == 2 * h
<1>0. p \in Nat \ {0} /\ p \in Int /\ 4 * p <= W /\ wd \div 2 = h /\ h \in Nat /\ wd \in Nat \ {0}
  BY DEF Spare
<1>1. DOMAIN x = Ix(c * wd)
  BY DEF Table
<1> SUFFICES ASSUME NEW b \in Nat, NEW i \in Nat, b < c, i < h
             PROVE  /\ Cong(xx[b * wd + i], x[b * wd + i] + x[b * wd + (h + i)], p)
                    /\ Cong(xx[b * wd + (h + i)],
                            (x[b * wd + i] - x[b * wd + (h + i)]) * Pow(w, c * i), p)
  BY DEF Halved
<1>2. PICK j \in Int : j = b * wd + i
  BY <1>0
<1>3. PICK k \in Int : k = b * wd + (h + i)
  BY <1>0
<1>4. j \in Ix(c * wd) /\ k \in Ix(c * wd) /\ j + h = k /\ k - h = j /\ (h + i) - h = i
  <2>1. i < wd /\ h + i < wd /\ h + i \in Nat
    BY <1>0
  <2>2. j \in Ix(c * wd)
    BY <1>0, <1>2, <2>1, InBlock
  <2>3. k \in Ix(c * wd)
    BY <1>0, <1>3, <2>1, InBlock
  <2>4. j + h = k /\ k - h = j /\ (h + i) - h = i
    <3>1. b * wd \in Int
      BY <1>0
    <3> QED BY <1>0, <1>2, <1>3, <3>1
  <2> QED BY <2>2, <2>3, <2>4
<1>5. j % wd = i /\ k % wd = h + i
  <2>1. i \in 0 .. wd - 1 /\ h + i \in 0 .. wd - 1
    BY <1>0
  <2>2. PICK d \in Nat \ {0}, e \in Int : d = wd /\ e = h + i
    BY <1>0
  <2>3. i \in 0 .. d - 1 /\ e \in 0 .. d - 1 /\ b \in Int /\ j = b * d + i /\ k = b * d + e
    BY <1>2, <1>3, <2>1, <2>2
  <2> HIDE DEF wd
  <2>4. j \div d = b /\ j % d = i
    BY <2>3, DivideIs
  <2>5. k \div d = b /\ k % d = e
    BY <2>3, DivideIs
  <2> QED BY <2>2, <2>4, <2>5
<1>6. x[j] \in 0 .. 2 * p - 1 /\ x[k] \in 0 .. 2 * p - 1
  BY <1>4 DEF Table
<1>7. tb[i] \in 0 .. p - 1 /\ Shoups(tb, p)[i] = compute_shoup(tb[i], p) /\ i \in Ix(h)
  <2>1. i \in Ix(h)
    BY <1>0 DEF Ix
  <2> QED BY <2>1, ShoupsAre
<1>8. xx[j] = SumOf(x[j], x[k], p)
  <2>1. xx[j] = SumOf(x[j], x[j + h], p)
    BY <1>0, <1>1, <1>4, <1>5 DEF Layer
  <2> QED BY <1>4, <2>1
<1>9. xx[k] = ShoupLazy(LazyDiff(x[j], x[k], p), tb[i], compute_shoup(tb[i], p), p)
  <2>1. ~(h + i < h)
    BY <1>0
  <2>2. xx[k] = ShoupLazy(LazyDiff(x[k - h], x[k], p), tb[(h + i) - h], Shoups(tb, p)[(h + i) - h], p)
    BY <1>0, <1>1, <1>4, <1>5, <2>1 DEF Layer
  <2> QED BY <1>4, <1>7, <2>2
<1> HIDE DEF xx
<1>10. Cong(xx[j], x[j] + x[k], p)
  BY <1>6, <1>8, SumCong
<1>11. Cong(xx[k], (x[j] - x[k]) * Pow(w, c * i), p)
  <2>1. PICK d \in 0 .. W - 1 : d = LazyDiff(x[j], x[k], p) /\ Cong(d, x[j] - x[k], p)
    BY <1>6, LazyDiffCong
  <2>2. Cong(tb[i], Pow(w, c * i), p)
    BY <1>7
  <2>3. Cong(xx[k], d * Pow(w, c * i), p)
    BY <1>7, <1>9, <2>1, <2>2, LazyCong
  <2>4. Cong(Pow(w, c * i), Pow(w, c * i), p)
    BY <1>0, <2>2, CongSame DEF Cong
  <2>5. Cong(d * Pow(w, c * i), (x[j] - x[k]) * Pow(w, c * i), p)
    BY <1>0, <2>1, <2>4, CongTimes
  <2> QED BY <1>0, <2>3, <2>5, CongVia
<1> QED BY <1>2, <1>3, <1>10, <1>11

\* The words between the last two layers.
Middle(u, w, winv, p) ==
  <<SumOf(u[0], u[2], p), SumOf(u[1], u[3], p), SignedDiff(u[0], u[2], p),
    ShoupLazy(LazyDiff(u[1], u[3], p), w, winv, p)>>

\* The last two layers at once: the first of them, then the second.
LEMMA MiddleCong ==
  ASSUME NEW p, Spare(p), NEW u \in [0 .. 3 -> 0 .. 2 * p - 1], NEW tw \in 0 .. p - 1, NEW v, Cong(tw, v, p),
         NEW y, y = Middle(u, tw, compute_shoup(tw, p), p)
  PROVE  /\ \A i \in 1 .. 4 : y[i] \in 0 .. 2 * p - 1
         /\ Cong(y[1], u[0] + u[2], p) /\ Cong(y[2], u[1] + u[3], p)
         /\ Cong(y[3], u[0] - u[2], p) /\ Cong(y[4], (u[1] - u[3]) * v, p)
<1>1. p \in Nat \ {0} /\ 4 * p <= W /\ 2 * p <= W /\ p \in Int
  BY WordAssumption DEF Spare
<1>2. u[0] \in 0 .. 2 * p - 1 /\ u[1] \in 0 .. 2 * p - 1 /\ u[2] \in 0 .. 2 * p - 1
      /\ u[3] \in 0 .. 2 * p - 1
  OBVIOUS
<1>3. /\ y[1] = SumOf(u[0], u[2], p) /\ y[2] = SumOf(u[1], u[3], p)
      /\ y[3] = SignedDiff(u[0], u[2], p)
      /\ y[4] = ShoupLazy(LazyDiff(u[1], u[3], p), tw, compute_shoup(tw, p), p)
  BY DEF Middle
<1>4. y[1] \in 0 .. 2 * p - 1 /\ Cong(y[1], u[0] + u[2], p)
  BY <1>2, <1>3, SumCong
<1>5. y[2] \in 0 .. 2 * p - 1 /\ Cong(y[2], u[1] + u[3], p)
  BY <1>2, <1>3, SumCong
<1>6. y[3] \in 0 .. 2 * p - 1 /\ Cong(y[3], u[0] - u[2], p)
  BY <1>2, <1>3, SignedDiffCong
<1>7. y[4] \in 0 .. 2 * p - 1 /\ Cong(y[4], (u[1] - u[3]) * v, p)
  <2>1. PICK d \in 0 .. W - 1 : d = LazyDiff(u[1], u[3], p) /\ Cong(d, u[1] - u[3], p)
    BY <1>2, LazyDiffCong
  <2>2. y[4] \in 0 .. 2 * p - 1
    BY <1>1, <1>3, <2>1, ShoupBelowTwice
  <2>3. Cong(y[4], d * v, p)
    BY <1>3, <2>1, LazyCong
  <2>4. Cong(v, v, p)
    BY <1>1, CongSame DEF Cong
  <2>5. Cong(d * v, (u[1] - u[3]) * v, p)
    BY <1>1, <2>1, <2>4, CongTimes
  <2> QED BY <1>1, <2>2, <2>3, <2>5, CongVia
<1>8. ASSUME NEW i \in 1 .. 4 PROVE y[i] \in 0 .. 2 * p - 1
  <2>1. i = 1 \/ i = 2 \/ i = 3 \/ i = 4
    OBVIOUS
  <2> QED BY <1>4, <1>5, <1>6, <1>7, <2>1
<1> QED BY <1>4, <1>5, <1>6, <1>7, <1>8

LEMMA GroupCong ==
  ASSUME NEW p, Spare(p), NEW u, NEW tw, NEW winv,
         NEW y, y = Middle(u, tw, winv, p), \A i \in 1 .. 4 : y[i] \in 0 .. 2 * p - 1,
         NEW z, z = LastGroup(u, tw, winv, p)
  PROVE  /\ Cong(z[1], y[1] + y[2], p) /\ Cong(z[2], y[1] - y[2], p)
         /\ Cong(z[3], y[3] + y[4], p) /\ Cong(z[4], y[3] - y[4], p)
<1>1. y[1] \in 0 .. 2 * p - 1 /\ y[2] \in 0 .. 2 * p - 1 /\ y[3] \in 0 .. 2 * p - 1
      /\ y[4] \in 0 .. 2 * p - 1
  OBVIOUS
<1>2. /\ y[1] = SumOf(u[0], u[2], p) /\ y[2] = SumOf(u[1], u[3], p)
      /\ y[3] = SignedDiff(u[0], u[2], p)
      /\ y[4] = ShoupLazy(LazyDiff(u[1], u[3], p), tw, winv, p)
  BY DEF Middle
<1>3. z = <<SumOf(y[1], y[2], p), SignedDiff(y[1], y[2], p),
            SumOf(y[3], y[4], p), SignedDiff(y[3], y[4], p)>>
  BY <1>2 DEF LastGroup
<1>4. /\ z[1] = SumOf(y[1], y[2], p) /\ z[2] = SignedDiff(y[1], y[2], p)
      /\ z[3] = SumOf(y[3], y[4], p) /\ z[4] = SignedDiff(y[3], y[4], p)
  BY <1>3
<1>5. Cong(z[1], y[1] + y[2], p)
  BY <1>1, <1>4, SumCong
<1>6. Cong(z[2], y[1] - y[2], p)
  BY <1>1, <1>4, SignedDiffCong
<1>7. Cong(z[3], y[3] + y[4], p)
  BY <1>1, <1>4, SumCong
<1>8. Cong(z[4], y[3] - y[4], p)
  BY <1>1, <1>4, SignedDiffCong
<1> QED BY <1>5, <1>6, <1>7, <1>8

LEMMA LastLayersHalve ==
  ASSUME NEW p, Spare(p), NEW c \in Nat, NEW sz, sz = c * 4, NEW w \in Int,
         NEW x \in Table(sz, 2 * p), NEW tb \in Table(2, p),
         \A i \in Ix(2) : Cong(tb[i], Pow(w, c * i), p)
  PROVE  \E y \in Table(sz, 2 * p) :
           /\ Halved(x, y, c, 2, w, p)
           /\ Halved(y, LastLayers(x, tb, Shoups(tb, p), p), 2 * c, 1, w, p)
<1> DEFINE u(g) == [i \in 0 .. 3 |-> x[4 * g + i]]
           tw == tb[1]
           winv == Shoups(tb, p)[1]
           v == Pow(w, c * 1)
           mid(g) == Middle(u(g), tw, winv, p)
           y == [j \in Ix(sz) |-> mid(j \div 4)[(j % 4) + 1]]
           z(g) == LastGroup(u(g), tw, winv, p)
           xx == LastLayers(x, tb, Shoups(tb, p), p)
<1>0. p \in Nat \ {0} /\ p \in Int
  BY DEF Spare
<1>1. tw \in 0 .. p - 1 /\ winv = compute_shoup(tw, p) /\ Cong(tw, v, p)
  <2>1. 1 \in Ix(2)
    BY DEF Ix
  <2> QED BY <2>1, ShoupsAre
<1>2. ASSUME NEW g \in Nat, g < c, NEW q \in 0 .. 3
      PROVE  g * 4 + q \in Ix(sz) /\ (g * 4 + q) \div 4 = g /\ (g * 4 + q) % 4 = q
             /\ g * 4 + q = 4 * g + q /\ x[4 * g + q] \in 0 .. 2 * p - 1
  <2>1. PICK j \in Int : j = g * 4 + q
    OBVIOUS
  <2>2. j \in Ix(sz)
    BY <1>2, <2>1 DEF Ix
  <2>3. j \div 4 = g /\ j % 4 = q /\ j = 4 * g + q
    BY <2>1
  <2>4. x[j] \in 0 .. 2 * p - 1
    BY <2>2 DEF Table
  <2> QED BY <2>1, <2>2, <2>3, <2>4
<1>3. xx = [j \in Ix(sz) |-> z(j \div 4)[(j % 4) + 1]]
  <2>1. DOMAIN x = Ix(sz)
    BY DEF Table
  <2> QED BY <2>1 DEF LastLayers
<1>4. ASSUME NEW g \in Nat, g < c
      PROVE  /\ u(g) \in [0 .. 3 -> 0 .. 2 * p - 1]
             /\ u(g)[0] = x[g * 4 + 0] /\ u(g)[1] = x[g * 4 + 1]
             /\ u(g)[2] = x[g * 4 + 2] /\ u(g)[3] = x[g * 4 + 3]
  <2>1. \A i \in 0 .. 3 : x[4 * g + i] \in 0 .. 2 * p - 1 /\ g * 4 + i = 4 * g + i
    BY <1>2, <1>4
  <2> QED BY <2>1
<1> HIDE DEF u
<1>5. ASSUME NEW g \in Nat, g < c
      PROVE  /\ \A i \in 1 .. 4 : mid(g)[i] \in 0 .. 2 * p - 1
             /\ Cong(mid(g)[1], u(g)[0] + u(g)[2], p) /\ Cong(mid(g)[2], u(g)[1] + u(g)[3], p)
             /\ Cong(mid(g)[3], u(g)[0] - u(g)[2], p) /\ Cong(mid(g)[4], (u(g)[1] - u(g)[3]) * v, p)
  <2>1. u(g) \in [0 .. 3 -> 0 .. 2 * p - 1]
    BY <1>4, <1>5
  <2> HIDE DEF tw, winv, v
  <2>2. mid(g) = Middle(u(g), tw, compute_shoup(tw, p), p)
    BY <1>1
  <2> HIDE DEF mid
  <2> QED BY <1>1, <2>1, <2>2, MiddleCong
<1>6. ASSUME NEW g \in Nat, g < c
      PROVE  /\ Cong(z(g)[1], mid(g)[1] + mid(g)[2], p) /\ Cong(z(g)[2], mid(g)[1] - mid(g)[2], p)
             /\ Cong(z(g)[3], mid(g)[3] + mid(g)[4], p) /\ Cong(z(g)[4], mid(g)[3] - mid(g)[4], p)
  <2>1. \A i \in 1 .. 4 : mid(g)[i] \in 0 .. 2 * p - 1
    BY <1>5, <1>6
  <2>2. mid(g) = Middle(u(g), tw, winv, p) /\ z(g) = LastGroup(u(g), tw, winv, p)
    OBVIOUS
  <2> HIDE DEF mid, z, tw, winv
  <2> QED BY <2>1, <2>2, GroupCong
<1> HIDE DEF tw, winv, v, mid, z, xx
<1>7. y \in Table(sz, 2 * p)
  <2>1. ASSUME NEW j \in Ix(sz) PROVE mid(j \div 4)[(j % 4) + 1] \in 0 .. 2 * p - 1
    <3>1. j \div 4 \in Nat /\ j \div 4 < c /\ (j % 4) + 1 \in 1 .. 4
      BY DEF Ix
    <3>2. PICK g \in Nat, q \in 1 .. 4 : g = j \div 4 /\ q = (j % 4) + 1 /\ g < c
      BY <3>1
    <3> QED BY <1>5, <3>2
  <2> QED BY <2>1 DEF Table
<1>8. ASSUME NEW g \in Nat, g < c, NEW q \in 0 .. 3
      PROVE  y[g * 4 + q] = mid(g)[q + 1] /\ xx[g * 4 + q] = z(g)[q + 1]
  <2>1. PICK j \in Ix(sz) : j = g * 4 + q /\ j \div 4 = g /\ j % 4 = q
    BY <1>2, <1>8
  <2> QED BY <1>3, <2>1
<1> HIDE DEF y
<1>9. Halved(x, y, c, 2, w, p)
  <2> SUFFICES ASSUME NEW b \in Nat, NEW i \in Nat, b < c, i < 2
               PROVE  /\ Cong(y[b * (2 * 2) + i], x[b * (2 * 2) + i] + x[b * (2 * 2) + (2 + i)], p)
                      /\ Cong(y[b * (2 * 2) + (2 + i)],
                              (x[b * (2 * 2) + i] - x[b * (2 * 2) + (2 + i)]) * Pow(w, c * i), p)
    BY DEF Halved
  <2>1. 2 * 2 = 4
    OBVIOUS
  <2>2. /\ y[b * 4 + 0] = mid(b)[1] /\ y[b * 4 + 1] = mid(b)[2]
        /\ y[b * 4 + 2] = mid(b)[3] /\ y[b * 4 + 3] = mid(b)[4]
    <3>1. 0 \in 0 .. 3 /\ 1 \in 0 .. 3 /\ 2 \in 0 .. 3 /\ 3 \in 0 .. 3 /\ 0 + 1 = 1 /\ 1 + 1 = 2 /\ 2 + 1 = 3 /\ 3 + 1 = 4
      OBVIOUS
    <3> QED BY <1>8, <3>1
  <2>3. /\ u(b)[0] = x[b * 4 + 0] /\ u(b)[1] = x[b * 4 + 1]
        /\ u(b)[2] = x[b * 4 + 2] /\ u(b)[3] = x[b * 4 + 3]
    BY <1>4
  <2>4. /\ Cong(mid(b)[1], u(b)[0] + u(b)[2], p) /\ Cong(mid(b)[2], u(b)[1] + u(b)[3], p)
        /\ Cong(mid(b)[3], u(b)[0] - u(b)[2], p) /\ Cong(mid(b)[4], (u(b)[1] - u(b)[3]) * v, p)
    BY <1>5
  <2>5. CASE i = 0
    <3>1. Pow(w, c * i) = 1 /\ 2 + i = 2
      <4>1. c * i = 0
        BY <2>5
      <4> QED BY <2>5, <4>1, PowUnfolds
    <3>2. (x[b * 4 + 0] - x[b * 4 + 2]) * 1 = x[b * 4 + 0] - x[b * 4 + 2]
      <4>1. x[4 * b + 0] \in 0 .. 2 * p - 1 /\ x[4 * b + 2] \in 0 .. 2 * p - 1
            /\ b * 4 + 0 = 4 * b + 0 /\ b * 4 + 2 = 4 * b + 2
        <5>1. 0 \in 0 .. 3 /\ 2 \in 0 .. 3
          OBVIOUS
        <5> QED BY <1>2, <5>1
      <4>2. PICK x0 \in Int, x2 \in Int : x0 = x[b * 4 + 0] /\ x2 = x[b * 4 + 2]
        BY <1>0, <4>1
      <4> QED BY <4>2
    <3> QED BY <2>1, <2>2, <2>3, <2>4, <2>5, <3>1, <3>2
  <2>6. CASE i = 1
    <3>1. Pow(w, c * i) = v /\ 2 + i = 3
      BY <2>6 DEF v
    <3> QED BY <2>1, <2>2, <2>3, <2>4, <2>6, <3>1
  <2>7. i = 0 \/ i = 1
    OBVIOUS
  <2> QED BY <2>5, <2>6, <2>7
<1>10. Halved(y, xx, 2 * c, 1, w, p)
  <2> SUFFICES ASSUME NEW b \in Nat, NEW i \in Nat, b < 2 * c, i < 1
               PROVE  /\ Cong(xx[b * (2 * 1) + i], y[b * (2 * 1) + i] + y[b * (2 * 1) + (1 + i)], p)
                      /\ Cong(xx[b * (2 * 1) + (1 + i)],
                              (y[b * (2 * 1) + i] - y[b * (2 * 1) + (1 + i)]) * Pow(w, (2 * c) * i), p)
    BY DEF Halved
  <2>1. i = 0 /\ 2 * 1 = 2 /\ 1 + i = 1
    OBVIOUS
  <2>2. Pow(w, (2 * c) * i) = 1
    <3>1. (2 * c) * i = 0
      BY <2>1
    <3> QED BY <3>1, PowUnfolds
  <2>3. PICK g \in Nat, s \in 0 .. 1 : b = 2 * g + s
    <3>1. b \div 2 \in Nat /\ b % 2 \in 0 .. 1 /\ b = 2 * (b \div 2) + (b % 2)
      OBVIOUS
    <3> QED BY <3>1
  <2>4. g < c
    BY <2>3
  <2>5. /\ y[g * 4 + 0] = mid(g)[1] /\ y[g * 4 + 1] = mid(g)[2]
        /\ y[g * 4 + 2] = mid(g)[3] /\ y[g * 4 + 3] = mid(g)[4]
        /\ xx[g * 4 + 0] = z(g)[1] /\ xx[g * 4 + 1] = z(g)[2]
        /\ xx[g * 4 + 2] = z(g)[3] /\ xx[g * 4 + 3] = z(g)[4]
    <3>1. 0 \in 0 .. 3 /\ 1 \in 0 .. 3 /\ 2 \in 0 .. 3 /\ 3 \in 0 .. 3 /\ 0 + 1 = 1 /\ 1 + 1 = 2 /\ 2 + 1 = 3 /\ 3 + 1 = 4
      OBVIOUS
    <3> QED BY <1>8, <2>4, <3>1
  <2>6. \A k \in 1 .. 4 : mid(g)[k] \in Int
    BY <1>0, <1>5, <2>4
  <2>7. (mid(g)[1] - mid(g)[2]) * 1 = mid(g)[1] - mid(g)[2] /\ (mid(g)[3] - mid(g)[4]) * 1 = mid(g)[3] - mid(g)[4]
    <3>1. mid(g)[1] \in Int /\ mid(g)[2] \in Int /\ mid(g)[3] \in Int /\ mid(g)[4] \in Int
      BY <2>6
    <3> QED BY <3>1
  <2>8. /\ Cong(z(g)[1], mid(g)[1] + mid(g)[2], p) /\ Cong(z(g)[2], mid(g)[1] - mid(g)[2], p)
        /\ Cong(z(g)[3], mid(g)[3] + mid(g)[4], p) /\ Cong(z(g)[4], mid(g)[3] - mid(g)[4], p)
    BY <1>6, <2>4
  <2>9. CASE s = 0
    <3>1. b * (2 * 1) + i = g * 4 + 0 /\ b * (2 * 1) + (1 + i) = g * 4 + 1
      BY <2>1, <2>3, <2>9
    <3> QED BY <2>2, <2>5, <2>7, <2>8, <3>1
  <2>10. CASE s = 1
    <3>1. b * (2 * 1) + i = g * 4 + 2 /\ b * (2 * 1) + (1 + i) = g * 4 + 3
      BY <2>1, <2>3, <2>10
    <3> QED BY <2>2, <2>5, <2>7, <2>8, <3>1
  <2>11. s = 0 \/ s = 1
    OBVIOUS
  <2> QED BY <2>9, <2>10, <2>11
<1> QED BY <1>7, <1>9, <1>10 DEF xx

\* Words are integers.
LEMMA TableInt ==
  ASSUME NEW p \in Int, NEW m, NEW x \in Table(m, p)
  PROVE  x \in [Ix(m) -> Int]
<1>1. 0 .. p - 1 \subseteq Int
  OBVIOUS
<1> QED BY <1>1 DEF Table

LEMMA StrictCong ==
  ASSUME NEW p, Spare(p), NEW m, NEW x \in Table(m, 2 * p), NEW i \in Ix(m)
  PROVE  Cong(Strict(x, p)[i], x[i], p)
<1>1. x[i] \in 0 .. 2 * p - 1 /\ p \in Nat /\ DOMAIN x = Ix(m)
  BY DEF Table, Spare
<1>2. Strict(x, p)[i] = Correct(x[i], p)
  BY <1>1 DEF Strict
<1>3. PICK v \in Int : v = x[i]
  BY <1>1
<1>4. Correct(v, p) = v \/ Correct(v, p) = v - p
  BY DEF Correct
<1>5. v = v + 0 * p /\ v - p = v + (-1) * p /\ v - p \in Int
  BY <1>1
<1>6. Cong(Correct(v, p), v, p)
  BY <1>4, <1>5 DEF Cong
<1> QED BY <1>2, <1>3, <1>6

LEMMA ShoupProductCong ==
  ASSUME NEW p, Spare(p), NEW m, NEW x \in [Ix(m) -> 0 .. W - 1], NEW y \in Table(m, p),
         NEW i \in Ix(m), NEW v, Cong(y[i], v, p)
  PROVE  Cong(ShoupProduct(x, y, Shoups(y, p), p)[i], x[i] * v, p)
<1>1. p \in Nat \ {0} /\ p \in Int
  BY DEF Spare
<1>2. y[i] \in 0 .. p - 1 /\ Shoups(y, p)[i] = compute_shoup(y[i], p) /\ x[i] \in 0 .. W - 1
  BY ShoupsAre
<1>3. ShoupProduct(x, y, Shoups(y, p), p)[i] = (x[i] * y[i]) % p
  <2>1. ShoupProduct(x, y, Shoups(y, p), p)[i] = mulmod_shoup(x[i], y[i], Shoups(y, p)[i], p)
    BY DEF ShoupProduct
  <2> QED BY <1>2, <2>1, ShoupExact
<1>4. x[i] \in Int /\ x[i] * y[i] \in Int
  <2>1. PICK x0 \in Int, y0 \in Int : x0 = x[i] /\ y0 = y[i]
    BY <1>2, WordAssumption
  <2> QED BY <2>1
<1>5. Cong((x[i] * y[i]) % p, x[i] * y[i], p)
  BY <1>1, <1>4, ModCong
<1>6. Cong(x[i] * y[i], x[i] * v, p)
  <2>1. Cong(x[i], x[i], p)
    BY <1>1, <1>4, CongSame
  <2> QED BY <1>1, <2>1, CongTimes
<1> QED BY <1>1, <1>3, <1>5, <1>6, CongVia

\* A layer, and the last two, keep what the blocks carry.
LEMMA LayerKeeps ==
  ASSUME NEW p, Spare(p), NEW c, TwoPower(c), NEW h \in Nat \ {0}, NEW w, MinusRoot(w, c * h, p),
         NEW x \in Table(c * (2 * h), 2 * p), NEW tb \in Table(h, p),
         \A i \in Ix(h) : Cong(tb[i], Pow(w, c * i), p),
         NEW X \in Seqs, BlocksHold(x, 2 * h, c, X, w, p)
  PROVE  BlocksHold(Layer(x, 2 * h, tb, Shoups(tb, p), p), h, 2 * c, X, w, p)
<1> DEFINE xx == Layer(x, 2 * h, tb, Shoups(tb, p), p)
<1>1. p \in Nat \ {0} /\ p \in Int /\ 2 * p \in Int /\ 4 * p <= W /\ c \in Nat
  BY DEF Spare, TwoPower
<1>2. Halved(x, xx, c, h, w, p)
  BY <1>1, LayerHalves
<1>3. x \in [Ix(c * (2 * h)) -> 0 .. 2 * p - 1] /\ tb \in [Ix(h) -> 0 .. p - 1]
  BY DEF Table
<1>4. xx \in [Ix(c * (2 * h)) -> 0 .. 2 * p - 1]
  BY <1>1, <1>3, LayerStaysBelow
<1> HIDE DEF xx
<1>5. x \in [Ix(c * (2 * h)) -> Int] /\ xx \in [Ix(c * (2 * h)) -> Int]
  BY <1>1, <1>3, <1>4, TableInt DEF Table
<1>6. BlocksHold(xx, h, 2 * c, X, w, p)
  BY <1>1, <1>2, <1>5, BlocksHalve
<1> QED BY <1>6 DEF xx

LEMMA LastKeeps ==
  ASSUME NEW p, Spare(p), NEW c, TwoPower(c), NEW sz, sz = c * 4, NEW w, MinusRoot(w, c * 2, p),
         NEW x \in Table(sz, 2 * p), NEW tb \in Table(2, p),
         \A i \in Ix(2) : Cong(tb[i], Pow(w, c * i), p),
         NEW X \in Seqs, BlocksHold(x, 4, c, X, w, p)
  PROVE  Transformed(Strict(LastLayers(x, tb, Shoups(tb, p), p), p), X, w, sz, p)
<1> DEFINE xx == LastLayers(x, tb, Shoups(tb, p), p)
<1>1. p \in Int /\ 2 * p \in Int /\ c \in Nat \ {0} /\ c \in Nat /\ w \in Int
  BY DEF Spare, TwoPower, MinusRoot
<1>2. PICK y \in Table(sz, 2 * p) : Halved(x, y, c, 2, w, p) /\ Halved(y, xx, 2 * c, 1, w, p)
  BY <1>1, LastLayersHalve
<1>3. xx \in Table(sz, 2 * p)
  BY <1>1, LastLayersStayBelow
<1> HIDE DEF xx
<1>4. x \in [Ix(sz) -> Int] /\ y \in [Ix(sz) -> Int] /\ xx \in [Ix(sz) -> Int]
  BY <1>1, <1>3, TableInt
<1>5. BlocksHold(y, 2, 2 * c, X, w, p)
  <2>1. x \in [Ix(c * (2 * 2)) -> Int] /\ y \in [Ix(c * (2 * 2)) -> Int] /\ 2 \in Nat \ {0}
    BY <1>4
  <2>2. BlocksHold(x, 2 * 2, c, X, w, p)
    BY DEF BlocksHold
  <2> QED BY <1>1, <1>2, <2>1, <2>2, BlocksHalve
<1>6. PICK d \in Nat : d = 2 * c
  BY <1>1
<1>7. TwoPower(d)
  BY <1>6, TwoDouble
<1>8. BlocksHold(xx, 1, 2 * d, X, w, p)
  <2>1. d * (2 * 1) = sz /\ d * 1 = c * 2 /\ 1 \in Nat \ {0}
    BY <1>1, <1>6
  <2>2. y \in [Ix(d * (2 * 1)) -> Int] /\ xx \in [Ix(d * (2 * 1)) -> Int]
    BY <1>4, <2>1
  <2>3. BlocksHold(y, 2 * 1, d, X, w, p) /\ Halved(y, xx, d, 1, w, p) /\ MinusRoot(w, d * 1, p)
    <3>1. 2 * 1 = 2
      OBVIOUS
    <3> QED BY <1>2, <1>5, <1>6, <2>1, <3>1
  <2> QED BY <1>1, <1>7, <2>1, <2>2, <2>3, BlocksHalve
<1>9. Transformed(xx, X, w, sz, p)
  <2>1. 2 * d = sz /\ sz \in Nat \ {0}
    BY <1>1, <1>6
  <2>2. BlocksHold(xx, 1, sz, X, w, p)
    BY <1>8, <2>1
  <2> QED BY <1>1, <1>4, <2>1, <2>2, BlocksEnd
<1> SUFFICES ASSUME NEW b \in Ix(sz)
             PROVE  Cong(Strict(xx, p)[b], Value(X, Pow(w, permut_compute(b, sz)), sz), p)
  BY DEF Transformed, xx
<1>10. Cong(Strict(xx, p)[b], xx[b], p)
  BY <1>3, StrictCong
<1>11. Cong(xx[b], Value(X, Pow(w, permut_compute(b, sz)), sz), p)
  BY <1>9 DEF Transformed
<1> QED BY <1>1, <1>10, <1>11, CongVia

\* permut is its own inverse.
LEMMA PermutedIs ==
  ASSUME NEW S, NEW m, TwoPower(m), NEW x \in [Ix(m) -> S], Cardinality(Ix(m)) = m,
         NEW i \in Ix(m)
  PROVE  /\ permut(x)[i] = x[permut_compute(i, m)] /\ permut_compute(i, m) \in Ix(m)
         /\ permut_compute(permut_compute(i, m), m) = i
<1>1. m \in Nat \ {0} /\ i \in Nat /\ i \in 0 .. m - 1
  BY DEF TwoPower, Ix
<1>2. permut(x)[i] = x[permut_compute(i, m)]
  BY DEF permut
<1>3. permut_compute(i, m) \in Ix(m)
  BY <1>1, ReversedBelow DEF Ix
<1>4. permut_compute(permut_compute(i, m), m) = i
  BY <1>1, ReversedTwice
<1> QED BY <1>2, <1>3, <1>4
-----------------------------------------------------------------------------
(*****************************************************************************)
(* poly2mpz: the lifting integers of the Chinese remainder theorem, and      *)
(* the reduction by a precomputed reciprocal, which is one subtraction       *)
(* away from the remainder.                                                  *)
(*****************************************************************************)
\* Powers of two, and the number of bits of a number.
LEMMA PowerUnfolds ==
  /\ Power[0] = 1
  /\ \A k \in Nat : Power[k] \in Nat \ {0} /\ Power[k + 1] = 2 * Power[k]
<1> DEFINE Def(f) == [k \in Nat |-> IF k = 0 THEN 1 ELSE 2 * f[k - 1]]
           h == [k \in Nat |-> Pow(2, k)]
<1>1. h = Def(h)
  <2>1. ASSUME NEW k \in Nat PROVE h[k] = IF k = 0 THEN 1 ELSE 2 * h[k - 1]
    <3>1. CASE k = 0
      BY <3>1, PowUnfolds
    <3>2. CASE k # 0
      <4>1. k - 1 \in Nat /\ (k - 1) + 1 = k
        BY <3>2
      <4>2. Pow(2, (k - 1) + 1) = Pow(2, k - 1) * 2 /\ Pow(2, k - 1) \in Int
        BY <4>1, PowUnfolds
      <4>3. Pow(2, k) = 2 * Pow(2, k - 1)
        BY <4>1, <4>2
      <4> QED BY <3>2, <4>1, <4>3
    <3> QED BY <3>1, <3>2
  <2> HIDE DEF h
  <2>2. h = [k \in Nat |-> h[k]]
    BY DEF h
  <2> QED BY <2>1, <2>2
<1>2. Power = CHOOSE f : f = Def(f)
  BY DEF Power
<1>3. Power = Def(Power)
  BY <1>1, <1>2
<1>4. Power[0] = 1
  BY <1>3
<1>5. ASSUME NEW k \in Nat PROVE Power[k + 1] = 2 * Power[k]
  <2>1. k + 1 \in Nat /\ k + 1 # 0 /\ (k + 1) - 1 = k
    OBVIOUS
  <2> QED BY <1>3, <2>1
<1> DEFINE S == {k \in Nat : Power[k] \in Nat \ {0}}
<1>6. 0 \in S
  BY <1>4
<1>7. ASSUME NEW k \in Nat, k \in S PROVE k + 1 \in S
  BY <1>5, <1>7
<1> HIDE DEF S
<1>8. \A k \in Nat : k \in S
  BY <1>6, <1>7, Induction
<1> QED BY <1>4, <1>5, <1>8 DEF S

LEMMA PowerAdd ==
  ASSUME NEW i \in Nat, NEW j \in Nat
  PROVE  Power[i + j] = Power[i] * Power[j]
<1> DEFINE S == {k \in Nat : Power[i + k] = Power[i] * Power[k]}
<1>1. 0 \in S
  <2>1. i + 0 = i /\ Power[i] * 1 = Power[i]
    BY PowerUnfolds
  <2> QED BY <2>1, PowerUnfolds
<1>2. ASSUME NEW k \in Nat, k \in S PROVE k + 1 \in S
  <2>1. i + (k + 1) = (i + k) + 1 /\ i + k \in Nat
    OBVIOUS
  <2>2. Power[(i + k) + 1] = 2 * Power[i + k] /\ Power[k + 1] = 2 * Power[k]
    BY <2>1, PowerUnfolds
  <2>3. Power[i + k] = Power[i] * Power[k]
    BY <1>2
  <2>4. Power[i] \in Int /\ Power[k] \in Int
    BY PowerUnfolds
  <2>5. 2 * (Power[i] * Power[k]) = Power[i] * (2 * Power[k])
    BY <2>4
  <2> QED BY <2>1, <2>2, <2>3, <2>5
<1> HIDE DEF S
<1>3. j \in S
  BY <1>1, <1>2, Induction
<1> QED BY <1>3 DEF S

LEMMA PowerAbove ==
  ASSUME NEW x \in Nat
  PROVE  x < Power[x]
<1> DEFINE S == {k \in Nat : k < Power[k]}
<1>1. 0 \in S
  BY PowerUnfolds
<1>2. ASSUME NEW k \in Nat, k \in S PROVE k + 1 \in S
  <2>1. Power[k + 1] = 2 * Power[k] /\ Power[k] \in Nat \ {0} /\ k < Power[k]
    BY <1>2, PowerUnfolds
  <2> QED BY <2>1
<1> HIDE DEF S
<1>3. x \in S
  BY <1>1, <1>2, Induction
<1> QED BY <1>3 DEF S

LEMMA BitLengthIs ==
  ASSUME NEW x \in Nat \ {0}
  PROVE  BitLength(x) \in 1 .. x /\ Power[BitLength(x) - 1] <= x /\ x < Power[BitLength(x)]
<1> DEFINE S == {b \in Nat : x < Power[b]}
<1>1. x \in S
  BY PowerAbove
<1>2. PICK b \in S : \A y \in S : b <= y
  BY <1>1, LeastNumber
<1>3. b \in Nat /\ b <= x /\ x < Power[b]
  BY <1>1, <1>2
<1>4. b # 0
  BY <1>3, PowerUnfolds
<1>5. b - 1 \in Nat /\ b - 1 < b
  BY <1>3, <1>4
<1>6. b - 1 \notin S
  BY <1>2, <1>3, <1>5
<1>7. Power[b - 1] <= x
  <2>1. Power[b - 1] \in Nat
    BY <1>5, PowerUnfolds
  <2> QED BY <1>5, <1>6, <2>1
<1>8. b \in 1 .. x
  BY <1>3, <1>4
<1>9. \E y \in 1 .. x : Power[y - 1] <= x /\ x < Power[y]
  BY <1>3, <1>7, <1>8
<1> QED BY <1>9 DEF BitLength

LEMMA LogOfIs ==
  ASSUME NEW x \in Nat \ {0}
  PROVE  LogOf(x) \in Nat /\ Power[LogOf(x)] <= x /\ x < Power[LogOf(x) + 1]
<1>1. PICK b \in 1 .. x : b = BitLength(x) /\ Power[b - 1] <= x /\ x < Power[b]
  BY BitLengthIs
<1>2. LogOf(x) = b - 1 /\ b - 1 \in Nat /\ (b - 1) + 1 = b
  BY <1>1 DEF LogOf
<1> QED BY <1>1, <1>2

\* The basis lists distinct odd primes.
LEMMA BasisIs ==
  /\ Len(Basis) \in Nat \ {0}
  /\ \A c \in 1 .. Len(Basis) : Basis[c] \in Moduli /\ Basis[c] \in Nat \ {0} /\ IsPrime(Basis[c]) /\ Basis[c] >= 3
  /\ \A c \in 1 .. Len(Basis), d \in 1 .. Len(Basis) : Basis[c] = Basis[d] => c = d
  /\ \A p \in Moduli : \E c \in 1 .. Len(Basis) : p = Basis[c]
<1>1. Basis \in Seq(Nat) /\ Basis # << >> /\ Moduli = Range(Basis) /\ IsInjective(Basis)
  BY BasisAssumption
<1>2. Len(Basis) \in Nat \ {0} /\ DOMAIN Basis = 1 .. Len(Basis)
  BY <1>1
<1>3. \A c \in 1 .. Len(Basis), d \in 1 .. Len(Basis) : Basis[c] = Basis[d] => c = d
  BY <1>1, <1>2 DEF IsInjective
<1>4. \A p \in Moduli : \E c \in 1 .. Len(Basis) : p = Basis[c]
  BY <1>1, <1>2 DEF Range
<1>5. ASSUME NEW p \in Moduli PROVE p \in Nat \ {0} /\ IsPrime(p) /\ p >= 3
  <2>1. p \in Nat /\ p >= 2 /\ \A d \in 2 .. p - 1, e \in 1 .. p : d * e # p
    BY ModuliAssumption
  <2>2. MaxDegree < p /\ 2 <= MaxDegree /\ MaxDegree \in Nat
    BY ModuliSpare, MaxDegreeTwo
  <2> QED BY <2>1, <2>2 DEF IsPrime
<1>6. \A c \in 1 .. Len(Basis) : Basis[c] \in Moduli
  BY Indices
<1> QED BY <1>2, <1>3, <1>4, <1>5, <1>6

\* The products of the first moduli.
Products(q) ==
  /\ q[0] = 1 /\ moduli_product = q[Len(Basis)]
  /\ \A c \in 0 .. Len(Basis) : q[c] \in Nat \ {0}
  /\ \A c \in 1 .. Len(Basis) : q[c] = q[c - 1] * Basis[c]

LEMMA ProductFunction == \E q : Products(q)
<1> DEFINE l == Len(Basis)
           Def(f) == [c \in 0 .. l |-> IF c = 0 THEN 1 ELSE f[c - 1] * Basis[c]]
           B == [c \in Nat |-> IF c \in 1 .. l THEN Basis[c] ELSE 1]
           g == [k \in Nat |-> [v \in Int |-> v * B[k + 1]]]
           q == CHOOSE f : f = Def(f)
<1>0. l \in Nat \ {0} /\ \A c \in 1 .. l : Basis[c] \in Nat \ {0}
  BY BasisIs
<1>1. B \in [Nat -> Nat \ {0}] /\ \A c \in 1 .. l : B[c] = Basis[c]
  BY <1>0
<1> HIDE DEF B
<1>2. g \in [Nat -> [Int -> Int]] /\ \A k \in Nat, v \in Int : g[k][v] = v * B[k + 1]
  <2>1. ASSUME NEW k \in Nat, NEW v \in Int PROVE v * B[k + 1] \in Int
    <3>1. B[k + 1] \in Int
      BY <1>1
    <3> QED BY <3>1
  <2> QED BY <2>1
<1> HIDE DEF g
<1>3. PICK h \in [Nat -> Int] : h[0] = 1 /\ \A k \in Nat : h[k + 1] = g[k][h[k]]
  <2>1. 1 \in Int
    OBVIOUS
  <2> QED BY <1>2, <2>1, Iteration
<1>4. ASSUME NEW k \in Nat PROVE h[k + 1] = h[k] * B[k + 1]
  BY <1>2, <1>3
<1> DEFINE hh == [c \in 0 .. l |-> h[c]]
<1>5. hh = Def(hh)
  <2>1. ASSUME NEW c \in 0 .. l PROVE hh[c] = IF c = 0 THEN 1 ELSE hh[c - 1] * Basis[c]
    <3>1. CASE c = 0
      BY <1>3, <3>1
    <3>2. CASE c # 0
      <4>1. c - 1 \in Nat /\ (c - 1) + 1 = c /\ c - 1 \in 0 .. l /\ c \in 1 .. l
        BY <1>0, <3>2
      <4>2. h[(c - 1) + 1] = h[c - 1] * B[(c - 1) + 1]
        BY <1>4, <4>1
      <4> QED BY <1>1, <3>2, <4>1, <4>2
    <3> QED BY <3>1, <3>2
  <2>2. hh = [c \in 0 .. l |-> hh[c]]
    OBVIOUS
  <2> HIDE DEF hh
  <2> QED BY <2>1, <2>2
<1>6. q = Def(q)
  BY <1>5
<1>7. moduli_product = q[l]
  BY DEF moduli_product
<1> HIDE DEF q, l
<1>8. q[0] = 1
  BY <1>0, <1>6
<1>9. ASSUME NEW c \in 1 .. l PROVE q[c] = q[c - 1] * Basis[c]
  BY <1>0, <1>6
<1> DEFINE S == {c \in Nat : c <= l => q[c] \in Nat \ {0}}
<1>10. 0 \in S
  BY <1>8
<1>11. ASSUME NEW k \in Nat, k \in S PROVE k + 1 \in S
  <2> SUFFICES ASSUME k + 1 <= l PROVE q[k + 1] \in Nat \ {0}
    OBVIOUS
  <2>1. k + 1 \in 1 .. l /\ (k + 1) - 1 = k /\ k <= l
    BY <1>0
  <2>2. q[k + 1] = q[k] * Basis[k + 1] /\ Basis[k + 1] \in Nat \ {0} /\ q[k] \in Nat \ {0}
    BY <1>0, <1>9, <1>11, <2>1
  <2>3. PICK v \in Nat \ {0}, b \in Nat \ {0} : v = q[k] /\ b = Basis[k + 1]
    BY <2>2
  <2>4. v * b \in Nat \ {0}
    <3>1. 1 * v <= b * v
      BY Monotone
    <3> QED BY <3>1
  <2> QED BY <2>2, <2>3, <2>4
<1> HIDE DEF S
<1>12. \A c \in Nat : c \in S
  BY <1>10, <1>11, Induction
<1>13. \A c \in 0 .. l : q[c] \in Nat \ {0}
  BY <1>12 DEF S
<1> QED BY <1>7, <1>8, <1>9, <1>13 DEF Products, l

LEMMA PrimesDistinct ==
  ASSUME NEW p, IsPrime(p), NEW x, IsPrime(x), x # p
  PROVE  ~ Cong(x, 0, p)
<1> SUFFICES ASSUME Cong(x, 0, p) PROVE FALSE
  OBVIOUS
<1>1. PICK e \in Int : x = 0 + e * p
  BY DEF Cong
<1>2. p \in Nat /\ p >= 2 /\ x \in Nat /\ x >= 2
  BY DEF IsPrime
<1>3. x = e * p
  BY <1>1, <1>2
<1>4. e >= 1
  BY <1>2, <1>3, ProductSign
<1>5. x >= p /\ x >= e
  <2>1. p * 1 <= p * e
    BY <1>2, <1>4, Monotone
  <2>2. e * 1 <= e * p
    <3>1. e \in Nat
      BY <1>4
    <3> QED BY <1>2, <3>1, Monotone
  <2> QED BY <1>2, <1>3, <1>4, <2>1, <2>2
<1>6. p \in 2 .. x - 1 /\ e \in 1 .. x /\ p * e = x
  BY <1>2, <1>3, <1>4, <1>5
<1> QED BY <1>6 DEF IsPrime

LEMMA ProductsApart ==
  ASSUME NEW q, Products(q), NEW d \in 1 .. Len(Basis), NEW c \in 0 .. Len(Basis), c < d
  PROVE  ~ Cong(q[c], 0, Basis[d])
<1> DEFINE p == Basis[d]
           S == {k \in Nat : k < d => ~ Cong(q[k], 0, p)}
<1>0. p \in Nat \ {0} /\ p \in Nat /\ IsPrime(p) /\ p >= 3 /\ Len(Basis) \in Nat
  BY BasisIs
<1> HIDE DEF p
<1>1. 0 \in S
  BY <1>0, OneNotZero DEF Products
<1>2. ASSUME NEW k \in Nat, k \in S PROVE k + 1 \in S
  <2> SUFFICES ASSUME k + 1 < d, Cong(q[k + 1], 0, p) PROVE FALSE
    OBVIOUS
  <2>1. k + 1 \in 1 .. Len(Basis) /\ k \in 0 .. Len(Basis) /\ (k + 1) - 1 = k /\ k + 1 # d
    BY <1>0
  <2>2. q[k + 1] = q[k] * Basis[k + 1] /\ q[k] \in Int
    BY <2>1 DEF Products
  <2>3. Basis[k + 1] \in Int /\ IsPrime(Basis[k + 1]) /\ Basis[k + 1] # p
    BY <2>1, BasisIs DEF p
  <2>4. Cong(q[k], 0, p) \/ Cong(Basis[k + 1], 0, p)
    BY <1>0, <2>2, <2>3, PrimeDivides
  <2>5. ~ Cong(Basis[k + 1], 0, p)
    BY <1>0, <2>3, PrimesDistinct
  <2>6. ~ Cong(q[k], 0, p)
    BY <1>2
  <2> QED BY <2>4, <2>5, <2>6
<1> HIDE DEF S
<1>3. c \in S
  <2>1. c \in Nat
    OBVIOUS
  <2> QED BY <1>1, <1>2, <2>1, Induction
<1> QED BY <1>3 DEF S, p

\* The product is a modulus times something that is not a multiple of it.
LEMMA Cofactor ==
  ASSUME NEW q, Products(q), NEW d \in 1 .. Len(Basis)
  PROVE  \E k \in Nat \ {0} : moduli_product = k * Basis[d] /\ ~ Cong(k, 0, Basis[d])
<1> DEFINE p == Basis[d]
           l == Len(Basis)
           Has(c) == \E k \in Nat \ {0} : q[c] = k * p /\ ~ Cong(k, 0, p)
           S == {j \in Nat : d + j <= l => Has(d + j)}
<1>0. p \in Nat \ {0} /\ p \in Nat /\ IsPrime(p) /\ p >= 3 /\ l \in Nat /\ d \in Nat
  BY BasisIs
<1>1. 0 \in S
  <2>1. d - 1 \in 0 .. l /\ d - 1 < d /\ d + 0 = d
    BY <1>0
  <2>2. q[d] = q[d - 1] * p /\ q[d - 1] \in Nat \ {0}
    BY <2>1 DEF Products
  <2>3. ~ Cong(q[d - 1], 0, p)
    BY <2>1, ProductsApart
  <2>4. Has(d)
    BY <2>2, <2>3
  <2> QED BY <2>1, <2>4
<1>2. ASSUME NEW j \in Nat, j \in S PROVE j + 1 \in S
  <2> SUFFICES ASSUME d + (j + 1) <= l PROVE Has(d + (j + 1))
    OBVIOUS
  <2>1. PICK c \in Nat : c = d + j
    BY <1>0
  <2>2. d + (j + 1) = c + 1 /\ c + 1 \in 1 .. l /\ (c + 1) - 1 = c /\ c + 1 # d /\ c <= l
    BY <1>0, <2>1
  <2>3. PICK k \in Nat \ {0} : q[c] = k * p /\ ~ Cong(k, 0, p)
    BY <1>2, <2>1, <2>2
  <2>4. q[c + 1] = q[c] * Basis[c + 1]
    BY <2>2 DEF Products
  <2>5. PICK b \in Nat \ {0} : b = Basis[c + 1] /\ IsPrime(b) /\ b # p
    BY <2>2, BasisIs
  <2>6. k * b \in Nat \ {0} /\ q[c + 1] = (k * b) * p
    <3>1. 1 * k <= b * k
      BY Monotone
    <3>2. (k * p) * b = (k * b) * p
      BY <1>0
    <3> QED BY <2>3, <2>4, <2>5, <3>1, <3>2
  <2>7. ~ Cong(k * b, 0, p)
    <3>1. ~ Cong(b, 0, p)
      BY <1>0, <2>5, PrimesDistinct
    <3> QED BY <1>0, <2>3, <3>1, PrimeDivides
  <2>8. Has(c + 1)
    BY <2>6, <2>7
  <2> QED BY <2>2, <2>8
<1>3. l - d \in Nat /\ d + (l - d) = l
  BY <1>0
<1> HIDE DEF S, Has
<1>4. l - d \in S
  BY <1>1, <1>2, <1>3, Induction
<1>5. Has(l)
  BY <1>3, <1>4 DEF S
<1>6. moduli_product = q[l]
  BY DEF Products
<1> QED BY <1>5, <1>6 DEF Has

\* What is a multiple of every modulus is one of the product.
LEMMA MultipleOfProduct ==
  ASSUME NEW z \in Int, \A p \in Moduli : Cong(z, 0, p)
  PROVE  Cong(z, 0, moduli_product)
<1>1. PICK q : Products(q)
  BY ProductFunction
<1> DEFINE l == Len(Basis)
           S == {c \in Nat : c <= l => \E e \in Int : z = e * q[c]}
<1>0. l \in Nat
  BY BasisIs
<1>2. 0 \in S
  <2>1. q[0] = 1
    BY <1>1 DEF Products
  <2>2. z = z * 1
    OBVIOUS
  <2> QED BY <2>1, <2>2
<1>3. ASSUME NEW k \in Nat, k \in S PROVE k + 1 \in S
  <2> SUFFICES ASSUME k + 1 <= l PROVE \E e \in Int : z = e * q[k + 1]
    OBVIOUS
  <2>1. k + 1 \in 1 .. l /\ k \in 0 .. l /\ (k + 1) - 1 = k /\ k < k + 1
    BY <1>0
  <2>2. PICK e \in Int : z = e * q[k]
    BY <1>3, <2>1
  <2>3. PICK p : p = Basis[k + 1] /\ p \in Moduli /\ IsPrime(p) /\ p \in Nat
    BY <2>1, BasisIs
  <2>4. PICK v \in Int : v = q[k] /\ q[k + 1] = v * p
    BY <1>1, <2>1, <2>3 DEF Products
  <2>5. Cong(e * v, 0, p)
    BY <2>2, <2>3, <2>4
  <2>6. ~ Cong(v, 0, p)
    BY <1>1, <2>1, <2>3, <2>4, ProductsApart
  <2>7. Cong(e, 0, p)
    BY <2>3, <2>5, <2>6, PrimeDivides
  <2>8. PICK f \in Int : e = 0 + f * p
    BY <2>7 DEF Cong
  <2>9. z = f * (v * p)
    <3>1. e = f * p
      BY <2>3, <2>8
    <3>2. (f * p) * v = f * (v * p)
      BY <2>3
    <3> QED BY <2>2, <2>4, <3>1, <3>2
  <2> QED BY <2>4, <2>9
<1> HIDE DEF S
<1>4. l \in S
  BY <1>0, <1>2, <1>3, Induction
<1>5. PICK e \in Int : z = e * q[l]
  BY <1>0, <1>4 DEF S
<1>6. moduli_product = q[l] /\ q[l] \in Int
  BY <1>0, <1>1 DEF Products
<1>7. z = 0 + e * moduli_product
  BY <1>5, <1>6
<1> QED BY <1>7 DEF Cong

\* The lifting integer of a modulus is 1 for it and 0 for the others.
LEMMA LiftingInteger ==
  ASSUME NEW d \in 1 .. Len(Basis)
  PROVE  /\ lifting_integer(Basis[d]) \in 0 .. moduli_product - 1
         /\ Cong(lifting_integer(Basis[d]), 1, Basis[d])
         /\ \A c \in 1 .. Len(Basis) : c # d => Cong(lifting_integer(Basis[d]), 0, Basis[c])
<1>1. PICK p \in Nat \ {0} : p = Basis[d] /\ IsPrime(p) /\ p >= 3
  BY BasisIs
<1>2. PICK q : Products(q)
  BY ProductFunction
<1>3. PICK k \in Nat \ {0} : moduli_product = k * p /\ ~ Cong(k, 0, p)
  BY <1>1, <1>2, Cofactor
<1>4. moduli_product \div p = k
  <2>1. moduli_product = k * p + 0 /\ 0 \in 0 .. p - 1 /\ moduli_product \in Int /\ k \in Int
    BY <1>3
  <2> QED BY <2>1, DivideIs
<1>5. \E j \in 1 .. p - 1 : (j * k) % p = 1
  <2>1. PICK u \in Int : Cong(u * k, 1, p)
    <3>1. k \in Int
      OBVIOUS
    <3> QED BY <1>1, <1>3, <3>1, PrimeInverse
  <2>2. PICK j \in 0 .. p - 1 : j = u % p
    BY ModBelow
  <2>3. Cong(j, u, p)
    BY <2>2, ModCong
  <2>4. Cong(j * k, u * k, p)
    <3>0. p \in Int /\ k \in Int
      OBVIOUS
    <3>1. Cong(k, k, p)
      BY <3>0, CongSame
    <3> QED BY <2>3, <3>0, <3>1, CongTimes
  <2>5. Cong(j * k, 1, p)
    BY <2>1, <2>4, CongVia
  <2>6. 1 \in 0 .. p - 1
    BY <1>1
  <2>7. (j * k) % p = 1
    BY <2>5, <2>6, CongMod
  <2>8. j # 0
    <3>1. j = 0 => j * k = 0 * p + 0 /\ 0 \in 0 .. p - 1
      OBVIOUS
    <3>2. 0 \in Int /\ 0 \in 0 .. p - 1 => (0 * p + 0) % p = 0
      BY ModMultiple
    <3> QED BY <2>7, <3>1, <3>2
  <2>9. j \in 1 .. p - 1
    BY <2>8
  <2> QED BY <2>7, <2>9
<1>6. PICK j \in 1 .. p - 1 : lifting_integer(p) = k * j /\ (j * k) % p = 1
  <2>1. lifting_integer(p) = k * CHOOSE i \in 1 .. p - 1 : (i * k) % p = 1
    BY <1>4 DEF lifting_integer
  <2> QED BY <1>5, <2>1
<1>7. lifting_integer(p) \in 0 .. moduli_product - 1
  <2>1. j <= p - 1 /\ j \in Nat /\ p - 1 \in Int
    OBVIOUS
  <2>2. k * j <= k * (p - 1)
    BY <2>1, Monotone
  <2>3. k * (p - 1) = k * p - k /\ k * j \in Nat /\ k * p \in Nat
    OBVIOUS
  <2> QED BY <1>3, <1>6, <2>2, <2>3
<1>8. Cong(lifting_integer(p), 1, p)
  <2>1. j * k \in Int /\ 1 \in 0 .. p - 1 /\ j * k = k * j
    BY <1>1
  <2> QED BY <1>6, <2>1, ModIs
<1>9. ASSUME NEW c \in 1 .. Len(Basis), c # d PROVE Cong(lifting_integer(p), 0, Basis[c])
  <2>1. PICK b \in Nat \ {0} : b = Basis[c] /\ IsPrime(b) /\ b # p
    BY <1>1, <1>9, BasisIs
  <2>2. PICK e \in Nat \ {0} : moduli_product = e * b
    BY <1>2, <2>1, Cofactor
  <2>3. Cong(k * p, 0, b)
    <3>1. PICK z \in Int : z = k * p
      OBVIOUS
    <3>2. PICK f \in Int : f = e /\ z = 0 + f * b
      BY <1>3, <2>2, <3>1
    <3>3. Cong(z, 0, b)
      BY <3>2 DEF Cong
    <3> QED BY <3>1, <3>3
  <2>4. ~ Cong(p, 0, b)
    BY <1>1, <2>1, PrimesDistinct
  <2>5. Cong(k, 0, b)
    <3>1. k \in Int /\ p \in Int
      OBVIOUS
    <3> QED BY <2>1, <2>3, <2>4, <3>1, PrimeDivides
  <2>0. b \in Int /\ j \in Int /\ 0 * j = 0
    OBVIOUS
  <2>6. Cong(j, j, b)
    BY <2>0, CongSame
  <2>7. Cong(k * j, 0 * j, b) /\ 0 * j = 0
    BY <2>0, <2>5, <2>6, CongTimes
  <2> QED BY <1>6, <2>1, <2>7
<1> QED BY <1>1, <1>7, <1>8, <1>9

\* A quotient by the precomputed reciprocal is at most one too small.
LEMMA ReciprocalQuotient ==
  ASSUME NEW Q \in Nat \ {0}, NEW P \in Nat \ {0}, NEW s \in Nat, s < P
  PROVE  s - ((s * (P \div Q)) \div P) * Q \in 0 .. 2 * Q - 1
<1>1. PICK m \in Nat : m = P \div Q /\ m * Q <= P /\ P < m * Q + Q
  BY DivisionBounds
<1>2. s * m \in Nat
  OBVIOUS
<1>3. PICK v \in Nat : v = (s * m) \div P /\ v * P <= s * m /\ s * m < v * P + P
  BY <1>2, DivisionBounds
<1>4. P * (v * Q) <= P * s
  <2>1. Q * (v * P) <= Q * (s * m)
    BY <1>3, Monotone
  <2>2. s * (m * Q) <= s * P
    BY <1>1, Monotone
  <2>3. Q * (v * P) = P * (v * Q) /\ Q * (s * m) = s * (m * Q) /\ s * P = P * s
    OBVIOUS
  <2>4. v * P \in Int /\ P * (v * Q) \in Int /\ s * (m * Q) \in Int /\ P * s \in Int
    OBVIOUS
  <2> QED BY <2>1, <2>2, <2>3, <2>4
<1>5. v * Q <= s
  <2>1. CASE s < v * Q
    <3>1. s + 1 <= v * Q /\ s + 1 \in Int /\ v * Q \in Int
      BY <2>1
    <3>2. P * (s + 1) <= P * (v * Q)
      BY <3>1, Monotone
    <3>3. P * (s + 1) = P * s + P /\ P * s \in Int /\ P * (v * Q) \in Int
      OBVIOUS
    <3> QED BY <1>4, <3>2, <3>3
  <2>2. v * Q \in Int
    OBVIOUS
  <2> QED BY <2>1, <2>2
<1>6. P * s < P * (v * Q + 2 * Q)
  <2>1. s * P <= s * (m * Q + Q)
    <3>1. P <= m * Q + Q /\ m * Q + Q \in Int
      BY <1>1
    <3> QED BY <3>1, Monotone
  <2>2. s * (m * Q + Q) = Q * (s * m) + Q * s
    OBVIOUS
  <2>3. Q * (s * m + 1) <= Q * (v * P + P)
    <3>1. s * m + 1 <= v * P + P /\ s * m + 1 \in Int /\ v * P + P \in Int
      BY <1>2, <1>3
    <3> QED BY <3>1, Monotone
  <2>4. Q * s <= Q * P
    BY Monotone
  <2>5. Q * (s * m + 1) = Q * (s * m) + Q
    OBVIOUS
  <2>6. Q * (v * P + P) + Q * P = P * (v * Q + 2 * Q)
    OBVIOUS
  <2>7. Q * (s * m) \in Int /\ Q * s \in Int /\ Q * P \in Int /\ Q * (v * P + P) \in Int /\ s * P \in Int
        /\ P * (v * Q + 2 * Q) \in Int /\ s * P = P * s
    OBVIOUS
  <2> QED BY <2>1, <2>2, <2>3, <2>4, <2>5, <2>6, <2>7
<1>7. s < v * Q + 2 * Q
  <2>1. v * Q + 2 * Q \in Int /\ s \in Int
    OBVIOUS
  <2> QED BY <1>6, <2>1, CancelLess
<1>8. s - v * Q \in 0 .. 2 * Q - 1
  <2>1. PICK z \in Int : z = v * Q
    OBVIOUS
  <2> QED BY <1>5, <1>7, <2>1
<1> QED BY <1>1, <1>3, <1>8

\* The summands of poly2mpz.
Lifts(res) ==
  [i \in Nat |-> IF i + 1 \in 1 .. Len(Basis)
                   THEN lifting_integer(Basis[i + 1]) * res[Basis[i + 1]] ELSE 0]

\* One summand counts for each modulus.
LEMMA LiftsAre ==
  ASSUME NEW res \in [Moduli -> Nat], NEW c \in 1 .. Len(Basis)
  PROVE  /\ Lifts(res) \in Seqs
         /\ Lifts(res)[c - 1] = lifting_integer(Basis[c]) * res[Basis[c]]
         /\ \A i \in Nat : i < Len(Basis) /\ i # c - 1 => Cong(Lifts(res)[i], 0, Basis[c])
         /\ Cong(Lifts(res)[c - 1], res[Basis[c]], Basis[c])
<1>0. Len(Basis) \in Nat
  BY BasisIs
<1>1. ASSUME NEW d \in 1 .. Len(Basis)
      PROVE  lifting_integer(Basis[d]) \in Int /\ res[Basis[d]] \in Int
             /\ lifting_integer(Basis[d]) * res[Basis[d]] \in Int
  <2>1. lifting_integer(Basis[d]) \in Nat
    BY LiftingInteger
  <2>2. res[Basis[d]] \in Nat
    BY BasisIs
  <2>3. PICK x \in Nat, y \in Nat : x = lifting_integer(Basis[d]) /\ y = res[Basis[d]]
    BY <2>1, <2>2
  <2> QED BY <2>3
<1>2. \A i \in Nat : i + 1 \in 1 .. Len(Basis) => Lifts(res)[i] = lifting_integer(Basis[i + 1]) * res[Basis[i + 1]]
  BY DEF Lifts
<1>3. Lifts(res) \in Seqs
  BY <1>1 DEF Lifts, Seqs
<1>4. c - 1 \in Nat /\ (c - 1) + 1 = c
  BY <1>0
<1>5. Lifts(res)[c - 1] = lifting_integer(Basis[c]) * res[Basis[c]]
  BY <1>2, <1>4
<1>6. PICK p \in Int : p = Basis[c]
  BY BasisIs
<1>7. ASSUME NEW i \in Nat, i < Len(Basis), i # c - 1 PROVE Cong(Lifts(res)[i], 0, p)
  <2>1. PICK d \in 1 .. Len(Basis) : d = i + 1 /\ d # c
    BY <1>0, <1>4, <1>7
  <2>2. Cong(lifting_integer(Basis[d]), 0, p)
    BY <1>6, <2>1, LiftingInteger
  <2>3. Cong(res[Basis[d]], res[Basis[d]], p)
    BY <1>1, <1>6, CongSame
  <2>4. Cong(lifting_integer(Basis[d]) * res[Basis[d]], 0 * res[Basis[d]], p)
    BY <1>6, <2>2, <2>3, CongTimes
  <2>5. 0 * res[Basis[d]] = 0
    BY <1>1
  <2> QED BY <1>2, <2>1, <2>4, <2>5
<1>8. Cong(Lifts(res)[c - 1], res[Basis[c]], p)
  <2>1. Cong(lifting_integer(Basis[c]), 1, p)
    BY <1>6, LiftingInteger
  <2>2. Cong(res[Basis[c]], res[Basis[c]], p)
    BY <1>1, <1>6, CongSame
  <2>3. Cong(lifting_integer(Basis[c]) * res[Basis[c]], 1 * res[Basis[c]], p)
    BY <1>6, <2>1, <2>2, CongTimes
  <2>4. 1 * res[Basis[c]] = res[Basis[c]]
    BY <1>1
  <2> QED BY <1>5, <2>3, <2>4
<1> QED BY <1>3, <1>5, <1>6, <1>7, <1>8

LEMMA TotalBelow ==
  ASSUME NEW f \in Seqs, NEW b \in Nat, NEW m \in Nat, \A i \in Nat : i < m => f[i] \in 0 .. b
  PROVE  Total(f, m) \in 0 .. m * b
<1> DEFINE S == {k \in Nat : k <= m => Total(f, k) \in 0 .. k * b}
<1>1. 0 \in S
  <2>1. 0 * b = 0 /\ Total(f, 0) = 0
    BY TotalUnfolds
  <2> QED BY <2>1
<1>2. ASSUME NEW k \in Nat, k \in S PROVE k + 1 \in S
  <2> SUFFICES ASSUME k + 1 <= m PROVE Total(f, k + 1) \in 0 .. (k + 1) * b
    OBVIOUS
  <2>1. Total(f, k) \in 0 .. k * b /\ f[k] \in 0 .. b
    BY <1>2
  <2>2. Total(f, k + 1) = Total(f, k) + f[k]
    BY TotalUnfolds
  <2>3. PICK z \in Nat : z = k * b
    OBVIOUS
  <2>4. (k + 1) * b = z + b
    BY <2>3
  <2> QED BY <2>1, <2>2, <2>3, <2>4
<1> HIDE DEF S
<1>3. m \in S
  BY <1>1, <1>2, Induction
<1> QED BY <1>3 DEF S

LEMMA LiftsTotal ==
  ASSUME NEW res \in [Moduli -> Nat], NEW p \in Moduli
  PROVE  Cong(Total(Lifts(res), Len(Basis)), res[p], p)
<1>1. PICK c \in 1 .. Len(Basis) : p = Basis[c]
  BY BasisIs
<1> DEFINE l == Len(Basis)
           f == Lifts(res)
           v == res[p]
           g == [i \in Nat |-> IF i = c - 1 THEN v ELSE 0]
<1>2. l \in Nat /\ p \in Int /\ v \in Int /\ c - 1 \in Nat /\ c - 1 < l
  BY <1>1, BasisIs
<1>3. /\ f \in Seqs
      /\ \A i \in Nat : i < l /\ i # c - 1 => Cong(f[i], 0, p)
      /\ Cong(f[c - 1], v, p)
  BY <1>1, LiftsAre
<1> HIDE DEF f, l, v
<1>4. g \in Seqs /\ g[c - 1] = v /\ \A i \in Nat : i # c - 1 => g[i] = 0
  BY <1>2 DEF Seqs
<1> HIDE DEF g
<1>5. \A i \in Nat : i < l => Cong(f[i], g[i], p)
  BY <1>3, <1>4
<1>6. Cong(Total(f, l), Total(g, l), p)
  BY <1>2, <1>3, <1>4, <1>5, TotalCong
<1>7. Total(g, l) = v
  BY <1>2, <1>4, TotalAlone
<1> QED BY <1>6, <1>7 DEF f, l, v

\* The sum of poly2mpz.
LEMMA RopIs ==
  ASSUME NEW res \in [Moduli -> Nat]
  PROVE  LET tmp == (Total(Lifts(res), Len(Basis)) * modulus_shoup) \div Power[shift_modulus_shoup]
         IN  poly2mpz(res) = Correct(Total(Lifts(res), Len(Basis)) - tmp * moduli_product, moduli_product)
<1> DEFINE l == Len(Basis)
           Def(f) == [c \in 0 .. l |-> IF c = 0 THEN 0
                        ELSE f[c - 1] + lifting_integer(Basis[c]) * res[Basis[c]]]
           h == [c \in 0 .. l |-> Total(Lifts(res), c)]
           q == CHOOSE f : f = Def(f)
<1>0. l \in Nat \ {0}
  BY BasisIs
<1>1. Lifts(res) \in Seqs /\ \A c \in 1 .. l : Lifts(res)[c - 1] = lifting_integer(Basis[c]) * res[Basis[c]]
  <2>1. 1 \in 1 .. l
    BY <1>0
  <2> QED BY <2>1, LiftsAre
<1>2. Total(Lifts(res), 0) = 0
  BY <1>1, TotalUnfolds
<1>3. ASSUME NEW c \in 1 .. l
      PROVE  Total(Lifts(res), c) = Total(Lifts(res), c - 1) + lifting_integer(Basis[c]) * res[Basis[c]]
  <2>1. c - 1 \in Nat /\ (c - 1) + 1 = c
    BY <1>0
  <2>2. Total(Lifts(res), (c - 1) + 1) = Total(Lifts(res), c - 1) + Lifts(res)[c - 1]
    BY <1>1, <2>1, TotalUnfolds
  <2> QED BY <1>1, <2>1, <2>2
<1>4. h = Def(h)
  <2>1. ASSUME NEW c \in 0 .. l
        PROVE  h[c] = IF c = 0 THEN 0 ELSE h[c - 1] + lifting_integer(Basis[c]) * res[Basis[c]]
    <3>1. CASE c = 0
      BY <1>2, <3>1
    <3>2. CASE c # 0
      <4>1. c \in 1 .. l /\ c - 1 \in 0 .. l
        BY <1>0, <3>2
      <4> QED BY <1>3, <3>2, <4>1
    <3> QED BY <3>1, <3>2
  <2>2. h = [c \in 0 .. l |-> h[c]]
    OBVIOUS
  <2> HIDE DEF h
  <2> QED BY <2>1, <2>2
<1>5. q = Def(q)
  BY <1>4
<1>6. LET tmp == (q[l] * modulus_shoup) \div Power[shift_modulus_shoup]
      IN  poly2mpz(res) = Correct(q[l] - tmp * moduli_product, moduli_product)
  BY DEF poly2mpz
<1> HIDE DEF q, l
<1> DEFINE S == {c \in Nat : c <= l => q[c] = Total(Lifts(res), c)}
<1>7. 0 \in S
  BY <1>0, <1>2, <1>5
<1>8. ASSUME NEW k \in Nat, k \in S PROVE k + 1 \in S
  <2> SUFFICES ASSUME k + 1 <= l PROVE q[k + 1] = Total(Lifts(res), k + 1)
    OBVIOUS
  <2>1. PICK c \in 1 .. l : c = k + 1 /\ c - 1 = k /\ c # 0 /\ c \in 0 .. l
    BY <1>0
  <2>2. q[c] = q[c - 1] + lifting_integer(Basis[c]) * res[Basis[c]]
    BY <1>5, <2>1
  <2>3. q[k] = Total(Lifts(res), k)
    BY <1>0, <1>8
  <2> QED BY <1>3, <2>1, <2>2, <2>3
<1> HIDE DEF S
<1>9. l \in S
  BY <1>0, <1>7, <1>8, Induction
<1>10. q[l] = Total(Lifts(res), l)
  BY <1>0, <1>9 DEF S
<1> QED BY <1>6, <1>10 DEF l

\* The shift is large enough for the reciprocal.
LEMMA ProductPositive == moduli_product \in Nat \ {0} /\ moduli_product >= 2
<1>1. PICK q : Products(q)
  BY ProductFunction
<1>2. 1 \in 1 .. Len(Basis)
  BY BasisIs
<1>3. PICK p \in Nat \ {0} : p = Basis[1] /\ p >= 3
  BY <1>2, BasisIs
<1>4. PICK k \in Nat \ {0} : moduli_product = k * p
  BY <1>1, <1>2, <1>3, Cofactor
<1>5. p * 1 <= p * k
  BY Monotone
<1>6. p * k = k * p /\ k * p \in Nat
  OBVIOUS
<1> QED BY <1>3, <1>4, <1>5, <1>6

LEMMA ModulusBelowPower ==
  ASSUME NEW p \in Moduli
  PROVE  p \in Nat /\ p <= Power[LogOf(W)]
<1>1. p \in Nat /\ 4 * p <= W
  BY ModuliSpare DEF Spare
<1>2. LogOf(W) \in Nat /\ W < Power[LogOf(W) + 1]
  BY WordAssumption, LogOfIs
<1>3. Power[LogOf(W) + 1] = 2 * Power[LogOf(W)] /\ Power[LogOf(W)] \in Nat
  BY <1>2, PowerUnfolds
<1> QED BY <1>1, <1>2, <1>3, WordAssumption

LEMMA ShiftIs ==
  /\ shift_modulus_shoup \in Nat /\ Power[shift_modulus_shoup] \in Nat \ {0}
  /\ Len(Basis) * (moduli_product * Power[LogOf(W)]) < Power[shift_modulus_shoup]
<1> DEFINE l == Len(Basis)
           Q == moduli_product
           H == Power[LogOf(W)]
           x == BitLength(Q)
           y == LogOf(W)
           z == LogOf(l)
           A == Power[x]
           B == Power[z + 1]
<1>1. l \in Nat \ {0} /\ Q \in Nat \ {0} /\ W \in Nat \ {0}
  BY BasisIs, ProductPositive, WordAssumption
<1>2. x \in Nat /\ Q < A
  <2> HIDE DEF Q
  <2>1. BitLength(Q) \in 1 .. Q /\ Q < Power[BitLength(Q)]
    BY <1>1, BitLengthIs
  <2> QED BY <1>1, <2>1
<1>3. y \in Nat
  BY <1>1, LogOfIs
<1>4. z \in Nat /\ l < B
  <2> HIDE DEF l
  <2> QED BY <1>1, LogOfIs
<1>5. shift_modulus_shoup = x + y + z + 1
  BY DEF shift_modulus_shoup
<1> HIDE DEF l, Q, x, y, z
<1>6. A \in Nat \ {0} /\ B \in Nat \ {0} /\ Power[y] \in Nat \ {0} /\ H = Power[y]
  <2>1. z + 1 \in Nat
    BY <1>4
  <2> QED BY <1>2, <1>3, <2>1, PowerUnfolds DEF y
<1>7. shift_modulus_shoup \in Nat /\ shift_modulus_shoup = (z + 1) + (x + y) /\ x + y \in Nat /\ z + 1 \in Nat
  BY <1>2, <1>3, <1>4, <1>5
<1>8. Power[shift_modulus_shoup] = B * (A * Power[y])
  <2>1. Power[(z + 1) + (x + y)] = Power[z + 1] * Power[x + y]
    BY <1>7, PowerAdd
  <2>2. Power[x + y] = Power[x] * Power[y]
    BY <1>2, <1>3, PowerAdd
  <2> QED BY <1>7, <2>1, <2>2
<1>9. Power[shift_modulus_shoup] \in Nat \ {0}
  BY <1>7, PowerUnfolds
<1> HIDE DEF A, B, H
<1>10. PICK h \in Nat \ {0} : h = H /\ h = Power[y]
  BY <1>6
<1>11. l * (Q * h) < B * (A * h)
  <2>1. PICK e \in Nat \ {0} : e = Q * h
    <3>1. h * 1 <= h * Q
      BY <1>1, Monotone
    <3>2. h * Q \in Nat /\ h * Q = Q * h
      BY <1>1
    <3> QED BY <1>10, <3>1, <3>2
  <2>2. e * (l + 1) <= e * B
    <3>1. l + 1 <= B /\ l + 1 \in Int /\ B \in Int
      BY <1>1, <1>4, <1>6
    <3> QED BY <3>1, Monotone
  <2>3. h * Q <= h * A
    <3>1. Q <= A /\ Q \in Int /\ A \in Int
      BY <1>1, <1>2, <1>6
    <3> QED BY <3>1, Monotone
  <2>4. B * (h * Q) <= B * (h * A)
    <3>1. h * Q \in Int /\ h * A \in Int
      BY <1>1, <1>6
    <3> QED BY <1>6, <2>3, <3>1, Monotone
  <2>5. e * (l + 1) = l * e + e /\ l * e \in Nat
    BY <1>1
  <2>6. e * B = B * (h * Q)
    BY <1>1, <1>6, <2>1
  <2>7. h * A = A * h
    BY <1>6
  <2>8. B * (h * A) \in Nat /\ e * B \in Nat
    BY <1>6
  <2> QED BY <2>1, <2>2, <2>4, <2>5, <2>6, <2>7, <2>8
<1>12. l * (Q * H) < Power[shift_modulus_shoup]
  BY <1>8, <1>10, <1>11
<1> QED BY <1>7, <1>9, <1>12 DEF l, Q, H

\* The integer that poly2mpz makes of residues is reduced and has those residues.
LEMMA Poly2mpzIs ==
  ASSUME NEW res \in [Moduli -> Nat], \A p \in Moduli : res[p] < p
  PROVE  /\ poly2mpz(res) \in 0 .. moduli_product - 1
         /\ \A p \in Moduli : Cong(poly2mpz(res), res[p], p)
<1> DEFINE l == Len(Basis)
           Q == moduli_product
           H == Power[LogOf(W)]
           P == Power[shift_modulus_shoup]
           f == Lifts(res)
           s == Total(f, l)
           tmp == (s * (P \div Q)) \div P
<1>1. l \in Nat \ {0} /\ Q \in Nat \ {0}
  BY BasisIs, ProductPositive
<1>2. H \in Nat
  BY WordAssumption, LogOfIs, PowerUnfolds
<1>3. P \in Nat \ {0} /\ l * (Q * H) < P
  BY ShiftIs
<1>4. poly2mpz(res) = Correct(s - tmp * Q, Q)
  <2>1. modulus_shoup = P \div Q
    BY DEF modulus_shoup
  <2> QED BY <2>1, RopIs
<1>5. f \in Seqs
  <2>1. 1 \in 1 .. Len(Basis)
    BY BasisIs
  <2> QED BY <2>1, LiftsAre
<1>6. ASSUME NEW i \in Nat, i < l PROVE f[i] \in 0 .. Q * H
  <2>1. PICK c \in 1 .. Len(Basis) : c = i + 1 /\ c - 1 = i
    BY <1>1, <1>6
  <2>2. f[i] = lifting_integer(Basis[c]) * res[Basis[c]]
    BY <2>1, LiftsAre
  <2>3. PICK x \in Nat : x = lifting_integer(Basis[c]) /\ x <= Q
    <3>1. lifting_integer(Basis[c]) \in 0 .. Q - 1
      BY LiftingInteger
    <3> HIDE DEF Q
    <3> QED BY <1>1, <3>1
  <2>4. PICK y \in Nat : y = res[Basis[c]] /\ y <= H
    <3>1. Basis[c] \in Moduli
      BY BasisIs
    <3>2. res[Basis[c]] \in Nat /\ res[Basis[c]] < Basis[c] /\ Basis[c] \in Nat /\ Basis[c] <= H
      BY <3>1, ModulusBelowPower
    <3> HIDE DEF H
    <3> QED BY <1>2, <3>2
  <2> HIDE DEF Q, H, f
  <2>5. x * y <= x * H
    BY <1>2, <2>4, Monotone
  <2>6. H * x <= H * Q
    BY <1>1, <1>2, <2>3, Monotone
  <2>7. x * y \in Nat /\ x * H = H * x /\ H * Q = Q * H /\ H * x \in Nat /\ Q * H \in Nat
    BY <1>1, <1>2
  <2> QED BY <2>2, <2>3, <2>4, <2>5, <2>6, <2>7
<1> HIDE DEF l, Q, H, P, f
<1>7. s \in 0 .. l * (Q * H)
  <2>1. Q * H \in Nat
    BY <1>1, <1>2
  <2> QED BY <1>1, <1>5, <1>6, <2>1, TotalBelow
<1>8. s \in Nat /\ s < P
  <2>1. l * (Q * H) \in Nat
    BY <1>1, <1>2
  <2> HIDE DEF s
  <2> QED BY <1>3, <1>7, <2>1
<1> HIDE DEF s
<1>9. s - tmp * Q \in 0 .. 2 * Q - 1
  BY <1>1, <1>3, <1>8, ReciprocalQuotient
<1>10. tmp \in Int
  <2>1. P \div Q \in Nat
    BY <1>1, <1>3, DivisionBounds
  <2>2. s * (P \div Q) \in Nat
    BY <1>8, <2>1
  <2> QED BY <1>3, <2>2, DivisionBounds
<1> HIDE DEF tmp
<1>11. PICK k \in Int : poly2mpz(res) = s - k * Q /\ s - k * Q \in 0 .. Q - 1
  <2>1. PICK z \in Int : z = s - tmp * Q
    BY <1>9, <1>1
  <2>2. CASE z >= Q
    <3>1. poly2mpz(res) = z - Q
      BY <1>4, <2>1, <2>2 DEF Correct
    <3>2. z - Q = s - (tmp + 1) * Q
      BY <1>1, <1>8, <1>10, <2>1
    <3>3. z - Q \in 0 .. Q - 1
      BY <1>1, <1>9, <2>1, <2>2
    <3> QED BY <1>10, <3>1, <3>2, <3>3
  <2>3. CASE ~(z >= Q)
    <3>1. poly2mpz(res) = z
      BY <1>4, <2>1, <2>3 DEF Correct
    <3>2. z \in 0 .. Q - 1
      BY <1>1, <1>9, <2>1, <2>3
    <3> QED BY <1>10, <2>1, <3>1, <3>2
  <2> QED BY <2>2, <2>3
<1>12. ASSUME NEW p \in Moduli PROVE Cong(poly2mpz(res), res[p], p)
  <2>1. PICK c \in 1 .. Len(Basis) : p = Basis[c]
    BY BasisIs
  <2>2. p \in Int
    BY <2>1, BasisIs
  <2>3. PICK e \in Nat \ {0} : Q = e * p
    <3>1. PICK q : Products(q)
      BY ProductFunction
    <3> QED BY <2>1, <3>1, Cofactor DEF Q
  <2>4. Cong(s, res[p], p)
    BY LiftsTotal DEF s, f, l
  <2>5. Cong(poly2mpz(res), s, p)
    <3>1. PICK d \in Int : d = -(k * e)
      OBVIOUS
    <3>2. k * (e * p) = -(d * p) /\ d * p \in Int
      BY <2>2, <3>1
    <3>3. s - k * Q = s + d * p /\ s - k * Q \in Int
      BY <1>8, <2>3, <3>2
    <3> QED BY <1>8, <1>11, <3>3 DEF Cong
  <2> QED BY <2>2, <2>4, <2>5, CongVia
<1> QED BY <1>11, <1>12 DEF Q
-----------------------------------------------------------------------------
(*****************************************************************************)
(* The coefficients and the roots that InverseIsInverse speaks of.           *)
(*****************************************************************************)
\* A polynomial of m coefficients, as a sequence.
Padded(x, m) == [i \in Nat |-> IF i < m THEN x[i] ELSE 0]

LEMMA PaddedIs ==
  ASSUME NEW m \in Nat, NEW x \in [Ix(m) -> Int]
  PROVE  /\ Padded(x, m) \in Seqs
         /\ \A i \in Ix(m) : i \in Nat /\ i < m /\ Padded(x, m)[i] = x[i]
<1>1. \A i \in Nat : i < m => i \in Ix(m) /\ x[i] \in Int
  BY DEF Ix
<1>2. \A i \in Ix(m) : i \in Nat /\ i < m
  BY DEF Ix
<1> QED BY <1>1, <1>2 DEF Padded, Seqs

\* The summands of the coefficients of a product modulo X^m + 1.
Turns(X, Y, m) ==
  [k \in Nat |-> [i \in Nat |-> IF k < m /\ i < m THEN Turned(X, Y, m, k, i) ELSE 0]]

LEMMA TurnsAre ==
  ASSUME NEW m \in Nat, NEW X \in Seqs, NEW Y \in Seqs
  PROVE  /\ Turns(X, Y, m) \in [Nat -> Seqs]
         /\ \A k \in Nat, i \in Nat : k < m /\ i < m => Turns(X, Y, m)[k][i] = Turned(X, Y, m, k, i)
<1>1. ASSUME NEW k \in Nat, NEW i \in Nat, k < m, i < m PROVE Turned(X, Y, m, k, i) \in Int
  <2>1. CASE i <= k
    <3>1. k - i \in Nat
      BY <2>1
    <3>2. PICK x \in Int, y \in Int : x = X[i] /\ y = Y[k - i]
      BY <3>1 DEF Seqs
    <3> QED BY <2>1, <3>2 DEF Turned
  <2>2. CASE ~(i <= k)
    <3>1. m + k - i \in Nat
      BY <1>1
    <3>2. PICK x \in Int, y \in Int : x = X[i] /\ y = Y[m + k - i]
      BY <3>1 DEF Seqs
    <3> QED BY <1>1, <2>2, <3>2 DEF Turned
  <2> QED BY <2>1, <2>2
<1> QED BY <1>1 DEF Turns, Seqs

\* A coefficient of Negacyclic.
LEMMA CoefficientIs ==
  ASSUME n \in Nat \ {0}, NEW x \in [Ix(n) -> Int], NEW y \in [Ix(n) -> Int], NEW k \in Ix(n)
  PROVE  Coefficient(x, y, k) = Total(Turns(Padded(x, n), Padded(y, n), n)[k], n) % moduli_product
<1> DEFINE X == Padded(x, n)
           Y == Padded(y, n)
           f == Turns(X, Y, n)[k]
           Def(q) == [i \in 0 .. n |-> IF i = 0 THEN 0
                        ELSE IF i - 1 <= k THEN q[i - 1] + x[i - 1] * y[k - (i - 1)]
                                           ELSE q[i - 1] - x[i - 1] * y[n + k - (i - 1)]]
           h == [i \in 0 .. n |-> Total(f, i)]
           sum == CHOOSE q : q = Def(q)
<1>0. n \in Nat /\ k \in Nat /\ k < n
  BY DEF Ix
<1>1. X \in Seqs /\ Y \in Seqs /\ \A i \in Ix(n) : X[i] = x[i] /\ Y[i] = y[i]
  BY <1>0, PaddedIs
<1> HIDE DEF X, Y
<1>2. f \in Seqs /\ \A i \in Nat : i < n => f[i] = Turned(X, Y, n, k, i)
  <2>1. /\ Turns(X, Y, n) \in [Nat -> Seqs]
        /\ \A c \in Nat, i \in Nat : c < n /\ i < n => Turns(X, Y, n)[c][i] = Turned(X, Y, n, c, i)
    BY <1>0, <1>1, TurnsAre
  <2>2. f \in Seqs
    BY <1>0, <2>1
  <2>3. \A i \in Nat : i < n => f[i] = Turned(X, Y, n, k, i)
    BY <1>0, <2>1
  <2> QED BY <2>2, <2>3
<1> HIDE DEF f
<1>3. ASSUME NEW i \in 0 .. n, i # 0
      PROVE  Total(f, i) = IF i - 1 <= k THEN Total(f, i - 1) + x[i - 1] * y[k - (i - 1)]
                                         ELSE Total(f, i - 1) - x[i - 1] * y[n + k - (i - 1)]
  <2>1. PICK j \in Nat : j = i - 1 /\ j + 1 = i /\ j < n /\ j \in Ix(n)
    BY <1>0, <1>3 DEF Ix
  <2>2. Total(f, j + 1) = Total(f, j) + f[j] /\ Total(f, j) \in Int
    BY <1>2, <2>1, TotalUnfolds
  <2>3. CASE j <= k
    <3>1. k - j \in Ix(n) /\ k - j \in Nat
      BY <1>0, <2>1, <2>3 DEF Ix
    <3>2. f[j] = x[j] * y[k - j]
      BY <1>1, <1>2, <2>1, <2>3, <3>1 DEF Turned
    <3> QED BY <2>1, <2>2, <2>3, <3>2
  <2>4. CASE ~(j <= k)
    <3>1. n + k - j \in Ix(n) /\ n + k - j \in Nat
      BY <1>0, <2>1, <2>4 DEF Ix
    <3>2. f[j] = -(x[j] * y[n + k - j])
      BY <1>1, <1>2, <2>1, <2>4, <3>1 DEF Turned
    <3>3. PICK z \in Int : z = x[j] * y[n + k - j]
      <4>1. PICK u \in Int, v \in Int : u = x[j] /\ v = y[n + k - j]
        BY <2>1, <3>1
      <4> QED BY <4>1
    <3>4. Total(f, i) = Total(f, j) - z
      BY <2>1, <2>2, <3>2, <3>3
    <3> QED BY <2>1, <2>4, <3>3, <3>4
  <2> QED BY <2>3, <2>4
<1>4. Total(f, 0) = 0
  BY <1>2, TotalUnfolds
<1>5. h = Def(h)
  <2>1. ASSUME NEW i \in 0 .. n
        PROVE  h[i] = IF i = 0 THEN 0
                        ELSE IF i - 1 <= k THEN h[i - 1] + x[i - 1] * y[k - (i - 1)]
                                           ELSE h[i - 1] - x[i - 1] * y[n + k - (i - 1)]
    <3>1. CASE i = 0
      BY <1>4, <3>1
    <3>2. CASE i # 0
      <4>1. i - 1 \in 0 .. n
        BY <1>0, <3>2
      <4> QED BY <1>3, <3>2, <4>1
    <3> QED BY <3>1, <3>2
  <2>2. h = [i \in 0 .. n |-> h[i]]
    OBVIOUS
  <2> HIDE DEF h
  <2> QED BY <2>1, <2>2
<1>6. sum = Def(sum)
  BY <1>5
<1>7. Coefficient(x, y, k) = sum[n] % moduli_product
  BY DEF Coefficient
<1> HIDE DEF sum
<1> DEFINE S == {i \in Nat : i <= n => sum[i] = Total(f, i)}
<1>8. 0 \in S
  BY <1>0, <1>4, <1>6
<1>9. ASSUME NEW j \in Nat, j \in S PROVE j + 1 \in S
  <2> SUFFICES ASSUME j + 1 <= n PROVE sum[j + 1] = Total(f, j + 1)
    OBVIOUS
  <2>1. PICK i \in 0 .. n : i = j + 1 /\ i - 1 = j /\ i # 0 /\ j <= n
    BY <1>0
  <2>2. sum[j] = Total(f, j)
    BY <1>9, <2>1
  <2>3. sum[i] = IF i - 1 <= k THEN sum[i - 1] + x[i - 1] * y[k - (i - 1)]
                               ELSE sum[i - 1] - x[i - 1] * y[n + k - (i - 1)]
    BY <1>6, <2>1
  <2> QED BY <1>3, <2>1, <2>2, <2>3
<1> HIDE DEF S
<1>10. n \in S
  BY <1>0, <1>8, <1>9, Induction
<1>11. sum[n] = Total(f, n)
  BY <1>0, <1>10 DEF S
<1> QED BY <1>7, <1>11 DEF f, X, Y

\* Congruent residues are equal.
LEMMA SameResidue ==
  ASSUME NEW p \in Nat \ {0}, NEW x \in 0 .. p - 1, NEW y \in 0 .. p - 1, Cong(x, y, p)
  PROVE  x = y
<1>1. x % p = y
  BY CongMod
<1>2. Cong(x, x, p)
  <2>1. p \in Int /\ x \in Int
    OBVIOUS
  <2> QED BY <2>1, CongSame
<1>3. x % p = x
  BY <1>2, CongMod
<1> QED BY <1>1, <1>3

\* The powers of w that SharesRoot forms, and the value at w.
PowersModulo(pow, w, m, p) ==
  pow = [k \in 0 .. m |-> IF k = 0 THEN 1 ELSE (pow[k - 1] * w) % p]
ValuesUpTo(value, pow, x, m) ==
  value = [k \in 0 .. m |-> IF k = 0 THEN 0 ELSE value[k - 1] + x[k - 1] * pow[k - 1]]

LEMMA PowersModuloExist ==
  ASSUME NEW p \in Nat \ {0}, NEW w \in Int, NEW m \in Nat
  PROVE  \E pow : PowersModulo(pow, w, m, p)
<1> DEFINE g == [k \in Nat |-> [v \in Int |-> (v * w) % p]]
<1>1. g \in [Nat -> [Int -> Int]] /\ \A k \in Nat, v \in Int : g[k][v] = (v * w) % p
  <2>1. ASSUME NEW v \in Int PROVE (v * w) % p \in Int
    <3>1. v * w \in Int
      OBVIOUS
    <3>2. (v * w) % p \in 0 .. p - 1
      BY <3>1, ModBelow
    <3> QED BY <3>2
  <2> QED BY <2>1
<1> HIDE DEF g
<1>2. PICK h \in [Nat -> Int] : h[0] = 1 /\ \A k \in Nat : h[k + 1] = g[k][h[k]]
  <2>1. 1 \in Int
    OBVIOUS
  <2> QED BY <1>1, <2>1, Iteration
<1> DEFINE hh == [k \in 0 .. m |-> h[k]]
<1>3. ASSUME NEW k \in 0 .. m PROVE hh[k] = IF k = 0 THEN 1 ELSE (hh[k - 1] * w) % p
  <2>1. CASE k = 0
    BY <1>2, <2>1
  <2>2. CASE k # 0
    <3>1. PICK j \in Nat : j = k - 1 /\ j + 1 = k /\ j \in 0 .. m
      BY <2>2
    <3>2. h[j + 1] = (h[j] * w) % p
      BY <1>1, <1>2
    <3> QED BY <2>2, <3>1, <3>2
  <2> QED BY <2>1, <2>2
<1>4. hh = [k \in 0 .. m |-> hh[k]]
  OBVIOUS
<1> HIDE DEF hh
<1>5. PowersModulo(hh, w, m, p)
  BY <1>3, <1>4 DEF PowersModulo
<1> QED BY <1>5

LEMMA PowersModuloAre ==
  ASSUME NEW p \in Nat, p >= 2, NEW w \in Int, NEW m \in Nat, NEW pow, PowersModulo(pow, w, m, p)
  PROVE  \A k \in 0 .. m : pow[k] \in 0 .. p - 1 /\ Cong(pow[k], Pow(w, k), p)
<1> DEFINE S == {k \in Nat : k <= m => pow[k] \in 0 .. p - 1 /\ Cong(pow[k], Pow(w, k), p)}
<1>1. 0 \in S
  <2>1. pow[0] = 1 /\ Pow(w, 0) = 1
    BY PowUnfolds DEF PowersModulo
  <2>2. Cong(1, 1, p) /\ 1 \in 0 .. p - 1
    <3>1. p \in Int /\ 1 \in Int
      OBVIOUS
    <3> QED BY <3>1, CongSame
  <2> QED BY <2>1, <2>2
<1>2. ASSUME NEW j \in Nat, j \in S PROVE j + 1 \in S
  <2> SUFFICES ASSUME j + 1 <= m
               PROVE  pow[j + 1] \in 0 .. p - 1 /\ Cong(pow[j + 1], Pow(w, j + 1), p)
    OBVIOUS
  <2>1. PICK k \in 0 .. m : k = j + 1 /\ k - 1 = j /\ k # 0
    OBVIOUS
  <2>2. pow[j] \in 0 .. p - 1 /\ Cong(pow[j], Pow(w, j), p)
    BY <1>2
  <2>3. pow[k] = (pow[j] * w) % p
    BY <2>1 DEF PowersModulo
  <2>4. PICK v \in Int : v = pow[j]
    BY <2>2
  <2>5. v * w \in Int /\ p \in Nat \ {0} /\ p \in Int
    OBVIOUS
  <2>6. (v * w) % p \in 0 .. p - 1 /\ Cong((v * w) % p, v * w, p)
    BY <2>5, ModBelow, ModCong
  <2>7. Cong(v * w, Pow(w, j) * w, p)
    <3>1. Cong(w, w, p)
      BY <2>5, CongSame
    <3> QED BY <2>2, <2>4, <2>5, <3>1, CongTimes
  <2>8. Pow(w, j + 1) = Pow(w, j) * w
    BY PowUnfolds
  <2>9. Cong((v * w) % p, Pow(w, j) * w, p)
    BY <2>5, <2>6, <2>7, CongVia
  <2> QED BY <2>1, <2>3, <2>4, <2>6, <2>8, <2>9
<1> HIDE DEF S
<1>3. \A k \in Nat : k \in S
  BY <1>1, <1>2, Induction
<1> QED BY <1>3 DEF S

LEMMA ValuesExist ==
  ASSUME NEW m \in Nat, NEW pow, NEW x, \A i \in Nat : i < m => x[i] * pow[i] \in Int
  PROVE  /\ \E value : ValuesUpTo(value, pow, x, m)
         /\ \A value : ValuesUpTo(value, pow, x, m) =>
              value[m] = Total([i \in Nat |-> IF i < m THEN x[i] * pow[i] ELSE 0], m)
<1> DEFINE f == [i \in Nat |-> IF i < m THEN x[i] * pow[i] ELSE 0]
           h == [k \in 0 .. m |-> Total(f, k)]
<1>1. f \in Seqs /\ \A i \in Nat : i < m => f[i] = x[i] * pow[i]
  BY DEF Seqs
<1> HIDE DEF f
<1>2. Total(f, 0) = 0
  BY <1>1, TotalUnfolds
<1>3. ASSUME NEW k \in 0 .. m, k # 0 PROVE Total(f, k) = Total(f, k - 1) + x[k - 1] * pow[k - 1]
  <2>1. PICK j \in Nat : j = k - 1 /\ j + 1 = k /\ j < m
    BY <1>3
  <2>2. Total(f, j + 1) = Total(f, j) + f[j]
    BY <1>1, TotalUnfolds
  <2> QED BY <1>1, <2>1, <2>2
<1>4. \E value : ValuesUpTo(value, pow, x, m)
  <2>1. ASSUME NEW k \in 0 .. m PROVE h[k] = IF k = 0 THEN 0 ELSE h[k - 1] + x[k - 1] * pow[k - 1]
    <3>1. CASE k = 0
      BY <1>2, <3>1
    <3>2. CASE k # 0
      <4>1. k - 1 \in 0 .. m
        BY <3>2
      <4> QED BY <1>3, <3>2, <4>1
    <3> QED BY <3>1, <3>2
  <2>2. h = [k \in 0 .. m |-> h[k]]
    OBVIOUS
  <2> HIDE DEF h
  <2>3. ValuesUpTo(h, pow, x, m)
    BY <2>1, <2>2 DEF ValuesUpTo
  <2> QED BY <2>3
<1>5. ASSUME NEW value, ValuesUpTo(value, pow, x, m) PROVE value[m] = Total(f, m)
  <2> DEFINE S == {k \in Nat : k <= m => value[k] = Total(f, k)}
  <2>1. 0 \in S
    BY <1>2, <1>5 DEF ValuesUpTo
  <2>2. ASSUME NEW j \in Nat, j \in S PROVE j + 1 \in S
    <3> SUFFICES ASSUME j + 1 <= m PROVE value[j + 1] = Total(f, j + 1)
      OBVIOUS
    <3>1. PICK k \in 0 .. m : k = j + 1 /\ k - 1 = j /\ k # 0
      OBVIOUS
    <3>2. value[j] = Total(f, j)
      BY <2>2
    <3>3. value[k] = value[k - 1] + x[k - 1] * pow[k - 1]
      BY <1>5, <3>1 DEF ValuesUpTo
    <3> QED BY <1>3, <3>1, <3>2, <3>3
  <2> HIDE DEF S
  <2>3. m \in S
    BY <2>1, <2>2, Induction
  <2> QED BY <2>3 DEF S
<1> QED BY <1>4, <1>5 DEF f

\* A root that SharesRoot looks for.
LEMMA SharesRootIs ==
  ASSUME NEW p, IsPrime(p), p >= 3, n \in Nat \ {0}, NEW x \in [Ix(n) -> Int]
  PROVE  SharesRoot(x, p) <=>
           \E z : MinusRoot(z, n, p) /\ Cong(Value(Padded(x, n), z, n), 0, p)
<1> DEFINE X == Padded(x, n)
           pw(w) == CHOOSE pow : pow = [k \in 0 .. n |-> IF k = 0 THEN 1 ELSE (pow[k - 1] * w) % p]
           vl(w) == CHOOSE value : value = [k \in 0 .. n |-> IF k = 0 THEN 0
                                              ELSE value[k - 1] + x[k - 1] * pw(w)[k - 1]]
<1>0. n \in Nat /\ p \in Nat \ {0} /\ p \in Nat /\ p \in Int /\ p >= 2
  BY DEF IsPrime
<1>1. X \in Seqs /\ \A i \in Ix(n) : X[i] = x[i]
  BY <1>0, PaddedIs
<1> HIDE DEF X
<1>2. SharesRoot(x, p) <=> \E w \in 1 .. p - 1 : pw(w)[n] = p - 1 /\ vl(w)[n] % p = 0
  BY DEF SharesRoot
<1>3. ASSUME NEW w \in Int PROVE PowersModulo(pw(w), w, n, p)
  <2>1. \E pow : PowersModulo(pow, w, n, p)
    BY <1>0, PowersModuloExist
  <2> QED BY <2>1 DEF PowersModulo
<1> HIDE DEF pw
<1>4. ASSUME NEW w \in Int PROVE \A k \in 0 .. n : pw(w)[k] \in 0 .. p - 1 /\ Cong(pw(w)[k], Pow(w, k), p)
  <2>1. PowersModulo(pw(w), w, n, p)
    BY <1>3
  <2> QED BY <1>0, <2>1, PowersModuloAre
<1>5. ASSUME NEW w \in Int PROVE vl(w)[n] \in Int /\ Cong(vl(w)[n], Value(X, w, n), p)
  <2> DEFINE f == [i \in Nat |-> IF i < n THEN x[i] * pw(w)[i] ELSE 0]
             t2 == Terms(X, w)
  <2>1. ASSUME NEW i \in Nat, i < n PROVE x[i] \in Int /\ pw(w)[i] \in Int /\ x[i] * pw(w)[i] \in Int /\ i \in Ix(n) /\ i \in 0 .. n
    <3>1. i \in Ix(n) /\ i \in 0 .. n
      BY <1>0, <2>1 DEF Ix
    <3>2. pw(w)[i] \in 0 .. p - 1
      BY <1>4, <3>1
    <3>3. PICK y \in Int, v \in Int : y = x[i] /\ v = pw(w)[i]
      BY <1>0, <3>1, <3>2
    <3> QED BY <3>1, <3>3
  <2>2. /\ \E value : ValuesUpTo(value, pw(w), x, n)
        /\ \A value : ValuesUpTo(value, pw(w), x, n) => value[n] = Total(f, n)
    BY <1>0, <2>1, ValuesExist
  <2>3. ValuesUpTo(vl(w), pw(w), x, n)
    BY <2>2 DEF ValuesUpTo
  <2>4. vl(w)[n] = Total(f, n)
    BY <2>2, <2>3
  <2>5. f \in Seqs
    BY <2>1 DEF Seqs
  <2>6. t2 \in Seqs /\ \A i \in Nat : t2[i] = X[i] * Pow(w, i)
    BY <1>1, TermsAre
  <2>7. ASSUME NEW i \in Nat, i < n PROVE Cong(f[i], t2[i], p)
    <3>1. f[i] = X[i] * pw(w)[i] /\ X[i] \in Int
      BY <1>1, <2>1, <2>7
    <3>2. Cong(pw(w)[i], Pow(w, i), p)
      BY <1>4, <2>1, <2>7
    <3>3. Cong(X[i], X[i], p)
      BY <1>0, <3>1, CongSame
    <3>4. Cong(X[i] * pw(w)[i], X[i] * Pow(w, i), p)
      BY <1>0, <3>2, <3>3, CongTimes
    <3> QED BY <2>6, <3>1, <3>4
  <2> HIDE DEF f
  <2>8. Value(X, w, n) = Total(t2, n)
    BY DEF Value
  <2> HIDE DEF t2
  <2>9. Cong(Total(f, n), Total(t2, n), p)
    BY <1>0, <2>5, <2>6, <2>7, TotalCong
  <2> QED BY <2>4, <2>8, <2>9 DEF Cong
<1> HIDE DEF vl
<1>6. ASSUME NEW w \in Int, MinusRoot(w, n, p) PROVE pw(w)[n] = p - 1
  <2>1. n \in 0 .. n
    BY <1>0
  <2>2. pw(w)[n] \in 0 .. p - 1 /\ Cong(pw(w)[n], Pow(w, n), p)
    BY <1>4, <2>1
  <2>3. Cong(Pow(w, n), -1, p)
    BY <1>6 DEF MinusRoot
  <2>4. Cong(-1, p - 1, p)
    <3>1. -1 = (p - 1) + (-1) * p /\ p - 1 \in Int
      BY <1>0
    <3> QED BY <3>1 DEF Cong
  <2>5. Cong(pw(w)[n], p - 1, p)
    BY <1>0, <2>2, <2>3, <2>4, CongVia
  <2>6. p - 1 \in 0 .. p - 1
    BY <1>0
  <2> QED BY <1>0, <2>2, <2>5, <2>6, SameResidue
<1>7. ASSUME NEW w \in Int, pw(w)[n] = p - 1 PROVE MinusRoot(w, n, p)
  <2>1. n \in 0 .. n
    BY <1>0
  <2>2. Cong(p - 1, Pow(w, n), p)
    BY <1>4, <1>7, <2>1
  <2>3. Cong(p - 1, -1, p)
    <3>1. p - 1 = -1 + 1 * p /\ p - 1 \in Int
      BY <1>0
    <3> QED BY <3>1 DEF Cong
  <2>4. Cong(Pow(w, n), -1, p)
    BY <1>0, <2>2, <2>3, CongSwap, CongVia
  <2> QED BY <2>4 DEF MinusRoot
<1>8. ASSUME NEW w \in Int PROVE vl(w)[n] % p = 0 <=> Cong(Value(X, w, n), 0, p)
  <2>1. vl(w)[n] \in Int /\ Cong(vl(w)[n], Value(X, w, n), p) /\ 0 \in 0 .. p - 1
    BY <1>0, <1>5
  <2>2. ASSUME vl(w)[n] % p = 0 PROVE Cong(Value(X, w, n), 0, p)
    <3>1. Cong(vl(w)[n], 0, p)
      BY <1>0, <2>1, <2>2, ModIs
    <3> QED BY <1>0, <2>1, <3>1, CongSwap, CongVia
  <2>3. ASSUME Cong(Value(X, w, n), 0, p) PROVE vl(w)[n] % p = 0
    <3>1. Cong(vl(w)[n], 0, p)
      BY <1>0, <2>1, <2>3, CongVia
    <3> QED BY <1>0, <2>1, <3>1, CongMod
  <2> QED BY <2>2, <2>3
<1>9. ASSUME SharesRoot(x, p) PROVE \E z : MinusRoot(z, n, p) /\ Cong(Value(X, z, n), 0, p)
  <2>1. PICK w \in 1 .. p - 1 : pw(w)[n] = p - 1 /\ vl(w)[n] % p = 0
    BY <1>2, <1>9
  <2>2. w \in Int
    BY <1>0
  <2> QED BY <1>7, <1>8, <2>1, <2>2
<1>10. ASSUME NEW z, MinusRoot(z, n, p), Cong(Value(X, z, n), 0, p) PROVE SharesRoot(x, p)
  <2>1. z \in Int
    BY <1>10 DEF MinusRoot
  <2>2. PICK w \in 0 .. p - 1 : w = z % p
    BY <1>0, <2>1, ModBelow
  <2>3. Cong(w, z, p) /\ w \in Int
    <3>1. Cong(z % p, z, p)
      BY <1>0, <2>1, ModCong
    <3>2. w \in Int
      BY <1>0, <2>2
    <3> QED BY <2>2, <3>1, <3>2
  <2>4. MinusRoot(w, n, p)
    <3>1. Cong(Pow(w, n), Pow(z, n), p)
      BY <1>0, <2>3, CongPow
    <3>2. Cong(Pow(z, n), -1, p)
      BY <1>10 DEF MinusRoot
    <3>3. Cong(Pow(w, n), -1, p)
      BY <1>0, <3>1, <3>2, CongVia
    <3> QED BY <2>3, <3>3 DEF MinusRoot
  <2>5. Cong(Value(X, w, n), 0, p)
    <3>1. \A k \in Nat : k < n => Cong(X[k], X[k], p)
      BY <1>0, <1>1, CongSame DEF Seqs
    <3>2. Cong(Value(X, w, n), Value(X, z, n), p)
      BY <1>0, <1>1, <2>3, <3>1, ValueCong
    <3> QED BY <1>0, <1>10, <3>2, CongVia
  <2>6. w # 0
    <3>1. SUFFICES ASSUME w = 0 PROVE FALSE
      OBVIOUS
    <3>2. PICK j \in Nat : n = j + 1
      <4>1. n - 1 \in Nat /\ n = (n - 1) + 1
        BY <1>0
      <4> QED BY <4>1
    <3>3. Pow(0, j + 1) = Pow(0, j) * 0 /\ Pow(0, j) \in Int
      <4>1. 0 \in Int
        OBVIOUS
      <4> QED BY <4>1, PowUnfolds
    <3>4. Pow(w, n) = 0
      BY <3>1, <3>2, <3>3
    <3>5. Cong(0, -1, p)
      BY <2>4, <3>4 DEF MinusRoot
    <3>6. Cong(0 + 1, -1 + 1, p) /\ 0 + 1 = 1 /\ -1 + 1 = 0
      <4>1. Cong(1, 1, p)
        BY <1>0, CongSame
      <4> QED BY <1>0, <3>5, <4>1, CongPlus
    <3> QED BY <1>0, <3>6, OneNotZero
  <2>7. w \in 1 .. p - 1
    BY <1>0, <2>6
  <2>8. pw(w)[n] = p - 1 /\ vl(w)[n] % p = 0
    BY <1>6, <1>8, <2>3, <2>4, <2>5
  <2> QED BY <1>2, <2>7, <2>8
<1> QED BY <1>9, <1>10 DEF X
-----------------------------------------------------------------------------
(*****************************************************************************)
(* The invariant of the whole inversion. For each modulus and each choice    *)
(* of roots that its tables hold the powers of, Progress says which values   *)
(* the words carry: the coefficients, the values of the polynomial in        *)
(* blocks, its values at all odd powers of the root, their reciprocals       *)
(* from the first slot to the current one, and on the way back the           *)
(* polynomial Y of the reciprocals in blocks, its values, and these times    *)
(* the inverse of the degree.                                                *)
(*****************************************************************************)
\* What the tables of a modulus give for the degree at hand.
Rooted(p, f, fi, w, u, d) == Roots(n, p, f, fi, w, u, d) /\ RootTables(tab[p], n, p, f, fi, w, u, d)

\* There are such roots for every modulus.
LEMMA RootedExists ==
  ASSUME PolyInv, NEW p \in Moduli
  PROVE  \E f, fi, w, u, d : Rooted(p, f, fi, w, u, d)
<1>1. n \in Widths(MaxDegree) /\ tab[p] = initialize(n, p)
  BY Degree DEF PolyInv, Shape
<1> QED BY <1>1, TableRoots DEF Rooted

\* What follows for the roots of both directions.
LEMMA RootFacts ==
  ASSUME NEW m, TwoPower(m), m >= 4, NEW p \in Moduli, NEW f, NEW fi, NEW w, NEW u, NEW d,
         Roots(m, p, f, fi, w, u, d)
  PROVE  /\ IsPrime(p) /\ p >= 3 /\ p \in Nat \ {0} /\ p \in Int /\ Spare(p)
         /\ f \in Int /\ fi \in Int /\ w \in Int /\ u \in Int /\ d \in Int
         /\ Inverses(f, fi, p) /\ Inverses(w, u, p) /\ MinusRoot(f, m, p)
         /\ \E h : TwoPower(h) /\ m = 2 * h /\ h \in Nat \ {0} /\ MinusRoot(w, h, p) /\ MinusRoot(u, h, p)
<1>1. /\ MinusRoot(f, m, p) /\ Inverses(f, fi, p)
      /\ Cong(w, f * f, p) /\ Cong(u, fi * fi, p) /\ d \in Int
  BY DEF Roots
<1>2. Spare(p) /\ p \in Nat \ {0} /\ p \in Int
  BY ModuliSpare DEF Spare
<1>3. IsPrime(p) /\ p >= 3
  BY BasisIs
<1>4. f \in Int /\ fi \in Int
  BY <1>1 DEF Inverses
<1>5. w \in Int /\ u \in Int
  BY <1>1 DEF Cong
<1>6. PICK h \in Nat \ {0} : m = 2 * h /\ TwoPower(h)
  <2>1. m # 1
    OBVIOUS
  <2> QED BY <2>1, TwoHalf
<1>7. Inverses(w, u, p)
  <2>1. Cong(f * fi, 1, p)
    BY <1>1 DEF Inverses
  <2>2. Cong((f * fi) * (f * fi), 1 * 1, p)
    BY <1>2, <2>1, CongTimes
  <2>3. Cong(w * u, (f * f) * (fi * fi), p)
    BY <1>1, <1>2, CongTimes
  <2>4. (f * f) * (fi * fi) = (f * fi) * (f * fi) /\ 1 * 1 = 1
    BY <1>4
  <2>5. Cong(w * u, 1, p)
    BY <1>2, <2>2, <2>3, <2>4, CongVia
  <2> QED BY <1>5, <2>5 DEF Inverses
<1>8. MinusRoot(w, h, p)
  <2>1. MinusRoot(f * f, h, p)
    BY <1>1, <1>2, <1>6, MinusRootSquare
  <2>2. Cong(Pow(w, h), Pow(f * f, h), p)
    BY <1>1, <1>2, <1>6, CongPow
  <2>3. Cong(Pow(f * f, h), -1, p)
    BY <2>1 DEF MinusRoot
  <2>4. Cong(Pow(w, h), -1, p)
    BY <1>2, <2>2, <2>3, CongVia
  <2> QED BY <1>5, <2>4 DEF MinusRoot
<1>9. MinusRoot(u, h, p)
  BY <1>2, <1>6, <1>7, <1>8, InverseRoot
<1> QED BY <1>1, <1>2, <1>3, <1>4, <1>5, <1>6, <1>7, <1>8, <1>9

\* The degree is a power of two.
LEMMA DegreeTwo ==
  ASSUME coeffs \in Inputs
  PROVE  TwoPower(n) /\ n >= 4 /\ n \in Nat \ {0} /\ Padded(coeffs, n) \in Seqs
<1>1. n \in Nat \ {0} /\ n \in Widths(n) \ {2} /\ coeffs \in [Ix(n) -> Int]
  BY Degree
<1>2. TwoPower(n)
  BY <1>1, WidthsTwo
<1>3. n >= 4
  BY <1>1, WidthsHalve
<1> QED BY <1>1, <1>2, <1>3, PaddedIs

\* The value at the j-th odd power of the root, the number that slot j carries.
Hat(X, m, f, w, j) == Value(Terms(X, f), Pow(w, j), m)
\* Y has the reciprocals of the values of X.
Reciprocals(Y, X, m, f, w, p) ==
  Y \in Seqs /\ \A j \in Nat : j < m => Cong(Y[j] * Hat(X, m, f, w, j), 1, p)
\* The words are the values of Y times an inverse of the degree and powers of the inverse root.
Taken(x, Y, m, fi, u, d, p) ==
  \A i \in Ix(m) : Cong(x[i], Value(Y, Pow(u, i), m) * (d * Pow(fi, i)), p)

\* The slots that the loop has passed.
Inverted(p, b) == \E c \in 1 .. Len(Basis) : Basis[c] = p /\ (c < cm \/ (c = cm /\ b < slot))

\* How far the words of a modulus have come.
Progress(p, f, fi, w, u, d) ==
  LET X == Padded(coeffs, n)
      x == op[p]
  IN  /\ phase = "twist" => \A i \in Ix(n) : Cong(x[i], coeffs[i], p)
      /\ phase = "layers" /\ ~back => BlocksHold(x, N, n \div N, Terms(X, f), w, p)
      /\ phase = "check" => Transformed(x, Terms(X, f), w, n, p)
      /\ phase = "slots" =>
           \A b \in Ix(n) :
             IF Inverted(p, b) THEN Cong(x[b] * Hat(X, n, f, w, permut_compute(b, n)), 1, p)
                               ELSE Cong(x[b], Hat(X, n, f, w, permut_compute(b, n)), p)
      /\ phase = "permute" =>
           \A b \in Ix(n) : Cong(x[b] * Hat(X, n, f, w, permut_compute(b, n)), 1, p)
      /\ phase = "layers" /\ back =>
           \E Y : Reciprocals(Y, X, n, f, w, p) /\ BlocksHold(x, N, n \div N, Y, u, p)
      /\ phase = "permute again" =>
           \E Y : Reciprocals(Y, X, n, f, w, p) /\ Transformed(x, Y, u, n, p)
      /\ phase = "untwist" =>
           \E Y : /\ Reciprocals(Y, X, n, f, w, p)
                  /\ \A i \in Ix(n) : Cong(x[i], Value(Y, Pow(u, i), n), p)
      /\ phase = "lift" \/ (phase = "done" /\ ok) =>
           \E Y : Reciprocals(Y, X, n, f, w, p) /\ Taken(x, Y, n, fi, u, d, p)

\* residue_inverse works on the word of the current slot.
Called == phase = "slots" /\ pc # "idle" => a = op[pm][slot]
\* X has a root in common with X^m + 1 modulo p.
Vanishes(X, m, p) == \E z : MinusRoot(z, m, p) /\ Cong(Value(X, z, m), 0, p)
\* The zero check is over.
Judged == phase \in {"slots", "permute", "permute again", "untwist", "lift", "done"} \/ back
\* It found a common root exactly where there is one.
Verdict == Judged => (ok <=> \A p \in Moduli : ~ Vanishes(Padded(coeffs, n), n, p)) /\ (phase # "done" => ok)
\* The first loop starts at the full width.
Start == phase \in {"convert", "twist"} => ~ back /\ N = n

\* Words, degree and tables as the steps need them.
LEMMA Facts ==
  ASSUME PolyInv, NEW p \in Moduli
  PROVE  /\ TwoPower(n) /\ n >= 4 /\ n \in Nat \ {0} /\ Padded(coeffs, n) \in Seqs
         /\ coeffs \in [Ix(n) -> Int]
         /\ p \in Nat \ {0} /\ p \in Int /\ Spare(p) /\ Tables(tab[p], n, p)
         /\ phase # "convert" => op[p] \in Table(n, Bound(p)) /\ op[p] \in [Ix(n) -> Int]
<1>1. coeffs \in Inputs
  BY DEF PolyInv, Shape
<1>2. /\ TwoPower(n) /\ n >= 4 /\ n \in Nat \ {0} /\ Padded(coeffs, n) \in Seqs
  BY <1>1, DegreeTwo
<1>3. coeffs \in [Ix(n) -> Int]
  BY <1>1, Degree
<1>4. Spare(p) /\ Tables(tab[p], n, p) /\ p \in Nat
  BY TablesAre
<1>5. p \in Nat \ {0} /\ p \in Int
  BY <1>4 DEF Spare
<1>6. ASSUME phase # "convert" PROVE op[p] \in Table(n, Bound(p)) /\ op[p] \in [Ix(n) -> Int]
  <2>1. op[p] \in Table(n, Bound(p))
    BY <1>6 DEF PolyInv, Residues
  <2>2. Bound(p) \in Int
    BY <1>5 DEF Bound
  <2> QED BY <2>1, <2>2, TableInt
<1> QED BY <1>2, <1>3, <1>4, <1>5, <1>6

\* The conversion reduces each coefficient.
LEMMA ConvertProgress ==
  ASSUME PolyInv, Convert, NEW p \in Moduli, NEW f, NEW fi, NEW w, NEW u, NEW d
  PROVE  Progress(p, f, fi, w, u, d)'
<1>1. /\ op' = [e \in Moduli |-> mpz2poly(coeffs, e)] /\ phase' = "twist"
      /\ coeffs' = coeffs /\ n' = n
  BY DEF Convert, ForAllModuli, n
<1>2. coeffs \in [Ix(n) -> Int] /\ p \in Nat \ {0}
  BY Facts
<1>3. ASSUME NEW i \in Ix(n) PROVE Cong(op'[p][i], coeffs[i], p)
  <2>1. op'[p][i] = coeffs[i] % p /\ coeffs[i] \in Int
    BY <1>1, <1>2 DEF mpz2poly
  <2>2. Cong(coeffs[i] % p, coeffs[i], p)
    BY <1>2, <2>1, ModCong
  <2> QED BY <2>1, <2>2
<1> QED BY <1>1, <1>3 DEF Progress

\* After the twist there is one block, the terms of the polynomial at the root.
LEMMA TwistProgress ==
  ASSUME PolyInv, Start, Twist, NEW p \in Moduli, NEW f, NEW fi, NEW w, NEW u, NEW d,
         Rooted(p, f, fi, w, u, d), Progress(p, f, fi, w, u, d)
  PROVE  Progress(p, f, fi, w, u, d)'
<1>1. /\ op' = [e \in Moduli |-> ShoupProduct(op[e], tab[e].phis, tab[e].shoupphis, e)]
      /\ phase = "twist" /\ phase' = "layers" /\ coeffs' = coeffs /\ n' = n
      /\ N' = n /\ back' = FALSE
  BY DEF Twist, ForAllModuli, n, Start
<1>2. /\ TwoPower(n) /\ n >= 4 /\ n \in Nat \ {0} /\ Padded(coeffs, n) \in Seqs
      /\ coeffs \in [Ix(n) -> Int]
      /\ p \in Nat \ {0} /\ p \in Int /\ Spare(p) /\ Tables(tab[p], n, p)
      /\ op[p] \in Table(n, Bound(p)) /\ op[p] \in [Ix(n) -> Int]
  BY <1>1, Facts
<1>3. PICK X \in Seqs : X = Padded(coeffs, n)
  BY <1>2
<1>4. Roots(n, p, f, fi, w, u, d)
  BY DEF Rooted
<1>5. f \in Int /\ w \in Int
  BY <1>2, <1>4, RootFacts
<1>6. Terms(X, f) \in Seqs /\ \A k \in Nat : Terms(X, f)[k] = X[k] * Pow(f, k)
  BY <1>5, TermsAre
<1>7. tab[p].phis \in Table(n, p) /\ tab[p].shoupphis = Shoups(tab[p].phis, p)
  BY <1>2 DEF Tables
<1>8. op[p] \in [Ix(n) -> 0 .. W - 1]
  <2>1. Bound(p) = p /\ p <= W /\ W \in Nat
    BY <1>1, <1>2, WordAssumption DEF Bound, Spare
  <2>2. op[p] \in [Ix(n) -> 0 .. p - 1]
    BY <1>2, <2>1 DEF Table
  <2> QED BY <1>2, <2>1, <2>2
<1>9. op'[p] = ShoupProduct(op[p], tab[p].phis, Shoups(tab[p].phis, p), p)
  BY <1>1, <1>7
<1>10. ASSUME NEW i \in Ix(n) PROVE Cong(op'[p][i], Terms(X, f)[i], p)
  <2>1. i \in Nat /\ X[i] = coeffs[i] /\ coeffs[i] \in Int
    BY <1>2, <1>3, PaddedIs
  <2>2. Pow(f, i) \in Int
    BY <1>5, <2>1, PowUnfolds
  <2>3. Cong(tab[p].phis[i], Pow(f, i), p)
    BY DEF Rooted, RootTables
  <2>4. Cong(op'[p][i], op[p][i] * Pow(f, i), p)
    BY <1>2, <1>7, <1>8, <1>9, <2>3, ShoupProductCong
  <2>5. Cong(op[p][i], coeffs[i], p)
    BY <1>1 DEF Progress
  <2>6. Cong(Pow(f, i), Pow(f, i), p)
    BY <1>2, <2>2, CongSame
  <2>7. Cong(op[p][i] * Pow(f, i), coeffs[i] * Pow(f, i), p)
    BY <1>2, <2>5, <2>6, CongTimes
  <2> QED BY <1>2, <1>6, <2>1, <2>4, <2>7, CongVia
<1>11. op'[p] \in [Ix(n) -> Int]
  <2>1. op'[p] \in Table(n, p)
    BY <1>2, <1>7, <1>8, <1>9, ShoupProductBelow
  <2> QED BY <1>2, <2>1, TableInt
<1>12. BlocksHold(op'[p], n, 1, Terms(X, f), w, p)
  BY <1>2, <1>5, <1>6, <1>10, <1>11, BlocksStart
<1>13. n \div n = 1
  BY <1>2
<1> QED BY <1>1, <1>3, <1>12, <1>13 DEF Progress

\* One layer, for either direction and its root.
LEMMA LayerProgress ==
  ASSUME PolyInv, phase = "layers", N > 4, NEW p \in Moduli, NEW h, n = 2 * h, h \in Nat,
         NEW v, MinusRoot(v, h, p), NEW Y \in Seqs, BlocksHold(op[p], N, n \div N, Y, v, p),
         \A i \in Ix(N \div 2) : Cong(wtab(p)[N][i], Pow(v, (n \div N) * i), p)
  PROVE  BlocksHold(Layer(op[p], N, wtab(p)[N], winvtab(p)[N], p),
                    N \div 2, n \div (N \div 2), Y, v, p)
<1>1. N \in Widths(n) \ {2} /\ TwoPower(n) /\ n \in Nat \ {0}
  BY Facts DEF PolyInv, WidthDivides
<1>2. TwoPower(n \div N) /\ n = (n \div N) * N
  BY <1>1, WidthQuotient
<1>3. /\ N \in Nat /\ N = 2 * (N \div 2) /\ N \div 2 \in Nat \ {0}
  BY <1>1, WidthsHalve
<1>4. PICK c : c = n \div N /\ TwoPower(c) /\ c \in Nat \ {0}
  BY <1>2 DEF TwoPower
<1>5. PICK l \in Nat \ {0} : l = N \div 2 /\ N = 2 * l
  BY <1>3
<1>6. n = c * (2 * l) /\ c * l = h
  <2>1. n = c * (2 * l)
    BY <1>2, <1>4, <1>5
  <2>2. c * (2 * l) = 2 * (c * l) /\ c * l \in Nat
    BY <1>4, <1>5
  <2> QED BY <2>1, <2>2
<1>7. op[p] \in Table(c * (2 * l), 2 * p) /\ Spare(p)
  <2>1. op[p] \in Table(n, Bound(p)) /\ Bound(p) = 2 * p /\ Spare(p)
    BY Facts DEF Bound
  <2> QED BY <1>6, <2>1
<1>8. wtab(p)[N] \in Table(l, p) /\ winvtab(p)[N] = Shoups(wtab(p)[N], p)
  BY <1>5, LayerTables
<1>9. PICK tb : tb = wtab(p)[N]
  OBVIOUS
<1>10. BlocksHold(Layer(op[p], 2 * l, tb, Shoups(tb, p), p), l, 2 * c, Y, v, p)
  <2>1. BlocksHold(op[p], 2 * l, c, Y, v, p)
    BY <1>4, <1>5
  <2>2. \A i \in Ix(l) : Cong(tb[i], Pow(v, c * i), p)
    BY <1>4, <1>5, <1>9
  <2>3. MinusRoot(v, c * l, p)
    BY <1>6
  <2>4. tb \in Table(l, p)
    BY <1>8, <1>9
  <2> QED BY <1>4, <1>5, <1>7, <2>1, <2>2, <2>3, <2>4, LayerKeeps
<1>11. n \div l = 2 * c
  <2>1. PICK q \in Int : q = 2 * c
    BY <1>4
  <2>2. n = q * l + 0 /\ 0 \in 0 .. l - 1 /\ n \in Int
    <3>1. (2 * c) * l = c * (2 * l) /\ c * (2 * l) \in Nat /\ 0 \in 0 .. l - 1
      BY <1>4, <1>5
    <3>2. q * l = n /\ n \in Nat
      BY <1>6, <2>1, <3>1
    <3> QED BY <3>1, <3>2
  <2>3. n \div l = q
    BY <1>5, <2>2, DivideIs
  <2> QED BY <2>1, <2>3
<1> QED BY <1>5, <1>8, <1>9, <1>10, <1>11

\* The last two layers, for either direction and its root.
LEMMA LastProgress ==
  ASSUME PolyInv, phase = "layers", N = 4, NEW p \in Moduli, NEW h, n = 2 * h, h \in Nat,
         NEW v, MinusRoot(v, h, p), NEW Y \in Seqs, BlocksHold(op[p], N, n \div N, Y, v, p),
         \A i \in Ix(N \div 2) : Cong(wtab(p)[N][i], Pow(v, (n \div N) * i), p)
  PROVE  Transformed(Strict(LastLayers(op[p], wtab(p)[4], winvtab(p)[4], p), p), Y, v, n, p)
<1>1. N \in Widths(n) \ {2} /\ TwoPower(n) /\ n \in Nat \ {0}
  BY Facts DEF PolyInv, WidthDivides
<1>2. TwoPower(n \div N) /\ n = (n \div N) * N
  BY <1>1, WidthQuotient
<1>3. PICK c : c = n \div N /\ TwoPower(c) /\ c \in Nat \ {0}
  BY <1>2 DEF TwoPower
<1>4. N \div 2 = 2
  OBVIOUS
<1>5. n = c * 4 /\ c * 2 = h
  BY <1>2, <1>3
<1>6. op[p] \in Table(n, 2 * p) /\ Spare(p)
  BY Facts DEF Bound
<1>7. wtab(p)[4] \in Table(2, p) /\ winvtab(p)[4] = Shoups(wtab(p)[4], p)
  BY <1>4, LayerTables
<1>8. PICK tb : tb = wtab(p)[4]
  OBVIOUS
<1>9. Transformed(Strict(LastLayers(op[p], tb, Shoups(tb, p), p), p), Y, v, n, p)
  <2>1. BlocksHold(op[p], 4, c, Y, v, p)
    BY <1>3
  <2>2. \A i \in Ix(2) : Cong(tb[i], Pow(v, c * i), p)
    BY <1>3, <1>4, <1>8
  <2>3. MinusRoot(v, c * 2, p)
    BY <1>5
  <2>4. tb \in Table(2, p)
    BY <1>7, <1>8
  <2> QED BY <1>3, <1>5, <1>6, <2>1, <2>2, <2>3, <2>4, LastKeeps
<1> QED BY <1>7, <1>8, <1>9

\* The tables of the direction the loop runs in hold the powers of its root.
LEMMA DirectionTable ==
  ASSUME PolyInv, phase = "layers", NEW p \in Moduli, NEW f, NEW fi, NEW w, NEW u, NEW d,
         Rooted(p, f, fi, w, u, d), NEW i \in Ix(N \div 2)
  PROVE  /\ ~ back => Cong(wtab(p)[N][i], Pow(w, (n \div N) * i), p)
         /\ back => Cong(wtab(p)[N][i], Pow(u, (n \div N) * i), p)
<1>1. N \in Widths(n)
  BY DEF PolyInv, WidthDivides
<1>2. /\ Cong(tab[p].omegas[N][i], Pow(w, (n \div N) * i), p)
      /\ Cong(tab[p].invomegas[N][i], Pow(u, (n \div N) * i), p)
  BY <1>1 DEF Rooted, RootTables
<1> QED BY <1>2 DEF wtab

\* A layer of the loop, in the direction that it runs in.
LEMMA NttLoopProgress ==
  ASSUME PolyInv, NttLoop, NEW p \in Moduli, NEW f, NEW fi, NEW w, NEW u, NEW d,
         Rooted(p, f, fi, w, u, d), Progress(p, f, fi, w, u, d)
  PROVE  Progress(p, f, fi, w, u, d)'
<1>1. /\ op' = [e \in Moduli |-> Layer(op[e], N, wtab(e)[N], winvtab(e)[N], e)]
      /\ phase = "layers" /\ N > 4 /\ phase' = "layers" /\ coeffs' = coeffs /\ n' = n
      /\ N' = N \div 2 /\ back' = back
  BY DEF NttLoop, ForAllModuli, n
<1>2. op'[p] = Layer(op[p], N, wtab(p)[N], winvtab(p)[N], p)
  BY <1>1
<1>3. Padded(coeffs, n) \in Seqs /\ TwoPower(n) /\ n >= 4
  BY Facts
<1>4. Roots(n, p, f, fi, w, u, d)
  BY DEF Rooted
<1>5. f \in Int
  BY <1>3, <1>4, RootFacts
<1>6. PICK h : h \in Nat \ {0} /\ n = 2 * h /\ MinusRoot(w, h, p) /\ MinusRoot(u, h, p)
  BY <1>3, <1>4, RootFacts
<1>7. ASSUME ~ back
      PROVE  BlocksHold(op'[p], N \div 2, n \div (N \div 2), Terms(Padded(coeffs, n), f), w, p)
  <2>1. BlocksHold(op[p], N, n \div N, Terms(Padded(coeffs, n), f), w, p)
    BY <1>1, <1>7 DEF Progress
  <2>2. Terms(Padded(coeffs, n), f) \in Seqs
    BY <1>3, <1>5, TermsAre
  <2>3. \A i \in Ix(N \div 2) : Cong(wtab(p)[N][i], Pow(w, (n \div N) * i), p)
    BY <1>1, <1>7, DirectionTable
  <2> QED BY <1>1, <1>2, <1>6, <2>1, <2>2, <2>3, LayerProgress
<1>8. ASSUME back
      PROVE  \E Y : /\ Reciprocals(Y, Padded(coeffs, n), n, f, w, p)
                    /\ BlocksHold(op'[p], N \div 2, n \div (N \div 2), Y, u, p)
  <2>1. PICK Y : Reciprocals(Y, Padded(coeffs, n), n, f, w, p) /\ BlocksHold(op[p], N, n \div N, Y, u, p)
    BY <1>1, <1>8 DEF Progress
  <2>2. Y \in Seqs
    BY <2>1 DEF Reciprocals
  <2>3. \A i \in Ix(N \div 2) : Cong(wtab(p)[N][i], Pow(u, (n \div N) * i), p)
    BY <1>1, <1>8, DirectionTable
  <2>4. BlocksHold(op'[p], N \div 2, n \div (N \div 2), Y, u, p)
    BY <1>1, <1>2, <1>6, <2>1, <2>2, <2>3, LayerProgress
  <2> QED BY <2>1, <2>4
<1> QED BY <1>1, <1>7, <1>8 DEF Progress

\* The last two layers leave one value per word.
LEMMA NttLastProgress ==
  ASSUME PolyInv, NttLast, NEW p \in Moduli, NEW f, NEW fi, NEW w, NEW u, NEW d,
         Rooted(p, f, fi, w, u, d), Progress(p, f, fi, w, u, d)
  PROVE  Progress(p, f, fi, w, u, d)'
<1>1. /\ op' = [e \in Moduli |-> Strict(LastLayers(op[e], wtab(e)[4], winvtab(e)[4], e), e)]
      /\ phase = "layers" /\ N = 4 /\ coeffs' = coeffs /\ n' = n
      /\ phase' = (IF back THEN "permute again" ELSE "check")
  BY DEF NttLast, ForAllModuli, n
<1>2. op'[p] = Strict(LastLayers(op[p], wtab(p)[4], winvtab(p)[4], p), p)
  BY <1>1
<1>3. Padded(coeffs, n) \in Seqs /\ TwoPower(n) /\ n >= 4
  BY Facts
<1>4. Roots(n, p, f, fi, w, u, d)
  BY DEF Rooted
<1>5. f \in Int
  BY <1>3, <1>4, RootFacts
<1>6. PICK h : h \in Nat \ {0} /\ n = 2 * h /\ MinusRoot(w, h, p) /\ MinusRoot(u, h, p)
  BY <1>3, <1>4, RootFacts
<1>7. CASE ~ back
  <2>1. BlocksHold(op[p], N, n \div N, Terms(Padded(coeffs, n), f), w, p)
    BY <1>1, <1>7 DEF Progress
  <2>2. Terms(Padded(coeffs, n), f) \in Seqs
    BY <1>3, <1>5, TermsAre
  <2>3. \A i \in Ix(N \div 2) : Cong(wtab(p)[N][i], Pow(w, (n \div N) * i), p)
    BY <1>1, <1>7, DirectionTable
  <2>4. Transformed(op'[p], Terms(Padded(coeffs, n), f), w, n, p)
    BY <1>1, <1>2, <1>6, <2>1, <2>2, <2>3, LastProgress
  <2>5. phase' = "check"
    BY <1>1, <1>7
  <2> QED BY <1>1, <2>4, <2>5 DEF Progress
<1>8. CASE back
  <2>1. PICK Y : Reciprocals(Y, Padded(coeffs, n), n, f, w, p) /\ BlocksHold(op[p], N, n \div N, Y, u, p)
    BY <1>1, <1>8 DEF Progress
  <2>2. Y \in Seqs
    BY <2>1 DEF Reciprocals
  <2>3. \A i \in Ix(N \div 2) : Cong(wtab(p)[N][i], Pow(u, (n \div N) * i), p)
    BY <1>1, <1>8, DirectionTable
  <2>4. Transformed(op'[p], Y, u, n, p)
    BY <1>1, <1>2, <1>6, <2>1, <2>2, <2>3, LastProgress
  <2>5. phase' = "permute again"
    BY <1>1, <1>8
  <2> QED BY <1>1, <2>1, <2>4, <2>5 DEF Progress
<1> QED BY <1>7, <1>8

\* The permutation puts the reciprocals in the order of the powers.
LEMMA PermuteProgress ==
  ASSUME PolyInv, Permute, NEW p \in Moduli, NEW f, NEW fi, NEW w, NEW u, NEW d,
         Rooted(p, f, fi, w, u, d), Progress(p, f, fi, w, u, d)
  PROVE  Progress(p, f, fi, w, u, d)'
<1>1. /\ op' = [e \in Moduli |-> permut(op[e])] /\ phase = "permute" /\ phase' = "layers"
      /\ coeffs' = coeffs /\ n' = n /\ N' = n /\ back' = TRUE
  BY DEF Permute, ForAllModuli, n
<1>2. /\ TwoPower(n) /\ n >= 4 /\ n \in Nat \ {0} /\ p \in Int
      /\ op[p] \in [Ix(n) -> Int] /\ Cardinality(Ix(n)) = n
  <2>1. coeffs \in Inputs
    BY DEF PolyInv, Shape
  <2> QED BY <1>1, <2>1, Facts, Degree
<1>3. PICK X : X = Padded(coeffs, n)
  OBVIOUS
<1>4. u \in Int
  <2>1. Roots(n, p, f, fi, w, u, d)
    BY DEF Rooted
  <2> QED BY <1>2, <2>1, RootFacts
<1>5. ASSUME NEW i \in Ix(n)
      PROVE  op'[p][i] \in Int /\ Cong(op'[p][i] * Hat(X, n, f, w, i), 1, p)
  <2>1. PICK b \in Ix(n) : b = permut_compute(i, n) /\ permut_compute(b, n) = i /\ op'[p][i] = op[p][b]
    BY <1>1, <1>2, PermutedIs
  <2>2. Cong(op[p][b] * Hat(X, n, f, w, permut_compute(b, n)), 1, p)
    BY <1>1, <1>3 DEF Progress
  <2> QED BY <1>2, <2>1, <2>2
<1>6. PICK Y : Y = [j \in Nat |-> IF j < n THEN op'[p][j] ELSE 0]
  OBVIOUS
<1>7. Y \in Seqs /\ \A j \in Nat : j < n => Y[j] = op'[p][j] /\ j \in Ix(n)
  <2>1. \A j \in Nat : j < n => j \in Ix(n)
    BY <1>2 DEF Ix
  <2> QED BY <1>5, <1>6, <2>1 DEF Seqs
<1>8. Reciprocals(Y, X, n, f, w, p)
  BY <1>5, <1>7 DEF Reciprocals
<1>9. op'[p] \in [Ix(n) -> Int]
  <2>1. permut(op[p]) \in [Ix(n) -> Int]
    BY <1>2, PermutBelow
  <2> QED BY <1>1, <2>1
<1>10. \A i \in Ix(n) : Cong(op'[p][i], Y[i], p)
  <2> TAKE i \in Ix(n)
  <2>1. i \in Nat /\ i < n
    BY <1>2 DEF Ix
  <2> QED BY <1>2, <1>5, <1>7, <2>1, CongSame
<1>11. BlocksHold(op'[p], n, 1, Y, u, p)
  BY <1>2, <1>4, <1>7, <1>9, <1>10, BlocksStart
<1>12. n \div n = 1
  BY <1>2
<1> QED BY <1>1, <1>3, <1>8, <1>11, <1>12 DEF Progress

\* The second one does so with the values of their polynomial.
LEMMA PermuteAgainProgress ==
  ASSUME PolyInv, PermuteAgain, NEW p \in Moduli, NEW f, NEW fi, NEW w, NEW u, NEW d,
         Progress(p, f, fi, w, u, d)
  PROVE  Progress(p, f, fi, w, u, d)'
<1>1. /\ op' = [e \in Moduli |-> permut(op[e])] /\ phase = "permute again" /\ phase' = "untwist"
      /\ coeffs' = coeffs /\ n' = n
  BY DEF PermuteAgain, ForAllModuli, n
<1>2. /\ TwoPower(n) /\ n \in Nat \ {0} /\ op[p] \in [Ix(n) -> Int] /\ Cardinality(Ix(n)) = n
  <2>1. coeffs \in Inputs
    BY DEF PolyInv, Shape
  <2> QED BY <1>1, <2>1, Facts, Degree
<1>3. PICK Y : Reciprocals(Y, Padded(coeffs, n), n, f, w, p) /\ Transformed(op[p], Y, u, n, p)
  BY <1>1 DEF Progress
<1>4. ASSUME NEW i \in Ix(n) PROVE Cong(op'[p][i], Value(Y, Pow(u, i), n), p)
  <2>1. PICK b \in Ix(n) : b = permut_compute(i, n) /\ permut_compute(b, n) = i /\ op'[p][i] = op[p][b]
    <3>1. /\ permut(op[p])[i] = op[p][permut_compute(i, n)] /\ permut_compute(i, n) \in Ix(n)
          /\ permut_compute(permut_compute(i, n), n) = i
      BY <1>2, PermutedIs
    <3>2. op'[p] = permut(op[p])
      BY <1>1
    <3> QED BY <3>1, <3>2
  <2>2. Cong(op[p][b], Value(Y, Pow(u, permut_compute(b, n)), n), p)
    BY <1>3 DEF Transformed
  <2> QED BY <2>1, <2>2
<1> QED BY <1>1, <1>3, <1>4 DEF Progress

\* The last product divides by the degree and the powers of the root.
LEMMA UntwistProgress ==
  ASSUME PolyInv, Untwist, NEW p \in Moduli, NEW f, NEW fi, NEW w, NEW u, NEW d,
         Rooted(p, f, fi, w, u, d), Progress(p, f, fi, w, u, d)
  PROVE  Progress(p, f, fi, w, u, d)'
<1>1. /\ op' = [e \in Moduli |-> ShoupProduct(op[e], tab[e].invpoly_times_invphis,
                                              tab[e].shoupinvpoly_times_invphis, e)]
      /\ phase = "untwist" /\ phase' = "lift" /\ coeffs' = coeffs /\ n' = n
  BY DEF Untwist, ForAllModuli, n
<1>2. /\ p \in Nat \ {0} /\ p \in Int /\ Spare(p) /\ Tables(tab[p], n, p)
      /\ op[p] \in Table(n, p) /\ op[p] \in [Ix(n) -> Int] /\ TwoPower(n) /\ n >= 4
  BY <1>1, Facts DEF Bound
<1>3. PICK tb : tb = tab[p].invpoly_times_invphis
  OBVIOUS
<1>4. tb \in Table(n, p) /\ op'[p] = ShoupProduct(op[p], tb, Shoups(tb, p), p)
  BY <1>1, <1>2, <1>3 DEF Tables
<1>5. op[p] \in [Ix(n) -> 0 .. W - 1]
  <2>1. p <= W /\ W \in Nat
    BY <1>2, WordAssumption DEF Spare
  <2>2. op[p] \in [Ix(n) -> 0 .. p - 1]
    BY <1>2 DEF Table
  <2> QED BY <1>2, <2>1, <2>2
<1>6. fi \in Int /\ d \in Int
  <2>1. Roots(n, p, f, fi, w, u, d)
    BY DEF Rooted
  <2> QED BY <1>2, <2>1, RootFacts
<1>7. PICK Y : /\ Reciprocals(Y, Padded(coeffs, n), n, f, w, p)
               /\ \A i \in Ix(n) : Cong(op[p][i], Value(Y, Pow(u, i), n), p)
  BY <1>1 DEF Progress
<1>8. ASSUME NEW i \in Ix(n) PROVE Cong(op'[p][i], Value(Y, Pow(u, i), n) * (d * Pow(fi, i)), p)
  <2>1. PICK z : z = d * Pow(fi, i)
    OBVIOUS
  <2>2. z \in Int
    <3>1. i \in Nat
      BY DEF Ix
    <3>2. Pow(fi, i) \in Int
      BY <1>6, <3>1, PowUnfolds
    <3> QED BY <1>6, <2>1, <3>2
  <2>3. Cong(tb[i], z, p)
    BY <1>3, <2>1 DEF Rooted, RootTables
  <2>4. Cong(op'[p][i], op[p][i] * z, p)
    BY <1>2, <1>4, <1>5, <2>3, ShoupProductCong
  <2>5. Cong(z, z, p)
    BY <1>2, <2>2, CongSame
  <2>6. Cong(op[p][i], Value(Y, Pow(u, i), n), p)
    BY <1>7
  <2>7. Cong(op[p][i] * z, Value(Y, Pow(u, i), n) * z, p)
    BY <1>2, <2>5, <2>6, CongTimes
  <2> QED BY <1>2, <2>1, <2>4, <2>7, CongVia
<1>9. Taken(op'[p], Y, n, fi, u, d, p)
  BY <1>8 DEF Taken
<1> QED BY <1>1, <1>7, <1>9 DEF Progress

\* What the zero check finds in the residues of one modulus.
LEMMA ZeroMeansRoot ==
  ASSUME PolyInv, phase = "check", NEW p \in Moduli, NEW f, NEW fi, NEW w, NEW u, NEW d,
         Rooted(p, f, fi, w, u, d), Progress(p, f, fi, w, u, d)
  PROVE  (\E b \in Ix(n) : op[p][b] = 0) <=> Vanishes(Padded(coeffs, n), n, p)
<1>1. /\ TwoPower(n) /\ n >= 4 /\ n \in Nat \ {0} /\ Padded(coeffs, n) \in Seqs
      /\ op[p] \in Table(n, p) /\ op[p] \in [Ix(n) -> Int] /\ p \in Nat \ {0} /\ p \in Int
  BY Facts DEF Bound
<1>2. Roots(n, p, f, fi, w, u, d)
  BY DEF Rooted
<1>3. IsPrime(p) /\ p >= 3 /\ f \in Int /\ w \in Int /\ MinusRoot(f, n, p) /\ Cong(w, f * f, p)
  BY <1>1, <1>2, RootFacts DEF Roots
<1>4. PICK h : h \in Nat \ {0} /\ TwoPower(h) /\ n = 2 * h
  BY <1>1, <1>2, RootFacts
<1>5. PICK X \in Seqs : X = Padded(coeffs, n)
  BY <1>1
<1>6. ASSUME NEW j \in Nat
      PROVE  /\ MinusRoot(f * Pow(w, j), n, p) /\ f * Pow(w, j) \in Int /\ Pow(w, j) \in Int
             /\ Value(Terms(X, f), Pow(w, j), n) = Value(X, f * Pow(w, j), n)
  <2>1. Pow(w, j) \in Int
    BY <1>3, PowUnfolds
  <2>2. MinusRoot(f * Pow(w, j), n, p)
    BY <1>1, <1>3, <1>4, Points
  <2>3. Value(Terms(X, f), Pow(w, j), n) = Value(X, f * Pow(w, j), n)
    BY <1>1, <1>3, <2>1, ValueTwisted
  <2>4. f * Pow(w, j) \in Int
    BY <1>3, <2>1
  <2> QED BY <2>1, <2>2, <2>3, <2>4
<1>7. ASSUME NEW b \in Ix(n) PROVE Cong(op[p][b], Value(Terms(X, f), Pow(w, permut_compute(b, n)), n), p)
  BY <1>5 DEF Progress, Transformed
<1>8. ASSUME NEW b \in Ix(n), op[p][b] = 0 PROVE Vanishes(X, n, p)
  <2>1. PICK j \in Nat : j = permut_compute(b, n)
    <3>1. b \in Nat
      BY DEF Ix
    <3>2. permut_compute(b, n) \in 0 .. n - 1
      BY <1>1, <3>1, ReversedBelow
    <3> QED BY <1>1, <3>2
  <2>2. PICK z \in Int : z = f * Pow(w, j) /\ MinusRoot(z, n, p)
    BY <1>6
  <2>3. Cong(0, Value(X, z, n), p)
    BY <1>6, <1>7, <1>8, <2>1, <2>2
  <2>4. Cong(Value(X, z, n), 0, p)
    BY <1>1, <2>3, CongSwap
  <2> QED BY <2>2, <2>4 DEF Vanishes
<1>9. ASSUME Vanishes(X, n, p) PROVE \E b \in Ix(n) : op[p][b] = 0
  <2>1. PICK z : MinusRoot(z, n, p) /\ Cong(Value(X, z, n), 0, p)
    BY <1>9 DEF Vanishes
  <2>2. PICK j \in Nat : j < n /\ Cong(z, f * Pow(w, j), p)
    <3>1. MinusRoot(f, 2 * h, p) /\ MinusRoot(z, 2 * h, p)
      BY <1>3, <1>4, <2>1
    <3> QED BY <1>3, <1>4, <2>1, <3>1, PointsAreAll
  <2>3. PICK v \in Int : v = f * Pow(w, j) /\ Value(Terms(X, f), Pow(w, j), n) = Value(X, v, n)
    BY <1>6
  <2>4. Cong(Value(X, v, n), Value(X, z, n), p)
    <3>1. \A k \in Nat : k < n => Cong(X[k], X[k], p)
      BY <1>1, CongSame DEF Seqs
    <3>2. Cong(v, z, p)
      BY <1>1, <2>2, <2>3, CongSwap
    <3> QED BY <1>1, <3>1, <3>2, ValueCong
  <2>5. Cong(Value(X, v, n), 0, p)
    BY <1>1, <2>1, <2>4, CongVia
  <2>6. j \in 0 .. n - 1
    BY <1>1, <2>2
  <2>7. PICK b \in Ix(n) : b = permut_compute(j, n) /\ permut_compute(b, n) = j
    <3>1. permut_compute(j, n) \in 0 .. n - 1
      BY <1>1, ReversedBelow
    <3>2. permut_compute(permut_compute(j, n), n) = j
      BY <1>1, <2>6, ReversedTwice
    <3> QED BY <3>1, <3>2 DEF Ix
  <2>8. Cong(op[p][b], Value(X, v, n), p)
    BY <1>7, <2>3, <2>7
  <2>9. Cong(op[p][b], 0, p)
    BY <1>1, <2>5, <2>8, CongVia
  <2>10. op[p][b] \in 0 .. p - 1 /\ 0 \in 0 .. p - 1
    BY <1>1 DEF Table
  <2>11. op[p][b] = 0
    BY <1>1, <2>9, <2>10, SameResidue
  <2> QED BY <2>11
<1> QED BY <1>5, <1>8, <1>9

\* No slot is inverted yet when the loop over the slots begins.
LEMMA CheckProgress ==
  ASSUME PolyInv, Check, NEW p \in Moduli, NEW f, NEW fi, NEW w, NEW u, NEW d,
         Progress(p, f, fi, w, u, d)
  PROVE  Progress(p, f, fi, w, u, d)'
<1>1. /\ phase = "check" /\ phase' = (IF ok' THEN "slots" ELSE "done")
      /\ UNCHANGED <<coeffs, op, cm, slot>> /\ n' = n
  BY DEF Check, n
<1>2. CASE ~ ok'
  BY <1>1, <1>2 DEF Progress
<1>3. CASE ok'
  <2>1. cm = 1 /\ slot = 0 /\ phase' = "slots"
    BY <1>1, <1>3 DEF PolyInv, Counters
  <2>2. \A b \in Ix(n) : ~ Inverted(p, b)'
    <3>1. \A b \in Ix(n) : b >= 0 /\ b \in Int
      BY DEF Ix
    <3>2. \A b \in Ix(n) : Inverted(p, b)' <=> \E c \in 1 .. Len(Basis) : Basis[c] = p /\ (c < 1 \/ (c = 1 /\ b < 0))
      BY <1>1, <2>1 DEF Inverted
    <3>3. \A c \in 1 .. Len(Basis) : ~(c < 1) /\ c \in Int
      OBVIOUS
    <3> QED BY <3>1, <3>2, <3>3
  <2>3. \A b \in Ix(n) : Cong(op[p][b], Hat(Padded(coeffs, n), n, f, w, permut_compute(b, n)), p)
    BY <1>1 DEF Progress, Transformed, Hat
  <2> QED BY <1>1, <2>1, <2>2, <2>3 DEF Progress
<1> QED BY <1>2, <1>3

\* The Euclidean loop leaves the polynomial alone.
LEMMA Steady ==
  ASSUME UNCHANGED polyVars, NEW p, NEW f, NEW fi, NEW w, NEW u, NEW d, Progress(p, f, fi, w, u, d)
  PROVE  Progress(p, f, fi, w, u, d)'
<1>1. UNCHANGED <<coeffs, op, N, back, cm, slot, ok, phase>> /\ n' = n
  BY DEF polyVars, n
<1> QED BY <1>1 DEF Progress, Inverted

\* Storing a result marks its slot, and only that.
LEMMA StoreMarks ==
  ASSUME PolyInv, Store, NEW p \in Moduli, NEW b \in Ix(n)
  PROVE  /\ Inverted(p, b)' <=> Inverted(p, b) \/ (p = pm /\ b = slot)
         /\ phase' # "slots" => Inverted(p, b)'
         /\ ~ Inverted(pm, slot)
<1>1. /\ phase = "slots" /\ slot' = (slot + 1) % n /\ cm' = (IF slot' = 0 THEN cm + 1 ELSE cm)
      /\ phase' = (IF cm' > Len(Basis) THEN "permute" ELSE "slots") /\ pc = "done"
  BY DEF Store
<1>2. cm \in 1 .. Len(Basis) /\ slot \in 0 .. n - 1 /\ pm = Basis[cm]
  BY <1>1 DEF PolyInv, Slots, Ix
<1>3. n \in Nat \ {0} /\ b \in 0 .. n - 1 /\ Len(Basis) \in Nat
  BY Facts, BasisIs DEF Ix
<1>4. PICK e \in 1 .. Len(Basis) : p = Basis[e]
  BY BasisIs
<1>5. \A c \in 1 .. Len(Basis) : Basis[c] = p <=> c = e
  BY <1>4, BasisIs
<1>6. p = pm <=> e = cm
  BY <1>2, <1>5
<1>7. Inverted(p, b) <=> e < cm \/ (e = cm /\ b < slot)
  BY <1>4, <1>5 DEF Inverted
<1>8. Inverted(p, b)' <=> e < cm' \/ (e = cm' /\ b < slot')
  BY <1>4, <1>5 DEF Inverted
<1>9. ~ Inverted(pm, slot)
  <2>1. SUFFICES ASSUME NEW c \in 1 .. Len(Basis), Basis[c] = pm, c < cm \/ (c = cm /\ slot < slot) PROVE FALSE
    BY DEF Inverted
  <2>2. c = cm
    BY <1>2, <2>1, BasisIs
  <2> QED BY <1>2, <1>3, <2>1, <2>2
<1>10. CASE slot + 1 = n
  <2>1. slot' = 0 /\ cm' = cm + 1
    BY <1>1, <1>3, <1>10
  <2> QED BY <1>1, <1>2, <1>3, <1>6, <1>7, <1>8, <1>9, <1>10, <2>1
<1>11. CASE slot + 1 < n
  <2>1. slot' = slot + 1 /\ cm' = cm
    <3>1. (slot + 1) % n = slot + 1 /\ slot + 1 # 0
      BY <1>2, <1>3, <1>11
    <3> QED BY <1>1, <3>1
  <2>2. phase' = "slots"
    BY <1>1, <1>2, <1>3, <2>1
  <2> QED BY <1>2, <1>3, <1>6, <1>7, <1>8, <1>9, <1>11, <2>1, <2>2
<1> QED BY <1>2, <1>3, <1>10, <1>11

\* The slot at hand gets the reciprocal of its value.
LEMMA StoreProgress ==
  ASSUME PolyInv, Called, Store, NEW p \in Moduli, NEW f, NEW fi, NEW w, NEW u, NEW d,
         Progress(p, f, fi, w, u, d)
  PROVE  Progress(p, f, fi, w, u, d)'
<1>1. /\ phase = "slots" /\ pc = "done" /\ op' = [op EXCEPT ![Basis[cm]][slot] = t]
      /\ phase' \in {"slots", "permute"} /\ coeffs' = coeffs /\ n' = n
  BY DEF Store, n
<1>2. slot \in Ix(n) /\ pm = Basis[cm] /\ pm \in Moduli /\ a = op[pm][slot]
  BY <1>1, Indices DEF PolyInv, Slots, Called
<1>3. op = [e \in Moduli |-> op[e]] /\ op[p] \in [Ix(n) -> Int] /\ p \in Nat \ {0} /\ p \in Int
  BY <1>1, Facts DEF PolyInv, Residues
<1>4. op'[p] = (IF p = pm THEN [op[p] EXCEPT ![slot] = t] ELSE op[p])
  BY <1>1, <1>2, <1>3
<1>5. PICK X : X = Padded(coeffs, n)
  OBVIOUS
<1>6. ASSUME NEW b \in Ix(n)
      PROVE  IF Inverted(p, b)' THEN Cong(op'[p][b] * Hat(X, n, f, w, permut_compute(b, n)), 1, p)
                                ELSE Cong(op'[p][b], Hat(X, n, f, w, permut_compute(b, n)), p)
  <2>1. PICK z : z = Hat(X, n, f, w, permut_compute(b, n))
    OBVIOUS
  <2>2. IF Inverted(p, b) THEN Cong(op[p][b] * z, 1, p) ELSE Cong(op[p][b], z, p)
    BY <1>1, <1>5, <2>1 DEF Progress
  <2>3. Inverted(p, b)' <=> Inverted(p, b) \/ (p = pm /\ b = slot)
    BY StoreMarks
  <2>4. CASE p = pm /\ b = slot
    <3>1. ~ Inverted(p, b)
      BY <2>4, StoreMarks
    <3>2. op'[p][b] = t /\ op[p][b] = a
      BY <1>2, <1>3, <1>4, <2>4
    <3>3. t \in Int /\ a \in Int /\ (t * a) % p = 1 /\ p >= 2
      <4>1. IInv
        BY <1>1 DEF PolyInv, Euclid
      <4>2. t \in 1 .. pm - 1 /\ (t * a) % pm = 1 /\ a \in 1 .. pm - 1
        BY <1>1, <4>1 DEF IInv, ReturnsInverse, TypeOK
      <4>3. Spare(p)
        BY Facts
      <4> QED BY <1>3, <2>4, <4>2, <4>3 DEF Spare
    <3>4. Cong(a, z, p)
      BY <2>2, <3>1, <3>2
    <3>5. Cong(t * a, 1, p)
      <4>1. t * a \in Int /\ 1 \in 0 .. p - 1
        BY <1>3, <3>3
      <4> QED BY <1>3, <3>3, <4>1, ModIs
    <3>6. Cong(t, t, p) /\ Cong(z, a, p)
      BY <1>3, <3>3, <3>4, CongSame, CongSwap
    <3>7. Cong(t * z, t * a, p)
      BY <1>3, <3>6, CongTimes
    <3>8. Cong(t * z, 1, p)
      BY <1>3, <3>5, <3>7, CongVia
    <3> QED BY <2>1, <2>3, <2>4, <3>2, <3>8
  <2>5. CASE ~ (p = pm /\ b = slot)
    <3>1. op'[p][b] = op[p][b]
      BY <1>3, <1>4, <2>5
    <3> QED BY <2>1, <2>2, <2>3, <2>5, <3>1
  <2> QED BY <2>4, <2>5
<1>7. CASE phase' = "slots"
  BY <1>1, <1>5, <1>6, <1>7 DEF Progress
<1>8. CASE phase' = "permute"
  <2>1. \A b \in Ix(n) : Inverted(p, b)'
    BY <1>8, StoreMarks
  <2>2. \A b \in Ix(n) : Cong(op'[p][b] * Hat(X, n, f, w, permut_compute(b, n)), 1, p)
    BY <1>6, <2>1
  <2> QED BY <1>1, <1>5, <1>8, <2>2 DEF Progress
<1> QED BY <1>1, <1>7, <1>8
-----------------------------------------------------------------------------
(*****************************************************************************)
(* What comes out, and the theorem.                                          *)
(*****************************************************************************)
\* The inverse transform and the untwisting undo the transform: the coefficients
\* that come out have the reciprocal value at each point.
LEMMA TakenIsReciprocal ==
  ASSUME NEW m, TwoPower(m), m >= 4, NEW p \in Moduli, NEW f, NEW fi, NEW w, NEW u, NEW d,
         Roots(m, p, f, fi, w, u, d), NEW X \in Seqs, NEW Y, Reciprocals(Y, X, m, f, w, p),
         NEW C \in Seqs,
         \A i \in Nat : i < m => Cong(C[i], Value(Y, Pow(u, i), m) * (d * Pow(fi, i)), p),
         NEW j \in Nat, j < m
  PROVE  Cong(Value(Terms(X, f), Pow(w, j), m) * Value(Terms(C, f), Pow(w, j), m), 1, p)
<1>1. /\ IsPrime(p) /\ p >= 3 /\ p \in Nat \ {0} /\ p \in Int
      /\ f \in Int /\ fi \in Int /\ w \in Int /\ u \in Int /\ d \in Int
      /\ Inverses(f, fi, p) /\ Inverses(w, u, p) /\ Cong(m * d, 1, p) /\ m \in Nat \ {0}
  BY RootFacts DEF Roots, TwoPower
<1>2. PICK h : TwoPower(h) /\ m = 2 * h /\ h \in Nat \ {0} /\ MinusRoot(w, h, p)
  BY RootFacts
<1>3. Y \in Seqs /\ Cong(Y[j] * Hat(X, m, f, w, j), 1, p) /\ Y[j] \in Int
  BY DEF Reciprocals, Seqs
<1>4. PICK Z : Z = [k \in Nat |-> d * Y[k]]
  OBVIOUS
<1>5. Z \in Seqs /\ Z[j] = d * Y[j]
  <2>1. \A k \in Nat : d * Y[k] \in Int
    BY <1>1, <1>3 DEF Seqs
  <2> QED BY <1>4, <2>1 DEF Seqs
<1>6. ASSUME NEW z \in Int PROVE Value(Z, z, m) = d * Value(Y, z, m)
  <2>1. Terms(Y, z) \in Seqs /\ \A k \in Nat : Terms(Y, z)[k] = Y[k] * Pow(z, k)
    BY <1>3, TermsAre
  <2>2. Terms(Z, z) \in Seqs /\ \A k \in Nat : Terms(Z, z)[k] = Z[k] * Pow(z, k)
    BY <1>5, TermsAre
  <2>3. PICK g : g = [k \in Nat |-> d * Terms(Y, z)[k]]
    OBVIOUS
  <2>4. ASSUME NEW k \in Nat PROVE g[k] \in Int /\ g[k] = Terms(Z, z)[k]
    <3>1. Y[k] \in Int /\ Pow(z, k) \in Int
      BY <1>3, PowUnfolds DEF Seqs
    <3>2. (d * Y[k]) * Pow(z, k) = d * (Y[k] * Pow(z, k)) /\ d * (Y[k] * Pow(z, k)) \in Int
      BY <1>1, <3>1
    <3> QED BY <1>4, <2>1, <2>2, <2>3, <3>2
  <2>5. g \in Seqs
    BY <2>3, <2>4 DEF Seqs
  <2>6. Total(g, m) = d * Total(Terms(Y, z), m)
    BY <1>1, <2>1, <2>3, TotalTimes
  <2>7. Total(g, m) = Total(Terms(Z, z), m)
    BY <1>1, <2>2, <2>4, <2>5, TotalSame
  <2> QED BY <2>6, <2>7 DEF Value
<1>7. Terms(C, f) \in Seqs /\ \A k \in Nat : Terms(C, f)[k] = C[k] * Pow(f, k)
  BY <1>1, TermsAre
<1>8. ASSUME NEW i \in Nat, i < m PROVE Cong(Terms(C, f)[i], Value(Z, Pow(u, i), m), p)
  <2>1. Pow(u, i) \in Int /\ Pow(fi, i) \in Int /\ Pow(f, i) \in Int
    BY <1>1, PowUnfolds
  <2>2. PICK v \in Int : v = Value(Y, Pow(u, i), m)
    BY <1>1, <1>3, <2>1, ValueIn
  <2>3. PICK e \in Int, g \in Int : e = Pow(fi, i) /\ g = Pow(f, i)
    BY <2>1
  <2>4. Cong(C[i], v * (d * e), p)
    BY <1>8, <2>2, <2>3
  <2>5. Cong(g, g, p)
    BY <1>1, CongSame
  <2>6. Cong(C[i] * g, (v * (d * e)) * g, p)
    BY <1>1, <2>4, <2>5, CongTimes
  <2>7. Cong(g * e, 1, p)
    BY <1>1, <2>3, PowInverse
  <2>8. PICK c \in Int : c = d * v
    BY <1>1
  <2>9. Cong(c, c, p)
    BY <1>1, <2>8, CongSame
  <2>10. Cong(c * (g * e), c * 1, p)
    BY <1>1, <2>7, <2>9, CongTimes
  <2>11. (v * (d * e)) * g = (d * v) * (g * e) /\ c * 1 = c
    BY <1>1
  <2>12. Cong(C[i] * g, c, p)
    BY <1>1, <2>6, <2>8, <2>10, <2>11, CongVia
  <2>13. Value(Z, Pow(u, i), m) = c
    BY <1>6, <2>1, <2>2, <2>8
  <2> QED BY <1>7, <2>3, <2>12, <2>13
<1>9. Cong(Value(Terms(C, f), Pow(w, j), m), m * Z[j], p)
  <2>1. \A i \in Nat : i < 2 * h => Cong(Terms(C, f)[i], Value(Z, Pow(u, i), 2 * h), p)
    BY <1>2, <1>8
  <2>2. j < 2 * h
    BY <1>2
  <2>3. Cong(Value(Terms(C, f), Pow(w, j), 2 * h), (2 * h) * Z[j], p)
    BY <1>1, <1>2, <1>5, <1>7, <2>1, <2>2, Inversion
  <2> QED BY <1>2, <2>3
<1>10. PICK y \in Int : y = Y[j]
  BY <1>3
<1>11. Cong(m * Z[j], y, p)
  <2>1. m * Z[j] = (m * d) * y /\ 1 * y = y
    <3>1. m * (d * y) = (m * d) * y
      BY <1>1
    <3> QED BY <1>5, <1>10, <3>1
  <2>2. Cong(y, y, p)
    BY <1>1, CongSame
  <2>3. Cong((m * d) * y, 1 * y, p)
    BY <1>1, <2>2, CongTimes
  <2> QED BY <2>1, <2>3
<1>12. PICK c \in Int, x \in Int : c = Value(Terms(C, f), Pow(w, j), m) /\ x = Value(Terms(X, f), Pow(w, j), m)
  <2>1. Pow(w, j) \in Int /\ Terms(X, f) \in Seqs
    BY <1>1, PowUnfolds, TermsAre
  <2> QED BY <1>1, <1>7, <2>1, ValueIn
<1>13. Cong(c, y, p)
  BY <1>1, <1>9, <1>11, <1>12, CongVia
<1>14. Cong(y * x, 1, p)
  BY <1>3, <1>10, <1>12 DEF Hat
<1>15. Cong(x, x, p)
  BY <1>1, CongSame
<1>16. Cong(c * x, y * x, p)
  BY <1>1, <1>13, <1>15, CongTimes
<1>17. Cong(c * x, 1, p)
  BY <1>1, <1>14, <1>16, CongVia
<1>18. c * x = x * c
  OBVIOUS
<1> QED BY <1>12, <1>17, <1>18

\* Progress, whatever roots the tables are read as powers of.
RootInv ==
  \A p \in Moduli : \A f, fi, w, u, d : Rooted(p, f, fi, w, u, d) => Progress(p, f, fi, w, u, d)
\* The result is what poly2mpz makes of the words.
Lifted == phase = "done" /\ ok => lifted = [i \in Ix(n) |-> poly2mpz([p \in Moduli |-> op[p][i]])]
\* The inductive invariant.
InverseInv == PolyInv /\ Start /\ Called /\ Verdict /\ Lifted /\ RootInv

\* No step changes the roots.
LEMMA RootInvHolds ==
  ASSUME UNCHANGED <<coeffs, tab>>,
         \A p \in Moduli : \A f, fi, w, u, d : Rooted(p, f, fi, w, u, d) => Progress(p, f, fi, w, u, d)'
  PROVE  RootInv'
<1>1. n' = n
  BY DEF n
<1>2. SUFFICES ASSUME NEW p \in Moduli, NEW f, NEW fi, NEW w, NEW u, NEW d, Rooted(p, f, fi, w, u, d)'
               PROVE  Progress(p, f, fi, w, u, d)'
  BY DEF RootInv
<1>3. Rooted(p, f, fi, w, u, d)
  BY <1>1, <1>2 DEF Rooted
<1> QED BY <1>3

\* The invariant holds in the beginning and every step keeps it.
LEMMA InitInverse == PolyInit => InverseInv
<1> SUFFICES ASSUME PolyInit PROVE InverseInv
  OBVIOUS
<1>1. PolyInv
  BY PolyInitInv
<1>2. phase = "convert" /\ N = n /\ back = FALSE
  BY DEF PolyInit
<1>3. Start /\ Called /\ Verdict /\ Lifted
  BY <1>2 DEF Start, Called, Verdict, Judged, Lifted
<1>4. RootInv
  BY <1>2 DEF RootInv, Progress
<1> QED BY <1>1, <1>3, <1>4 DEF InverseInv

\* The steps outside the check that judge nothing.
LEMMA VerdictKept ==
  ASSUME Verdict, UNCHANGED <<coeffs, ok>>, Judged' => Judged, phase # "done"
  PROVE  Verdict'
<1>1. n' = n
  BY DEF n
<1> QED BY <1>1 DEF Verdict

\* The zero check decides whether there is an inverse.
LEMMA CheckVerdict ==
  ASSUME InverseInv, Check PROVE Verdict'
<1>1. /\ phase = "check" /\ phase' = (IF ok' THEN "slots" ELSE "done")
      /\ ok' = (\A p \in Moduli, i \in Ix(n) : op[p][i] # 0) /\ coeffs' = coeffs /\ n' = n
  BY DEF Check, n
<1>2. ASSUME NEW p \in Moduli
      PROVE  (\E b \in Ix(n) : op[p][b] = 0) <=> Vanishes(Padded(coeffs, n), n, p)
  <2>1. PICK f, fi, w, u, d : Rooted(p, f, fi, w, u, d)
    BY RootedExists DEF InverseInv
  <2>2. Progress(p, f, fi, w, u, d)
    BY <2>1 DEF InverseInv, RootInv
  <2> QED BY <1>1, <2>1, <2>2, ZeroMeansRoot DEF InverseInv
<1>3. ok' <=> \A p \in Moduli : ~ Vanishes(Padded(coeffs, n), n, p)
  BY <1>1, <1>2
<1> QED BY <1>1, <1>3 DEF Verdict

LEMMA NextInverse == InverseInv /\ [PolyNext]_<<polyVars, vars>> => InverseInv'
<1> SUFFICES ASSUME InverseInv, [PolyNext]_<<polyVars, vars>> PROVE InverseInv'
  OBVIOUS
<1>1. PolyInv /\ Start /\ Called /\ Verdict /\ Lifted /\ RootInv
  BY DEF InverseInv
<1>2. PolyInv'
  BY <1>1, PolyNextInv
<1>3. phase \in Phases
  BY <1>1 DEF PolyInv, Shape
<1>4. ASSUME UNCHANGED polyVars, UNCHANGED <<a, pm>>, pc' = "idle" => pc = "idle", pc = "idle" => pc' = "idle"
      PROVE  InverseInv'
  <2>1. UNCHANGED <<coeffs, tab, op, N, back, cm, slot, ok, lifted, phase>> /\ n' = n
    BY <1>4 DEF polyVars, n
  <2>2. Start' /\ Called' /\ Verdict' /\ Lifted'
    BY <1>1, <1>4, <2>1 DEF Start, Called, Verdict, Judged, Lifted
  <2>3. RootInv'
    BY <1>1, <1>4, <2>1, RootInvHolds, Steady DEF RootInv
  <2> QED BY <1>2, <2>2, <2>3 DEF InverseInv
<1>5. CASE UNCHANGED <<polyVars, vars>>
  <2>1. UNCHANGED polyVars /\ UNCHANGED <<a, pm, pc>>
    BY <1>5 DEF vars
  <2> QED BY <1>4, <2>1
<1>6. CASE Convert
  <2>1. phase = "convert" /\ phase' = "twist" /\ UNCHANGED <<coeffs, tab, N, back, ok>> /\ n' = n
    BY <1>6 DEF Convert, n
  <2>2. Start' /\ Called' /\ Lifted'
    BY <1>1, <2>1 DEF Start, Called, Lifted
  <2>3. Verdict'
    BY <1>1, <2>1, VerdictKept DEF Judged, Start
  <2>4. RootInv'
    BY <1>1, <1>6, <2>1, ConvertProgress, RootInvHolds
  <2> QED BY <1>2, <2>2, <2>3, <2>4 DEF InverseInv
<1>7. CASE Twist
  <2>1. phase = "twist" /\ phase' = "layers" /\ UNCHANGED <<coeffs, tab, N, back, ok>> /\ n' = n
    BY <1>7 DEF Twist, n
  <2>2. Start' /\ Called' /\ Lifted'
    BY <1>1, <2>1 DEF Start, Called, Lifted
  <2>3. Verdict'
    BY <1>1, <2>1, VerdictKept DEF Judged, Start
  <2>4. RootInv'
    BY <1>1, <1>7, <2>1, TwistProgress, RootInvHolds DEF RootInv
  <2> QED BY <1>2, <2>2, <2>3, <2>4 DEF InverseInv
<1>8. CASE NttLoop
  <2>1. phase = "layers" /\ phase' = "layers" /\ UNCHANGED <<coeffs, tab, back, ok>> /\ n' = n
    BY <1>8 DEF NttLoop, n
  <2>2. Start' /\ Called' /\ Lifted'
    BY <1>1, <2>1 DEF Start, Called, Lifted
  <2>3. Verdict'
    BY <1>1, <2>1, VerdictKept DEF Judged
  <2>4. RootInv'
    BY <1>1, <1>8, <2>1, NttLoopProgress, RootInvHolds DEF RootInv
  <2> QED BY <1>2, <2>2, <2>3, <2>4 DEF InverseInv
<1>9. CASE NttLast
  <2>1. /\ phase = "layers" /\ phase' = (IF back THEN "permute again" ELSE "check")
        /\ UNCHANGED <<coeffs, tab, back, ok>> /\ n' = n
    BY <1>9 DEF NttLast, n
  <2>2. Start' /\ Called' /\ Lifted'
    BY <1>1, <2>1 DEF Start, Called, Lifted
  <2>3. Verdict'
    BY <1>1, <2>1, VerdictKept DEF Judged
  <2>4. RootInv'
    BY <1>1, <1>9, <2>1, NttLastProgress, RootInvHolds DEF RootInv
  <2> QED BY <1>2, <2>2, <2>3, <2>4 DEF InverseInv
<1>10. CASE Check
  <2>1. /\ phase = "check" /\ phase' = (IF ok' THEN "slots" ELSE "done")
        /\ UNCHANGED <<coeffs, tab, pc>> /\ n' = n
    BY <1>10 DEF Check, n, vars
  <2>2. pc = "idle"
    BY <1>1, <2>1 DEF PolyInv, Shape
  <2>3. Start' /\ Called' /\ Lifted'
    BY <1>1, <2>1, <2>2 DEF Start, Called, Lifted
  <2>4. Verdict'
    BY <1>10, CheckVerdict
  <2>5. RootInv'
    BY <1>1, <1>10, <2>1, CheckProgress, RootInvHolds DEF RootInv
  <2> QED BY <1>2, <2>3, <2>4, <2>5 DEF InverseInv
<1>11. CASE Call
  <2>1. /\ phase = "slots" /\ UNCHANGED polyVars /\ UNCHANGED <<coeffs, tab, op, N, back, cm, slot, ok, lifted, phase>>
        /\ n' = n /\ pm' = Basis[cm] /\ a' = op[Basis[cm]][slot]
    BY <1>11 DEF Call, polyVars, n
  <2>2. Start' /\ Called' /\ Verdict' /\ Lifted'
    BY <1>1, <2>1 DEF Start, Called, Verdict, Judged, Lifted
  <2>3. RootInv'
    BY <1>1, <2>1, RootInvHolds, Steady DEF RootInv
  <2> QED BY <1>2, <2>2, <2>3 DEF InverseInv
<1>12. CASE Residue
  <2>1. UNCHANGED polyVars /\ UNCHANGED <<a, pm>> /\ pc = "loop" /\ pc' \in {"loop", "done"}
    BY <1>12 DEF Residue, Iterate, Return
  <2> QED BY <1>4, <2>1
<1>13. CASE Store
  <2>1. /\ phase = "slots" /\ phase' \in {"slots", "permute"} /\ UNCHANGED <<coeffs, tab, back, ok>>
        /\ n' = n /\ pc' = "idle"
    BY <1>13 DEF Store, n
  <2>2. Start' /\ Called' /\ Lifted'
    BY <1>1, <2>1 DEF Start, Called, Lifted
  <2>3. Verdict'
    BY <1>1, <2>1, VerdictKept DEF Judged
  <2>4. RootInv'
    BY <1>1, <1>13, <2>1, StoreProgress, RootInvHolds DEF RootInv
  <2> QED BY <1>2, <2>2, <2>3, <2>4 DEF InverseInv
<1>14. CASE Permute
  <2>1. phase = "permute" /\ phase' = "layers" /\ UNCHANGED <<coeffs, tab, ok>> /\ n' = n
    BY <1>14 DEF Permute, n
  <2>2. Start' /\ Called' /\ Lifted'
    BY <1>1, <2>1 DEF Start, Called, Lifted
  <2>3. Verdict'
    BY <1>1, <2>1, VerdictKept DEF Judged
  <2>4. RootInv'
    BY <1>1, <1>14, <2>1, PermuteProgress, RootInvHolds DEF RootInv
  <2> QED BY <1>2, <2>2, <2>3, <2>4 DEF InverseInv
<1>15. CASE PermuteAgain
  <2>1. phase = "permute again" /\ phase' = "untwist" /\ UNCHANGED <<coeffs, tab, ok>> /\ n' = n
    BY <1>15 DEF PermuteAgain, n
  <2>2. Start' /\ Called' /\ Lifted'
    BY <1>1, <2>1 DEF Start, Called, Lifted
  <2>3. Verdict'
    BY <1>1, <2>1, VerdictKept DEF Judged
  <2>4. RootInv'
    BY <1>1, <1>15, <2>1, PermuteAgainProgress, RootInvHolds DEF RootInv
  <2> QED BY <1>2, <2>2, <2>3, <2>4 DEF InverseInv
<1>16. CASE Untwist
  <2>1. phase = "untwist" /\ phase' = "lift" /\ UNCHANGED <<coeffs, tab, ok>> /\ n' = n
    BY <1>16 DEF Untwist, n
  <2>2. Start' /\ Called' /\ Lifted'
    BY <1>1, <2>1 DEF Start, Called, Lifted
  <2>3. Verdict'
    BY <1>1, <2>1, VerdictKept DEF Judged
  <2>4. RootInv'
    BY <1>1, <1>16, <2>1, UntwistProgress, RootInvHolds DEF RootInv
  <2> QED BY <1>2, <2>2, <2>3, <2>4 DEF InverseInv
<1>17. CASE Lift
  <2>1. /\ phase = "lift" /\ phase' = "done" /\ UNCHANGED <<coeffs, tab, op, ok>> /\ n' = n
        /\ lifted' = [i \in Ix(n) |-> poly2mpz([p \in Moduli |-> op[p][i]])]
    BY <1>17 DEF Lift, n
  <2>2. Start' /\ Called' /\ Lifted'
    BY <1>1, <2>1 DEF Start, Called, Lifted
  <2>3. Verdict'
    BY <1>1, <2>1, VerdictKept DEF Judged
  <2>4. ASSUME NEW p \in Moduli, NEW f, NEW fi, NEW w, NEW u, NEW d, Progress(p, f, fi, w, u, d)
        PROVE  Progress(p, f, fi, w, u, d)'
    BY <2>1, <2>4 DEF Progress
  <2>5. RootInv'
    BY <1>1, <2>1, <2>4, RootInvHolds DEF RootInv
  <2> QED BY <1>2, <2>2, <2>3, <2>5 DEF InverseInv
<1>18. CASE Finished
  BY <1>5, <1>18 DEF Finished
<1> QED BY <1>5, <1>6, <1>7, <1>8, <1>9, <1>10, <1>11, <1>12, <1>13, <1>14, <1>15, <1>16, <1>17, <1>18
        DEF PolyNext, Work

\* Each coefficient that is returned is reduced and has the residues computed.
LEMMA LiftedIs ==
  ASSUME InverseInv, phase = "done", ok, NEW i \in Ix(n)
  PROVE  /\ lifted[i] \in 0 .. moduli_product - 1
         /\ \A p \in Moduli : Cong(lifted[i], op[p][i], p)
<1>1. PolyInv /\ lifted[i] = poly2mpz([p \in Moduli |-> op[p][i]])
  BY DEF InverseInv, Lifted
<1>2. PICK res : res = [p \in Moduli |-> op[p][i]]
  OBVIOUS
<1>3. ASSUME NEW p \in Moduli PROVE op[p][i] \in Nat /\ op[p][i] < p
  <2>1. op[p] \in Table(n, p) /\ p \in Nat \ {0}
    BY <1>1, Facts DEF Bound
  <2>2. op[p][i] \in 0 .. p - 1
    BY <2>1 DEF Table
  <2> QED BY <2>1, <2>2
<1>4. res \in [Moduli -> Nat] /\ \A p \in Moduli : res[p] < p
  BY <1>2, <1>3
<1>5. /\ poly2mpz(res) \in 0 .. moduli_product - 1
      /\ \A p \in Moduli : Cong(poly2mpz(res), res[p], p)
  BY <1>4, Poly2mpzIs
<1> QED BY <1>1, <1>2, <1>5

\* The result is a polynomial.
LEMMA LiftedSeq ==
  ASSUME InverseInv, phase = "done", ok
  PROVE  lifted \in [Ix(n) -> Int] /\ n \in Nat \ {0} /\ coeffs \in [Ix(n) -> Int]
<1>1. PolyInv /\ lifted = [i \in Ix(n) |-> poly2mpz([p \in Moduli |-> op[p][i]])]
  BY DEF InverseInv, Lifted
<1>2. \A i \in Ix(n) : lifted[i] \in Int
  BY LiftedIs, ProductPositive
<1>3. lifted \in [Ix(n) -> Int]
  BY <1>1, <1>2
<1>4. n \in Nat \ {0} /\ coeffs \in [Ix(n) -> Int]
  <2>1. Basis[1] \in Moduli
    BY BasisIs
  <2> QED BY <1>1, <2>1, Facts
<1> QED BY <1>3, <1>4

\* One coefficient of the product, modulo one of the primes.
LEMMA ProductResidue ==
  ASSUME InverseInv, phase = "done", ok, NEW p \in Moduli, NEW k \in Nat, k < n
  PROVE  Cong(Total(Turns(Padded(coeffs, n), Padded(lifted, n), n)[k], n), IF k = 0 THEN 1 ELSE 0, p)
<1>1. PolyInv /\ RootInv
  BY DEF InverseInv
<1>2. /\ TwoPower(n) /\ n >= 4 /\ n \in Nat \ {0} /\ p \in Nat \ {0} /\ p \in Int
      /\ op[p] \in [Ix(n) -> Int]
  BY <1>1, Facts
<1>3. lifted \in [Ix(n) -> Int] /\ coeffs \in [Ix(n) -> Int]
  BY LiftedSeq
<1>4. PICK X \in Seqs : X = Padded(coeffs, n)
  BY <1>2, <1>3, PaddedIs
<1>5. PICK C \in Seqs : C = Padded(lifted, n) /\ \A i \in Ix(n) : C[i] = lifted[i]
  BY <1>2, <1>3, PaddedIs
<1>6. PICK f, fi, w, u, d : Rooted(p, f, fi, w, u, d)
  BY <1>1, RootedExists
<1>7. Roots(n, p, f, fi, w, u, d) /\ Progress(p, f, fi, w, u, d)
  BY <1>1, <1>6 DEF RootInv, Rooted
<1>8. /\ IsPrime(p) /\ p >= 3 /\ w \in Int /\ u \in Int /\ d \in Int /\ f \in Int
      /\ Inverses(f, fi, p) /\ Inverses(w, u, p) /\ MinusRoot(f, n, p) /\ Cong(w, f * f, p)
      /\ Cong(n * d, 1, p)
  BY <1>2, <1>7, RootFacts DEF Roots
<1>9. PICK h : h \in Nat \ {0} /\ TwoPower(h) /\ n = 2 * h /\ MinusRoot(w, h, p)
  BY <1>2, <1>7, RootFacts
<1>10. PICK Y : Reciprocals(Y, X, n, f, w, p) /\ Taken(op[p], Y, n, fi, u, d, p)
  BY <1>4, <1>7 DEF Progress
<1>11. \A i \in Nat : i < n => Cong(C[i], Value(Y, Pow(u, i), n) * (d * Pow(fi, i)), p)
  <2> TAKE i \in Nat
  <2> HAVE i < n
  <2>1. i \in Ix(n)
    BY <1>2 DEF Ix
  <2>2. Cong(C[i], op[p][i], p)
    BY <1>5, <2>1, LiftedIs
  <2>3. Cong(op[p][i], Value(Y, Pow(u, i), n) * (d * Pow(fi, i)), p)
    BY <1>10, <2>1 DEF Taken
  <2> QED BY <1>2, <2>2, <2>3, CongVia
<1>12. \A j \in Nat : j < n =>
         Cong(Value(Terms(X, f), Pow(w, j), n) * Value(Terms(C, f), Pow(w, j), n), 1, p)
  BY <1>2, <1>7, <1>10, <1>11, TakenIsReciprocal
<1>13. PICK turns \in [Nat -> Seqs] :
         /\ turns = Turns(X, C, n)
         /\ \A j \in Nat, i \in Nat : j < n /\ i < n => turns[j][i] = Turned(X, C, n, j, i)
  <2>1. n \in Nat
    BY <1>2
  <2>2. /\ Turns(X, C, n) \in [Nat -> Seqs]
        /\ \A j \in Nat, i \in Nat : j < n /\ i < n => Turns(X, C, n)[j][i] = Turned(X, C, n, j, i)
    BY <2>1, TurnsAre
  <2> QED BY <2>2
<1>14. PICK D : D = [j \in Nat |-> Total(turns[j], n)]
  OBVIOUS
<1>15. D \in Seqs /\ \A j \in Nat : D[j] = Total(turns[j], n)
  <2>1. \A j \in Nat : turns[j] \in Seqs
    BY <1>13
  <2>2. \A j \in Nat : Total(turns[j], n) \in Int
    BY <1>2, <2>1, TotalUnfolds
  <2> QED BY <1>14, <2>2 DEF Seqs
<1>16. Cong(D[k], IF k = 0 THEN 1 ELSE 0, p)
  <2>1. MinusRoot(f, 2 * h, p) /\ Cong((2 * h) * d, 1, p) /\ k < 2 * h
    BY <1>8, <1>9
  <2>2. \A j \in Nat, i \in Nat : j < 2 * h /\ i < 2 * h => turns[j][i] = Turned(X, C, 2 * h, j, i)
    BY <1>9, <1>13
  <2>3. \A j \in Nat : j < 2 * h => D[j] = Total(turns[j], 2 * h)
    BY <1>9, <1>15
  <2>4. \A j \in Nat : j < 2 * h =>
          Cong(Value(Terms(X, f), Pow(w, j), 2 * h) * Value(Terms(C, f), Pow(w, j), 2 * h), 1, p)
    BY <1>9, <1>12
  <2> QED BY <1>8, <1>9, <1>15, <2>1, <2>2, <2>3, <2>4, ProductIsOne
<1> QED BY <1>4, <1>5, <1>13, <1>15, <1>16

\* So the product is one modulo the product of the moduli.
LEMMA ProductIs ==
  ASSUME InverseInv, phase = "done", ok
  PROVE  Negacyclic(coeffs, lifted) = One
<1>1. lifted \in [Ix(n) -> Int] /\ n \in Nat \ {0} /\ coeffs \in [Ix(n) -> Int]
  BY LiftedSeq
<1>2. ASSUME NEW k \in Ix(n) PROVE Coefficient(coeffs, lifted, k) = IF k = 0 THEN 1 ELSE 0
  <2>1. k \in Nat /\ k < n
    BY <1>1 DEF Ix
  <2>2. PICK e \in 0 .. 1 : e = IF k = 0 THEN 1 ELSE 0
    OBVIOUS
  <2>3. PICK z : z = Total(Turns(Padded(coeffs, n), Padded(lifted, n), n)[k], n)
    OBVIOUS
  <2>4. \A p \in Moduli : Cong(z, e, p)
    BY <2>1, <2>2, <2>3, ProductResidue
  <2>5. z \in Int
    <3>1. Basis[1] \in Moduli
      BY BasisIs
    <3> QED BY <2>4, <3>1 DEF Cong
  <2>6. \A p \in Moduli : Cong(z - e, 0, p)
    <3> TAKE p \in Moduli
    <3>1. p \in Int
      BY ModuliAssumption
    <3>2. Cong(e, e, p) /\ Cong(z, e, p)
      BY <2>4, <3>1, CongSame
    <3>3. Cong(z - e, e - e, p)
      BY <3>1, <3>2, CongPlus
    <3>4. e - e = 0
      OBVIOUS
    <3> QED BY <3>3, <3>4
  <2>7. Cong(z - e, 0, moduli_product)
    <3>1. z - e \in Int
      BY <2>5
    <3> QED BY <2>6, <3>1, MultipleOfProduct
  <2>8. PICK Q \in Nat \ {0} : Q = moduli_product /\ Q >= 2
    BY ProductPositive
  <2>9. Cong(z, e, Q)
    <3>1. PICK q \in Int : z - e = 0 + q * Q
      BY <2>7, <2>8 DEF Cong
    <3>2. z = e + q * Q
      BY <2>5, <3>1
    <3> QED BY <2>5, <3>2 DEF Cong
  <2>10. z % Q = e
    <3>1. e \in 0 .. Q - 1
      BY <2>8
    <3> QED BY <2>5, <2>9, <3>1, CongMod
  <2>11. Coefficient(coeffs, lifted, k) = z % moduli_product
    BY <1>1, <2>3, CoefficientIs
  <2> QED BY <2>2, <2>8, <2>10, <2>11
<1> QED BY <1>2 DEF Negacyclic, One

\* The words carry what Progress says of them at every step.
THEOREM InverseInvariant == PolySpec => []InverseInv
BY InitInverse, NextInverse, PTL DEF PolySpec

\* Every polynomial is inverted exactly if it has an inverse, and what is returned is
\* that inverse, reduced: "p is invertible exactly when no residue is zero"
\* (shuffle.cpp:139), through both transforms, the Euclidean loops and the
\* conversions, for every word size, basis of distinct primes, degree and input.
THEOREM InversesAreInverses == PolySpec => []InverseIsInverse
<1>1. InverseInv => InverseIsInverse
  <2> SUFFICES ASSUME InverseInv, phase = "done" PROVE
        /\ ok <=> \A p \in Moduli : ~ SharesRoot(coeffs, p)
        /\ ok => /\ \A i \in Ix(n) : lifted[i] \in 0 .. moduli_product - 1
                 /\ Negacyclic(coeffs, lifted) = One
    BY DEF InverseIsInverse
  <2>1. ASSUME NEW p \in Moduli PROVE SharesRoot(coeffs, p) <=> Vanishes(Padded(coeffs, n), n, p)
    <3>1. IsPrime(p) /\ p >= 3
      BY BasisIs
    <3>2. n \in Nat \ {0} /\ coeffs \in [Ix(n) -> Int]
      BY Facts DEF InverseInv
    <3> QED BY <3>1, <3>2, SharesRootIs DEF Vanishes
  <2>2. ok <=> \A p \in Moduli : ~ Vanishes(Padded(coeffs, n), n, p)
    BY DEF InverseInv, Verdict, Judged
  <2>3. ok <=> \A p \in Moduli : ~ SharesRoot(coeffs, p)
    BY <2>1, <2>2
  <2>4. ASSUME ok PROVE \A i \in Ix(n) : lifted[i] \in 0 .. moduli_product - 1
    BY <2>4, LiftedIs
  <2>5. ASSUME ok PROVE Negacyclic(coeffs, lifted) = One
    BY <2>5, ProductIs
  <2> QED BY <2>3, <2>4, <2>5
<1> QED BY <1>1, InverseInvariant, PTL
=============================================================================
