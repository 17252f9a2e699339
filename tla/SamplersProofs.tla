--------------------------- MODULE SamplersProofs ---------------------------
(***************************************************************************)
(* Proofs about the samplers of NFLlib and of sample_z_small.c: for every  *)
(* degree, weight, basis of moduli, grid of deviates and width of a coin.  *)
(*                                                                         *)
(* What is said of these samplers is the number of equally likely draws    *)
(* behind an outcome, so the lemmas count: a bijection with pairs of       *)
(* numbers gives the size of a set of bytes or of words (Rectangle,        *)
(* Counted), and powers of two obey the laws that CoinPowers states.       *)
(*                                                                         *)
(* The inductive invariant SamplersInv names, for each call, how far it    *)
(* has come: the part of the stream that is unused (UnusedAhead), the      *)
(* deviate that is under test (Arguments), the places of the reservoir     *)
(* (Reservoir), and what the call returned (OutcomesCounted).  The   *)
(* norm tests need, besides, that every result consists of residues        *)
(* (Results): distinct primes have no common factors, so there is one      *)
(* integer below their product behind them (LiftIs), and centering it      *)
(* makes it the shortest (CenteredLift).                                   *)
(***************************************************************************)
EXTENDS Samplers, FiniteSetTheorems, SequenceTheorems, TLAPS
-----------------------------------------------------------------------------

\* The least number of a set of numbers.
LEMMA LeastNumber ==
  ASSUME NEW S \in SUBSET Nat, S # {}
  PROVE  \E x \in S : \A y \in S : x <= y
<1> DEFINE Less == OpToRel(<, Nat)
<1>1. IsWellFoundedOn(Less, Nat)
  BY NatLessThanWellFounded
<1>2. \A x, y \in Nat : <<x, y>> \in Less <=> x < y
  BY DEF OpToRel
<1> HIDE DEF Less
<1>3. PICK x \in S : \A y \in S : <<y, x>> \notin Less
  BY <1>1, WFMin
<1>4. \A y \in S : ~ (y < x)
  BY <1>2, <1>3
<1> QED BY <1>4

\* Induction over 0 .. n, the statement given as the set of numbers it holds for.
LEMMA Induction ==
  ASSUME NEW n \in Nat, NEW S, 0 \in S, \A j \in 0 .. n - 1 : j \in S => j + 1 \in S
  PROVE  0 .. n \subseteq S
<1> DEFINE Bad == {j \in 0 .. n : j \notin S}
<1> SUFFICES ASSUME Bad # {} PROVE FALSE
  OBVIOUS
<1>1. Bad \in SUBSET Nat
  OBVIOUS
<1>2. PICK x \in Bad : \A y \in Bad : x <= y
  BY <1>1, LeastNumber
<1>3. x \in 0 .. n /\ x \notin S /\ x # 0 /\ x - 1 \in 0 .. n - 1
  BY <1>2
<1>4. x - 1 \in S
  BY <1>2, <1>3
<1> QED BY <1>3, <1>4

\* Quotient and remainder are the only ones.
LEMMA Quotient ==
  ASSUME NEW d \in Nat \ {0}, NEW q \in Int, NEW e \in 0 .. d - 1
  PROVE  (e + d * q) % d = e /\ (e + d * q) \div d = q
<1> DEFINE x == e + d * q
           s == x \div d
           t == x % d
<1>1. x \in Int
  OBVIOUS
<1>2. s \in Int /\ t \in 0 .. d - 1 /\ x = t + d * s
  BY <1>1
<1> HIDE DEF s, t
<1>3. d * (q - s) = t - e
  BY <1>2
<1>4. q - s >= 1 => d * (q - s) >= d
  BY <1>2
<1>5. q - s <= -1 => d * (q - s) <= -d
  BY <1>2
<1>6. q - s = 0
  BY <1>2, <1>3, <1>4, <1>5
<1>7. t = e /\ s = q
  BY <1>2, <1>3, <1>6
<1> QED BY <1>7 DEF s, t

\* A set is as large as another one it is mapped to, one to one and onto.
LEMMA Counted ==
  ASSUME NEW S, NEW T, IsFiniteSet(S), NEW g \in [S -> T],
         \A a, b \in S : g[a] = g[b] => a = b,
         \A b \in T : \E a \in S : g[a] = b
  PROVE  IsFiniteSet(T) /\ Cardinality(T) = Cardinality(S)
<1>1. g \in Bijection(S, T)
  BY DEF Bijection, Injection, Surjection, IsInjective
<1> QED BY <1>1, FS_Bijection DEF ExistsBijection

\* The numbers below d * n with remainder below a and quotient below b.
LEMMA Rectangle ==
  ASSUME NEW d \in Nat \ {0}, NEW n \in Nat, NEW a \in 0 .. d, NEW b \in 0 .. n
  PROVE  Cardinality({x \in 0 .. d * n - 1 : x % d < a /\ x \div d < b}) = a * b
<1> DEFINE S == (0 .. a - 1) \X (0 .. b - 1)
           T == {x \in 0 .. d * n - 1 : x % d < a /\ x \div d < b}
           g == [x \in S |-> x[1] + d * x[2]]
<1>1. IsFiniteSet(0 .. a - 1) /\ Cardinality(0 .. a - 1) = a
  BY FS_Interval
<1>2. IsFiniteSet(0 .. b - 1) /\ Cardinality(0 .. b - 1) = b
  BY FS_Interval
<1>3. IsFiniteSet(S) /\ Cardinality(S) = a * b
  BY <1>1, <1>2, FS_Product, ZenonT(30)
<1>4. \A x \in S : g[x] % d = x[1] /\ g[x] \div d = x[2] /\ g[x] = x[1] + d * x[2]
  <2> TAKE x \in S
  <2>1. PICK e \in 0 .. d - 1, q \in Int : x[1] = e /\ x[2] = q
    OBVIOUS
  <2>2. g[x] = e + d * q
    BY <2>1
  <2>3. (e + d * q) % d = e /\ (e + d * q) \div d = q
    BY Quotient
  <2> HIDE DEF g
  <2> QED BY <2>1, <2>2, <2>3, Zenon
<1>5. g \in [S -> T]
  <2> SUFFICES ASSUME NEW x \in S PROVE x[1] + d * x[2] \in T
    BY Zenon
  <2>1. PICK e \in 0 .. a - 1, q \in 0 .. b - 1 : x[1] = e /\ x[2] = q
    OBVIOUS
  <2> DEFINE z == e + d * q
  <2>2. z % d = e /\ z \div d = q
    BY Quotient, SMTT(30)
  <2>3. d * q >= 0 /\ d * q <= d * (n - 1) /\ d * q \in Int
    BY <2>1
  <2>4. d * (n - 1) = d * n - d
    OBVIOUS
  <2>5. z \in 0 .. d * n - 1
    BY <2>1, <2>3, <2>4
  <2>6. x[1] + d * x[2] = z
    BY <2>1
  <2> HIDE DEF z
  <2>7. z % d < a /\ z \div d < b
    BY <2>1, <2>2
  <2> QED BY <2>5, <2>6, <2>7
<1>6. \A x, y \in S : g[x] = g[y] => x = y
  <2> SUFFICES ASSUME NEW x \in S, NEW y \in S, g[x] = g[y] PROVE x = y
    OBVIOUS
  <2>1. x[1] = y[1] /\ x[2] = y[2]
    BY <1>4
  <2> QED BY <2>1
<1>7. \A y \in T : \E x \in S : g[x] = y
  <2> TAKE y \in T
  <2>1. y \in 0 .. d * n - 1 /\ y % d < a /\ y \div d < b
    OBVIOUS
  <2>2. y % d \in 0 .. a - 1 /\ y \div d \in 0 .. b - 1 /\ y = (y % d) + d * (y \div d)
    BY <2>1
  <2>3. <<y % d, y \div d>> \in S
    BY <2>2
  <2>4. g[<<y % d, y \div d>>] = y
    BY <2>2, <2>3
  <2> QED BY <2>3, <2>4
<1> HIDE DEF S, T, g
<1>8. Cardinality(T) = Cardinality(S)
  BY <1>3, <1>5, <1>6, <1>7, Counted
<1> QED BY <1>3, <1>8 DEF T
-----------------------------------------------------------------------------
LEMMA CoinSizes == P \in Nat \ {0} /\ L \in Nat \ {0} /\ Grid \in Nat \ {0} /\ Reach \in Nat \ {0}
BY SampleZAssumption

\* The laws of powers, for all exponents a coin has room for.
LEMMA PowersAdd ==
  /\ \A a \in 0 .. P + L + 2 : 2^a \in Nat \ {0}
  /\ \A a, b \in 0 .. P + L + 2 : a + b <= P + L + 2 => 2^(a + b) = 2^a * 2^b
<1> DEFINE N == P + L + 2
           Positive == {a \in 0 .. N : 2^a \in Nat \ {0}}
           Adds == {b \in 0 .. N : \A a \in 0 .. N : a + b <= N => 2^(a + b) = 2^a * 2^b}
<1>1. N \in Nat
  BY CoinSizes
<1>2. 2^0 = 1 /\ \A l \in 0 .. N - 1 : 2^(l + 1) = 2 * 2^l
  BY CoinPowers, CoinSizes
<1> HIDE DEF N
<1>3. 0 .. N \subseteq Positive
  <2>1. 0 \in Positive
    BY <1>1, <1>2
  <2>2. ASSUME NEW a \in 0 .. N - 1, a \in Positive PROVE a + 1 \in Positive
    BY <1>1, <1>2, <2>2
  <2> HIDE DEF Positive
  <2> QED BY <1>1, <2>1, <2>2, Induction
<1>4. 0 .. N \subseteq Adds
  <2>1. 0 \in Adds
    <3> SUFFICES ASSUME NEW a \in 0 .. N PROVE 2^(a + 0) = 2^a * 2^0
      BY <1>1
    <3>1. a + 0 = a /\ 2^a \in Nat
      BY <1>1, <1>3
    <3> QED BY <1>2, <3>1
  <2>2. ASSUME NEW b \in 0 .. N - 1, b \in Adds PROVE b + 1 \in Adds
    <3> SUFFICES ASSUME NEW a \in 0 .. N, a + (b + 1) <= N PROVE 2^(a + (b + 1)) = 2^a * 2^(b + 1)
      BY <1>1
    <3>1. 2^(a + b) = 2^a * 2^b /\ 2^(b + 1) = 2 * 2^b
      BY <1>1, <1>2, <2>2
    <3>2. 2^((a + b) + 1) = 2 * 2^(a + b) /\ (a + b) + 1 = a + (b + 1)
      BY <1>1, <1>2
    <3>3. 2^a \in Nat /\ 2^b \in Nat
      BY <1>1, <1>3
    <3>4. 2 * (2^a * 2^b) = 2^a * (2 * 2^b)
      BY <3>3
    <3> QED BY <3>1, <3>2, <3>4
  <2> HIDE DEF Adds
  <2> QED BY <1>1, <2>1, <2>2, Induction
<1> QED BY <1>3, <1>4 DEF N

\* Of all coins, exactly the share a probability stands for passes its test.
LEMMA CoinPasses ==
  ASSUME NEW x \in Probability, x.e >= -(L + 1)
  PROVE  Cardinality({entry \in Entries : cosac_comp(entry, x)}) = x.m * 2^(L + 1 + x.e)
<1>1. x.m \in 2^P .. 2^(P + 1) - 1 /\ x.e \in -(L + 1) .. 0 /\ (x.e = 0 => x = One)
  BY CoinSizes DEF Probability, Float
<1>2. P \in Nat /\ L \in Nat
  BY CoinSizes
<1>3. CASE x = One
  <2>1. {entry \in Entries : cosac_comp(entry, x)} = Entries
    BY <1>3 DEF cosac_comp
  <2>2. 2^(P + (L + 1)) = 2^P * 2^(L + 1) /\ 2^(P + (L + 1)) \in Nat \ {0}
    BY <1>2, PowersAdd
  <2>3. P + 1 + L = P + (L + 1)
    BY <1>2
  <2>4. Cardinality(Entries) = 2^(P + (L + 1))
    BY <2>2, <2>3, FS_Interval DEF Entries
  <2>5. x.m = 2^P /\ L + 1 + x.e = L + 1
    BY <1>2, <1>3 DEF One
  <2> QED BY <2>1, <2>2, <2>4, <2>5
<1>4. CASE x # One
  <2> DEFINE d == 2^(P + 1)
             n == 2^L
             b == 2^(L + 1 + x.e)
  <2>1. x.e \in -(L + 1) .. -1 /\ L + 1 + x.e \in 0 .. L /\ -1 - x.e \in 0 .. L
    BY <1>1, <1>2, <1>4
  <2>2. d \in Nat \ {0} /\ n \in Nat \ {0} /\ b \in Nat \ {0} /\ 2^(-1 - x.e) \in Nat \ {0} /\ 2^P \in Nat
    <3>1. P + 1 \in 0 .. P + L + 2 /\ P \in 0 .. P + L + 2
      BY <1>2
    <3>2. L \in 0 .. P + L + 2 /\ L + 1 + x.e \in 0 .. P + L + 2 /\ -1 - x.e \in 0 .. P + L + 2
      BY <1>2, <2>1
    <3> QED BY <3>1, <3>2, PowersAdd
  <2>3. b <= n
    <3>0. PICK e \in Int : e = x.e
      BY <1>2, <2>1
    <3>1. (L + 1 + x.e) + (-1 - x.e) = L
      <4>1. (L + 1 + e) + (-1 - e) = L
        BY <1>2
      <4> QED BY <3>0, <4>1
    <3>2. L + 1 + x.e \in 0 .. P + L + 2 /\ -1 - x.e \in 0 .. P + L + 2 /\ L <= P + L + 2
      BY <1>2, <2>1
    <3>3. n = b * 2^(-1 - x.e)
      BY <3>1, <3>2, PowersAdd
    <3> HIDE DEF n, b
    <3> QED BY <2>2, <3>3
  <2>4. Entries = 0 .. d * n - 1
    <3>1. P + 1 \in 0 .. P + L + 2 /\ L \in 0 .. P + L + 2 /\ (P + 1) + L <= P + L + 2
      BY <1>2
    <3>2. 2^((P + 1) + L) = d * n
      BY <3>1, PowersAdd
    <3> QED BY <3>2 DEF Entries
  <2>5. x.m \in 0 .. d /\ b \in 0 .. n
    BY <1>1, <2>2, <2>3
  <2>6. {entry \in Entries : cosac_comp(entry, x)}
          = {entry \in 0 .. d * n - 1 : entry % d < x.m /\ entry \div d < b}
    BY <1>4, <2>4 DEF cosac_comp
  <2> HIDE DEF d, n, b
  <2>7. PICK a \in 0 .. d : a = x.m
    BY <2>5
  <2>8. Cardinality({entry \in 0 .. d * n - 1 : entry % d < a /\ entry \div d < b}) = a * b
    BY <2>2, <2>5, Rectangle, ZenonT(30)
  <2> QED BY <2>6, <2>7, <2>8 DEF b
<1> QED BY <1>3, <1>4
-----------------------------------------------------------------------------
\* round() is off by half a unit at most.
LEMMA CenterDistance ==
  ASSUME center \in Int
  PROVE  cr \in Int /\ c \in Int /\ -Grid <= 2 * c /\ 2 * c <= Grid
<1> DEFINE D == 2 * Grid
           a == 2 * center + Grid
           b == Grid - 2 * center
<1>1. D \in Nat \ {0} /\ a \in Int /\ b \in Int /\ Grid \in Nat \ {0}
  BY CoinSizes
<1>2. ASSUME NEW x \in Int
      PROVE  x \div D \in Int /\ D * (x \div D) <= x /\ x < D * (x \div D) + D
  BY <1>1
<1>3. CASE center >= 0
  <2>1. cr = a \div D
    BY <1>3 DEF cr
  <2> HIDE DEF D
  <2>2. cr \in Int /\ D * cr <= a /\ a < D * cr + D
    BY <1>1, <1>2, <2>1
  <2>3. D * cr = 2 * (cr * Grid)
    BY <1>1, <2>2 DEF D
  <2> QED BY <1>1, <2>2, <2>3 DEF c, D
<1>4. CASE center < 0
  <2>1. cr = -(b \div D)
    BY <1>4 DEF cr
  <2> HIDE DEF D
  <2>2. cr \in Int /\ D * (-cr) <= b /\ b < D * (-cr) + D
    BY <1>1, <1>2, <2>1
  <2>3. D * (-cr) = -(2 * (cr * Grid))
    BY <1>1, <2>2 DEF D
  <2> QED BY <1>1, <2>2, <2>3 DEF c, D
<1> QED BY <1>3, <1>4

\* The unit of deviates each value comes from: those away from the centre, up to
\* a whole unit, and never the centre itself.
LEMMA CandidateUnit ==
  ASSUME center \in Int, NEW n \in Int
  PROVE  /\ Candidate(n) \in Int
         /\ n + c >= 0 => Candidate(n) >= 1 /\ n + c \in (Candidate(n) - 1) * Grid .. Candidate(n) * Grid - 1
         /\ n + c < 0 => Candidate(n) <= -1 /\ n + c \in Candidate(n) * Grid .. (Candidate(n) + 1) * Grid - 1
<1>1. PICK G \in Nat \ {0} : G = Grid
  BY CoinSizes
<1>2. PICK y \in Int : y = n + c
  BY CenterDistance
<1>3. PICK q \in Int : q = y \div G
  BY <1>1
<1>4. y - q * G \in 0 .. G - 1
  BY <1>1, <1>3
<1>5. Candidate(n) = q + (IF y >= 0 THEN 1 ELSE 0)
  BY <1>1, <1>2, <1>3 DEF Candidate
<1>6. (q - 1) * G = q * G - G /\ (q + 1) * G = q * G + G /\ q * G \in Int
  OBVIOUS
<1>7. q <= -1 => q * G <= -G
  OBVIOUS
<1>8. q >= 0 => q * G >= 0
  OBVIOUS
<1>9. CASE y >= 0
  <2>1. q >= 0 /\ Candidate(n) = q + 1 /\ q + 1 - 1 = q
    BY <1>4, <1>5, <1>6, <1>7, <1>9
  <2>2. y \in q * G .. (q + 1) * G - 1
    BY <1>4, <1>6
  <2> QED BY <1>1, <1>2, <1>9, <2>1, <2>2
<1>10. CASE y < 0
  <2>1. q <= -1 /\ Candidate(n) = q
    BY <1>4, <1>5, <1>6, <1>8, <1>10
  <2>2. y \in q * G .. (q + 1) * G - 1
    BY <1>4, <1>6
  <2> QED BY <1>1, <1>2, <1>10, <2>1, <2>2
<1> QED BY <1>9, <1>10

LEMMA CandidateIs ==
  ASSUME center \in Int, NEW n \in Int, NEW z \in Int,
         \/ z >= 1 /\ n + c \in (z - 1) * Grid .. z * Grid - 1
         \/ z <= -1 /\ n + c \in z * Grid .. (z + 1) * Grid - 1
  PROVE  Candidate(n) = z
<1>1. PICK G \in Nat \ {0} : G = Grid
  BY CoinSizes
<1>2. PICK y \in Int : y = n + c
  BY CenterDistance
<1>3. PICK q \in Int : q = IF z >= 1 THEN z - 1 ELSE z
  OBVIOUS
<1>4. q * G \in Int /\ (q + 1) * G = q * G + G
  OBVIOUS
<1>5. y \in q * G .. (q + 1) * G - 1
  BY <1>1, <1>2, <1>3
<1>6. PICK e \in 0 .. G - 1 : y = e + G * q
  <2>1. G * q = q * G /\ y - q * G \in 0 .. G - 1 /\ y = (y - q * G) + q * G
    BY <1>4, <1>5
  <2> QED BY <2>1
<1>7. y \div G = q
  BY <1>6, Quotient
<1>8. y >= 0 <=> z >= 1
  <2>1. z >= 1 => q * G >= 0
    BY <1>3
  <2>2. z <= -1 => (q + 1) * G <= 0
    BY <1>3
  <2> QED BY <1>3, <1>4, <1>5, <2>1, <2>2
<1> QED BY <1>1, <1>2, <1>3, <1>7, <1>8 DEF Candidate

\* The exponent rej() is given is never negative: rounding away from the centre
\* makes every acceptance probability at most 1, whatever centre, grid and
\* deviate; and it completes the square of the deviate to that of the value.
THEOREM AcceptanceIsProbability ==
  ASSUME center \in Int, NEW n \in Int
  PROVE  /\ Excess(n) \in Nat
         /\ n \in AllDeviates => Excess(n) <= Grid * (2 * Reach + Grid)
         /\ n * n + Excess(n) = (Candidate(n) * Grid - c) * (Candidate(n) * Grid - c)
<1>1. PICK G \in Nat \ {0} : G = Grid
  BY CoinSizes
<1>2. PICK d \in Int : d = c /\ -G <= 2 * d /\ 2 * d <= G
  BY <1>1, CenterDistance
<1>3. PICK q \in Int : q = Candidate(n)
  BY CandidateUnit
<1>4. PICK x \in Int : x = q * G - d
  OBVIOUS
<1>5. Excess(n) = (x + n) * (x - n)
  BY <1>1, <1>2, <1>3, <1>4 DEF Excess
<1>6. (q - 1) * G = q * G - G /\ (q + 1) * G = q * G + G /\ q * G \in Int
  OBVIOUS
<1>7. \/ /\ n + d >= 0 /\ q >= 1
         /\ n + d \in (q - 1) * G .. q * G - 1
      \/ /\ n + d < 0 /\ q <= -1
         /\ n + d \in q * G .. (q + 1) * G - 1
  BY <1>1, <1>2, <1>3, CandidateUnit
<1>8. \/ x - n \in 1 .. G /\ x + n >= 0 /\ x + n <= 2 * n + G
      \/ n - x \in 0 .. G - 1 /\ -(x + n) >= 0 /\ -(x + n) <= G - 2 * n
  <2>1. q >= 1 => q * G >= G
    OBVIOUS
  <2>2. q <= -1 => q * G <= -G
    OBVIOUS
  <2> QED BY <1>2, <1>4, <1>6, <1>7, <2>1, <2>2
<1>9. Excess(n) \in Nat
  <2>1. CASE x - n >= 0 /\ x + n >= 0
    BY <1>5, <2>1
  <2>2. CASE n - x >= 0 /\ -(x + n) >= 0
    <3>1. (n - x) * (-(x + n)) >= 0 /\ (n - x) * (-(x + n)) = (x + n) * (x - n)
      BY <2>2
    <3> QED BY <1>5, <3>1
  <2> QED BY <1>8, <2>1, <2>2
<1>10. ASSUME n \in AllDeviates PROVE Excess(n) <= Grid * (2 * Reach + Grid)
  <2>1. PICK B \in Nat : B = 2 * Reach + Grid
    BY CoinSizes
  <2>2. 2 * n + G <= B /\ G - 2 * n <= B
    BY <1>1, <1>10, <2>1, CoinSizes DEF AllDeviates
  <2>3. PICK u \in 0 .. G, v \in 0 .. B : Excess(n) = u * v
    <3>1. CASE x - n \in 1 .. G /\ x + n >= 0 /\ x + n <= 2 * n + G
      <4>1. x - n \in 0 .. G /\ x + n \in 0 .. B
        BY <2>2, <3>1
      <4>2. Excess(n) = (x - n) * (x + n)
        BY <1>5
      <4> QED BY <4>1, <4>2
    <3>2. CASE n - x \in 0 .. G - 1 /\ -(x + n) >= 0 /\ -(x + n) <= G - 2 * n
      <4>1. n - x \in 0 .. G /\ -(x + n) \in 0 .. B
        BY <2>2, <3>2
      <4>2. Excess(n) = (n - x) * (-(x + n))
        BY <1>5
      <4> QED BY <4>1, <4>2
    <3> QED BY <1>8, <3>1, <3>2
  <2>4. u * v <= G * v /\ G * v <= G * B
    BY <2>3
  <2>5. u * v \in Int /\ G * v \in Int /\ G * B \in Int
    BY <2>3
  <2> QED BY <1>1, <2>1, <2>3, <2>4, <2>5
<1>11. n * n + (x + n) * (x - n) = x * x
  BY <1>4
<1> QED BY <1>1, <1>2, <1>3, <1>4, <1>5, <1>9, <1>10, <1>11

\* All values but the centre come from one unit of deviates each.
LEMMA DensityIsExact == ASSUME center \in Int, zpc = "center" PROVE DensityExact
<1> USE CoinSizes
<1>1. c \in Int /\ -Grid <= 2 * c /\ 2 * c <= Grid
  BY CenterDistance
<1>2. ASSUME NEW z \in AllDeviates, z * Grid - c \in AllDeviates
      PROVE  Cardinality({n \in AllDeviates : Candidate(n) = z}) = IF z = 0 THEN 0 ELSE Grid
  <2> DEFINE S == {n \in AllDeviates : Candidate(n) = z}
  <2>1. z \in Int /\ z * Grid \in Int /\ (z - 1) * Grid = z * Grid - Grid /\ (z + 1) * Grid = z * Grid + Grid
    BY DEF AllDeviates
  <2>2. CASE z = 0
    <3>1. S = {}
      <4> SUFFICES ASSUME NEW n \in AllDeviates, Candidate(n) = 0 PROVE FALSE
        BY <2>2
      <4>1. n \in Int /\ n + c \in Int
        BY <1>1 DEF AllDeviates
      <4> QED BY <4>1, CandidateUnit
    <3> QED BY <2>2, <3>1, FS_EmptySet
  <2>3. CASE z >= 1
    <3> DEFINE lo == z * Grid - Grid - c
               hi == z * Grid - 1 - c
    <3>1. z * Grid >= Grid
      BY <2>1, <2>3
    <3>2. lo \in Int /\ hi \in Int /\ hi - lo + 1 = Grid /\ lo <= hi
      BY <1>1, <2>1
    <3>3. lo >= -Reach /\ hi <= Reach
      BY <1>1, <1>2, <2>1, <3>1 DEF AllDeviates
    <3>4. lo .. hi \subseteq S
      <4> SUFFICES ASSUME NEW n \in lo .. hi PROVE n \in S
        OBVIOUS
      <4>1. n \in Int /\ n + c \in (z - 1) * Grid .. z * Grid - 1
        BY <1>1, <2>1, <3>2
      <4>2. Candidate(n) = z
        BY <2>1, <2>3, <4>1, CandidateIs
      <4>3. n \in AllDeviates
        BY <3>2, <3>3 DEF AllDeviates
      <4> QED BY <4>2, <4>3
    <3>5. S \subseteq lo .. hi
      <4> SUFFICES ASSUME NEW n \in AllDeviates, Candidate(n) = z PROVE n \in lo .. hi
        OBVIOUS
      <4>1. n \in Int /\ n + c \in Int
        BY <1>1 DEF AllDeviates
      <4>2. n + c \in (z - 1) * Grid .. z * Grid - 1
        BY <2>1, <2>3, <4>1, CandidateUnit
      <4> QED BY <1>1, <2>1, <4>1, <4>2
    <3> HIDE DEF S, lo, hi
    <3>6. Cardinality(lo .. hi) = Grid
      BY <3>2, FS_Interval
    <3>7. S = lo .. hi
      BY <3>4, <3>5
    <3>8. z # 0
      BY <2>1, <2>3
    <3> QED BY <3>6, <3>7, <3>8 DEF S
  <2>4. CASE z <= -1
    <3> DEFINE lo == z * Grid - c
               hi == z * Grid + Grid - 1 - c
    <3>1. z * Grid <= -Grid
      BY <2>1, <2>4
    <3>2. lo \in Int /\ hi \in Int /\ hi - lo + 1 = Grid /\ lo <= hi
      BY <1>1, <2>1
    <3>3. lo >= -Reach /\ hi <= Reach
      BY <1>1, <1>2, <2>1, <3>1 DEF AllDeviates
    <3>4. lo .. hi \subseteq S
      <4> SUFFICES ASSUME NEW n \in lo .. hi PROVE n \in S
        OBVIOUS
      <4>1. n \in Int /\ n + c \in z * Grid .. (z + 1) * Grid - 1
        BY <1>1, <2>1, <3>2
      <4>2. Candidate(n) = z
        BY <2>1, <2>4, <4>1, CandidateIs
      <4>3. n \in AllDeviates
        BY <3>2, <3>3 DEF AllDeviates
      <4> QED BY <4>2, <4>3
    <3>5. S \subseteq lo .. hi
      <4> SUFFICES ASSUME NEW n \in AllDeviates, Candidate(n) = z PROVE n \in lo .. hi
        OBVIOUS
      <4>1. n \in Int /\ n + c \in Int
        BY <1>1 DEF AllDeviates
      <4>2. n + c \in z * Grid .. (z + 1) * Grid - 1
        BY <2>1, <2>4, <4>1, CandidateUnit
      <4> QED BY <1>1, <2>1, <4>1, <4>2
    <3> HIDE DEF S, lo, hi
    <3>6. Cardinality(lo .. hi) = Grid
      BY <3>2, FS_Interval
    <3>7. S = lo .. hi
      BY <3>4, <3>5
    <3>8. z # 0
      BY <2>1, <2>4
    <3> QED BY <3>6, <3>7, <3>8 DEF S
  <2> QED BY <2>1, <2>2, <2>3, <2>4
<1>3. ASSUME NEW n \in AllDeviates
      PROVE  Excess(n) >= 0 /\ n * n + Excess(n) = (Candidate(n) * Grid - c) * (Candidate(n) * Grid - c)
  <2>1. n \in Int
    BY DEF AllDeviates
  <2> QED BY <2>1, AcceptanceIsProbability
<1> QED BY <1>2, <1>3 DEF DensityExact
-----------------------------------------------------------------------------
LEMMA HwtSizes ==
  /\ Hwt \in Nat \ {0} /\ Degree \in Nat /\ Hwt <= Degree
  /\ \A x \in Slots : x[2] \in Positions /\ Primes[x] \in Nat /\ Primes[x] > 2
<1>1. \E nmoduli \in {1, 2, 3} : Slots = (1 .. nmoduli) \X (0 .. Degree - 1)
  BY HwtAssumption
<1>2. \A x \in Slots : x[2] \in Positions
  BY <1>1 DEF Positions
<1> QED BY <1>2, HwtAssumption, PrimesAssumption, SamplersAssumption

LEMMA FinitePositions == IsFiniteSet(Positions)
<1>1. 0 \in Int /\ Degree - 1 \in Int
  BY HwtSizes
<1> QED BY <1>1, FS_Interval DEF Positions

\* The sum of absolute values of a ternary polynomial counts its non-zero
\* coefficients, in whatever order they are added up.
LEMMA TernaryWeight ==
  ASSUME NEW g \in [Positions -> -1 .. 1], NEW H \in SUBSET Positions,
         \A n \in Positions : g[n] # 0 <=> n \in H
  PROVE  L1(g) = Cardinality(H)
<1> DEFINE Abs(n) == IF g[n] < 0 THEN -g[n] ELSE g[n]
           Eq(z) == z = [T \in SUBSET Positions |->
                           IF T = {} THEN 0
                           ELSE LET x == CHOOSE y \in T : TRUE IN Abs(x) + z[T \ {x}]]
           it == CHOOSE z : Eq(z)
           ct == [T \in SUBSET Positions |-> Cardinality(T \cap H)]
<1>1. IsFiniteSet(Positions)
  BY FinitePositions
<1>2. \A T \in SUBSET Positions : IsFiniteSet(T) /\ IsFiniteSet(T \cap H)
  BY <1>1, FS_Subset
<1>3. ASSUME NEW T \in SUBSET Positions, NEW x \in T
      PROVE  ct[T] = Abs(x) + ct[T \ {x}] /\ ct[T] \in Nat
  <2>1. ct[T] = Cardinality(T \cap H) /\ ct[T \ {x}] = Cardinality((T \ {x}) \cap H)
    OBVIOUS
  <2>2. (T \ {x}) \cap H = (T \cap H) \ {x}
    OBVIOUS
  <2>3. Cardinality((T \cap H) \ {x}) = IF x \in T \cap H THEN Cardinality(T \cap H) - 1 ELSE Cardinality(T \cap H)
    BY <1>2, FS_RemoveElement
  <2>4. PICK a \in Nat : a = Cardinality(T \cap H)
    BY <1>2, FS_CardinalityType
  <2>5. Abs(x) = IF x \in T \cap H THEN 1 ELSE 0
    OBVIOUS
  <2> HIDE DEF ct, Abs
  <2>6. ct[T] = a /\ ct[T \ {x}] = IF x \in T \cap H THEN a - 1 ELSE a
    BY <2>1, <2>2, <2>3, <2>4
  <2>7. CASE x \in T \cap H
    BY <2>4, <2>5, <2>6, <2>7
  <2>8. CASE x \notin T \cap H
    BY <2>4, <2>5, <2>6, <2>8
  <2> QED BY <2>7, <2>8
<1>4. ct[{}] = 0
  BY FS_EmptySet
<1>5. Eq(ct)
  <2>1. ASSUME NEW T \in SUBSET Positions
        PROVE  ct[T] = IF T = {} THEN 0 ELSE LET x == CHOOSE y \in T : TRUE IN Abs(x) + ct[T \ {x}]
    <3>1. CASE T = {}
      BY <1>4, <3>1
    <3>2. CASE T # {}
      <4> DEFINE x == CHOOSE y \in T : TRUE
      <4>1. x \in T
        BY <3>2
      <4> HIDE DEF x, ct, Abs
      <4>2. ct[T] = Abs(x) + ct[T \ {x}]
        BY <1>3, <4>1
      <4> QED BY <3>2, <4>2 DEF x
    <3> QED BY <3>1, <3>2
  <2>2. ct = [T \in SUBSET Positions |-> ct[T]]
    OBVIOUS
  <2> HIDE DEF ct, Abs
  <2> QED BY <2>1, <2>2
<1> HIDE DEF ct, Abs
<1>6. Eq(it)
  BY <1>5
<1>7. L1(g) = it[Positions]
  BY DEF L1, MapThenSumSet, MapThenFoldSet, Abs
<1> HIDE DEF it
<1>8. PICK N \in Nat : N = Cardinality(Positions)
  BY <1>1, FS_CardinalityType
<1> DEFINE Agree == {n \in 0 .. N : \A T \in SUBSET Positions : Cardinality(T) = n => it[T] = ct[T]}
<1>9. 0 \in Agree
  <2>1. \A T \in SUBSET Positions : Cardinality(T) = 0 => T = {}
    BY <1>2, FS_EmptySet
  <2>2. it[{}] = 0
    BY <1>6
  <2> QED BY <1>4, <1>8, <2>1, <2>2
<1>10. ASSUME NEW n \in 0 .. N - 1, n \in Agree PROVE n + 1 \in Agree
  <2> SUFFICES ASSUME NEW T \in SUBSET Positions, Cardinality(T) = n + 1 PROVE it[T] = ct[T]
    BY <1>8
  <2>1. T # {}
    BY FS_EmptySet
  <2> DEFINE x == CHOOSE y \in T : TRUE
  <2>2. x \in T
    BY <2>1
  <2>3. it[T] = Abs(x) + it[T \ {x}]
    BY <1>6, <2>1
  <2> HIDE DEF x
  <2>4. Cardinality(T \ {x}) = n /\ T \ {x} \in SUBSET Positions
    <3>1. Cardinality(T \ {x}) = (n + 1) - 1
      BY <1>2, <2>2, FS_RemoveElement
    <3>2. (n + 1) - 1 = n
      OBVIOUS
    <3> QED BY <3>1, <3>2
  <2>5. it[T \ {x}] = ct[T \ {x}]
    BY <1>10, <2>4
  <2> QED BY <1>3, <2>2, <2>3, <2>5
<1> HIDE DEF Agree, Eq
<1>11. N \in Agree
  BY <1>8, <1>9, <1>10, Induction
<1>12. it[Positions] = ct[Positions]
  BY <1>8, <1>11 DEF Agree
<1>13. ct[Positions] = Cardinality(H)
  <2>1. Positions \cap H = H
    OBVIOUS
  <2> QED BY <2>1 DEF ct
<1> QED BY <1>7, <1>12, <1>13

-----------------------------------------------------------------------------
\* The reservoir holds Hwt different positions below the one considered next, and
\* every polynomial finished is one of Hwt signs.
Reservoir ==
  /\ hitted \in Reservoirs /\ k \in Hwt .. Degree
  /\ \A j \in 0 .. Hwt - 1 : hitted[j] < k
  /\ \A j, l \in 0 .. Hwt - 1 : hitted[j] = hitted[l] => j = l
  /\ polys \in Seq([Slots -> Nat])
  /\ ExactWeight

LEMMA FirstFits ==
  /\ First \in Reservoirs /\ Hwt \in Hwt .. Degree
  /\ \A j \in 0 .. Hwt - 1 : First[j] < Hwt
  /\ \A j, l \in 0 .. Hwt - 1 : First[j] = First[l] => j = l
BY HwtSizes DEF First, Reservoirs, Positions

LEMMA HwtInit == Init => Reservoir
<1> SUFFICES ASSUME Init PROVE Reservoir
  OBVIOUS
<1>1. hitted = First /\ k = Hwt /\ polys = << >>
  BY DEF Init
<1>2. polys \in Seq([Slots -> Nat]) /\ Len(polys) = 0
  BY <1>1
<1>3. ExactWeight
  BY <1>2 DEF ExactWeight
<1> QED BY <1>1, <1>2, <1>3, FirstFits DEF Reservoir

LEMMA DrawStep == ASSUME Reservoir, NEW word \in Words, Draw(word) PROVE Reservoir'
<1>1. k \in Hwt .. Degree - 1 /\ polys' = polys
  BY HwtSizes DEF Draw, Reservoir
<1>2. ExactWeight'
  BY <1>1 DEF Reservoir, ExactWeight, Represents
<1>3. CASE UNCHANGED <<hitted, k>>
  BY <1>1, <1>2, <1>3 DEF Reservoir
<1>4. CASE hitted' = Place(hitted, k, word) /\ k' = k + 1
  <2>1. k' \in Hwt .. Degree
    BY <1>1, <1>4, HwtSizes
  <2>2. hitted \in [0 .. Hwt - 1 -> Positions] /\ k \in Positions /\ k \in Int
    BY <1>1, HwtSizes DEF Reservoir, Reservoirs, Positions
  <2>3. CASE word % k < Hwt
    <3>1. hitted' = [hitted EXCEPT ![word % k] = k]
      BY <1>4, <2>3 DEF Place
    <3>2. hitted' \in Reservoirs
      BY <2>2, <3>1 DEF Reservoirs
    <3>3. \A j \in 0 .. Hwt - 1 : hitted'[j] = IF j = word % k THEN k ELSE hitted[j]
      BY <2>2, <3>1
    <3>4. \A j \in 0 .. Hwt - 1 : hitted[j] < k /\ hitted[j] \in Int
      BY <2>2 DEF Reservoir, Positions
    <3>5. \A j \in 0 .. Hwt - 1 : hitted'[j] < k'
      BY <1>4, <2>2, <3>3, <3>4
    <3>6. \A j, l \in 0 .. Hwt - 1 : hitted'[j] = hitted'[l] => j = l
      <4> TAKE j, l \in 0 .. Hwt - 1
      <4>1. hitted[j] # k /\ hitted[l] # k /\ (hitted[j] = hitted[l] => j = l)
        BY <2>2, <3>4 DEF Reservoir
      <4> QED BY <3>3, <4>1
    <3> QED BY <1>1, <1>2, <2>1, <3>2, <3>5, <3>6 DEF Reservoir
  <2>4. CASE ~(word % k < Hwt)
    <3>1. hitted' = hitted
      BY <1>4, <2>4 DEF Place
    <3>2. \A j \in 0 .. Hwt - 1 : hitted'[j] < k'
      <4>1. \A j \in 0 .. Hwt - 1 : hitted[j] < k /\ hitted[j] \in Int
        BY <2>2 DEF Reservoir, Positions
      <4> QED BY <1>4, <2>2, <3>1, <4>1
    <3> QED BY <1>1, <1>2, <2>1, <3>1, <3>2 DEF Reservoir
  <2> QED BY <2>3, <2>4
<1> QED BY <1>3, <1>4 DEF Draw

\* The reservoir is read as a set of Hwt positions.
LEMMA HitCounted == ASSUME Reservoir PROVE Hit \in SUBSET Positions /\ Cardinality(Hit) = Hwt
<1>1. hitted \in [0 .. Hwt - 1 -> Positions]
  BY DEF Reservoir, Reservoirs
<1>2. Hit = {hitted[j] : j \in 0 .. Hwt - 1}
  BY <1>1 DEF Hit
<1>3. hitted \in [0 .. Hwt - 1 -> Hit] /\ Hit \in SUBSET Positions
  BY <1>1, <1>2
<1>4. \A b \in Hit : \E j \in 0 .. Hwt - 1 : hitted[j] = b
  BY <1>2
<1>5. IsFiniteSet(0 .. Hwt - 1) /\ Cardinality(0 .. Hwt - 1) = Hwt
  <2>1. PICK n \in Nat \ {0} : n = Hwt
    BY HwtSizes
  <2>2. IsFiniteSet(0 .. n - 1) /\ Cardinality(0 .. n - 1) = n
    BY FS_Interval
  <2> QED BY <2>1, <2>2
<1>6. \A j, l \in 0 .. Hwt - 1 : hitted[j] = hitted[l] => j = l
  BY DEF Reservoir
<1>7. Cardinality(Hit) = Cardinality(0 .. Hwt - 1)
  <2>1. PICK g \in [0 .. Hwt - 1 -> Hit] : g = hitted
    BY <1>3
  <2>2. PICK T : T = Hit
    OBVIOUS
  <2>3. Cardinality(T) = Cardinality(0 .. Hwt - 1)
    BY <1>4, <1>5, <1>6, <2>1, <2>2, Counted
  <2> QED BY <2>2, <2>3
<1> QED BY <1>3, <1>5, <1>7

LEMMA SmallResidues ==
  ASSUME NEW p \in Nat, p > 2
  PROVE  0 % p = 0 /\ 1 % p = 1 /\ (-1) % p = p - 1
<1>1. p \in Nat \ {0} /\ 0 \in 0 .. p - 1 /\ 1 \in 0 .. p - 1 /\ p - 1 \in 0 .. p - 1
  OBVIOUS
<1>2. ASSUME NEW e \in 0 .. p - 1, NEW q \in Int PROVE (e + p * q) % p = e
  BY <1>1, Quotient
<1>3. (0 + p * 0) % p = 0 /\ (1 + p * 0) % p = 1 /\ ((p - 1) + p * (-1)) % p = p - 1
  BY <1>1, <1>2
<1>4. 0 + p * 0 = 0 /\ 1 + p * 0 = 1 /\ (p - 1) + p * (-1) = -1
  OBVIOUS
<1> QED BY <1>3, <1>4

LEMMA WriteStep ==
  ASSUME Reservoir, NEW rnd \in [0 .. Hwt - 1 -> Words], Write(rnd)
  PROVE  Reservoir'
<1> DEFINE new == [x \in Slots |-> IF x[2] \in Hit
                                     THEN Signed(SignWord(rnd, x[1], x[2]), Primes[x]) ELSE 0]
           g == [n \in Positions |-> IF n \notin Hit THEN 0
                                     ELSE IF (rnd[Rank(n)] \div 2) % 2 = 1 THEN 1 ELSE -1]
<1>1. polys' = Append(polys, new)
  BY DEF Write
<1>2. g \in [Positions -> -1 .. 1] /\ \A n \in Positions : g[n] # 0 <=> n \in Hit
  OBVIOUS
<1>3. L1(g) = Hwt
  <2> HIDE DEF g
  <2> QED BY <1>2, HitCounted, TernaryWeight
<1>5. ASSUME NEW x \in Slots PROVE new[x] = g[x[2]] % Primes[x] /\ new[x] \in Nat
  <2>1. x[2] \in Positions /\ Primes[x] \in Nat /\ Primes[x] > 2
    BY HwtSizes
  <2>2. new[x] = IF x[2] \notin Hit THEN 0
                 ELSE IF (rnd[Rank(x[2])] \div 2) % 2 = 1 THEN 1 ELSE Primes[x] - 1
    BY DEF Signed, SignWord
  <2>3. g[x[2]] = IF x[2] \notin Hit THEN 0
                  ELSE IF (rnd[Rank(x[2])] \div 2) % 2 = 1 THEN 1 ELSE -1
    BY <2>1
  <2>4. 0 % Primes[x] = 0 /\ 1 % Primes[x] = 1 /\ (-1) % Primes[x] = Primes[x] - 1
    BY <2>1, SmallResidues
  <2> HIDE DEF new, g
  <2> QED BY <2>1, <2>2, <2>3, <2>4
<1>6. new \in [Slots -> Nat]
  BY <1>5
<1> HIDE DEF new, g
<1>7. Represents(new, g)
  BY <1>5 DEF Represents
<1>8. polys' \in Seq([Slots -> Nat]) /\ Len(polys') = Len(polys) + 1
  BY <1>1, <1>6 DEF Reservoir
<1>9. \A j \in 1 .. Len(polys') : polys'[j] = IF j = Len(polys) + 1 THEN new ELSE polys[j]
  BY <1>1, <1>6 DEF Reservoir
<1>10. ExactWeight'
  <2> SUFFICES ASSUME NEW j \in 1 .. Len(polys')
               PROVE  \E h \in [Positions -> -1 .. 1] : Represents(polys'[j], h) /\ L1(h) = Hwt
    BY DEF ExactWeight, Represents
  <2>1. CASE j = Len(polys) + 1
    BY <1>2, <1>3, <1>7, <1>9, <2>1
  <2>2. CASE j # Len(polys) + 1
    <3>1. Len(polys) \in Nat
      BY DEF Reservoir
    <3>2. j \in 1 .. Len(polys)
      BY <1>8, <2>2, <3>1
    <3> QED BY <1>9, <2>2, <3>2 DEF Reservoir, ExactWeight
  <2> QED BY <2>1, <2>2
<1>11. CASE hitted' = First /\ k' = Hwt
  BY <1>8, <1>10, <1>11, FirstFits DEF Reservoir
<1>12. CASE UNCHANGED <<hitted, k>>
  BY <1>8, <1>10, <1>12 DEF Reservoir
<1> QED BY <1>11, <1>12 DEF Write

\* Whatever else changes: a step that leaves these three alone.
LEMMA ReservoirKept ==
  ASSUME Reservoir, UNCHANGED <<hitted, k, polys>> PROVE Reservoir'
BY DEF Reservoir, ExactWeight, Represents

LEMMA HwtStep == ASSUME Reservoir, [Next]_vars PROVE Reservoir'
<1>1. CASE \E word \in Words : Draw(word)
  BY <1>1, DrawStep
<1>2. CASE \E rnd \in [0 .. Hwt - 1 -> Words] : Write(rnd)
  BY <1>2, WriteStep
<1>3. CASE Subtract
  BY <1>3, ReservoirKept DEF Subtract
<1>4. CASE UNCHANGED vars
  BY <1>4, ReservoirKept DEF vars
<1> QED BY <1>1, <1>2, <1>3, <1>4 DEF Next, Stopped
-----------------------------------------------------------------------------
\* A byte of a multiple of four values: bit 1 is set in half of them.
LEMMA HalfOfBytes ==
  ASSUME NEW s \in {0, 1}
  PROVE  2 * Cardinality({b \in 0 .. rho : (b \div 2) % 2 = s}) = rho + 1
<1>1. PICK R \in Nat : R = rho /\ R % 4 = 3
  BY SamplersAssumption
<1>2. PICK n \in Nat : R + 1 = 4 * n
  <2>1. (R + 1) % 4 = 0 /\ R + 1 = 4 * ((R + 1) \div 4) /\ (R + 1) \div 4 \in Nat
    BY <1>1
  <2> QED BY <2>1
<1> DEFINE All == 0 .. 4 * n - 1
           Clear == {x \in All : x % 4 < 2 /\ x \div 4 < n}
           Set == {b \in 0 .. R : (b \div 2) % 2 = 1}
<1>3. Cardinality(Clear) = 2 * n
  <2>1. 4 \in Nat \ {0} /\ 2 \in 0 .. 4 /\ n \in 0 .. n
    BY <1>2
  <2> QED BY <2>1, Rectangle
<1>4. 0 .. R = All
  BY <1>1, <1>2
<1>5. \A b \in All : (b \div 2) % 2 \in {0, 1} /\ ((b \div 2) % 2 = 0 <=> b % 4 < 2) /\ b \div 4 < n
  BY <1>2
<1>6. {b \in 0 .. R : (b \div 2) % 2 = 0} = Clear
  BY <1>4, <1>5
<1>7. Set = All \ Clear
  BY <1>4, <1>5
<1>8. IsFiniteSet(All) /\ Cardinality(All) = 4 * n
  <2>1. 0 \in Int /\ 4 * n - 1 \in Int
    BY <1>2
  <2> QED BY <1>2, <2>1, FS_Interval
<1>9. All \cap Clear = Clear
  OBVIOUS
<1> HIDE DEF All, Clear, Set
<1>10. Cardinality(Set) = 4 * n - 2 * n
  <2>1. Cardinality(All \ Clear) = Cardinality(All) - Cardinality(All \cap Clear)
    BY <1>8, FS_Difference
  <2> QED BY <1>3, <1>7, <1>8, <1>9, <2>1
<1>11. CASE s = 0
  <2>1. {b \in 0 .. rho : (b \div 2) % 2 = s} = Clear
    BY <1>1, <1>6, <1>11
  <2> DEFINE N == Cardinality({b \in 0 .. rho : (b \div 2) % 2 = s})
  <2>2. N = 2 * n
    BY <1>3, <2>1
  <2> HIDE DEF N
  <2>3. 2 * N = rho + 1
    BY <1>1, <1>2, <2>2
  <2> QED BY <2>3 DEF N
<1>12. CASE s = 1
  <2>1. {b \in 0 .. rho : (b \div 2) % 2 = s} = Set
    BY <1>1, <1>12 DEF Set
  <2>2. Cardinality(Set) = 2 * n
    BY <1>10
  <2> DEFINE N == Cardinality({b \in 0 .. rho : (b \div 2) % 2 = s})
  <2>3. N = 2 * n
    BY <2>1, <2>2
  <2> HIDE DEF N
  <2>4. 2 * N = rho + 1
    BY <1>1, <1>2, <2>3
  <2> QED BY <2>4 DEF N
<1> QED BY <1>11, <1>12

\* What ZO_dist writes for a byte: 0, 1 or -1 as a residue.
LEMMA ZeroOneIs ==
  ASSUME NEW b \in Nat, NEW p \in Nat, p > 2
  PROVE  /\ (b \div 2) % 2 \in {0, 1}
         /\ ZeroOne(b, p) = IF b > rho THEN 0 ELSE IF (b \div 2) % 2 = 1 THEN 1 ELSE p - 1
<1>1. (b \div 2) % 2 \in {0, 1}
  OBVIOUS
<1>2. PICK R \in Nat : R = rho
  BY SamplersAssumption
<1>3. PICK s \in {0, 1} : s = (b \div 2) % 2
  BY <1>1
<1>4. ZeroOne(b, p) = IF b <= R THEN LET z == p - 1 + 2 * s IN IF z > p THEN z - p ELSE z ELSE 0
  BY <1>2, <1>3 DEF ZeroOne
<1>5. CASE s = 0
  BY <1>2, <1>3, <1>4, <1>5
<1>6. CASE s = 1
  BY <1>2, <1>3, <1>4, <1>6
<1> QED BY <1>1, <1>5, <1>6

LEMMA SignsBalanced ==
  ASSUME NEW p \in Nat, p > 2, NEW v \in {1, p - 1}
  PROVE  2 * Cardinality({b \in 0 .. ByteMax : ZeroOne(b, p) = v}) = rho + 1
<1>1. PICK s \in {0, 1} : s = IF v = 1 THEN 1 ELSE 0
  OBVIOUS
<1>2. rho \in 0 .. ByteMax /\ ByteMax \in Nat /\ rho \in Nat
  BY SamplersAssumption
<1>3. ASSUME NEW b \in 0 .. ByteMax
      PROVE  ZeroOne(b, p) = v <=> b \in 0 .. rho /\ (b \div 2) % 2 = s
  <2>1. PICK t \in {0, 1} : t = (b \div 2) % 2
    BY <1>2, ZeroOneIs
  <2>2. ZeroOne(b, p) = IF b > rho THEN 0 ELSE IF t = 1 THEN 1 ELSE p - 1
    BY <1>2, <2>1, ZeroOneIs
  <2> QED BY <1>1, <1>2, <2>1, <2>2
<1>4. {b \in 0 .. ByteMax : ZeroOne(b, p) = v} = {b \in 0 .. rho : (b \div 2) % 2 = s}
  BY <1>2, <1>3
<1> QED BY <1>4, HalfOfBytes

\* The mask is the next power of two above the modulus, at most twice as large.
LEMMA MaskIs ==
  ASSUME NEW x \in Slots
  PROVE  LET p == Primes[x] M == MaskRange(p) IN M \in Nat /\ p < M /\ M <= 2 * p
<1>1. PICK p \in Nat : p = Primes[x] /\ p > 2
  BY HwtSizes
<1>2. 2^0 = 1 /\ \A l \in 0 .. p : 2^(l + 1) = 2 * 2^l
  BY <1>1, CoinPowers, SamplersAssumption
<1> DEFINE Grows == {l \in 0 .. p : 2^l \in Nat /\ 2^l > l}
<1>3. 0 .. p \subseteq Grows
  <2>1. 0 \in Grows
    BY <1>2
  <2>2. ASSUME NEW l \in 0 .. p - 1, l \in Grows PROVE l + 1 \in Grows
    <3>1. 2^l \in Nat /\ 2^l > l /\ 2^(l + 1) = 2 * 2^l
      BY <1>2, <2>2
    <3>2. 2^(l + 1) \in Nat /\ 2^(l + 1) > l + 1
      BY <3>1
    <3> QED BY <3>2
  <2> HIDE DEF Grows
  <2> QED BY <2>1, <2>2, Induction
<1> DEFINE Above == {l \in 0 .. p : 2^l > p}
<1>4. PICK l \in Above : \A j \in Above : l <= j
  <2>1. p \in Above
    BY <1>3
  <2>2. Above \in SUBSET Nat /\ Above # {}
    BY <2>1
  <2> HIDE DEF Above
  <2> QED BY <2>2, LeastNumber
<1>5. l # 0 /\ l - 1 \in 0 .. p
  <2>1. l \in 0 .. p /\ 2^l > p
    BY <1>4
  <2>2. ~ (2^0 > p)
    BY <1>1, <1>2
  <2>3. l # 0
    BY <2>1, <2>2
  <2> QED BY <2>1, <2>3
<1>6. 2^(l - 1) \in Nat /\ 2^(l - 1) <= p /\ 2^l \in Nat
  <2>1. l - 1 \notin Above
    BY <1>4, <1>5
  <2> QED BY <1>3, <1>4, <1>5, <2>1
<1>7. 2^l = 2 * 2^(l - 1)
  <2>1. (l - 1) + 1 = l
    BY <1>5
  <2> QED BY <1>2, <1>5, <2>1
<1>8. 2^l > p /\ 2^l <= 2 * p /\ 2^l \in {2^j : j \in 0 .. p}
  BY <1>4, <1>6, <1>7
<1> DEFINE M == MaskRange(p)
<1>9. M \in {2^j : j \in 0 .. p} /\ M > p /\ M <= 2 * p
  BY <1>8 DEF MaskRange
<1>10. M \in Nat
  <2> HIDE DEF M
  <2> QED BY <1>3, <1>9
<1> QED BY <1>1, <1>9, <1>10

\* What uniform() makes of a word, and from how many words of the mask.
LEMMA UniformIs ==
  ASSUME NEW x \in Slots
  PROVE  /\ \A word \in Nat : Uniform(word, Primes[x]) \in Residues(x)
         /\ \A v \in Residues(x) :
              MaskedWords(v, Primes[x]) = IF v < MaskRange(Primes[x]) - Primes[x] THEN 2 ELSE 1
<1>1. PICK p \in Nat : p = Primes[x] /\ p > 2
  BY HwtSizes
<1>2. PICK M \in Nat : M = MaskRange(p) /\ p < M /\ M <= 2 * p
  BY <1>1, MaskIs
<1>3. Residues(x) = 0 .. p - 1
  BY <1>1 DEF Residues
<1>4. \A word : Uniform(word, p) = IF word % M >= p THEN (word % M) - p ELSE word % M
  BY <1>2 DEF Uniform
<1>5. ASSUME NEW word \in Nat PROVE Uniform(word, p) \in 0 .. p - 1
  <2>1. word % M \in 0 .. M - 1
    BY <1>2
  <2>2. PICK y \in 0 .. M - 1 : y = word % M
    BY <2>1
  <2>3. Uniform(word, p) = IF y >= p THEN y - p ELSE y
    BY <1>4, <2>2
  <2> QED BY <1>2, <2>3
<1>6. ASSUME NEW v \in 0 .. p - 1
      PROVE  Cardinality({word \in 0 .. M - 1 : Uniform(word, p) = v}) = IF v < M - p THEN 2 ELSE 1
  <2> DEFINE S == {word \in 0 .. M - 1 : Uniform(word, p) = v}
  <2>1. ASSUME NEW word \in 0 .. M - 1 PROVE word \in S <=> word = v \/ word = v + p
    <3>1. word % M = word
      <4>1. (word + M * 0) % M = word /\ word + M * 0 = word
        BY <1>2, Quotient, SMTT(30)
      <4> QED BY <4>1
    <3>2. Uniform(word, p) = IF word >= p THEN word - p ELSE word
      BY <1>4, <3>1
    <3> QED BY <1>2, <3>2
  <2>2. v \in 0 .. M - 1 /\ v + p # v
    BY <1>1, <1>2
  <2> HIDE DEF S
  <2>3. S = IF v < M - p THEN {v, v + p} ELSE {v}
    <3>1. S \subseteq 0 .. M - 1
      BY DEF S
    <3>2. v + p \in 0 .. M - 1 <=> v < M - p
      BY <1>1, <1>2
    <3> QED BY <2>1, <2>2, <3>1, <3>2
  <2>4. IsFiniteSet({v}) /\ Cardinality({v}) = 1
    BY FS_Singleton
  <2>5. Cardinality({v} \cup {v + p}) = 2
    <3>1. v + p \notin {v}
      BY <2>2
    <3>2. Cardinality({v} \cup {v + p}) = Cardinality({v}) + 1
      BY <2>4, <3>1, FS_AddElement, ZenonT(30)
    <3>3. Cardinality({v} \cup {v + p}) = 1 + 1
      BY <2>4, <3>2, Zenon
    <3> QED BY <3>3
  <2>6. {v} \cup {v + p} = {v, v + p}
    OBVIOUS
  <2>7. Cardinality(S) = IF v < M - p THEN 2 ELSE 1
    BY <2>3, <2>4, <2>5, <2>6
  <2> QED BY <2>7 DEF S
<1>7. \A v \in 0 .. p - 1 : MaskedWords(v, p) = IF v < M - p THEN 2 ELSE 1
  BY <1>2, <1>6 DEF MaskedWords
<1> QED BY <1>1, <1>2, <1>3, <1>5, <1>7

-----------------------------------------------------------------------------
LEMMA TernaryStep ==
  ASSUME NEW rnd \in [Positions -> 0 .. ByteMax], Ternary(rnd)
  PROVE  OutcomesCounted'
<1> DEFINE poly == [x \in Slots |-> ZeroOne(rnd[x[2]], Primes[x])]
           g == [n \in Positions |-> IF rnd[n] > rho THEN 0
                                     ELSE IF (rnd[n] \div 2) % 2 = 1 THEN 1 ELSE -1]
<1>1. written' = <<poly>> /\ call' = "ZO_dist"
  BY DEF Ternary
<1>2. \A n \in Positions : rnd[n] \in Nat
  BY SamplersAssumption
<1>3. g \in [Positions -> -1 .. 1]
  OBVIOUS
<1>4. ASSUME NEW x \in Slots PROVE poly[x] \in Residues(x) /\ poly[x] = g[x[2]] % Primes[x]
  <2>1. PICK n \in Positions, p \in Nat : n = x[2] /\ p = Primes[x] /\ p > 2
    BY HwtSizes
  <2>2. PICK b \in Nat : b = rnd[n]
    BY <1>2
  <2>3. poly[x] = IF b > rho THEN 0 ELSE IF (b \div 2) % 2 = 1 THEN 1 ELSE p - 1
    BY <2>1, <2>2, ZeroOneIs
  <2>4. g[n] = IF b > rho THEN 0 ELSE IF (b \div 2) % 2 = 1 THEN 1 ELSE -1
    BY <2>2
  <2> HIDE DEF poly, g
  <2>5. 0 % p = 0 /\ 1 % p = 1 /\ (-1) % p = p - 1
    BY <2>1, SmallResidues
  <2>6. poly[x] \in 0 .. p - 1 /\ poly[x] = g[n] % p
    BY <2>1, <2>3, <2>4, <2>5
  <2> QED BY <2>1, <2>6 DEF Residues
<1> HIDE DEF poly, g
<1>5. Represents(poly, g)
  BY <1>4 DEF Represents
<1>6. \A x \in Slots : \A v \in {1, Primes[x] - 1} :
        2 * Bytes(v, Primes[x]) = rho + 1
  BY HwtSizes, SignsBalanced DEF Bytes
<1>7. written'[1] = poly
  BY <1>1
<1> QED BY <1>1, <1>3, <1>4, <1>5, <1>6, <1>7 DEF OutcomesCounted

LEMMA UniformStep ==
  ASSUME NEW rnd \in UniformInputs, Uniformly(rnd)
  PROVE  OutcomesCounted'
<1> DEFINE poly == [x \in Slots |-> Uniform(rnd[x], Primes[x])]
<1>1. written' = <<poly>> /\ call' = "uniform" /\ written'[1] = poly
  BY DEF Uniformly
<1>2. \A x \in Slots : rnd[x] \in Nat
  BY SamplersAssumption
<1>3. \A x \in Slots : poly[x] \in Residues(x)
  BY <1>2, UniformIs
<1> HIDE DEF poly
<1> QED BY <1>1, <1>3, UniformIs DEF OutcomesCounted
-----------------------------------------------------------------------------
LEMMA Sizes ==
  /\ EntryBytes \in Nat \ {0} /\ LowBytes \in Nat \ {0} /\ Grid \in Nat \ {0}
  /\ 2 * LowBytes - 1 \in Nat
BY SampleZAssumption DEF EntryBytes

LEMMA Names ==
  /\ DOMAIN Unused = Drawn \cup ({"norm"} \X (0 .. 1))
  /\ \A n \in 0 .. 1 : <<"norm", n>> \in DOMAIN Unused
  /\ \A n \in 0 .. 2 * EntryBytes - 1 : <<"r", n>> \in DOMAIN Unused
BY DEF Unused, Drawn

LEMMA InitAhead == SampleZInit => UnusedAhead
<1> SUFFICES ASSUME SampleZInit PROVE UnusedAhead
  OBVIOUS
<1>1. uses \in [DOMAIN Unused -> 0 .. 1]
  BY DEF SampleZInit, Unused
<1>2. head = 2 /\ zpc = "start"
  BY DEF SampleZInit
<1> QED BY <1>1, <1>2 DEF UnusedAhead

\* A step that leaves the history and the indices alone, and starts no test.
LEMMA IdleStep ==
  ASSUME UnusedAhead, uses' = uses, head' = head, zpc' # "test"
  PROVE  UnusedAhead'
BY DEF UnusedAhead

LEMMA CoinsStep ==
  ASSUME UnusedAhead, NEW entry0, NEW entry1, Coins(entry0, entry1)
  PROVE  UnusedAhead'
<1> DEFINE new == {"r"} \X (0 .. 2 * EntryBytes - 1)
<1>1. uses' = Fresh(uses, new) /\ head' = head /\ i' = 0
  BY DEF Coins
<1>2. DOMAIN uses = DOMAIN Unused
  BY DEF UnusedAhead
<1>3. \A b \in DOMAIN Unused : uses'[b] = IF b \in new THEN 0 ELSE uses[b]
  BY <1>1, <1>2 DEF Fresh
<1>4. uses' \in [DOMAIN Unused -> 0 .. 1]
  BY <1>1, <1>2 DEF Fresh, UnusedAhead
<1>5. head' \in 0 .. 2 /\ \A n \in 0 .. 1 : n >= head' => uses'[<<"norm", n>>] = 0
  BY <1>1, <1>3, Names DEF UnusedAhead
<1>6. \A n \in i' * EntryBytes .. 2 * EntryBytes - 1 : uses'[<<"r", n>>] = 0
  <2>1. i' * EntryBytes = 0
    BY <1>1, Sizes
  <2> QED BY <1>3, <2>1, Names
<1>7. i' \in 0 .. 1
  BY <1>1
<1> QED BY ONLY <1>4, <1>5, <1>6, <1>7 DEF UnusedAhead

LEMMA DeviateStep ==
  ASSUME UnusedAhead, NEW n0, NEW n1, Deviate(n0, n1)
  PROVE  UnusedAhead'
<1> DEFINE norms == {"norm"} \X (0 .. 1)
           u == Fresh(uses, UniformBytes \cup norms)
<1>1. /\ zpc = "test" /\ zpc' = "test" /\ i' = i /\ head' = 0
      /\ uses' = [b \in DOMAIN u |-> u[b] + (IF b \in UniformBytes THEN 1 ELSE 0)]
  BY DEF Deviate
<1>2. DOMAIN uses = DOMAIN Unused
  BY DEF UnusedAhead
<1>3. \A b \in DOMAIN Unused :
        uses'[b] = IF b \in UniformBytes THEN 1 ELSE IF b \in norms THEN 0 ELSE uses[b]
  <2>1. /\ DOMAIN u = DOMAIN Unused
        /\ \A b \in DOMAIN Unused : u[b] = IF b \in UniformBytes \cup norms THEN 0 ELSE uses[b]
    BY <1>2 DEF Fresh
  <2>2. \A b \in DOMAIN Unused : uses[b] \in 0 .. 1
    BY DEF UnusedAhead
  <2> HIDE DEF u, norms
  <2> QED BY <1>1, <2>1, <2>2
<1>4. uses' \in [DOMAIN Unused -> 0 .. 1]
  <2>1. \A b \in DOMAIN Unused : uses'[b] \in 0 .. 1
    BY <1>3 DEF UnusedAhead
  <2>2. uses' = [b \in DOMAIN Unused |-> uses'[b]]
    BY <1>1, <1>2 DEF Fresh
  <2> QED BY <2>1, <2>2
<1>5. head' \in 0 .. 2 /\ \A n \in 0 .. 1 : n >= head' => uses'[<<"norm", n>>] = 0
  <2>1. \A n \in 0 .. 1 : <<"norm", n>> \in norms /\ <<"norm", n>> \notin UniformBytes
    BY DEF UniformBytes
  <2>2. \A n \in 0 .. 1 : uses'[<<"norm", n>>] = 0
    BY <1>3, <2>1, Names
  <2>3. head' \in 0 .. 2
    BY <1>1
  <2> QED BY <2>2, <2>3
<1>6. \A n \in i' * EntryBytes .. 2 * EntryBytes - 1 : uses'[<<"r", n>>] = 0
  <2> SUFFICES ASSUME NEW n \in i * EntryBytes .. 2 * EntryBytes - 1
               PROVE  uses'[<<"r", n>>] = 0
    BY <1>1
  <2>1. uses[<<"r", n>>] = 0
    BY <1>1 DEF UnusedAhead
  <2>2. n \in 0 .. 2 * EntryBytes - 1
    BY <1>1, Sizes DEF UnusedAhead
  <2> QED BY <1>3, <2>1, <2>2, Names DEF UniformBytes
<1>7. i' \in 0 .. 1
  BY <1>1 DEF UnusedAhead
<1> QED BY ONLY <1>4, <1>5, <1>6, <1>7 DEF UnusedAhead

LEMMA TestStep == ASSUME UnusedAhead, Test PROVE UnusedAhead'
<1> DEFINE used == CoinBytes \cup {<<"norm", head>>}
<1>1. zpc = "test" /\ head \in 0 .. 1 /\ i \in 0 .. 1 /\ uses' = UsedOnceMore(used)
  BY DEF Test, UnusedAhead
<1>2. DOMAIN uses = DOMAIN Unused
  BY DEF UnusedAhead
<1>3. \A b \in DOMAIN Unused : uses'[b] = uses[b] + (IF b \in used THEN 1 ELSE 0)
  BY <1>1, <1>2 DEF UsedOnceMore
<1>4. \A b \in used : b \in DOMAIN Unused => uses[b] = 0
  <2>1. uses[<<"norm", head>>] = 0
    BY <1>1 DEF UnusedAhead
  <2>2. ASSUME NEW n \in i * EntryBytes .. (i + 1) * EntryBytes - 1
        PROVE  uses[<<"r", n>>] = 0
    <3>1. n \in i * EntryBytes .. 2 * EntryBytes - 1
      BY <1>1, Sizes
    <3> QED BY <1>1, <3>1 DEF UnusedAhead
  <2> QED BY <2>1, <2>2 DEF CoinBytes
<1>5. uses' \in [DOMAIN Unused -> 0 .. 1]
  <2>1. \A b \in DOMAIN Unused : uses[b] \in 0 .. 1
    BY DEF UnusedAhead
  <2>2. uses' = [b \in DOMAIN Unused |-> uses'[b]]
    BY <1>1, <1>2 DEF UsedOnceMore
  <2> HIDE DEF used
  <2> QED BY <1>3, <1>4, <2>1, <2>2
<1>6. CASE head' = 2 /\ zpc' = "returned"
  BY <1>5, <1>6 DEF UnusedAhead
<1>7. CASE /\ head' = head + 1 /\ i' = i + 1
           /\ zpc' = IF i + 1 < 2 THEN "test" ELSE "coins"
  <2>1. \A n \in 0 .. 1 : n >= head' => uses'[<<"norm", n>>] = 0
    <3> SUFFICES ASSUME NEW n \in 0 .. 1, n >= head' PROVE uses'[<<"norm", n>>] = 0
      OBVIOUS
    <3>1. n >= head /\ n # head
      BY <1>1, <1>7
    <3>2. <<"norm", n>> \notin used
      BY <3>1 DEF CoinBytes
    <3>3. uses[<<"norm", n>>] = 0
      BY <3>1 DEF UnusedAhead
    <3> QED BY <1>3, <3>2, <3>3, Names
  <2>2. ASSUME zpc' = "test", NEW n \in i' * EntryBytes .. 2 * EntryBytes - 1
        PROVE  uses'[<<"r", n>>] = 0
    <3>1. i = 0 /\ n \in EntryBytes .. 2 * EntryBytes - 1
      BY <1>1, <1>7, <2>2, Sizes
    <3>2. uses[<<"r", n>>] = 0 /\ n \in 0 .. 2 * EntryBytes - 1
      BY <1>1, <3>1, Sizes DEF UnusedAhead
    <3>3. <<"r", n>> \notin used
      BY <3>1, Sizes DEF CoinBytes
    <3> QED BY <1>3, <3>2, <3>3, Names
  <2>3. head' \in 0 .. 2 /\ (zpc' = "test" => i' \in 0 .. 1)
    BY <1>1, <1>7
  <2> QED BY <1>5, <2>1, <2>2, <2>3 DEF UnusedAhead
<1> QED BY <1>6, <1>7 DEF Test, Return

LEMMA NextAhead == UnusedAhead /\ [SampleZNext]_zvars => UnusedAhead'
<1> SUFFICES ASSUME UnusedAhead, [SampleZNext]_zvars PROVE UnusedAhead'
  OBVIOUS
<1>1. CASE Begin
  BY <1>1, IdleStep DEF Begin
<1>2. CASE \E entry \in Entries : Center(entry)
  <2>1. uses' = uses /\ head' \in {head, 2} /\ zpc' # "test"
    BY <1>2 DEF Center, Return
  <2> QED BY <2>1 DEF UnusedAhead
<1>3. CASE \E entry0, entry1 \in Entries : Coins(entry0, entry1)
  BY <1>3, CoinsStep
<1>4. CASE \E n0, n1 \in Deviates : Deviate(n0, n1)
  BY <1>4, DeviateStep
<1>5. CASE Test
  BY <1>5, TestStep
<1>6. CASE UNCHANGED zvars
  BY <1>6 DEF zvars, UnusedAhead, Unused, Drawn, EntryBytes
<1> QED BY <1>1, <1>2, <1>3, <1>4, <1>5, <1>6 DEF SampleZNext

-----------------------------------------------------------------------------
\* The arguments stay those of the call, the centre is only tested where its
\* probability is in reach of the coins, and deviates are those drawn.
Arguments ==
  /\ sigma \in Sigmas /\ center \in Centers
  /\ zpc = "center" => rc.e >= -(L + 1)
  /\ head < 2 => \A n \in 0 .. 1 : norm[n + 1] \in Deviates

\* The probability of the centre is in the table.
LEMMA TestedCenter ==
  ASSUME sigma \in Sigmas, center \in Centers
  PROVE  rc \in Probability /\ rc.e \in Int
<1>1. c \in Int /\ -Grid <= 2 * c /\ 2 * c <= Grid
  BY CenterDistance, SampleZAssumption
<1>2. (IF c < 0 THEN -c ELSE c) \in 0 .. Grid \div 2
  <2>1. PICK G \in Nat \ {0} : G = Grid
    BY CoinSizes
  <2> QED BY <1>1, <2>1
<1>3. rc \in Probability
  BY <1>2, SampleZAssumption DEF rc
<1>4. L + 4 \in Nat
  BY CoinSizes
<1> QED BY <1>3, <1>4 DEF Probability, Float

LEMMA InitArguments == SampleZInit => Arguments
BY DEF SampleZInit, Arguments

LEMMA ArgumentsStep == ASSUME Arguments, [SampleZNext]_zvars PROVE Arguments'
<1>1. CASE Begin
  <2>1. rc' = rc
    BY <1>1 DEF Begin, rc, c, cr
  <2>2. rc.e < -(L + 1) => zpc' = "aborted"
    BY <1>1 DEF Begin
  <2>3. zpc' = "center" => ~(rc.e < -(L + 1))
    BY <1>1 DEF Begin
  <2>4. rc.e \in Int /\ L \in Int
    BY TestedCenter, CoinSizes DEF Arguments
  <2>5. zpc' = "center" => rc'.e >= -(L + 1)
    BY <2>1, <2>3, <2>4
  <2> QED BY <1>1, <2>5 DEF Begin, Arguments
<1>2. CASE \E entry \in Entries : Center(entry)
  BY <1>2 DEF Center, Return, Arguments
<1>3. CASE \E entry0, entry1 \in Entries : Coins(entry0, entry1)
  BY <1>3 DEF Coins, Arguments
<1>4. CASE \E n0, n1 \in Deviates : Deviate(n0, n1)
  <2>1. PICK n0, n1 \in Deviates : Deviate(n0, n1)
    BY <1>4
  <2>2. norm' = <<n0, n1>> /\ zpc = "test" /\ zpc' = "test" /\ UNCHANGED <<sigma, center>>
    BY <2>1 DEF Deviate
  <2>3. \A n \in 0 .. 1 : norm'[n + 1] \in Deviates
    BY <2>2
  <2> QED BY <2>2, <2>3 DEF Arguments
<1>5. CASE Test
  <2>1. CASE Return(Candidate(norm[head + 1]) + cr) /\ zpc' = "returned"
    BY <2>1 DEF Return, Arguments
  <2>2. CASE head' = head + 1 /\ zpc' # "center" /\ UNCHANGED <<sigma, center, norm>>
    <3>1. head < 2
      BY <1>5 DEF Test
    <3> QED BY <2>2, <3>1 DEF Arguments
  <2> QED BY <1>5, <2>1, <2>2 DEF Test
<1>6. CASE UNCHANGED zvars
  BY <1>6 DEF zvars, Arguments, rc, c, cr
<1> QED BY <1>1, <1>2, <1>3, <1>4, <1>5, <1>6 DEF SampleZNext

LEMMA CoinIsExact == ASSUME UnusedAhead, Arguments PROVE CoinExact
<1>1. ASSUME zpc = "center" PROVE Tested \in Probability /\ Tested.e >= -(L + 1)
  BY <1>1, TestedCenter DEF Tested, Arguments
<1>2. ASSUME zpc = "test", head < 2 PROVE Tested \in Probability /\ Tested.e >= -(L + 1)
  <2>1. PICK n \in Deviates : n = norm[head + 1]
    <3>1. head \in 0 .. 1
      BY <1>2 DEF UnusedAhead
    <3> QED BY <1>2, <3>1 DEF Arguments
  <2>2. n \in AllDeviates /\ n \in Int /\ center \in Int
    BY SampleZAssumption DEF AllDeviates, Arguments
  <2>3. Excess(n) \in 0 .. Grid * (2 * Reach + Grid)
    <3>1. Excess(n) \in Nat /\ Excess(n) <= Grid * (2 * Reach + Grid)
      BY <2>2, AcceptanceIsProbability
    <3>2. Grid * (2 * Reach + Grid) \in Int
      BY CoinSizes
    <3> QED BY <3>1, <3>2
  <2>4. Exp[sigma][Excess(n)] \in Probability /\ Exp[sigma][Excess(n)].e >= -(L + 1)
    BY <2>3, SampleZAssumption DEF Arguments
  <2>5. Tested = Exp[sigma][Excess(n)]
    BY <1>2, <2>1 DEF Tested, rej
  <2> QED BY <2>4, <2>5
<1>3. ASSUME zpc = "center" \/ (zpc = "test" /\ head < 2)
      PROVE  /\ Tested.e >= -(L + 1)
             /\ Cardinality({entry \in Entries : cosac_comp(entry, Tested)}) = Tested.m * 2^(L + 1 + Tested.e)
  <2>1. PICK x \in Probability : x = Tested /\ x.e >= -(L + 1)
    BY <1>1, <1>2, <1>3
  <2>2. Cardinality({entry \in Entries : cosac_comp(entry, x)}) = x.m * 2^(L + 1 + x.e)
    BY <2>1, CoinPasses
  <2> QED BY <2>1, <2>2
<1> QED BY <1>3 DEF CoinExact

LEMMA GaussianStep == ASSUME UnusedAhead, Arguments PROVE SamplesGaussian
<1>1. center \in Int
  BY SampleZAssumption DEF Arguments
<1>2. DensityExact
  <2>1. CASE zpc = "center"
    BY <1>1, <2>1, DensityIsExact
  <2>2. CASE zpc # "center"
    BY <2>2 DEF DensityExact
  <2> QED BY <2>1, <2>2
<1> QED BY <1>2, CoinIsExact DEF SamplesGaussian
-----------------------------------------------------------------------------
\* The inductive invariant of a call, whichever sampler it is of.
SamplersInv == UnusedAhead /\ Arguments /\ Reservoir /\ OutcomesCounted

LEMMA InitSamplers == SamplersInit => SamplersInv
<1> SUFFICES ASSUME SamplersInit PROVE SamplersInv
  OBVIOUS
<1>1. Init /\ SampleZInit /\ written = << >>
  BY DEF SamplersInit
<1>2. OutcomesCounted
  BY <1>1 DEF OutcomesCounted
<1> QED BY <1>1, <1>2, InitAhead, InitArguments, HwtInit DEF SamplersInv

LEMMA NextSamplers == SamplersInv /\ [SamplersNext]_<<vars, zvars, svars>> => SamplersInv'
<1> SUFFICES ASSUME SamplersInv, [SamplersNext]_<<vars, zvars, svars>> PROVE SamplersInv'
  OBVIOUS
<1>1. [SampleZNext]_zvars => UnusedAhead' /\ Arguments'
  BY NextAhead, ArgumentsStep DEF SamplersInv
<1>2. [Next]_vars => Reservoir'
  BY HwtStep DEF SamplersInv
<1>3. UNCHANGED svars => OutcomesCounted'
  BY DEF svars, SamplersInv, OutcomesCounted, Represents
<1>4. CASE Challenge
  BY <1>1, <1>2, <1>3, <1>4 DEF Challenge, SamplersInv
<1>5. CASE Mask
  BY <1>1, <1>2, <1>3, <1>5 DEF Mask, SamplersInv
<1>6. CASE WordWise
  <2>1. CASE \E rnd \in [Positions -> 0 .. ByteMax] : Ternary(rnd)
    <3>1. UNCHANGED <<vars, zvars>> /\ OutcomesCounted'
      BY <2>1, TernaryStep DEF Ternary
    <3> QED BY <1>1, <1>2, <3>1 DEF SamplersInv
  <2>2. CASE \E rnd \in UniformInputs : Uniformly(rnd)
    <3>1. UNCHANGED <<vars, zvars>> /\ OutcomesCounted'
      BY <2>2, UniformStep DEF Uniformly
    <3> QED BY <1>1, <1>2, <3>1 DEF SamplersInv
  <2> QED BY <1>6, <2>1, <2>2 DEF WordWise
<1>7. CASE UNCHANGED <<vars, zvars, svars>>
  BY <1>1, <1>2, <1>3, <1>7 DEF SamplersInv
<1> QED BY <1>4, <1>5, <1>6, <1>7 DEF SamplersNext

THEOREM SamplersInvariant == SamplersSpec => []SamplersInv
<1>1. QED
  BY InitSamplers, NextSamplers, PTL DEF SamplersSpec

\* Every test of sample_z tosses a coin, and tests a deviate, that nothing else
\* was made from: coin and deviate offsets of both buffers never meet.
THEOREM TestsIndependent == SamplersSpec => []NothingReused
<1>1. SamplersInv => NothingReused
  BY DEF SamplersInv, UnusedAhead, NothingReused
<1>2. QED
  BY <1>1, SamplersInvariant, PTL

\* The coin of a test passes for exactly the share of its values that the
\* probability tested stands for, and the values and their acceptances make up
\* the discrete Gaussian, for every centre, grid and table of probabilities.
THEOREM GaussianSampled == SamplersSpec => []SamplesGaussian
<1>1. SamplersInv => SamplesGaussian
  BY GaussianStep DEF SamplersInv
<1>2. QED
  BY <1>1, SamplersInvariant, PTL

\* hwt_dist returns exactly Hwt signs, at the same places and with the same values
\* under every modulus, for every degree, weight and set of moduli.  How many words
\* are behind a choice of places it does not say; see FirstSetNever.
THEOREM WeightCorrect == SamplersSpec => []ExactWeight
<1>1. SamplersInv => ExactWeight
  BY DEF SamplersInv, Reservoir
<1>2. QED
  BY <1>1, SamplersInvariant, PTL

\* From the first accepted word on, the reservoir holds a position beyond the first
\* Hwt: candidate Hwt replaces one of them whatever the word is, and is itself
\* replaced by later candidates only.
Left == k > Hwt => \E j \in 0 .. Hwt - 1 : hitted[j] >= Hwt

LEMMA LeftStep == ASSUME Reservoir, Left, [Next]_vars PROVE Left'
<1>1. Hwt \in Nat \ {0} /\ k \in Nat /\ k >= Hwt
  BY HwtSizes DEF Reservoir
<1>2. ASSUME NEW word \in Words, Draw(word) PROVE Left'
  <2>1. CASE word \in Accepted(k)
    <3>1. hitted' = Place(hitted, k, word) /\ k' = k + 1
      BY <1>2, <2>1 DEF Draw
    <3>2. PICK m \in 0 .. k - 1 : m = word % k
      BY <1>1, HwtSizes DEF Words
    <3>3. CASE m < Hwt
      <4>1. hitted' = [hitted EXCEPT ![m] = k]
        BY <3>1, <3>2, <3>3 DEF Place
      <4>2. m \in 0 .. Hwt - 1 /\ hitted'[m] = k
        BY <1>1, <3>2, <3>3, <4>1 DEF Reservoir, Reservoirs
      <4> QED BY <1>1, <4>2 DEF Left
    <3>4. CASE ~ (m < Hwt)
      <4>1. hitted' = hitted /\ k > Hwt
        BY <1>1, <3>1, <3>2, <3>4 DEF Place
      <4> QED BY <4>1 DEF Left
    <3> QED BY <3>3, <3>4
  <2>2. CASE word \notin Accepted(k)
    BY <1>2, <2>2 DEF Draw, Left
  <2> QED BY <2>1, <2>2
<1>3. ASSUME NEW rnd \in [0 .. Hwt - 1 -> Words], Write(rnd) PROVE Left'
  <2>1. k' = Hwt \/ UNCHANGED <<hitted, k>>
    BY <1>3 DEF Write
  <2> QED BY <1>1, <2>1 DEF Left
<1>4. CASE Subtract
  BY <1>4 DEF Subtract, Left
<1>5. CASE UNCHANGED vars
  BY <1>5 DEF vars, Left
<1> QED BY <1>2, <1>3, <1>4, <1>5 DEF Next, Stopped

\* Against "uniformly select hwt coefficients" (core.hpp:363), for every degree and
\* every smaller weight: a finished selection is never the set of the first Hwt
\* positions, because candidate Hwt has Hwt words modulo Hwt to choose from.
THEOREM FirstSetNever ==
  SamplersSpec => [](pc = "scan" /\ k = Degree /\ Hwt < Degree => Hit # 0 .. Hwt - 1)
<1>1. SamplersInit => Left
  BY HwtSizes DEF SamplersInit, Init, Left
<1>2. SamplersInv /\ Left /\ [SamplersNext]_<<vars, zvars, svars>> => Left'
  <2> SUFFICES ASSUME SamplersInv, Left, [SamplersNext]_<<vars, zvars, svars>> PROVE Left'
    OBVIOUS
  <2>1. [Next]_vars
    BY DEF SamplersNext, Challenge, Mask, WordWise, Ternary, Uniformly
  <2> QED BY <2>1, LeftStep DEF SamplersInv
<1>3. SamplersInv /\ Left => (pc = "scan" /\ k = Degree /\ Hwt < Degree => Hit # 0 .. Hwt - 1)
  <2> SUFFICES ASSUME SamplersInv, Left, k = Degree, Hwt < Degree, Hit = 0 .. Hwt - 1 PROVE FALSE
    OBVIOUS
  <2>1. Hwt \in Nat /\ Degree \in Nat /\ hitted \in Reservoirs
    BY HwtSizes DEF SamplersInv, Reservoir
  <2>2. PICK j \in 0 .. Hwt - 1 : hitted[j] >= Hwt
    BY <2>1 DEF Left
  <2>3. hitted[j] \in Hit
    BY <2>1 DEF Hit, Reservoirs
  <2> QED BY <2>1, <2>2, <2>3
<1>4. QED
  BY <1>1, <1>2, <1>3, SamplersInvariant, PTL DEF SamplersSpec

\* ZO_dist writes one ternary polynomial with (rho + 1) / 2 bytes behind each sign,
\* and uniform residues, two words behind those below the excess of the mask over
\* the modulus and one behind each other, for every set of odd moduli.
THEOREM PolynomialsCorrect == SamplersSpec => []OutcomesCounted
<1>1. SamplersInv => OutcomesCounted
  BY DEF SamplersInv
<1>2. QED
  BY <1>1, SamplersInvariant, PTL
-----------------------------------------------------------------------------
\* Division with remainder.
LEMMA Division ==
  ASSUME NEW x \in Int, NEW d \in Nat \ {0}
  PROVE  \E e \in Int, m \in 0 .. d - 1 : m = x % d /\ x = d * e + m
<1> DEFINE t == x % d
           e == x \div d
<1>1. e \in Int /\ t \in 0 .. d - 1 /\ x = e * d + t
  BY Z3
<1>2. t = x % d
  OBVIOUS
<1> HIDE DEF t, e
<1>3. x = d * e + t
  BY <1>1
<1> QED BY <1>1, <1>2, <1>3, Zenon

\* What an extended Euclidean algorithm shows of two numbers without a common
\* factor.
Coprime(a, b) == \E u, v \in Int : u * a + v * b = 1

LEMMA PrimeCoprime ==
  ASSUME NEW p \in Nat, p >= 2, \A d \in 2 .. p - 1 : p % d # 0,
         NEW q \in Nat, ~ \E j \in Int : q = p * j
  PROVE  Coprime(p, q)
<1> DEFINE S == {d \in Nat : d > 0 /\ \E u, v \in Int : d = u * p + v * q}
<1>1. p \in S
  <2>1. p = 1 * p + 0 * q /\ 1 \in Int /\ 0 \in Int /\ p > 0
    OBVIOUS
  <2>2. \E u, v \in Int : p = u * p + v * q
    BY <2>1, Zenon
  <2> QED BY <2>1, <2>2
<1>2. PICK d \in S : \A y \in S : d <= y
  BY <1>1, LeastNumber
<1>3. PICK u, v \in Int : d = u * p + v * q
  BY <1>2
<1>4. d \in Nat /\ d > 0
  BY <1>2
<1>5. ASSUME NEW z \in Nat, NEW s \in Int, NEW t \in Int, z = s * p + t * q
      PROVE  z % d = 0
  <2>1. PICK n \in Int, m \in 0 .. d - 1 : m = z % d /\ z = d * n + m
    BY <1>4, Division
  <2>2. z % d \in 0 .. d - 1
    BY <2>1
  <2>3. z % d = (s - n * u) * p + (t - n * v) * q
    <3>1. m = s * p + t * q - (u * p + v * q) * n
      BY <1>3, <1>5, <2>1
    <3>2. m = (s - n * u) * p + (t - n * v) * q
      BY <3>1
    <3> QED BY <2>1, <3>2
  <2>4. s - n * u \in Int /\ t - n * v \in Int
    OBVIOUS
  <2>5. CASE z % d > 0
    <3>1. \E g, h \in Int : z % d = g * p + h * q
      BY <2>3, <2>4, Zenon
    <3>2. z % d \in Nat
      BY <1>4, <2>2
    <3>3. z % d \in S
      BY <2>5, <3>1, <3>2
    <3>4. d <= z % d
      BY <1>2, <3>3
    <3> QED BY <1>4, <2>2, <3>4
  <2> QED BY <2>2, <2>5
<1>6. p % d = 0 /\ q % d = 0
  <2>1. p = 1 * p + 0 * q /\ q = 0 * p + 1 * q /\ 1 \in Int /\ 0 \in Int
    OBVIOUS
  <2>2. p % d = 0
    BY <1>5, <2>1
  <2>3. q % d = 0
    BY <1>5, <2>1
  <2> QED BY <2>2, <2>3
<1>7. d <= p
  BY <1>1, <1>2
<1>8. d # p
  <2> SUFFICES ASSUME d = p PROVE FALSE
    OBVIOUS
  <2>1. PICK e \in Int, m \in 0 .. p - 1 : m = q % p /\ q = p * e + m
    <3>1. p \in Nat \ {0} /\ q \in Int
      OBVIOUS
    <3> QED BY <3>1, Division, ZenonT(30)
  <2> QED BY <1>6, <2>1
<1>9. d = 1
  BY <1>4, <1>6, <1>7, <1>8
<1> QED BY <1>3, <1>9 DEF Coprime

\* A number without a factor in common with two numbers has none with their
\* product.
LEMMA CoprimeProduct ==
  ASSUME NEW a \in Int, NEW b \in Int, NEW q \in Int, Coprime(a, q), Coprime(b, q)
  PROVE  Coprime(a * b, q)
<1>1. PICK u, v \in Int : u * a + v * q = 1
  BY DEF Coprime
<1>2. PICK s, t \in Int : s * b + t * q = 1
  BY DEF Coprime
<1>3. (u * s) * (a * b) + (u * a * t + v) * q = 1
  <2>1. (u * s) * (a * b) + (u * a * t + v) * q = (u * a) * (s * b + t * q) + v * q
    OBVIOUS
  <2> QED BY <1>1, <1>2, <2>1
<1>4. u * s \in Int /\ u * a * t + v \in Int
  OBVIOUS
<1> QED BY <1>3, <1>4 DEF Coprime

\* The Chinese remainder theorem for two moduli.
Congruent(z, x, a) == \E j \in Int : z = x + a * j

LEMMA Remainders ==
  ASSUME NEW a \in Int, NEW b \in Int, Coprime(a, b), NEW x \in Int, NEW y \in Int
  PROVE  \E z \in Int : Congruent(z, x, a) /\ Congruent(z, y, b)
<1>1. PICK u, v \in Int : u * a + v * b = 1
  BY DEF Coprime
<1> DEFINE j == u * (y - x)
           l == v * (x - y)
<1>2. x + a * j - (y + b * l) = (x - y) * (1 - (u * a + v * b))
  OBVIOUS
<1>3. x + a * j = y + b * l /\ x + a * j \in Int /\ j \in Int /\ l \in Int
  <2>1. x + a * j \in Int /\ y + b * l \in Int /\ j \in Int /\ l \in Int
    OBVIOUS
  <2>2. (x - y) * (1 - 1) = 0
    OBVIOUS
  <2> HIDE DEF j, l
  <2>3. x + a * j - (y + b * l) = 0
    BY <1>1, <1>2, <2>2
  <2> QED BY <2>1, <2>3
<1> QED BY <1>3 DEF Congruent

\* A multiple of both is one of the product.
LEMMA CommonMultiple ==
  ASSUME NEW a \in Int, NEW b \in Int, Coprime(a, b), NEW d \in Int,
         Congruent(d, 0, a), Congruent(d, 0, b)
  PROVE  Congruent(d, 0, a * b)
<1>1. PICK u, v \in Int : u * a + v * b = 1
  BY DEF Coprime
<1>2. PICK j, l \in Int : d = 0 + a * j /\ d = 0 + b * l
  BY Zenon DEF Congruent
<1>3. d = d * (u * a + v * b)
  BY <1>1
<1>4. d * (u * a + v * b) = (b * l) * (u * a) + (a * j) * (v * b)
  <2>1. d * (u * a + v * b) = d * (u * a) + d * (v * b)
    OBVIOUS
  <2> QED BY <1>2, <2>1
<1>5. (b * l) * (u * a) + (a * j) * (v * b) = 0 + (a * b) * (l * u + j * v)
  OBVIOUS
<1>6. l * u + j * v \in Int
  OBVIOUS
<1>7. d = 0 + (a * b) * (l * u + j * v)
  BY <1>3, <1>4, <1>5
<1> QED BY <1>6, <1>7, Zenon DEF Congruent

LEMMA CongruentThrough ==
  ASSUME NEW a \in Int, NEW b \in Int, NEW x \in Int, NEW y \in Int, NEW z \in Int,
         Congruent(z, y, a * b), Congruent(y, x, a)
  PROVE  Congruent(z, x, a)
<1>1. PICK g, h \in Int : z = y + (a * b) * g /\ y = x + a * h
  BY DEF Congruent
<1>2. z = x + a * (h + b * g) /\ h + b * g \in Int
  BY <1>1
<1> QED BY <1>2, Zenon DEF Congruent
-----------------------------------------------------------------------------
\* The product of a set of numbers is any function of its subsets that takes one
\* factor out at a time.
Factors(S, w) ==
  /\ w = [T \in SUBSET S |-> w[T]] /\ w[{}] = 1
  /\ \A T \in SUBSET S : \A x \in T : w[T] = x * w[T \ {x}]

LEMMA ProductIs ==
  ASSUME NEW S, IsFiniteSet(S), NEW w, Factors(S, w)
  PROVE  ProductSet(S) = w[S]
<1> DEFINE Eq(z) == z = [T \in SUBSET S |->
                           IF T = {} THEN 1
                           ELSE LET x == CHOOSE y \in T : TRUE IN x * z[T \ {x}]]
           it == CHOOSE z : Eq(z)
<1>1. Eq(w)
  <2>1. ASSUME NEW T \in SUBSET S
        PROVE  w[T] = IF T = {} THEN 1 ELSE LET x == CHOOSE y \in T : TRUE IN x * w[T \ {x}]
    <3>1. CASE T = {}
      BY <3>1 DEF Factors
    <3>2. CASE T # {}
      <4> DEFINE x == CHOOSE y \in T : TRUE
      <4>1. x \in T
        BY <3>2
      <4> HIDE DEF x
      <4>2. w[T] = x * w[T \ {x}]
        BY <4>1 DEF Factors
      <4> QED BY <3>2, <4>2 DEF x
    <3> QED BY <3>1, <3>2
  <2> QED BY <2>1 DEF Factors
<1>2. Eq(it)
  BY <1>1
<1>3. ProductSet(S) = it[S]
  BY DEF ProductSet, FoldSet, MapThenFoldSet
<1> HIDE DEF it
<1>4. PICK N \in Nat : N = Cardinality(S)
  BY FS_CardinalityType
<1>5. \A T \in SUBSET S : IsFiniteSet(T)
  BY FS_Subset
<1> DEFINE Agree == {n \in 0 .. N : \A T \in SUBSET S : Cardinality(T) = n => it[T] = w[T]}
<1>6. 0 \in Agree
  <2>1. \A T \in SUBSET S : Cardinality(T) = 0 => T = {}
    BY <1>5, FS_EmptySet
  <2>2. it[{}] = 1
    BY <1>2
  <2>3. w[{}] = 1
    BY DEF Factors
  <2> QED BY <1>4, <2>1, <2>2, <2>3
<1>7. ASSUME NEW n \in 0 .. N - 1, n \in Agree PROVE n + 1 \in Agree
  <2> SUFFICES ASSUME NEW T \in SUBSET S, Cardinality(T) = n + 1 PROVE it[T] = w[T]
    BY <1>4
  <2>1. T # {}
    BY FS_EmptySet
  <2> DEFINE x == CHOOSE y \in T : TRUE
  <2>2. x \in T
    BY <2>1
  <2>3. it[T] = x * it[T \ {x}]
    BY <1>2, <2>1
  <2> HIDE DEF x
  <2>4. Cardinality(T \ {x}) = n /\ T \ {x} \in SUBSET S
    <3>1. Cardinality(T \ {x}) = (n + 1) - 1
      <4>1. IsFiniteSet(T)
        BY <1>5
      <4>2. Cardinality(T \ {x}) = IF x \in T THEN Cardinality(T) - 1 ELSE Cardinality(T)
        BY <4>1, FS_RemoveElement, Zenon
      <4> QED BY <2>2, <4>2
    <3>2. (n + 1) - 1 = n
      OBVIOUS
    <3> QED BY <3>1, <3>2
  <2>5. it[T \ {x}] = w[T \ {x}]
    BY <1>7, <2>4
  <2>6. w[T] = x * w[T \ {x}]
    BY <2>2 DEF Factors
  <2> QED BY <2>3, <2>5, <2>6
<1> HIDE DEF Agree, Eq
<1>8. N \in Agree
  BY <1>4, <1>6, <1>7, Induction
<1>9. it[S] = w[S]
  BY <1>4, <1>8 DEF Agree
<1> QED BY <1>3, <1>9

\* A product of up to three factors.
LEMMA ProductOfThree ==
  ASSUME NEW a \in Int, NEW b \in Int, NEW m \in Int, a # b, a # m, b # m, NEW S \in SUBSET {a, b, m}
  PROVE  ProductSet(S) = (IF a \in S THEN a ELSE 1) * (IF b \in S THEN b ELSE 1)
                           * (IF m \in S THEN m ELSE 1)
<1> DEFINE A(T) == IF a \in T THEN a ELSE 1
           B(T) == IF b \in T THEN b ELSE 1
           M(T) == IF m \in T THEN m ELSE 1
           w == [T \in SUBSET S |-> A(T) * B(T) * M(T)]
<1>1. \A T \in SUBSET S : A(T) \in Int /\ B(T) \in Int /\ M(T) \in Int /\ w[T] = A(T) * B(T) * M(T)
  OBVIOUS
<1>2. w[{}] = 1
  OBVIOUS
<1>3. ASSUME NEW T \in SUBSET S, NEW x \in T PROVE w[T] = x * w[T \ {x}]
  <2> DEFINE U == T \ {x}
  <2>1. U \in SUBSET S
    OBVIOUS
  <2>2. CASE x = a
    <3>1. A(T) = a /\ A(U) = 1 /\ B(U) = B(T) /\ M(U) = M(T)
      BY <2>2
    <3> HIDE DEF A, B, M, w, U
    <3>2. w[T] = a * B(T) * M(T) /\ w[U] = 1 * B(T) * M(T)
      BY <1>1, <2>1, <3>1
    <3>3. B(T) \in Int /\ M(T) \in Int
      BY <1>1
    <3>4. a * B(T) * M(T) = a * (1 * B(T) * M(T))
      BY <3>3
    <3> QED BY <2>2, <3>2, <3>4 DEF U
  <2>3. CASE x = b
    <3>1. A(T) = A(U) /\ B(U) = 1 /\ B(T) = b /\ M(U) = M(T)
      BY <2>3
    <3> HIDE DEF A, B, M, w, U
    <3>2. w[T] = A(T) * b * M(T) /\ w[U] = A(T) * 1 * M(T)
      BY <1>1, <2>1, <3>1
    <3>3. A(T) \in Int /\ M(T) \in Int
      BY <1>1
    <3>4. A(T) * b * M(T) = b * (A(T) * 1 * M(T))
      BY <3>3
    <3> QED BY <2>3, <3>2, <3>4 DEF U
  <2>4. CASE x = m
    <3>1. A(T) = A(U) /\ B(U) = B(T) /\ M(T) = m /\ M(U) = 1
      BY <2>4
    <3> HIDE DEF A, B, M, w, U
    <3>2. w[T] = A(T) * B(T) * m /\ w[U] = A(T) * B(T) * 1
      BY <1>1, <2>1, <3>1
    <3>3. A(T) \in Int /\ B(T) \in Int
      BY <1>1
    <3>4. A(T) * B(T) * m = m * (A(T) * B(T) * 1)
      BY <3>3
    <3> QED BY <2>4, <3>2, <3>4 DEF U
  <2> QED BY <2>2, <2>3, <2>4
<1>4. IsFiniteSet(S)
  <2>1. IsFiniteSet({a}) /\ IsFiniteSet({b}) /\ IsFiniteSet({m})
    BY FS_Singleton
  <2>2. IsFiniteSet({a} \cup ({b} \cup {m}))
    BY <2>1, FS_Union
  <2>3. S \in SUBSET ({a} \cup ({b} \cup {m}))
    OBVIOUS
  <2> QED BY <2>2, <2>3, FS_Subset
<1>5. w = [T \in SUBSET S |-> w[T]]
  OBVIOUS
<1>6. w[S] = A(S) * B(S) * M(S)
  OBVIOUS
<1> HIDE DEF w, A, B, M
<1>7. Factors(S, w)
  BY <1>2, <1>3, <1>5 DEF Factors
<1>8. ProductSet(S) = w[S]
  BY <1>4, <1>7, ProductIs
<1> QED BY <1>6, <1>8 DEF A, B, M

\* Three moduli without common factors: every three remainders are those of a
\* number, and what all three divide, their product divides.
LEMMA ThreeModuli ==
  ASSUME NEW a \in Nat \ {0}, NEW b \in Nat \ {0}, NEW m \in Nat \ {0},
         Coprime(a, b), Coprime(a, m), Coprime(b, m)
  PROVE  /\ \A x, y, z \in Int : \E v \in Int : Congruent(v, x, a) /\ Congruent(v, y, b) /\ Congruent(v, z, m)
         /\ \A d \in Int : Congruent(d, 0, a) /\ Congruent(d, 0, b) /\ Congruent(d, 0, m)
                            => Congruent(d, 0, a * b * m)
<1> DEFINE c2 == a * b
<1>1. a \in Int /\ b \in Int /\ m \in Int /\ c2 \in Int /\ c2 = b * a
  OBVIOUS
<1>2. Coprime(c2, m)
  BY <1>1, CoprimeProduct, Zenon
<1> HIDE DEF c2
<1>3. ASSUME NEW x \in Int, NEW y \in Int, NEW z \in Int
      PROVE  \E v \in Int : Congruent(v, x, a) /\ Congruent(v, y, b) /\ Congruent(v, z, m)
  <2>1. PICK s \in Int : Congruent(s, x, a) /\ Congruent(s, y, b)
    BY <1>1, Remainders, Zenon
  <2>2. PICK v \in Int : Congruent(v, s, c2) /\ Congruent(v, z, m)
    BY <1>1, <1>2, Remainders, Zenon
  <2>3. Congruent(v, x, a)
    BY <1>1, <2>1, <2>2, CongruentThrough, Zenon DEF c2
  <2>4. Congruent(v, s, b * a)
    BY <1>1, <2>2
  <2>5. Congruent(v, y, b)
    BY <1>1, <2>1, <2>4, CongruentThrough, Zenon
  <2> QED BY <2>2, <2>3, <2>5
<1>4. ASSUME NEW d \in Int, Congruent(d, 0, a), Congruent(d, 0, b), Congruent(d, 0, m)
      PROVE  Congruent(d, 0, a * b * m)
  <2>1. Congruent(d, 0, c2)
    BY <1>1, <1>4, CommonMultiple, Zenon DEF c2
  <2> QED BY <1>1, <1>2, <1>4, <2>1, CommonMultiple, Zenon DEF c2
<1> QED BY <1>3, <1>4
-----------------------------------------------------------------------------
\* The moduli of a coefficient have no common factors.
LEMMA ModuliCoprime ==
  ASSUME NEW x \in Slots, NEW y \in Slots, x # y, x[2] = y[2]
  PROVE  Coprime(Primes[x], Primes[y])
<1> DEFINE p == Primes[x]
           q == Primes[y]
<1>1. p \in Nat /\ q \in Nat /\ p > 2 /\ q > 2 /\ p # q
  BY HwtSizes, SamplersAssumption
<1>2. (\A d \in 2 .. p - 1 : p % d # 0) /\ (\A d \in 2 .. q - 1 : q % d # 0)
  BY PrimesAssumption
<1> HIDE DEF p, q
<1>3. ASSUME NEW j \in Int, q = p * j PROVE FALSE
  <2>1. p \in Nat \ {0} /\ 0 \in 0 .. p - 1 /\ q = 0 + p * j
    BY <1>1, <1>3
  <2>2. q % p = 0
    <3>1. (0 + p * j) % p = 0
      BY <2>1, Quotient
    <3> QED BY <2>1, <3>1
  <2>3. j >= 1
    <3>1. j <= 0 => p * j <= 0
      BY <1>1
    <3> QED BY <1>1, <1>3, <3>1
  <2>4. q >= p
    <3>1. p * j >= p * 1
      BY <1>1, <2>3
    <3> QED BY <1>1, <1>3, <3>1
  <2>5. p \in 2 .. q - 1
    BY <1>1, <2>4
  <2> QED BY <1>2, <2>2, <2>5
<1>4. \A d \in 2 .. p - 1 : p % d # 0
  BY <1>2
<1>5. ~ \E j \in Int : q = p * j
  BY <1>3
<1>6. p >= 2
  BY <1>1
<1>7. Coprime(p, q)
  BY <1>1, <1>4, <1>5, <1>6, PrimeCoprime, Zenon
<1> QED BY <1>7 DEF p, q

\* One has no factor in common with anything.
LEMMA OneCoprime == ASSUME NEW a \in Int PROVE Coprime(a, 1)
<1>1. 0 * a + 1 * 1 = 1 /\ 0 \in Int /\ 1 \in Int
  OBVIOUS
<1> QED BY <1>1, Zenon DEF Coprime

\* The slots of a coefficient, and their moduli filled up to three with ones.
LEMMA SlotsOf ==
  ASSUME NEW n \in Coefficients
  PROVE  \E nmoduli \in {1, 2, 3} :
           /\ \A x \in Slots : x[2] = n <=> x \in (1 .. nmoduli) \X {n}
           /\ \A j \in 1 .. nmoduli : <<j, n>> \in Slots
           /\ ModuliOf(n) = {Primes[<<j, n>>] : j \in 1 .. nmoduli}
<1>1. PICK nmoduli \in {1, 2, 3} : Slots = (1 .. nmoduli) \X (0 .. Degree - 1)
  BY HwtAssumption
<1>2. n \in 0 .. Degree - 1
  BY <1>1 DEF Coefficients
<1>3. \A x \in Slots : x[2] = n <=> x \in (1 .. nmoduli) \X {n}
  BY <1>1
<1>4. \A j \in 1 .. nmoduli : <<j, n>> \in Slots
  BY <1>1, <1>2
<1>5. {y \in Slots : y[2] = n} = {<<j, n>> : j \in 1 .. nmoduli}
  BY <1>1, <1>2
<1>6. ModuliOf(n) = {Primes[<<j, n>>] : j \in 1 .. nmoduli}
  BY <1>5 DEF ModuliOf
<1> QED BY <1>3, <1>4, <1>6
-----------------------------------------------------------------------------
\* Up to three numbers without common factors, all moduli of a coefficient among
\* them, the others 1.
Covers(n, a, b, m) ==
  /\ Coprime(a, b) /\ Coprime(a, m) /\ Coprime(b, m)
  /\ Q = a * b * m
  /\ \A p \in {a, b, m} : p = 1 \/ \E s \in Slots : s[2] = n /\ Primes[s] = p
  /\ \A s \in Slots : s[2] = n => Primes[s] \in {a, b, m}
  /\ \A o \in [Slots -> Int] : \E g \in [{a, b, m} -> Int] : \A s \in Slots :
       s[2] = n => o[s] = g[Primes[s]]

LEMMA BasisOf ==
  ASSUME NEW n \in Coefficients
  PROVE  \E a, b, m \in Nat \ {0} : Covers(n, a, b, m)
<1>1. PICK nmoduli \in {1, 2, 3} :
        /\ \A x \in Slots : x[2] = n <=> x \in (1 .. nmoduli) \X {n}
        /\ \A j \in 1 .. nmoduli : <<j, n>> \in Slots
        /\ ModuliOf(n) = {Primes[<<j, n>>] : j \in 1 .. nmoduli}
  BY SlotsOf
<1>2. Q = ProductSet(ModuliOf(n))
  <2> DEFINE n0 == CHOOSE l \in Coefficients : TRUE
  <2>1. n0 \in Coefficients
    OBVIOUS
  <2>2. ModuliOf(n0) = ModuliOf(n)
    BY <2>1, NormsAssumption
  <2> QED BY <2>2 DEF Q
<1>3. \A x \in Slots : Primes[x] \in Nat /\ Primes[x] > 2
  BY HwtSizes
<1> DEFINE u == <<1, n>>
           v == <<2, n>>
           w == <<3, n>>
           a == Primes[u]
           b == Primes[v]
           m == Primes[w]
<1>4. u[2] = n /\ v[2] = n /\ w[2] = n /\ u # v /\ u # w /\ v # w
  OBVIOUS
<1>5. u \in Slots /\ a \in Nat \ {0} /\ a > 2
  BY <1>1, <1>3
<1>6. CASE nmoduli = 1
  <2>1. ModuliOf(n) = {a}
    BY <1>1, <1>6
  <2>2. \A s \in Slots : s[2] = n => s = u
    BY <1>1, <1>6
  <2> HIDE DEF u
  <2>3. Q = a * 1 * 1
    <3>1. a \in Int /\ 0 \in Int /\ 1 \in Int /\ a # 0 /\ a # 1 /\ 0 # 1
      BY <1>5
    <3>2. {a} \in SUBSET {a, 0, 1} /\ 0 \notin {a} /\ 1 \notin {a}
      BY <3>1
    <3> HIDE DEF a
    <3>3. ProductSet({a}) = (IF a \in {a} THEN a ELSE 1) * (IF 0 \in {a} THEN 0 ELSE 1)
                              * (IF 1 \in {a} THEN 1 ELSE 1)
      BY <3>1, <3>2, ProductOfThree
    <3> QED BY <1>2, <2>1, <3>2, <3>3
  <2>4. Coprime(a, 1) /\ Coprime(1, 1)
    <3>1. a \in Int /\ 1 \in Int
      BY <1>5
    <3> QED BY <3>1, OneCoprime, Zenon
  <2>5. /\ \A s \in Slots : s[2] = n => Primes[s] \in {a, 1, 1}
        /\ \A o \in [Slots -> Int] : \E g \in [{a, 1, 1} -> Int] : \A s \in Slots :
             s[2] = n => o[s] = g[Primes[s]]
    <3>1. \A s \in Slots : s[2] = n => Primes[s] \in {a, 1, 1}
      BY <2>2
    <3>2. ASSUME NEW o \in [Slots -> Int]
          PROVE  \E g \in [{a, 1, 1} -> Int] : \A s \in Slots : s[2] = n => o[s] = g[Primes[s]]
      <4> DEFINE g == [p \in {a, 1, 1} |-> o[u]]
      <4>1. g \in [{a, 1, 1} -> Int]
        BY <1>5
      <4>2. \A s \in Slots : s[2] = n => o[s] = g[Primes[s]]
        BY <1>5, <2>2
      <4> HIDE DEF g
      <4> QED BY <4>1, <4>2
    <3> QED BY <3>1, <3>2
  <2>6. Covers(n, a, 1, 1)
    BY <1>4, <1>5, <2>3, <2>4, <2>5 DEF Covers
  <2> HIDE DEF a
  <2>7. 1 \in Nat \ {0} /\ a \in Nat \ {0}
    BY <1>5
  <2> QED BY <2>6, <2>7, Zenon
<1>7. CASE nmoduli = 2
  <2>1. ModuliOf(n) = {a, b}
    BY <1>1, <1>7
  <2>2. \A s \in Slots : s[2] = n => s = u \/ s = v
    BY <1>1, <1>7
  <2>3. v \in Slots /\ b \in Nat \ {0} /\ b > 2
    BY <1>1, <1>3, <1>7
  <2>4. a # b /\ Coprime(a, b)
    <3> HIDE DEF u, v
    <3> QED BY <1>4, <1>5, <2>3, ModuliCoprime, SamplersAssumption
  <2> HIDE DEF u, v
  <2>5. Q = a * b * 1
    <3>1. a \in Int /\ b \in Int /\ 0 \in Int /\ a # 0 /\ b # 0
      BY <1>5, <2>3
    <3>2. {a, b} \in SUBSET {a, b, 0} /\ 0 \notin {a, b}
      BY <3>1
    <3> HIDE DEF a, b
    <3>3. \A S \in SUBSET {a, b, 0} :
            ProductSet(S) = (IF a \in S THEN a ELSE 1) * (IF b \in S THEN b ELSE 1)
                              * (IF 0 \in S THEN 0 ELSE 1)
      BY <2>4, <3>1, ProductOfThree
    <3>4. ProductSet({a, b}) = (IF a \in {a, b} THEN a ELSE 1) * (IF b \in {a, b} THEN b ELSE 1)
                                 * (IF 0 \in {a, b} THEN 0 ELSE 1)
      BY <3>2, <3>3
    <3> QED BY <1>2, <2>1, <3>2, <3>4
  <2>6. Coprime(a, 1) /\ Coprime(b, 1)
    <3>1. a \in Int /\ b \in Int
      BY <1>5, <2>3
    <3> QED BY <3>1, OneCoprime, Zenon
  <2>7. /\ \A s \in Slots : s[2] = n => Primes[s] \in {a, b, 1}
        /\ \A o \in [Slots -> Int] : \E g \in [{a, b, 1} -> Int] : \A s \in Slots :
             s[2] = n => o[s] = g[Primes[s]]
    <3>1. \A s \in Slots : s[2] = n => Primes[s] \in {a, b, 1}
      BY <2>2
    <3>2. ASSUME NEW o \in [Slots -> Int]
          PROVE  \E g \in [{a, b, 1} -> Int] : \A s \in Slots : s[2] = n => o[s] = g[Primes[s]]
      <4> DEFINE g == [p \in {a, b, 1} |-> IF p = a THEN o[u] ELSE o[v]]
      <4>1. g \in [{a, b, 1} -> Int]
        BY <1>5, <2>3, <2>4
      <4>2. \A s \in Slots : s[2] = n => o[s] = g[Primes[s]]
        BY <1>5, <2>3, <2>4, <2>2
      <4> HIDE DEF g
      <4> QED BY <4>1, <4>2
    <3> QED BY <3>1, <3>2
  <2>8. Covers(n, a, b, 1)
    BY <1>4, <1>5, <2>3, <2>4, <2>5, <2>6, <2>7 DEF Covers
  <2> HIDE DEF a, b
  <2>9. 1 \in Nat \ {0} /\ a \in Nat \ {0} /\ b \in Nat \ {0}
    BY <1>5, <2>3
  <2> QED BY <2>8, <2>9, Zenon
<1>8. CASE nmoduli = 3
  <2>1. ModuliOf(n) = {a, b, m}
    BY <1>1, <1>8
  <2>2. \A s \in Slots : s[2] = n => s = u \/ s = v \/ s = w
    BY <1>1, <1>8
  <2>3. v \in Slots /\ b \in Nat \ {0} /\ w \in Slots /\ m \in Nat \ {0}
    BY <1>1, <1>3, <1>8
  <2>4. /\ a # b /\ Coprime(a, b) /\ a # m /\ Coprime(a, m)
        /\ b # m /\ Coprime(b, m)
    <3> HIDE DEF u, v, w
    <3> QED BY <1>4, <1>5, <2>3, ModuliCoprime, SamplersAssumption
  <2> HIDE DEF u, v, w
  <2>5. Q = a * b * m
    <3>1. a \in Int /\ b \in Int /\ m \in Int
      BY <1>5, <2>3
    <3> HIDE DEF a, b, m
    <3>2. {a, b, m} \in SUBSET {a, b, m}
      OBVIOUS
    <3>3. \A S \in SUBSET {a, b, m} :
            ProductSet(S) = (IF a \in S THEN a ELSE 1) * (IF b \in S THEN b ELSE 1)
                              * (IF m \in S THEN m ELSE 1)
      BY <2>4, <3>1, ProductOfThree
    <3>4. ProductSet({a, b, m}) = (IF a \in {a, b, m} THEN a ELSE 1)
             * (IF b \in {a, b, m} THEN b ELSE 1) * (IF m \in {a, b, m} THEN m ELSE 1)
      BY <3>2, <3>3
    <3> QED BY <1>2, <2>1, <3>4
  <2>6. /\ \A s \in Slots : s[2] = n => Primes[s] \in {a, b, m}
        /\ \A o \in [Slots -> Int] : \E g \in [{a, b, m} -> Int] : \A s \in Slots :
             s[2] = n => o[s] = g[Primes[s]]
    <3>1. \A s \in Slots : s[2] = n => Primes[s] \in {a, b, m}
      BY <2>2
    <3>2. ASSUME NEW o \in [Slots -> Int]
          PROVE  \E g \in [{a, b, m} -> Int] : \A s \in Slots : s[2] = n => o[s] = g[Primes[s]]
      <4> DEFINE g == [p \in {a, b, m} |-> IF p = a THEN o[u] ELSE IF p = b THEN o[v] ELSE o[w]]
      <4>1. g \in [{a, b, m} -> Int]
        BY <1>5, <2>3, <2>4
      <4>2. \A s \in Slots : s[2] = n => o[s] = g[Primes[s]]
        BY <1>5, <2>3, <2>4, <2>2
      <4> HIDE DEF g
      <4> QED BY <4>1, <4>2
    <3> QED BY <3>1, <3>2
  <2>7. Covers(n, a, b, m)
    BY <1>4, <1>5, <2>3, <2>4, <2>5, <2>6 DEF Covers
  <2> HIDE DEF a, b, m
  <2> QED BY <1>5, <2>3, <2>7, Zenon
<1> QED BY <1>6, <1>7, <1>8

\* The moduli of a coefficient and their product.
LEMMA BasisOfCoefficient ==
  ASSUME NEW n \in Coefficients
  PROVE  /\ Q \in Nat \ {0}
         /\ \A s \in Slots : s[2] = n => Congruent(Q, 0, Primes[s])
         /\ \A d \in Int : (\A s \in Slots : s[2] = n => Congruent(d, 0, Primes[s])) => Congruent(d, 0, Q)
         /\ \A o \in [Slots -> Int] : \E e \in Int : \A s \in Slots :
              s[2] = n => Congruent(e, o[s], Primes[s])
<1>1. PICK a, b, m \in Nat \ {0} : Covers(n, a, b, m)
  BY BasisOf
<1>2. Coprime(a, b) /\ Coprime(a, m) /\ Coprime(b, m) /\ Q = a * b * m
  BY <1>1 DEF Covers
<1>3. Q \in Nat \ {0}
  <2>1. a * b \in Nat \ {0}
    OBVIOUS
  <2>2. (a * b) * m \in Nat \ {0}
    BY <2>1
  <2> QED BY <1>2, <2>2
<1>4. ASSUME NEW o \in [Slots -> Int]
      PROVE  \E e \in Int : \A s \in Slots : s[2] = n => Congruent(e, o[s], Primes[s])
  <2>1. PICK g \in [{a, b, m} -> Int] : \A s \in Slots : s[2] = n => o[s] = g[Primes[s]]
    BY <1>1 DEF Covers
  <2>2. g[a] \in Int /\ g[b] \in Int /\ g[m] \in Int
    OBVIOUS
  <2>3. PICK e \in Int : Congruent(e, g[a], a) /\ Congruent(e, g[b], b) /\ Congruent(e, g[m], m)
    BY <1>2, <2>2, ThreeModuli, Zenon
  <2>4. \A s \in Slots : s[2] = n => Primes[s] \in {a, b, m}
    BY <1>1 DEF Covers
  <2>5. \A p \in {a, b, m} : Congruent(e, g[p], p)
    BY <2>3
  <2> QED BY <2>1, <2>4, <2>5
<1>5. Congruent(Q, 0, a) /\ Congruent(Q, 0, b) /\ Congruent(Q, 0, m)
  <2>1. Q = 0 + a * (b * m) /\ Q = 0 + b * (a * m) /\ Q = 0 + m * (a * b)
    BY <1>2
  <2>2. b * m \in Int /\ a * m \in Int /\ a * b \in Int
    OBVIOUS
  <2> QED BY <2>1, <2>2, Zenon DEF Congruent
<1>6. \A s \in Slots : s[2] = n => Primes[s] \in {a, b, m}
  BY <1>1 DEF Covers
<1>7. ASSUME NEW d \in Int, \A s \in Slots : s[2] = n => Congruent(d, 0, Primes[s])
      PROVE  Congruent(d, 0, Q)
  <2>1. Congruent(d, 0, 1)
    <3>1. d = 0 + 1 * d
      OBVIOUS
    <3> QED BY <3>1, Zenon DEF Congruent
  <2>2. \A p \in {a, b, m} : Congruent(d, 0, p)
    BY <1>1, <1>7, <2>1 DEF Covers
  <2>3. Congruent(d, 0, a) /\ Congruent(d, 0, b) /\ Congruent(d, 0, m)
    BY <2>2
  <2>4. Congruent(d, 0, a * b * m)
    BY <1>2, <2>3, ThreeModuli, Zenon
  <2> QED BY <1>2, <2>4
<1> QED BY <1>3, <1>4, <1>5, <1>6, <1>7
-----------------------------------------------------------------------------
\* What any of the samplers returns.
IsResidues(o) == o \in [Slots -> Int] /\ \A x \in Slots : o[x] \in Residues(x)

\* What is congruent to a residue has it as its remainder, and the other way.
LEMMA RemainderIs ==
  ASSUME NEW x \in Slots, NEW v \in Int, NEW e \in Residues(x)
  PROVE  v % Primes[x] = e <=> Congruent(v, e, Primes[x])
<1>1. PICK p \in Nat \ {0} : p = Primes[x] /\ e \in 0 .. p - 1
  <2>1. Primes[x] \in Nat \ {0}
    BY PrimesAssumption
  <2> QED BY <2>1 DEF Residues
<1>2. ASSUME Congruent(v, e, p) PROVE v % p = e
  <2>1. PICK j \in Int : v = e + p * j
    BY <1>2 DEF Congruent
  <2> QED BY <1>1, <2>1, Quotient
<1>3. ASSUME v % p = e PROVE Congruent(v, e, p)
  <2>1. PICK j \in Int, m \in 0 .. p - 1 : m = v % p /\ v = p * j + m
    BY Division
  <2>2. v = e + p * j
    BY <1>3, <2>1
  <2> QED BY <2>2, Zenon DEF Congruent
<1> QED BY <1>1, <1>2, <1>3

\* Sums of congruent numbers.
LEMMA CongruentSum ==
  ASSUME NEW p \in Int, NEW u \in Int, NEW v \in Int, NEW x \in Int, NEW y \in Int,
         Congruent(u, x, p), Congruent(v, y, p), NEW s \in {1, -1}
  PROVE  Congruent(u + s * v, x + s * y, p)
<1>1. PICK j, l \in Int : u = x + p * j /\ v = y + p * l
  BY Zenon DEF Congruent
<1>2. u + s * v = (x + s * y) + p * (j + s * l)
  BY <1>1
<1>3. j + s * l \in Int
  OBVIOUS
<1> QED BY <1>2, <1>3, Zenon DEF Congruent

\* poly2mpz finds one integer, below the product of the moduli.
LEMMA LiftIs ==
  ASSUME NEW o, IsResidues(o), NEW n \in Coefficients
  PROVE  /\ Lift(o, n) \in 0 .. Q - 1
         /\ \A x \in Slots : x[2] = n => Congruent(Lift(o, n), o[x], Primes[x])
<1>1. Q \in Nat \ {0} /\ \A s \in Slots : s[2] = n => Congruent(Q, 0, Primes[s])
  BY BasisOfCoefficient
<1>2. PICK e \in Int : \A s \in Slots : s[2] = n => Congruent(e, o[s], Primes[s])
  BY BasisOfCoefficient DEF IsResidues
<1>3. PICK j \in Int, v \in 0 .. Q - 1 : v = e % Q /\ e = Q * j + v
  BY <1>1, Division
<1>4. \A x \in Slots : x[2] = n => v % Primes[x] = o[x]
  <2> SUFFICES ASSUME NEW x \in Slots, x[2] = n PROVE v % Primes[x] = o[x]
    OBVIOUS
  <2>1. PICK p \in Int : p = Primes[x]
    BY PrimesAssumption
  <2>2. PICK h, g \in Int : Q = 0 + p * h /\ e = o[x] + p * g
    BY <1>1, <1>2, <2>1, Zenon DEF Congruent
  <2>3. o[x] \in Int /\ o[x] \in Residues(x)
    BY DEF IsResidues
  <2>4. v = o[x] + p * (g - h * j)
    <3>1. v = e - Q * j
      BY <1>1, <1>3
    <3>2. v = (o[x] + p * g) - (0 + p * h) * j
      BY <2>2, <3>1
    <3> QED BY <2>3, <3>2
  <2>5. g - h * j \in Int /\ v \in Int
    BY <1>1
  <2>6. Congruent(v, o[x], p)
    BY <2>4, <2>5, Zenon DEF Congruent
  <2> QED BY <2>1, <2>3, <2>5, <2>6, RemainderIs
<1>5. Lift(o, n) \in 0 .. Q - 1 /\ \A x \in Slots : x[2] = n => Lift(o, n) % Primes[x] = o[x]
  BY <1>3, <1>4 DEF Lift
<1>6. Lift(o, n) \in Int
  BY <1>1, <1>5
<1>7. \A x \in Slots : o[x] \in Residues(x)
  BY DEF IsResidues
<1> QED BY <1>5, <1>6, <1>7, RemainderIs

\* Centered, it is still behind the residues, and nothing shorter is.
LEMMA CenteredLift ==
  ASSUME NEW o, IsResidues(o), NEW n \in Coefficients
  PROVE  /\ Centered(Lift(o, n)) \in Int
         /\ \A x \in Slots : x[2] = n => o[x] = Centered(Lift(o, n)) % Primes[x]
         /\ \A v \in Int : (\A x \in Slots : x[2] = n => v % Primes[x] = o[x]) =>
              Centered(Lift(o, n)) * Centered(Lift(o, n)) <= v * v
<1>1. PICK q \in Nat \ {0} : q = Q
  BY BasisOfCoefficient
<1>2. PICK u \in 0 .. q - 1 : u = Lift(o, n)
  BY <1>1, LiftIs
<1> DEFINE g == Centered(u)
<1>3. g \in {u, u - q} /\ -q <= 2 * g /\ 2 * g <= q /\ g \in Int
  BY <1>1 DEF Centered
<1> HIDE DEF g
<1>4. ASSUME NEW x \in Slots, x[2] = n PROVE Congruent(g, o[x], Primes[x]) /\ o[x] = g % Primes[x]
  <2>1. Congruent(u, o[x], Primes[x])
    BY <1>2, <1>4, LiftIs
  <2>2. PICK p \in Int : p = Primes[x]
    BY PrimesAssumption
  <2>3. Congruent(q, 0, p)
    BY <1>1, <1>4, <2>2, BasisOfCoefficient
  <2>4. PICK e \in Int : e = o[x] /\ e \in Residues(x)
    BY DEF IsResidues
  <2>5. Congruent(u + (-1) * q, e + (-1) * 0, p)
    <3>1. u \in Int /\ q \in Int /\ 0 \in Int /\ -1 \in {1, -1} /\ Congruent(u, e, p)
      BY <2>1, <2>2, <2>4
    <3> QED BY <2>3, <3>1, CongruentSum
  <2>6. u + (-1) * q = u - q /\ e + (-1) * 0 = e
    OBVIOUS
  <2>7. Congruent(g, e, p)
    BY <1>3, <2>1, <2>2, <2>4, <2>5, <2>6
  <2> QED BY <1>3, <2>2, <2>4, <2>7, RemainderIs
<1>5. ASSUME NEW v \in Int, \A x \in Slots : x[2] = n => v % Primes[x] = o[x]
      PROVE  g * g <= v * v
  <2>1. ASSUME NEW x \in Slots, x[2] = n PROVE Congruent(v + (-1) * g, 0, Primes[x])
    <3>1. PICK e \in Int : e = o[x] /\ e \in Residues(x)
      BY DEF IsResidues
    <3>2. PICK p \in Int : p = Primes[x]
      BY PrimesAssumption
    <3>3. Congruent(v, e, p) /\ Congruent(g, e, p)
      BY <1>4, <1>5, <2>1, <3>1, <3>2, RemainderIs
    <3>4. Congruent(v + (-1) * g, e + (-1) * e, p)
      BY <1>3, <3>3, CongruentSum
    <3>5. e + (-1) * e = 0
      OBVIOUS
    <3> QED BY <3>2, <3>4, <3>5
  <2>2. v + (-1) * g \in Int
    BY <1>3
  <2>3. Congruent(v + (-1) * g, 0, q)
    BY <1>1, <2>1, <2>2, BasisOfCoefficient
  <2>4. PICK j \in Int : v + (-1) * g = 0 + q * j
    BY <2>3 DEF Congruent
  <2>5. v = g + q * j
    BY <1>3, <2>4
  <2>6. j = 0 \/ q * j >= q \/ q * j <= -q
    <3>1. j >= 1 => q * j >= q * 1
      OBVIOUS
    <3>2. j <= -1 => q * j <= q * (-1)
      OBVIOUS
    <3> QED BY <3>1, <3>2
  <2>7. \/ g = v
        \/ -v <= g /\ g <= v
        \/ v <= g /\ g <= -v
    <3>1. j = 0 => g = v
      BY <1>3, <2>5
    <3>2. PICK y \in Int : y = q * j
      OBVIOUS
    <3> QED BY <1>3, <2>5, <2>6, <3>1, <3>2
  <2>8. \A y, z \in Int : -z <= y /\ y <= z => y * y <= z * z
    <3> SUFFICES ASSUME NEW y \in Int, NEW z \in Int, -z <= y, y <= z PROVE y * y <= z * z
      OBVIOUS
    <3>1. (z - y) * (z + y) >= 0
      OBVIOUS
    <3>2. (z - y) * (z + y) = z * z - y * y
      OBVIOUS
    <3> QED BY <3>1, <3>2
  <2>9. (-v) * (-v) = v * v /\ -v \in Int
    OBVIOUS
  <2> QED BY <1>3, <2>7, <2>8, <2>9
<1> QED BY <1>2, <1>3, <1>4, <1>5 DEF g
-----------------------------------------------------------------------------
\* What a call has obtained so far are residues of the basis, or a number.
Results ==
  /\ result \in Int
  /\ pc = "scan" => Len(polys) <= 1
  /\ pc = "subtract" => Len(polys) = 2
  /\ pc = "done" => IsResidues(f)
  /\ written # << >> => DOMAIN written = {1} /\ IsResidues(written[1])

\* The part of it that hwt_dist changes.
HwtResults ==
  /\ pc = "scan" => Len(polys) <= 1
  /\ pc = "subtract" => Len(polys) = 2
  /\ pc = "done" => IsResidues(f)

LEMMA ReducedAre ==
  ASSUME Reservoir, NEW n \in 1 .. Len(polys), NEW x \in Slots
  PROVE  polys[n][x] \in Residues(x)
<1>1. PICK g \in [Positions -> -1 .. 1] : polys[n][x] = g[x[2]] % Primes[x]
  BY DEF Reservoir, ExactWeight, Represents
<1>2. PICK e \in Int : e = g[x[2]]
  BY HwtSizes
<1>3. PICK p \in Nat \ {0} : p = Primes[x]
  BY PrimesAssumption
<1>4. e % p \in 0 .. p - 1
  BY Division
<1> QED BY <1>1, <1>2, <1>3, <1>4 DEF Residues

LEMMA SubtractReduces ==
  ASSUME Reservoir, HwtResults, Subtract PROVE IsResidues(f')
<1>1. Len(polys) = 2 /\ f' = PolySub(polys[1], polys[2])
  BY DEF Subtract, HwtResults
<1>2. f' = [x \in Slots |-> SubMod(polys[1][x], polys[2][x], Primes[x])]
  BY <1>1 DEF PolySub
<1>3. ASSUME NEW x \in Slots PROVE f'[x] \in Residues(x)
  <2>1. polys[1][x] \in Residues(x) /\ polys[2][x] \in Residues(x)
    BY <1>1, ReducedAre
  <2>2. Primes[x] \in Nat
    BY PrimesAssumption
  <2>3. \A p \in Nat : \A y, z \in 0 .. p - 1 : SubMod(y, z, p) \in 0 .. p - 1
    BY DEF SubMod, AddMod
  <2>4. f'[x] = SubMod(polys[1][x], polys[2][x], Primes[x])
    BY <1>2
  <2> QED BY <2>1, <2>2, <2>3, <2>4 DEF Residues
<1>4. \A x \in Slots : f'[x] \in Int
  BY <1>3, PrimesAssumption DEF Residues
<1> HIDE DEF PolySub
<1> QED BY <1>2, <1>3, <1>4 DEF IsResidues

LEMMA HwtResultsStep == ASSUME Reservoir, HwtResults, [Next]_vars PROVE HwtResults'
<1>0. Len(polys) \in Nat
  BY DEF Reservoir
<1>1. CASE \E word \in Words : Draw(word)
  BY <1>1 DEF Draw, HwtResults
<1>2. CASE \E rnd \in [0 .. Hwt - 1 -> Words] : Write(rnd)
  <2>1. PICK rnd \in [0 .. Hwt - 1 -> Words] : Write(rnd)
    BY <1>2
  <2> DEFINE new == [x \in Slots |-> IF x[2] \in Hit
                                       THEN Signed(SignWord(rnd, x[1], x[2]), Primes[x]) ELSE 0]
  <2>2. pc = "scan" /\ polys' = Append(polys, new)
    BY <2>1 DEF Write
  <2>3. IF Len(polys) = 0 THEN pc' = pc ELSE pc' = "subtract"
    BY <2>1 DEF Write
  <2> HIDE DEF new
  <2>4. Len(polys') = Len(polys) + 1
    BY <2>2 DEF Reservoir
  <2> QED BY <1>0, <2>2, <2>3, <2>4 DEF HwtResults
<1>3. CASE Subtract
  <2>1. IsResidues(f') /\ pc' = "done"
    BY <1>3, SubtractReduces DEF Subtract
  <2> QED BY <2>1 DEF HwtResults, IsResidues
<1>4. CASE UNCHANGED vars
  BY <1>4 DEF vars, HwtResults, IsResidues
<1> QED BY <1>1, <1>2, <1>3, <1>4 DEF Next, Stopped

LEMMA ResultStep ==
  ASSUME UnusedAhead, Arguments, result \in Int, [SampleZNext]_zvars PROVE result' \in Int
<1>1. center \in Int /\ cr \in Int
  BY CenterDistance, SampleZAssumption DEF Arguments
<1>2. CASE Begin
  BY <1>2 DEF Begin
<1>3. CASE \E entry \in Entries : Center(entry)
  BY <1>1, <1>3 DEF Center, Return
<1>4. CASE \E entry0, entry1 \in Entries : Coins(entry0, entry1)
  BY <1>4 DEF Coins
<1>5. CASE \E n0, n1 \in Deviates : Deviate(n0, n1)
  BY <1>5 DEF Deviate
<1>6. CASE Test
  <2>1. CASE Return(Candidate(norm[head + 1]) + cr)
    <3>1. head \in 0 .. 1
      BY <1>6 DEF Test, UnusedAhead
    <3>2. PICK n \in Deviates : n = norm[head + 1]
      BY <3>1 DEF Arguments
    <3>4. norm[head + 1] \in Int
      <4>1. n \in AllDeviates /\ Reach \in Nat
        BY SampleZAssumption DEF AllDeviates
      <4> QED BY <3>2, <4>1 DEF AllDeviates
    <3>3. Candidate(norm[head + 1]) \in Int
      BY <1>1, <3>4, CandidateUnit
    <3> QED BY <1>1, <2>1, <3>3 DEF Return
  <2>2. CASE UNCHANGED result
    BY <2>2
  <2> QED BY <1>6, <2>1, <2>2 DEF Test
<1>7. CASE UNCHANGED zvars
  BY <1>7 DEF zvars
<1> QED BY <1>2, <1>3, <1>4, <1>5, <1>6, <1>7 DEF SampleZNext

\* The inductive invariant, together with what it takes for the norm tests.
Whole == Results /\ SamplersInv

LEMMA WrittenResidues ==
  ASSUME OutcomesCounted', NEW o, written' = <<o>>, o = [x \in Slots |-> o[x]]
  PROVE  IsResidues(o)
<1>1. \A x \in Slots : o[x] \in Residues(x)
  BY DEF OutcomesCounted
<1>2. \A x \in Slots : o[x] \in Int
  BY <1>1, PrimesAssumption DEF Residues
<1> QED BY <1>1, <1>2 DEF IsResidues

LEMMA ResultsStep ==
  ASSUME SamplersInv, SamplersInv', Results, [SamplersNext]_<<vars, zvars, svars>> PROVE Results'
<1>1. [Next]_vars => HwtResults'
  BY HwtResultsStep DEF SamplersInv, Results, HwtResults
<1>2. [SampleZNext]_zvars => result' \in Int
  BY ResultStep DEF SamplersInv, Results
<1>3. UNCHANGED svars => (written # << >> => DOMAIN written = {1} /\ IsResidues(written[1]))'
  BY DEF svars, Results, IsResidues
<1> DEFINE Put == (written # << >> => DOMAIN written = {1} /\ IsResidues(written[1]))'
<1>4. HwtResults' /\ result' \in Int /\ Put => Results'
  BY DEF HwtResults, Results
<1>5. CASE Challenge
  BY <1>1, <1>2, <1>3, <1>4, <1>5 DEF Challenge
<1>6. CASE Mask
  BY <1>1, <1>2, <1>3, <1>4, <1>6 DEF Mask
<1>7. CASE WordWise
  <2>1. UNCHANGED <<vars, zvars>>
    BY <1>7 DEF WordWise, Ternary, Uniformly
  <2>2. PICK o : written' = <<o>> /\ o = [x \in Slots |-> o[x]]
    <3>1. CASE \E rnd \in [Positions -> 0 .. ByteMax] : Ternary(rnd)
      BY <3>1 DEF Ternary
    <3>2. CASE \E rnd \in UniformInputs : Uniformly(rnd)
      BY <3>2 DEF Uniformly
    <3> QED BY <1>7, <3>1, <3>2 DEF WordWise
  <2>3. IsResidues(o)
    BY <2>2, WrittenResidues DEF SamplersInv
  <2>4. Put
    BY <2>2, <2>3 DEF IsResidues
  <2> QED BY <1>1, <1>2, <1>4, <2>1, <2>4
<1>8. CASE UNCHANGED <<vars, zvars, svars>>
  BY <1>1, <1>2, <1>3, <1>4, <1>8
<1> QED BY <1>5, <1>6, <1>7, <1>8 DEF SamplersNext

LEMMA ResultsInit == SamplersInit => Results
<1> SUFFICES ASSUME SamplersInit PROVE Results
  OBVIOUS
<1>1. Init /\ SampleZInit /\ written = << >>
  BY DEF SamplersInit
<1>2. Len(<< >>) <= 1
  OBVIOUS
<1> QED BY <1>1, <1>2 DEF Init, SampleZInit, Results

\* A mask is a polynomial with one coefficient.
LEMMA MaskResidues ==
  ASSUME result \in Int
  PROVE  IsResidues([x \in Slots |-> IF x[2] = 0 THEN result % Primes[x] ELSE 0])
<1>1. ASSUME NEW x \in Slots PROVE (IF x[2] = 0 THEN result % Primes[x] ELSE 0) \in Residues(x)
  <2>1. PICK p \in Nat \ {0} : p = Primes[x]
    BY PrimesAssumption
  <2>2. result % p \in 0 .. p - 1 /\ 0 \in 0 .. p - 1
    BY Division
  <2> QED BY <2>1, <2>2 DEF Residues
<1>2. \A x \in Slots : Residues(x) \subseteq Int
  BY PrimesAssumption DEF Residues
<1> QED BY <1>1, <1>2 DEF IsResidues

LEMMA ObtainedResidues == ASSUME Results, NEW o \in Obtained PROVE IsResidues(o)
<1>1. CASE pc = "done" /\ o = f
  BY <1>1 DEF Results
<1>2. CASE o = [x \in Slots |-> IF x[2] = 0 THEN result % Primes[x] ELSE 0]
  BY <1>2, MaskResidues DEF Results
<1>3. CASE o \in {written[j] : j \in DOMAIN written}
  BY <1>3 DEF Results
<1> QED BY <1>1, <1>2, <1>3 DEF Obtained

LEMMA NormStep == Results => NormIsLeast
<1> SUFFICES ASSUME Results, NEW o \in Obtained
             PROVE  LET g(n) == Centered(Lift(o, n))
                        sum == MapThenSumSet(LAMBDA n : g(n) * g(n), Coefficients)
                    IN  /\ Represents(o, [n \in Coefficients |-> g(n)])
                        /\ \A n \in Coefficients : \A v \in -Q .. Q :
                             (\A x \in Slots : x[2] = n => v % Primes[x] = o[x]) => g(n) * g(n) <= v * v
                        /\ \A s \in NormSigmas :
                             /\ bdlop_test_norm(o, s) <=> sum < 16 * s * degree
                             /\ pibnd_test_norm(o, s) <=> sum <= 2 * s * s * degree
  BY DEF NormIsLeast
<1>1. IsResidues(o)
  BY ObtainedResidues
<1>2. \A x \in Slots : x[2] \in Coefficients
  BY DEF Coefficients
<1>3. \A n \in Coefficients : \A x \in Slots : x[2] = n => o[x] = Centered(Lift(o, n)) % Primes[x]
  BY <1>1, CenteredLift
<1>4. Represents(o, [n \in Coefficients |-> Centered(Lift(o, n))])
  BY <1>2, <1>3 DEF Represents
<1>5. ASSUME NEW n \in Coefficients, NEW v \in -Q .. Q,
             \A x \in Slots : x[2] = n => v % Primes[x] = o[x]
      PROVE  Centered(Lift(o, n)) * Centered(Lift(o, n)) <= v * v
  <2>1. v \in Int
    OBVIOUS
  <2> QED BY <1>1, <1>5, <2>1, CenteredLift
<1>6. ASSUME NEW s \in NormSigmas
      PROVE  /\ bdlop_test_norm(o, s) <=> SquaredNorm(o) < 16 * s * degree
             /\ pibnd_test_norm(o, s) <=> SquaredNorm(o) <= 2 * s * s * degree
  <2>1. PICK d \in Nat : d = 16 * s * degree
    <3>1. IsFiniteSet(Coefficients)
      <4>1. Coefficients \subseteq Positions
        BY HwtSizes DEF Coefficients
      <4> QED BY <4>1, FinitePositions, FS_Subset
    <3>2. degree \in Nat
      BY <3>1, FS_CardinalityType DEF degree
    <3>3. s \in Nat
      BY SamplersAssumption
    <3> QED BY <3>2, <3>3
  <2>2. PICK w \in Nat \ {0} : w = Word
    BY NormsAssumption
  <2>3. d < w
    BY <2>1, <2>2, SamplersAssumption
  <2>4. d % w = d
    <3>1. d \in 0 .. w - 1 /\ d = d + w * 0
      BY <2>3
    <3>2. (d + w * 0) % w = d
      BY <3>1, Quotient
    <3> QED BY <3>1, <3>2
  <2> QED BY <2>1, <2>2, <2>4 DEF bdlop_test_norm, pibnd_test_norm
<1> QED BY <1>4, <1>5, <1>6 DEF SquaredNorm

\* The norm tests measure the shortest integer polynomial behind whatever a
\* sampler returned, under every basis of distinct odd primes: by the Chinese
\* remainder theorem there is one, and centering makes it the shortest.
THEOREM NormsCorrect == SamplersSpec => []NormIsLeast
<1>1. SamplersInit => Whole
  BY InitSamplers, ResultsInit DEF Whole
<1>2. Whole /\ [SamplersNext]_<<vars, zvars, svars>> => Whole'
  BY NextSamplers, ResultsStep DEF Whole
<1>3. Whole => NormIsLeast
  BY NormStep DEF Whole
<1>4. QED
  BY <1>1, <1>2, <1>3, PTL DEF SamplersSpec
=============================================================================
