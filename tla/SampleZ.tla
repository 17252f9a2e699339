------------------------------ MODULE SampleZ ------------------------------
(***************************************************************************)
(* sample_z of src/sample_z_small.c and src/sample_z_large.c: a discrete   *)
(* Gaussian around a centre, by rejection of rounded normal deviates.  The *)
(* two files differ in the width of their floating-point type only.        *)
(*                                                                         *)
(* Reals are multiples of 1 / Grid.  A probability is a floating-point     *)
(* number: mantissa m in 2^P .. 2^(P+1) - 1 and exponent e stand for       *)
(* m * 2^(e - P).  The normal deviates are any two points of the grid, and *)
(* exp is a table.  "uses" is a history: how often each byte drawn from    *)
(* the generator, and each deviate made from them, has been used.          *)
(***************************************************************************)
EXTENDS Integers, FiniteSets

CONSTANTS
  P,           \* COSAC_EXP_MANTISSA_PRECISION
  L,           \* COSAC_R_EXPONENT_L
  LowBytes,    \* bytes of an acceptance coin read as r1, and of a uniform
  HighBytes,   \* bytes of an acceptance coin read as r2
  Grid,        \* points of the grid per unit
  Reach,       \* largest deviate, as a multiple of 1 / Grid
  Deviates,    \* those that are drawn
  Sigmas, Centers,
  CenterProb,  \* rc, for each sigma and distance to the nearest integer
  Exp          \* exp(-d / 2 sigma^2), for each sigma and d in units of 1 / Grid^2

Float == [m : 2^P .. 2^(P + 1) - 1, e : -(L + 4) .. 0]
One == [m |-> 2^P, e |-> 0]

Probability == {x \in Float : x.e = 0 => x = One}

\* Both tables have what is looked up.  The exponent field of a coin takes every
\* exp: Box-Muller's deviates end at 8.6 sigma, where the exponential is about
\* exp(-13 / sigma), and COSAC_R_EXPONENT_L is 51.
ASSUME SampleZAssumption ==
  /\ {P, L, Grid, Reach, LowBytes, HighBytes} \subseteq Nat \ {0} /\ Centers \subseteq Int
  /\ Deviates \subseteq -Reach .. Reach
  /\ \A s \in Sigmas :
       /\ \A d \in 0 .. Grid \div 2 : CenterProb[s][d] \in Probability
       /\ \A d \in 0 .. Grid * (2 * Reach + Grid) :
            Exp[s][d] \in Probability /\ Exp[s][d].e >= -(L + 1)
       /\ Exp[s][0] = One

\* What the proofs need to know of the powers of two of a coin.
ASSUME CoinPowers == 2^0 = 1 /\ \A l \in 0 .. P + L + 1 : 2^(l + 1) = 2 * 2^l

EntryBytes == LowBytes + HighBytes          \* COMP_ENTRY_SIZE
Entries == 0 .. 2^(P + 1 + L) - 1           \* the bits of one of them
AllDeviates == -Reach .. Reach

Drawn == ({"r"} \X (0 .. 2 * EntryBytes - 1)) \cup ({"r_bm"} \X (0 .. 2 * LowBytes - 1))
Unused == [b \in Drawn \cup ({"norm"} \X (0 .. 1)) |-> 0]

VARIABLES
  sigma, center,  \* the arguments
  r,              \* DISCRETE_BYTES: the coins of two tests
  norm,           \* the two deviates of one Box-Muller transform
  head, i,        \* next deviate, next coin
  uses,
  result,
  zpc

zvars == <<sigma, center, r, norm, head, i, uses, result, zpc>>

\* round(): halves away from zero.
cr == IF center >= 0 THEN (2 * center + Grid) \div (2 * Grid)
                     ELSE -((Grid - 2 * center) \div (2 * Grid))
c == center - cr * Grid
rc == CenterProb[sigma][IF c < 0 THEN -c ELSE c]

\* Fault: 1.0 is compared like the smaller probabilities.
cosac_compNoOne(entry, x) ==
  entry % 2^(P + 1) < x.m /\ entry \div 2^(P + 1) < 2^(L + 1 + x.e)

\* Mantissa and exponent of the probability against the two parts of the coin.
cosac_comp(entry, x) ==
  x = One \/ (entry % 2^(P + 1) < x.m /\ entry \div 2^(P + 1) < 2^(L + 1 + x.e))

\* yr: rounded away from the centre, so that 0 is left to the first test.
Candidate(n) == LET y == n + c IN (y \div Grid) + (IF y >= 0 THEN 1 ELSE 0)

\* (yrc + norm)(yrc - norm), what rej takes the exponential of.
Excess(n) == LET yrc == Candidate(n) * Grid - c IN (yrc + n) * (yrc - n)
rej(n) == Exp[sigma][Excess(n)]

UsedOnceMore(bytes) == [b \in DOMAIN uses |-> uses[b] + (IF b \in bytes THEN 1 ELSE 0)]
Fresh(u, bytes) == [b \in DOMAIN u |-> IF b \in bytes THEN 0 ELSE u[b]]
CoinBytes == {"r"} \X (i * EntryBytes .. (i + 1) * EntryBytes - 1)

\* Fault: the uniforms are read from the bytes of the coins.
UniformBytesOfCoins == {"r"} \X (0 .. 2 * LowBytes - 1)

UniformBytes == {"r_bm"} \X (0 .. 2 * LowBytes - 1)

\* The locals go out of scope, the history stays.
Return(y) ==
  /\ result' = y
  /\ r' = <<0, 0>> /\ norm' = <<0, 0>> /\ head' = 2 /\ i' = 0
  /\ UNCHANGED <<sigma, center>>
-----------------------------------------------------------------------------
SampleZInit ==
  /\ sigma \in Sigmas /\ center \in Centers
  /\ r = <<0, 0>> /\ norm = <<0, 0>> /\ head = 2 /\ i = 0
  /\ uses = Unused
  /\ result = 0
  /\ zpc = "start"

\* A sigma whose probability of the centre is out of reach of cosac_comp.
Begin ==
  /\ zpc = "start"
  /\ zpc' = IF rc.e < -(L + 1) THEN "aborted" ELSE "center"
  /\ UNCHANGED <<sigma, center, r, norm, head, i, uses, result>>

\* The first coin decides whether the result is the centre.
Center(entry) ==
  /\ zpc = "center"
  /\ IF cosac_comp(entry, rc)
       THEN Return(cr) /\ zpc' = "returned" /\ UNCHANGED uses
       ELSE zpc' = "coins" /\ UNCHANGED <<sigma, center, r, norm, head, i, uses, result>>

\* fastrandombytes(r, DISCRETE_BYTES).
Coins(entry0, entry1) ==
  /\ zpc = "coins"
  /\ r' = <<entry0, entry1>> /\ i' = 0 /\ zpc' = "test"
  /\ uses' = Fresh(uses, {"r"} \X (0 .. 2 * EntryBytes - 1))
  /\ UNCHANGED <<sigma, center, norm, head, result>>

\* Two new deviates when both old ones have been tested.
Deviate(n0, n1) ==
  /\ zpc = "test" /\ head >= 2
  /\ norm' = <<n0, n1>> /\ head' = 0
  /\ uses' = LET u == Fresh(uses, UniformBytes \cup ({"norm"} \X (0 .. 1)))
             IN  [b \in DOMAIN u |-> u[b] + (IF b \in UniformBytes THEN 1 ELSE 0)]
  /\ UNCHANGED <<sigma, center, r, i, result, zpc>>

\* Round the deviate and toss its coin.
Test ==
  LET n == norm[head + 1]
  IN  /\ zpc = "test" /\ head < 2
      /\ uses' = UsedOnceMore(CoinBytes \cup {<<"norm", head>>})
      /\ IF cosac_comp(r[i + 1], rej(n))
           THEN Return(Candidate(n) + cr) /\ zpc' = "returned"
           ELSE /\ head' = head + 1 /\ i' = i + 1
                /\ zpc' = IF i + 1 < 2 THEN "test" ELSE "coins"
                /\ UNCHANGED <<sigma, center, r, norm, result>>

SampleZNext ==
  \/ Begin
  \/ \E entry \in Entries : Center(entry)
  \/ \E entry0, entry1 \in Entries : Coins(entry0, entry1)
  \/ \E n0, n1 \in Deviates : Deviate(n0, n1)
  \/ Test

\* Coins are independent, and entry 0 passes every test: it comes up again and
\* again until it is drawn.
SampleZFairness ==
  /\ WF_zvars(SampleZNext)
  /\ SF_zvars(Coins(0, 0))

SampleZSpec == SampleZInit /\ [][SampleZNext]_zvars
-----------------------------------------------------------------------------
\* The probability of the test that comes next.
Tested == IF zpc = "center" THEN rc ELSE rej(norm[head + 1])

\* An acceptance test draws the centre, or a value, with exactly its probability:
\* so many of the coins pass, and no shift is by a negative amount.
CoinExact ==
  zpc = "center" \/ (zpc = "test" /\ head < 2) =>
    /\ Tested.e >= -(L + 1)
    /\ Cardinality({entry \in Entries : cosac_comp(entry, Tested)})
         = Tested.m * 2^(L + 1 + Tested.e)

\* Every value but the centre comes from one unit of deviates, and the exponents
\* of a deviate's density and of its acceptance, which is no more than certain,
\* add up to the square of the value's distance: density times acceptance is the
\* Gaussian at the value.
DensityExact ==
  zpc = "center" =>
    /\ \A z \in {z \in AllDeviates : z * Grid - c \in AllDeviates} :
         Cardinality({n \in AllDeviates : Candidate(n) = z}) = IF z = 0 THEN 0 ELSE Grid
    /\ \A n \in AllDeviates :
         Excess(n) >= 0 /\ n * n + Excess(n) = (Candidate(n) * Grid - c) * (Candidate(n) * Grid - c)

\* sample_z samples the discrete Gaussian it is asked for (sample_z_small.c:147).
SamplesGaussian == CoinExact /\ DensityExact

\* No byte of the generator enters both a deviate and a coin, or two coins, and
\* no deviate is tested twice (sample_z_small.c:202): the tests are independent.
NothingReused == \A b \in DOMAIN uses : uses[b] <= 1

\* Why: the two indices walk through coins and deviates in step with the tests.
UnusedAhead ==
  /\ uses \in [DOMAIN Unused -> 0 .. 1]
  /\ head \in 0 .. 2 /\ \A n \in 0 .. 1 : n >= head => uses[<<"norm", n>>] = 0
  /\ zpc = "test" =>
       /\ i \in 0 .. 1
       /\ \A n \in i * EntryBytes .. 2 * EntryBytes - 1 : uses[<<"r", n>>] = 0
=============================================================================
