------------------------------ MODULE Samplers ------------------------------
(***************************************************************************)
(* The samplers the protocols call: hwt_dist for challenges (HwtDist),     *)
(* sample_z for the masks of the linear proof and of pibnd (SampleZ), and  *)
(* the word-wise ones of NFLlib's core.hpp, ZO_dist for randomness and     *)
(* secrets and uniform for keys, shares and challenges.  They share        *)
(* nothing but the generator; a behaviour is one call of one of them.      *)
(* The protocols put what they obtain to the norm tests (Norms).           *)
(***************************************************************************)
EXTENDS HwtDist, SampleZ, Norms

CONSTANTS
  ByteMax,   \* largest random byte
  rho,       \* ZO_dist::rho, 0x7F wherever the protocols sample
  UniformInputs,  \* words uniform() is run on, a function from slots
  NormSigmas \* values of sigma and sigma_sqr in the norm tests

ASSUME SamplersAssumption ==
  /\ ByteMax \in Nat /\ rho \in 0 .. ByteMax /\ rho % 4 = 3
  /\ \A x \in Slots : Primes[x] > 2
  /\ \A x, y \in Slots : x # y /\ x[2] = y[2] => Primes[x] # Primes[y]
  /\ \A x \in Slots : \A l \in 0 .. Primes[x] : 2^(l + 1) = 2 * 2^l
  /\ UniformInputs \subseteq [Slots -> Nat] /\ NormSigmas \subseteq Nat
  /\ \A s \in NormSigmas : 16 * s * degree < Word

VARIABLES
  call,      \* the sampler that is called
  written    \* the polynomial set by ZO_dist or uniform, or << >>

svars == <<call, written>>

\* Fault: the comparison is strict.
ZeroOneStrict(b, p) ==
  IF b < rho THEN LET z == p - 1 + 2 * ((b \div 2) % 2) IN IF z > p THEN z - p ELSE z ELSE 0

\* set(ZO_dist): bit 1 of a byte decides the sign, reduced where it passes P.
ZeroOne(b, p) ==
  IF b <= rho THEN LET z == p - 1 + 2 * ((b \div 2) % 2) IN IF z > p THEN z - p ELSE z ELSE 0

\* 2^(floor(log2 p) + 1), the values a masked word takes.
MaskRange(p) == CHOOSE n \in {2^l : l \in 0 .. p} : n > p /\ n <= 2 * p

\* set(uniform): the low bits, with one subtraction.
Uniform(w, p) == LET t == w % MaskRange(p) IN IF t >= p THEN t - p ELSE t

SamplersInit ==
  /\ Init
  /\ SampleZInit
  /\ call \in {"hwt_dist", "sample_z", "ZO_dist", "uniform"}
  /\ call # "sample_z" => /\ sigma = CHOOSE s \in Sigmas : TRUE
                          /\ center = CHOOSE x \in Centers : TRUE
  /\ written = << >>

Challenge == call = "hwt_dist" /\ Next /\ UNCHANGED <<zvars, svars>>

Mask == call = "sample_z" /\ SampleZNext /\ UNCHANGED <<vars, svars>>

\* One byte per coefficient, the same for every modulus.
Ternary(rnd) ==
  /\ call = "ZO_dist" /\ written = << >>
  /\ written' = <<[x \in Slots |-> ZeroOne(rnd[x[2]], Primes[x])]>>
  /\ UNCHANGED <<call, vars, zvars>>

\* One word per coefficient and modulus.
Uniformly(rnd) ==
  /\ call = "uniform" /\ written = << >>
  /\ written' = <<[x \in Slots |-> Uniform(rnd[x], Primes[x])]>>
  /\ UNCHANGED <<call, vars, zvars>>

WordWise ==
  /\ call \in {"ZO_dist", "uniform"} /\ written = << >>
  /\ \/ \E rnd \in [Positions -> 0 .. ByteMax] : Ternary(rnd)
     \/ \E rnd \in UniformInputs : Uniformly(rnd)

SamplersNext ==
  \/ Challenge
  \/ Mask
  \/ WordWise
  \/ (written # << >> \/ zpc \in {"returned", "aborted"}) /\ UNCHANGED <<vars, zvars, svars>>

\* The word-wise samplers have no loop; the others as in their modules.
SamplersSpec ==
  /\ SamplersInit
  /\ [][SamplersNext]_<<vars, zvars, svars>>
  /\ WF_vars(call = "hwt_dist" /\ \E w \in Accepted(k) : Draw(w))
  /\ WF_vars(call = "hwt_dist" /\ ((\E rnd \in [0 .. Hwt - 1 -> Words] : Write(rnd)) \/ Subtract))
  /\ WF_zvars(call = "sample_z" /\ SampleZNext)
  /\ SF_zvars(call = "sample_z" /\ Coins(0, 0))
  /\ WF_svars(WordWise)
-----------------------------------------------------------------------------
Bytes(v, p) == Cardinality({b \in 0 .. ByteMax : ZeroOne(b, p) = v})
MaskedWords(v, p) == Cardinality({w \in 0 .. MaskRange(p) - 1 : Uniform(w, p) = v})

\* What the code does, in numbers: ZO_dist writes one ternary polynomial under all
\* moduli, with (rho + 1) / 2 of the bytes behind 1 and as many behind -1; uniform
\* writes residues, two masked words behind those below the mask's excess over the
\* modulus and one behind each other (core.hpp:333-348, 165-176).  This is not what
\* the comments say: "P(1) = P(-1) = (rho/0xFF)/2" (poly.hpp:57) and "uniformly
\* random" (core.hpp:142-143) are near it, and exact for neither sampler.
OutcomesCounted ==
  written # << >> =>
    /\ \A x \in Slots : written[1][x] \in Residues(x)
    /\ call = "ZO_dist" =>
         /\ \E g \in [Positions -> -1 .. 1] : Represents(written[1], g)
         /\ \A x \in Slots : \A v \in {1, Primes[x] - 1} : 2 * Bytes(v, Primes[x]) = rho + 1
    /\ call = "uniform" =>
         \A x \in Slots : \A v \in Residues(x) :
           MaskedWords(v, Primes[x]) = IF v < MaskRange(Primes[x]) - Primes[x] THEN 2 ELSE 1

\* What the call obtained: a challenge, a mask as mpz2poly writes it into one
\* coefficient, or the polynomial written.
Obtained ==
  (IF pc = "done" THEN {f} ELSE {})
    \cup (IF zpc = "returned"
            THEN {[x \in Slots |-> IF x[2] = 0 THEN result % Primes[x] ELSE 0]} ELSE {})
    \cup {written[j] : j \in DOMAIN written}

\* The norm tests measure the shortest integer polynomial behind the residues,
\* negative coefficients included, and decide by it (bdlop.cpp:40, pibnd.cpp:218).
NormIsLeast ==
  \A o \in Obtained :
    LET g(n) == Centered(Lift(o, n))
        sum == MapThenSumSet(LAMBDA n : g(n) * g(n), Coefficients)
    IN  /\ Represents(o, [n \in Coefficients |-> g(n)])
        /\ \A n \in Coefficients : \A v \in -Q .. Q :
             (\A x \in Slots : x[2] = n => v % Primes[x] = o[x]) => g(n) * g(n) <= v * v
        /\ \A s \in NormSigmas :
             /\ bdlop_test_norm(o, s) <=> sum < 16 * s * degree
             /\ pibnd_test_norm(o, s) <=> sum <= 2 * s * s * degree

\* A sampler that is called comes back, with a sample or by abort().
EveryCallReturns == <>(pc = "done" \/ zpc \in {"returned", "aborted"} \/ written # << >>)
=============================================================================
