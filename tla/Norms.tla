-------------------------------- MODULE Norms --------------------------------
(***************************************************************************)
(* The norm tests of bdlop.cpp and pibnd.cpp on a polynomial given by its  *)
(* residues: lift every coefficient, center it around 0 (util.hpp), sum    *)
(* the squares, compare.  Slots are pairs of modulus and coefficient.      *)
(***************************************************************************)
EXTENDS SlotRing, FiniteSetsExt

CONSTANT Word   \* 2^64, the width of the bound in bdlop_test_norm

Coefficients == {x[2] : x \in Slots}
degree == Cardinality(Coefficients)
ModuliOf(n) == {Primes[x] : x \in {y \in Slots : y[2] = n}}

ASSUME NormsAssumption ==
  /\ Word \in Nat \ {0} /\ IsFiniteSet(Slots)
  /\ \A n, l \in Coefficients : ModuliOf(n) = ModuliOf(l)

\* moduli_product().
Q == ProductSet(ModuliOf(CHOOSE n \in Coefficients : TRUE))

\* poly2mpz, one coefficient: the integer behind the residues.
Lift(f, n) == CHOOSE v \in 0 .. Q - 1 : \A x \in Slots : x[2] = n => v % Primes[x] = f[x]

\* Fault: the middle of the range counts as negative.
CenterEarly(v) == IF v >= Q \div 2 THEN v - Q ELSE v

\* util::center.
Centered(v) == IF v > Q \div 2 THEN v - Q ELSE v

SquaredNorm(f) == MapThenSumSet(LAMBDA n : Centered(Lift(f, n)) * Centered(Lift(f, n)), Coefficients)

\* Strictly below, against a bound in a word; within, against an integer bound.
bdlop_test_norm(f, sigma_sqr) == SquaredNorm(f) < (16 * sigma_sqr * degree) % Word
pibnd_test_norm(f, s) == SquaredNorm(f) <= 2 * s * s * degree
=============================================================================
