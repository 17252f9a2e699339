------------------------------- MODULE Words -------------------------------
(***************************************************************************)
(* The arithmetic kernels of NFLlib (ops.hpp, opt/arch/avx2.hpp) on words  *)
(* of any width, 64 bits for the ring and 32 for plaintexts: products      *)
(* without a division, by a precomputed quotient, that leave a remainder   *)
(* one subtraction away from the reduced one.                              *)
(***************************************************************************)
EXTENDS Integers

CONSTANT W                   \* 2 ^ kModulusRepresentationBitsize

ASSUME WordAssumption == W \in Nat \ {0} /\ W % 2 = 0

Low(x) == x % W              \* conversion to value_type
High(x) == x \div W          \* >> kModulusRepresentationBitsize

\* z - (z >= m ? m : 0).
Correct(z, m) == IF z >= m THEN z - m ELSE z

addmod(x, y, p) == Correct(Low(x + y), p)
submod(x, y, p) == addmod(x, Low(p - y), p)

\* A lane of the vectorised sum, which adds the plaintexts, polynomials of 32-bit
\* words: AVX2 compares signed lanes only, so both sides move by half the range.
AsSigned(x) == IF x < W \div 2 THEN x ELSE x - W
addmod_avx2(x, y, p) ==
  LET z == Low(x + y)
      cmp == AsSigned(Low(z - W \div 2)) > AsSigned(Low(p - W \div 2 - 1))
  IN  IF cmp THEN Low(z - p) ELSE z

\* The two words of the quotient that params.hpp lists for every modulus.
Newton(p) == (W * W) \div p
Pn(p) == Low(Newton(p))
Pn_hi(p) == High(Newton(p))

\* The quotient of a double word, at most one too small.
Quotient(res, p) == High((Pn(p) * High(res) + res * Pn_hi(p)) % (W * W))

\* Fault: the remainder is taken for reduced.
mulmodLazy(x, y, p) == Low(x * y - Quotient(x * y, p) * p)

mulmod(x, y, p) == Correct(Low(x * y - Quotient(x * y, p) * p), p)

\* while (x >= p) x -= p, then the scaled quotient.
compute_shoup(x, p) == ((x % p) * W) \div p

\* x * y with the quotient of y at hand: below twice the modulus for any word x.
ShoupLazy(x, y, yprime, p) == Low(x * y - High(x * yprime) * p)
mulmod_shoup(x, y, yprime, p) == Correct(ShoupLazy(x, y, yprime, p), p)
=============================================================================
