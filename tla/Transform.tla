----------------------------- MODULE Transform -----------------------------
(***************************************************************************)
(* The negacyclic transform of NFLlib (core.hpp, algos.hpp, permut.hpp) on *)
(* the coefficients of one modulus: its tables, one layer of butterflies   *)
(* at a time with the lazy ranges the code lets the words grow to, and the *)
(* conversion to and from integers modulo the product of the moduli        *)
(* (gmp.hpp).                                                              *)
(***************************************************************************)
EXTENDS Words, Sequences, FiniteSets, Functions

CONSTANTS
  MaxDegree,     \* kMaxPolyDegree
  Basis          \* the moduli, in the order of params.hpp

Ix(n) == 0 .. n - 1
\* The widths of the layers, from the degree down to 2: powers of two.
Widths(n) == {N \in 2 .. n : \A d \in 2 .. N : N % d = 0 => d % 2 = 0}

\* x * y with the table of y and its table of quotients.
ShoupProduct(x, y, yprime, p) == [i \in DOMAIN x |-> mulmod_shoup(x[i], y[i], yprime[i], p)]
-----------------------------------------------------------------------------
\* first, first * base, first * base^2, ...
Powers(first, base, n, p) ==
  LET f[i \in Ix(n)] == IF i = 0 THEN first ELSE mulmod(f[i - 1], base, p)
  IN  [i \in Ix(n) |-> f[i]]

Shoups(f, p) == [i \in DOMAIN f |-> (f[i] * W) \div p]

\* w squared as often as n can be halved.
Squared(w, n, p) ==
  LET f[k \in 1 .. n] == IF k = 1 THEN w ELSE LET v == f[k \div 2] IN mulmod(v, v, p)
  IN  f[n]

\* Fault: all layers use the powers of the first root.
prep_wtabSameRoot(w, n, p) == [K \in Widths(n) |-> Powers(1, w, K \div 2, p)]

\* The powers that the layer of each width needs; one table after the other in
\* the code, whose pointers move on by half a width per layer.
prep_wtab(w, n, p) ==
  [K \in Widths(n) |-> Powers(1, Squared(w, n \div K, p), K \div 2, p)]
prep_wtabshoup(wtab, p) == [K \in DOMAIN wtab |-> Shoups(wtab[K], p)]

\* The literals of params.hpp.
primitive_root(p) ==
  CHOOSE g \in 2 .. p - 1 : LET h == Squared(g, MaxDegree, p) IN h = p - 1
invkMaxPolyDegree(p) == CHOOSE k \in 1 .. p - 1 : (k * MaxDegree) % p = 1

\* All tables of one modulus.
initialize(n, p) ==
  LET phi     == Squared(primitive_root(p), MaxDegree \div n, p)
      phis    == Powers(1, phi, n, p)
      invphi  == mulmod(mulmod(phis[n - 1], phi, p), phis[n - 1], p)
      invdeg  == mulmod(invkMaxPolyDegree(p), MaxDegree \div n, p)
      invphis == Powers(invdeg, invphi, n, p)
      omega   == prep_wtab(mulmod(phi, phi, p), n, p)
      inv     == prep_wtab(mulmod(invphi, invphi, p), n, p)
  IN  [phis |-> phis, shoupphis |-> Shoups(phis, p),
       omegas |-> omega, shoupomegas |-> prep_wtabshoup(omega, p),
       invomegas |-> inv, shoupinvomegas |-> prep_wtabshoup(inv, p),
       invpoly_times_invphis |-> invphis,
       shoupinvpoly_times_invphis |-> Shoups(invphis, p)]
-----------------------------------------------------------------------------
\* Fault: the sum is left as it is, although it may exceed 2p.
SumUncorrected(u0, u1, p) == Low(u0 + u1)

\* u0 + u1 and u0 - u1, the second of them not yet back below 2p.
SumOf(u0, u1, p) == Correct(Low(u0 + u1), 2 * p)
LazyDiff(u0, u1, p) == Low(u0 - u1 + 2 * p)

\* One layer of ntt_loop: butterflies between the halves of each block of N.
Layer(x, N, wtab, winvtab, p) ==
  [j \in DOMAIN x |->
     LET i == j % N
         k == i - N \div 2
     IN  IF i < N \div 2
           THEN SumOf(x[j], x[j + N \div 2], p)
           ELSE ShoupLazy(LazyDiff(x[j - N \div 2], x[j], p), wtab[k], winvtab[k], p)]

\* The difference of the last layers, made non-negative by the sign of the word.
SignedDiff(u0, u1, p) ==
  LET d == Low(u0 - u1) IN IF 2 * d >= W THEN Low(d + 2 * p) ELSE d

\* The last two layers together, on groups of four words.
LastGroup(u, w, winv, p) ==
  LET v0 == SumOf(u[0], u[2], p)
      v2 == SignedDiff(u[0], u[2], p)
      v1 == SumOf(u[1], u[3], p)
      v3 == ShoupLazy(LazyDiff(u[1], u[3], p), w, winv, p)
  IN  <<SumOf(v0, v1, p), SignedDiff(v0, v1, p), SumOf(v2, v3, p), SignedDiff(v2, v3, p)>>

LastLayers(x, wtab, winvtab, p) ==
  [j \in DOMAIN x |->
     LET u == [i \in 0 .. 3 |-> x[4 * (j \div 4) + i]]
         z == LastGroup(u, wtab[1], winvtab[1], p)
     IN  z[(j % 4) + 1]]

\* NTT_STRICTMOD.
Strict(x, p) == [j \in DOMAIN x |-> Correct(x[j], p)]

\* The bits of an index, last bit first.
permut_compute(i, n) ==
  LET r[h \in 1 .. n] == IF h = 1 THEN 0 ELSE 2 * r[h \div 2] + ((i \div (h \div 2)) % 2)
  IN  r[n]
permut(x) == [i \in DOMAIN x |-> x[permut_compute(i, Cardinality(DOMAIN x))]]
-----------------------------------------------------------------------------
moduli_product ==
  LET product[c \in 0 .. Len(Basis)] == IF c = 0 THEN 1 ELSE product[c - 1] * Basis[c]
  IN  product[Len(Basis)]

Power[k \in Nat] == IF k = 0 THEN 1 ELSE 2 * Power[k - 1]
\* mpz_sizeinbase(x, 2) and static_log2.
BitLength(x) == CHOOSE b \in 1 .. x : Power[b - 1] <= x /\ x < Power[b]
LogOf(x) == BitLength(x) - 1

shift_modulus_shoup ==
  BitLength(moduli_product) + LogOf(W) + LogOf(Len(Basis)) + 1
modulus_shoup == Power[shift_modulus_shoup] \div moduli_product

\* The integer that is 1 modulo p and 0 modulo the others.
lifting_integer(p) ==
  LET quotient == moduli_product \div p
  IN  quotient * CHOOSE k \in 1 .. p - 1 : (k * quotient) % p = 1

\* poly2mpz on the residues of one coefficient; in gmp.hpp the remainder is
\* again one subtraction away.
poly2mpz(residues) ==
  LET rop[c \in 0 .. Len(Basis)] ==
        IF c = 0 THEN 0
        ELSE rop[c - 1] + lifting_integer(Basis[c]) * residues[Basis[c]]
      sum == rop[Len(Basis)]
      tmp == (sum * modulus_shoup) \div Power[shift_modulus_shoup]
  IN  Correct(sum - tmp * moduli_product, moduli_product)

\* mpz_fdiv_ui rounds towards minus infinity, so negative integers are reduced
\* like the others.
mpz2poly(coeffs, p) == [i \in DOMAIN coeffs |-> coeffs[i] % p]
=============================================================================
