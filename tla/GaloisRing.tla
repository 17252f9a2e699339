----------------------------- MODULE GaloisRing -----------------------------
(***************************************************************************)
(* The arithmetic pismall.cpp is built on: words modulo one of the two     *)
(* primes of the RNS basis, Z_q by their recombination, and the challenge  *)
(* domain GR(q,2) = Z_q[Y]/(Y^2 - AEX_NR), whose elements are pairs        *)
(* <<c0, c1>>.  Two of its functions are written a second time, on a store *)
(* of variables, since callers pass them the same variable twice.          *)
(***************************************************************************)
EXTENDS Integers

CONSTANTS
  P0, P1,    \* the primes of the basis
  WordSize   \* 2^64 for the program's words

AEX_NR == 3

IsPrime(p) == p \in Nat /\ p >= 2 /\ \A d \in 2 .. p - 1 : p % d # 0

\* "AEX_NR is a non-residue modulo both primes", which a test of the program checks.
ASSUME GaloisAssumption ==
  /\ IsPrime(P0) /\ IsPrime(P1) /\ P0 # P1 /\ P0 # 2 /\ P1 # 2
  /\ \A p \in {P0, P1} : \A y \in 0 .. p - 1 : (y * y) % p # AEX_NR % p
  /\ WordSize \in Nat /\ WordSize >= 2 * P0 /\ WordSize >= 2 * P1

Basis == 0 .. 1
P == [j \in Basis |-> IF j = 0 THEN P0 ELSE P1]
Q == P0 * P1
Zq == 0 .. Q - 1
-----------------------------------------------------------------------------
\* Words modulo one prime.
aex_mul(a, b, p) == (a * b) % p
aex_add(a, b, p) == IF a + b >= p THEN a + b - p ELSE a + b
aex_sub(a, b, p) == IF a >= b THEN a - b ELSE a + p - b

aex_pow(a, e, p) ==
  LET f[n \in 0 .. e] ==
        IF n = 0 THEN 1
        ELSE LET half == f[n \div 2]
             IN  aex_mul(aex_mul(half, half, p), IF n % 2 = 1 THEN a % p ELSE 1, p)
  IN  f[e]

\* Shoup multiplication by w: the quotient is estimated from the precomputed wp,
\* the remainder is taken modulo the word, and corrected once.
aex_shoup(w, p) == (w * WordSize) \div p
aex_mul_shoup(a, w, wp, p) ==
  LET hi == (a * wp) \div WordSize
      r == (a * w - hi * p) % WordSize
  IN  IF r >= p THEN r - p ELSE r

\* The first g that gives an element of order n, a power of two, modulo p.
RootOf(n, p) ==
  LET root(g) == aex_pow(g, (p - 1) \div n, p)
      g == CHOOSE g \in 2 .. p - 1 :
             /\ aex_pow(root(g), n \div 2, p) # 1
             /\ \A lower \in 2 .. g - 1 : aex_pow(root(lower), n \div 2, p) = 1
  IN  root(g)

\* Recombination of two residues: r0 + P0 * ((r1 - r0) / P0 mod P1).
Crt(r0, r1) ==
  r0 + P0 * aex_mul(aex_sub(r1 % P1, r0 % P1, P1), aex_pow(P0 % P1, P1 - 2, P1), P1)

\* A root of unity of order n modulo Q: one per prime, recombined.
aex_root(n) == Crt(RootOf(n, P0), RootOf(n, P1))
-----------------------------------------------------------------------------
\* Z_q, the integers modulo the product.
Add(a, b) == (a + b) % Q
Sub(a, b) == (a - b + Q) % Q
Mul(a, b) == (a * b) % Q
Invertible(a) == a % P0 # 0 /\ a % P1 # 0
ZqInverse(a) == Crt(aex_pow(a % P0, P0 - 2, P0), aex_pow(a % P1, P1 - 2, P1))

\* GR(q,2).
Gr == Zq \X Zq
GrZero == <<0, 0>>
GrOne == <<1, 0>>
gr_add(a, b) == <<Add(a[1], b[1]), Add(a[2], b[2])>>
gr_sub(a, b) == <<Sub(a[1], b[1]), Sub(a[2], b[2])>>
gr_scalar(a, s) == <<Mul(a[1], s), Mul(a[2], s)>>
gr_mul(a, b) ==
  <<Add(Mul(a[1], b[1]), Mul(AEX_NR, Mul(a[2], b[2]))),
    Add(Mul(a[1], b[2]), Mul(a[2], b[1]))>>

Norm(a) == Sub(Mul(a[1], a[1]), Mul(AEX_NR, Mul(a[2], a[2])))

\* gr_inv succeeds if the norm is invertible, that is if a is no zero divisor.
GrUnit(a) == Invertible(Norm(a))
gr_inv(a) == gr_scalar(<<a[1], Sub(0, a[2])>>, ZqInverse(Norm(a)))

gr_pow(a, e) ==
  LET f[n \in 0 .. e] ==
        IF n = 0 THEN GrOne
        ELSE LET half == f[n \div 2]
             IN  gr_mul(gr_mul(half, half), IF n % 2 = 1 THEN a ELSE GrOne)
  IN  f[e]
-----------------------------------------------------------------------------
(***************************************************************************)
(* The same on a store: the variables "a", "b" and "c" of a caller with    *)
(* two coordinates each, and the locals "t" and "m1" of the functions.     *)
(***************************************************************************)
Variables == {"a", "b", "c"}
Cells == (Variables \X {0, 1}) \cup ({"t", "m1"} \X {0})
T == <<"t", 0>>
M1 == <<"m1", 0>>

\* Fault: the doubled value goes into the result, which may be the argument.
MulNrInPlace(store, r, a) ==
  LET doubled == [store EXCEPT ![r] = Add(store[a], store[a])]
  IN  [doubled EXCEPT ![r] = Add(doubled[r], doubled[a])]

\* r <- AEX_NR * a for AEX_NR = 3, through a temporary.
MulNr(store, r, a) ==
  LET d == Add(store[a], store[a])
  IN  [store EXCEPT ![r] = Add(d, store[a])]

\* gr_mul(r, a, b): Karatsuba, all products before the first write.
MulInto(store, r, a, b) ==
  LET m0 == Mul(store[<<a, 0>>], store[<<b, 0>>])
      m1 == Mul(store[<<a, 1>>], store[<<b, 1>>])
      sums == Mul(Add(store[<<a, 0>>], store[<<a, 1>>]), Add(store[<<b, 0>>], store[<<b, 1>>]))
      m2 == Sub(Sub(sums, m0), m1)
      with_t == MulNr([store EXCEPT ![M1] = m1], T, M1)
  IN  [with_t EXCEPT ![<<r, 0>>] = Add(m0, with_t[T]), ![<<r, 1>>] = m2]

\* gr_inv(r, a): r is written only if the norm is invertible.
InvInto(store, r, a) ==
  LET squared == [store EXCEPT ![T] = Mul(store[<<a, 1>>], store[<<a, 1>>])]
      tripled == MulNr(squared, T, T)
      n == Sub(Mul(store[<<a, 0>>], store[<<a, 0>>]), tripled[T])
      g == ZqInverse(n)
      negated == [tripled EXCEPT ![T] = Mul(Sub(0, store[<<a, 1>>]), g)]
      first == [negated EXCEPT ![<<r, 0>>] = Mul(negated[<<a, 0>>], g)]
  IN  IF Invertible(n) THEN [first EXCEPT ![<<r, 1>>] = first[T]] ELSE tripled

Value(store, x) == <<store[<<x, 0>>], store[<<x, 1>>]>>
Store(a, b, c) ==
  [cell \in Cells |->
     CASE cell[1] = "a" -> a[cell[2] + 1]
       [] cell[1] = "b" -> b[cell[2] + 1]
       [] cell[1] = "c" -> c[cell[2] + 1]
       [] OTHER -> 0]

\* Whatever variables coincide, the result is the product or the inverse, a
\* variable that is not the result keeps its value, and so does the result of
\* an inversion that fails.
AliasSafe(store) ==
  /\ \A r, a, b \in Variables :
       LET after == MulInto(store, r, a, b)
       IN  \A x \in Variables :
             Value(after, x) = IF x = r THEN gr_mul(Value(store, a), Value(store, b))
                               ELSE Value(store, x)
  /\ \A r, a \in Variables :
       LET after == InvInto(store, r, a)
       IN  \A x \in Variables :
             Value(after, x) = IF x = r /\ GrUnit(Value(store, a)) THEN gr_inv(Value(store, a))
                               ELSE Value(store, x)
=============================================================================
