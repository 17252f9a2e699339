------------------------------ MODULE Extract ------------------------------
(***************************************************************************)
(* The extraction of the v_{i,j} in pismall.cpp: aex_extract with its      *)
(* radix-2 transform and its division by X^TAU - 1, run by the prover for  *)
(* every component k, coefficient l and prime j, and the recombination of  *)
(* the two primes.                                                         *)
(*                                                                         *)
(* The three work buffers are allocated once and keep what the previous    *)
(* call left in them; two of them change roles in every round.             *)
(***************************************************************************)
EXTENDS GaloisRing

CONSTANTS
  TAU,     \* relations proven at once
  V, N     \* components of a witness, coefficients of each

\* The nodes are TAU-th roots of unity, TAU a power of two, which is to say that all
\* its divisors but 1 are even; the cube of f needs 4 TAU points.
ASSUME ExtractAssumption ==
  /\ TAU \in Nat /\ TAU >= 2 /\ \A d \in 2 .. TAU : TAU % d = 0 => d % 2 = 0
  /\ V \in Nat \ {0} /\ N \in Nat \ {0}
  /\ \A j \in Basis : (P[j] - 1) % (4 * TAU) = 0

AEX_N4 == 4 * TAU
Nodes == 0 .. TAU - 1
Comps == 0 .. V - 1
Coeffs == 0 .. N - 1

VARIABLES
  s, s0,       \* the witnesses and the mask, coefficients modulo Q
  bufA, bufB,  \* buf4 and buf4b
  buft,        \* TAU values
  cur,         \* which of bufA, bufB holds the quotient
  len,         \* its length
  round,       \* j in aex_extract
  out,         \* out[prime][j][i]
  pos,         \* the position <<k, l, prime>> worked on, as one number
  v,           \* v[j][i][k][l], recombined
  phase        \* of the extraction

extraction == <<bufA, bufB, buft, cur, len, round, out, pos, v, phase>>

k_ == pos \div (2 * N)
l_ == (pos \div 2) % N
j_ == pos % 2
p_ == P[j_]
Positions == V * N * 2
-----------------------------------------------------------------------------
\* The bit-reversed counter of the first loop of aex_ntt_tw: carry from the top.
Reversed(n) ==
  LET carry[bit \in 0 .. n, j \in 0 .. n] ==
        IF bit > 0 /\ (j \div bit) % 2 = 1 THEN carry[bit \div 2, j - bit] ELSE j + bit
      rev[i \in 0 .. n - 1] == IF i = 0 THEN 0 ELSE carry[n \div 2, rev[i - 1]]
  IN  rev

\* One stage of butterflies on blocks of length size.
Butterflies(a, n, size, W, p) ==
  LET half == size \div 2
      twisted(i, k) == LET w == W[k * (n \div size)] IN aex_mul_shoup(a[i], w, aex_shoup(w, p), p)
  IN  [i \in 0 .. n - 1 |->
         LET k == i % size
         IN  IF k < half THEN aex_add(a[i], twisted(i + half, k), p)
             ELSE aex_sub(a[i - half], twisted(i, k - half), p)]

\* aex_tw_init and aex_ntt_tw, without the final scaling.
Twiddles(n, w, p) == [i \in 0 .. n \div 2 - 1 |-> aex_pow(w, i, p)]
Transformed(a, n, w, p) ==
  LET rev == Reversed(n)
      W == Twiddles(n, w, p)
      stage[size \in 1 .. n] ==
        IF size = 1 THEN [i \in 0 .. n - 1 |-> a[rev[i]]]
        ELSE Butterflies(stage[size \div 2], n, size, W, p)
  IN  stage[n]

Forward(a, n, p) == Transformed(a, n, RootOf(n, p), p)
Backward(a, n, p) ==
  LET back == Transformed(a, n, aex_pow(RootOf(n, p), p - 2, p), p)
      ninv == aex_pow(n % p, p - 2, p)
  IN  [i \in 0 .. n - 1 |-> aex_mul_shoup(back[i], ninv, aex_shoup(ninv, p), p)]

\* Fault: dst is src, which the first loop clears.
aex_divl0Aliased(src, length, p) == [m \in 0 .. AEX_N4 - 1 |-> 0]

\* Division by X^TAU - 1 into the other buffer, from the top; the entries the
\* quotient does not reach are zero below length and stale above it.
aex_divl0(src, length, p) ==
  LET q[m \in 0 .. AEX_N4 - 1] ==
        IF m + TAU >= length THEN 0 ELSE aex_add(src[m + TAU], q[m + TAU], p)
  IN  q

\* What dst holds after aex_divl0(dst, src, length, p).
Overwritten(dst, src, length, p) ==
  LET q == aex_divl0(src, length, p)
  IN  [m \in 0 .. AEX_N4 - 1 |-> IF m < length THEN q[m] ELSE dst[m]]

ShortLength(length) == IF length > TAU THEN length - TAU ELSE 1
-----------------------------------------------------------------------------
\* The witness values of the position, modulo its prime.
Mask == s0[k_][l_] % p_
Witness == [i \in Nodes |-> s[i][k_][l_] % p_]

ExtractInit ==
  /\ \E junk \in {0, 1} : bufA = [i \in 0 .. AEX_N4 - 1 |-> junk] /\ bufB = bufA
  /\ buft = [i \in Nodes |-> 0]
  /\ cur = "B" /\ len = 0 /\ round = 0 /\ pos = 0
  /\ out = [j \in Basis |-> [r \in 0 .. 2 |-> [i \in Nodes |-> 0]]]
  /\ v = [r \in 0 .. 2 |-> [i \in Nodes |-> [k \in Comps |-> [l \in Coeffs |-> 0]]]]
  /\ phase = "interpolate"

\* f = a (X^TAU - 1) + g, g the interpolant of the witnesses at the nodes.
Interpolate ==
  /\ phase = "interpolate"
  /\ pos < Positions
  /\ buft' = Backward(Witness, TAU, p_)
  /\ bufA' = [i \in 0 .. AEX_N4 - 1 |->
                CASE i = 0 -> aex_sub(buft'[0], Mask, p_)
                  [] i \in 1 .. TAU - 1 -> buft'[i]
                  [] i = TAU -> aex_add(0, Mask, p_)
                  [] OTHER -> 0]
  /\ bufB' = [i \in 0 .. AEX_N4 - 1 |-> IF i <= TAU THEN bufA'[i] ELSE bufB[i]]
  /\ phase' = "evaluate"
  /\ UNCHANGED <<cur, len, round, out, pos, v>>

Cube(x, p) == aex_mul(aex_mul(x, x, p), x, p)

\* f^3 on 4 TAU points.
Evaluate ==
  /\ phase = "evaluate"
  /\ LET a == Forward(bufA, AEX_N4, p_)
     IN  bufA' = [i \in 0 .. AEX_N4 - 1 |-> Cube(a[i], p_)]
  /\ phase' = "divide"
  /\ UNCHANGED <<bufB, buft, cur, len, round, out, pos, v>>

\* Back to coefficients, subtract f, divide by X^TAU - 1.
Divide ==
  /\ phase = "divide"
  /\ LET a == Backward(bufA, AEX_N4, p_)
     IN  bufA' = [i \in 0 .. AEX_N4 - 1 |->
                    IF i <= TAU THEN aex_sub(a[i], bufB[i], p_) ELSE a[i]]
  /\ bufB' = Overwritten(bufB, bufA', AEX_N4, p_)
  /\ len' = ShortLength(AEX_N4)
  /\ cur' = "B" /\ round' = 0
  /\ phase' = "fold"
  /\ UNCHANGED <<buft, out, pos, v>>

Current == IF cur = "A" THEN bufA ELSE bufB
Other == IF cur = "A" THEN bufB ELSE bufA

\* The quotient modulo X^TAU - 1, evaluated at the nodes.
Fold ==
  /\ phase = "fold"
  /\ LET sum[m \in -1 .. AEX_N4 - 1, r \in Nodes] ==
           IF m < 0 THEN 0
           ELSE aex_add(sum[m - 1, r], IF m % TAU = r THEN Current[m] ELSE 0, p_)
     IN  buft' = Forward([r \in Nodes |-> sum[len - 1, r]], TAU, p_)
  /\ out' = [out EXCEPT ![j_][round] = buft']
  /\ phase' = IF round = 2 THEN "store" ELSE "reduce"
  /\ UNCHANGED <<bufA, bufB, cur, len, round, pos, v>>

\* Subtract the interpolant, divide into the other buffer, swap.
Reduce ==
  /\ phase = "reduce"
  /\ buft' = Backward(buft, TAU, p_)
  /\ LET reduced == [i \in 0 .. AEX_N4 - 1 |->
                       IF i < TAU /\ i < len THEN aex_sub(Current[i], buft'[i], p_)
                       ELSE Current[i]]
         quotient == Overwritten(Other, reduced, len, p_)
     IN  /\ bufA' = IF cur = "A" THEN reduced ELSE quotient
         /\ bufB' = IF cur = "A" THEN quotient ELSE reduced
  /\ len' = ShortLength(len)
  /\ cur' = IF cur = "A" THEN "B" ELSE "A"
  /\ round' = round + 1
  /\ phase' = "fold"
  /\ UNCHANGED <<out, pos, v>>

\* The next prime, or both are done: recombine and go to the next coefficient.
StoreResidues ==
  /\ phase = "store"
  /\ v' = IF j_ = 0 THEN v
          ELSE [r \in 0 .. 2 |-> [i \in Nodes |->
                  [v[r][i] EXCEPT ![k_][l_] = Crt(out[0][r][i], out[1][r][i])]]]
  /\ pos' = pos + 1
  /\ phase' = "interpolate"
  /\ UNCHANGED <<bufA, bufB, buft, cur, len, round, out>>

ExtractStep ==
  \/ Interpolate \/ Evaluate \/ Divide \/ Fold \/ Reduce \/ StoreResidues
Extracted == phase = "interpolate" /\ pos = Positions
=============================================================================
