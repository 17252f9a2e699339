---------------------------- MODULE PolyInverse ----------------------------
(***************************************************************************)
(* An element of R_q from its integer coefficients to those of its         *)
(* inverse: mpz2poly, ntt_pow_phi, poly_inverse of shuffle.cpp (in place,  *)
(* as simul_inverse calls it) with one call of residue_inverse per slot,   *)
(* invntt_pow_invphi and poly2mpz.  One action per loop of the transforms, *)
(* for all moduli at once since nothing passes between them; the slots are *)
(* inverted one after the other.                                           *)
(***************************************************************************)
EXTENDS ResidueInverse, Transform

CONSTANT Inputs    \* the polynomials, functions from 0 .. degree - 1

\* The moduli of params.hpp leave two bits of a word free, and much more of the low
\* word of their quotient; it lists a root and an inverse of kMaxPolyDegree for each,
\* which is a power of two.
ASSUME BasisAssumption ==
  /\ Basis \in Seq(Nat) /\ Basis # << >> /\ Moduli = Range(Basis) /\ IsInjective(Basis)
  /\ MaxDegree \in Nat /\ MaxDegree \in Widths(MaxDegree)
  /\ \A p \in Moduli :
       /\ 4 * p <= W /\ Pn(p) * W + p * p <= W * W
       /\ p % (2 * MaxDegree) = 1
       /\ \E g \in 2 .. p - 1 : Squared(g, MaxDegree, p) = p - 1
       /\ \E k \in 1 .. p - 1 : (k * MaxDegree) % p = 1
  /\ \A x \in Inputs : /\ Cardinality(DOMAIN x) \in Widths(MaxDegree) \ {2}
                        /\ x \in [Ix(Cardinality(DOMAIN x)) -> Int]

VARIABLES
  coeffs,      \* the integers
  tab,         \* the tables of each modulus
  op,          \* the words of the polynomial, for each modulus
  N,           \* width of the next layer
  back,        \* the inverse transform is running
  cm, slot,    \* counters of poly_inverse
  ok,          \* its result
  lifted,      \* the coefficients of the inverse
  phase

polyVars == <<coeffs, tab, op, N, back, cm, slot, ok, lifted, phase>>

n == Cardinality(DOMAIN coeffs)
ForAllModuli(f(_)) == op' = [p \in Moduli |-> f(p)]

PolyInit ==
  /\ coeffs \in Inputs
  /\ tab = [p \in Moduli |-> initialize(n, p)]
  /\ op = << >> /\ lifted = << >>
  /\ N = n /\ back = FALSE
  /\ cm = 1 /\ slot = 0 /\ ok = TRUE
  /\ phase = "convert"
  /\ pm = Basis[1] /\ a = 1 /\ t = 0 /\ t1 = 1 /\ r = pm /\ r1 = a
  /\ pc = "idle"

Convert ==
  /\ phase = "convert"
  /\ ForAllModuli(LAMBDA p : mpz2poly(coeffs, p))
  /\ phase' = "twist"
  /\ UNCHANGED <<coeffs, tab, N, back, cm, slot, ok, lifted, vars>>

\* The product with the powers of phi.
Twist ==
  /\ phase = "twist"
  /\ ForAllModuli(LAMBDA p : ShoupProduct(op[p], tab[p].phis, tab[p].shoupphis, p))
  /\ phase' = "layers"
  /\ UNCHANGED <<coeffs, tab, N, back, cm, slot, ok, lifted, vars>>

wtab(p) == IF back THEN tab[p].invomegas ELSE tab[p].omegas
winvtab(p) == IF back THEN tab[p].shoupinvomegas ELSE tab[p].shoupomegas

NttLoop ==
  /\ phase = "layers"
  /\ N > 4
  /\ ForAllModuli(LAMBDA p : Layer(op[p], N, wtab(p)[N], winvtab(p)[N], p))
  /\ N' = N \div 2
  /\ UNCHANGED <<coeffs, tab, back, cm, slot, ok, lifted, phase, vars>>

NttLast ==
  /\ phase = "layers"
  /\ N = 4
  /\ ForAllModuli(LAMBDA p : Strict(LastLayers(op[p], wtab(p)[4], winvtab(p)[4], p), p))
  /\ phase' = IF back THEN "permute again" ELSE "check"
  /\ UNCHANGED <<coeffs, tab, N, back, cm, slot, ok, lifted, vars>>

Check ==
  /\ phase = "check"
  /\ ok' = \A p \in Moduli, i \in Ix(n) : op[p][i] # 0
  /\ phase' = IF ok' THEN "slots" ELSE "done"
  /\ UNCHANGED <<coeffs, tab, op, N, back, cm, slot, lifted, vars>>

Call ==
  /\ phase = "slots"
  /\ pc = "idle"
  /\ pm' = Basis[cm] /\ a' = op[Basis[cm]][slot]
  /\ t' = 0 /\ t1' = 1
  /\ r' = pm' /\ r1' = a'
  /\ pc' = "loop"
  /\ UNCHANGED polyVars

Residue == (Iterate \/ Return) /\ UNCHANGED polyVars

Store ==
  /\ phase = "slots"
  /\ pc = "done"
  /\ op' = [op EXCEPT ![Basis[cm]][slot] = t]
  /\ pc' = "idle"
  /\ slot' = (slot + 1) % n
  /\ cm' = IF slot' = 0 THEN cm + 1 ELSE cm
  /\ phase' = IF cm' > Len(Basis) THEN "permute" ELSE "slots"
  /\ UNCHANGED <<coeffs, tab, N, back, ok, lifted, a, pm, t, t1, r, r1>>

Permute ==
  /\ phase = "permute"
  /\ ForAllModuli(LAMBDA p : permut(op[p]))
  /\ back' = TRUE /\ N' = n
  /\ phase' = "layers"
  /\ UNCHANGED <<coeffs, tab, cm, slot, ok, lifted, vars>>

PermuteAgain ==
  /\ phase = "permute again"
  /\ ForAllModuli(LAMBDA p : permut(op[p]))
  /\ phase' = "untwist"
  /\ UNCHANGED <<coeffs, tab, N, back, cm, slot, ok, lifted, vars>>

\* The product with the inverse powers of phi and the inverse of the degree.
Untwist ==
  /\ phase = "untwist"
  /\ ForAllModuli(LAMBDA p : ShoupProduct(op[p], tab[p].invpoly_times_invphis,
                                       tab[p].shoupinvpoly_times_invphis, p))
  /\ phase' = "lift"
  /\ UNCHANGED <<coeffs, tab, N, back, cm, slot, ok, lifted, vars>>

Lift ==
  /\ phase = "lift"
  /\ lifted' = [i \in Ix(n) |-> poly2mpz([p \in Moduli |-> op[p][i]])]
  /\ phase' = "done"
  /\ UNCHANGED <<coeffs, tab, op, N, back, cm, slot, ok, vars>>

Finished == phase = "done" /\ UNCHANGED <<polyVars, vars>>

Work ==
  \/ Convert \/ Twist \/ NttLoop \/ NttLast \/ Check \/ Call \/ Residue \/ Store
  \/ Permute \/ PermuteAgain \/ Untwist \/ Lift

PolyNext == Work \/ Finished

PolySpec == PolyInit /\ [][PolyNext]_<<polyVars, vars>> /\ WF_<<polyVars, vars>>(Work)
-----------------------------------------------------------------------------
\* "p is small enough (2 bits less than limb)" (ops.hpp): the layers hand each
\* other words below 2p, everyone else gets words below p.
WordsFit ==
  phase \notin {"convert", "done"} =>
    \A p \in Moduli, i \in Ix(n) :
      op[p][i] \in 0 .. (IF phase = "layers" THEN 2 * p ELSE p) - 1

\* The kernels compute what their comments promise, for the residue at hand and
\* every other operand; the lazy product for every word a butterfly can produce.
KernelsExact ==
  pc = "loop" /\ r = pm =>
    LET aprime == compute_shoup(a, pm) IN
    /\ \A y \in 0 .. pm - 1 :
         /\ mulmod(a, y, pm) = (a * y) % pm
         /\ mulmod_shoup(y, a, aprime, pm) = (a * y) % pm
         /\ addmod(a, y, pm) = (a + y) % pm
         /\ addmod_avx2(a, y, pm) = (a + y) % pm
         /\ submod(a, y, pm) = (a - y) % pm
    /\ \A y \in 0 .. 4 * pm - 1 :
         LET z == ShoupLazy(y, a, aprime, pm) IN z < 2 * pm /\ (z - a * y) % pm = 0

\* The product modulo X^n + 1 and the product of the moduli.
Coefficient(x, y, k) ==
  LET sum[i \in 0 .. n] ==
        IF i = 0 THEN 0
        ELSE IF i - 1 <= k THEN sum[i - 1] + x[i - 1] * y[k - (i - 1)]
                           ELSE sum[i - 1] - x[i - 1] * y[n + k - (i - 1)]
  IN  sum[n] % moduli_product
Negacyclic(x, y) == [k \in Ix(n) |-> Coefficient(x, y, k)]
One == [k \in Ix(n) |-> IF k = 0 THEN 1 ELSE 0]

\* x has a root in common with X^n + 1 modulo p.
SharesRoot(x, p) ==
  \E w \in 1 .. p - 1 :
    LET pow[k \in 0 .. n] == IF k = 0 THEN 1 ELSE (pow[k - 1] * w) % p
        value[k \in 0 .. n] == IF k = 0 THEN 0 ELSE value[k - 1] + x[k - 1] * pow[k - 1]
    IN  pow[n] = p - 1 /\ value[n] % p = 0

\* "p is invertible exactly when no residue is zero" (shuffle.cpp:139): the
\* result, taken back to integers, is the inverse in Z_q[X]/(X^n + 1), and zero is
\* returned exactly for polynomials that have none.
InverseIsInverse ==
  phase = "done" =>
    /\ ok <=> \A p \in Moduli : ~SharesRoot(coeffs, p)
    /\ ok => /\ \A i \in Ix(n) : lifted[i] \in 0 .. moduli_product - 1
             /\ Negacyclic(coeffs, lifted) = One

\* Every element comes out of the transforms and the Euclidean loops.
Finishes == <>(phase = "done")
=============================================================================
