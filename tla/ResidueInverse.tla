--------------------------- MODULE ResidueInverse ---------------------------
(***************************************************************************)
(* residue_inverse of shuffle.cpp: a^-1 modulo one prime of the RNS basis, *)
(* by the extended Euclidean algorithm on signed 64-bit integers.  Only    *)
(* the coefficient of a is tracked; the one of pm is implicit.             *)
(***************************************************************************)
EXTENDS Integers

CONSTANT Moduli   \* the primes of the basis

ASSUME ModuliAssumption ==
  \A p \in Moduli : /\ p \in Nat /\ p >= 2
                    /\ \A d \in 2 .. p - 1, e \in 1 .. p : d * e # p

VARIABLES a, pm,      \* the arguments
          t, t1,      \* Bezout coefficients of a
          r, r1,      \* remainders
          pc

vars == <<a, pm, t, t1, r, r1, pc>>

\* poly_inverse calls it with the non-zero residues of a modulus only.
Init ==
  /\ pm \in Moduli
  /\ a \in 1 .. pm - 1
  /\ t = 0 /\ t1 = 1
  /\ r = pm /\ r1 = a
  /\ pc = "loop"

\* Fault: the modulus is divided instead of the remainder.
QuoStale == pm \div r1

Quo == r \div r1

\* Fault: the remainders are swapped but not reduced.
IterateSwapOnly ==
  /\ pc = "loop"
  /\ r1 # 0
  /\ t' = t1 /\ t1' = t
  /\ r' = r1 /\ r1' = r
  /\ UNCHANGED <<a, pm, pc>>

Iterate ==
  /\ pc = "loop"
  /\ r1 # 0
  /\ t' = t1 /\ t1' = t - Quo * t1
  /\ r' = r1 /\ r1' = r - Quo * r1
  /\ UNCHANGED <<a, pm, pc>>

\* Fault: a negative coefficient is returned as it is.
ReturnSigned ==
  /\ pc = "loop"
  /\ r1 = 0
  /\ pc' = "done"
  /\ UNCHANGED <<a, pm, t, t1, r, r1>>

\* return t < 0 ? t + pm : t; the result is left in t.
Return ==
  /\ pc = "loop"
  /\ r1 = 0
  /\ t' = IF t < 0 THEN t + pm ELSE t
  /\ pc' = "done"
  /\ UNCHANGED <<a, pm, t1, r, r1>>

Stopped == pc = "done" /\ UNCHANGED vars

Next == Iterate \/ Return \/ Stopped

Spec == Init /\ [][Next]_vars /\ WF_vars(Iterate \/ Return)
-----------------------------------------------------------------------------
\* The remainders never become negative, though they are signed in the code.
TypeOK ==
  /\ pm \in Moduli /\ a \in 1 .. pm - 1
  /\ t \in Int /\ t1 \in Int /\ r \in Nat /\ r1 \in Nat
  /\ pc \in {"loop", "done"}

\* The result is the inverse, reduced to 0 .. pm - 1.
ReturnsInverse ==
  pc = "done" => t \in 1 .. pm - 1 /\ (t * a) % pm = 1

\* "Every modulus of the basis is 39 bits, so the Bezout coefficients stay well
\* inside int64_t": neither the coefficients nor the product quo * t1 that
\* updates them ever exceeds the modulus in magnitude.
Within(x) == -pm <= x /\ x <= pm
CoefficientsFit ==
  /\ Within(t) /\ Within(t1)
  /\ pc = "loop" /\ r1 # 0 => Within(Quo * t1) /\ Within(Quo * r1)

\* The Euclidean loop ends for every residue of every modulus.
Terminates == <>(pc = "done")

\* Loop invariants: the remainders shrink and each is its coefficient times a
\* up to a multiple of pm; the coefficients alternate in sign, so that the two
\* products of their magnitudes with the remainders add up to the modulus.
Decreasing ==
  /\ 0 <= r1 /\ r1 < r /\ r <= pm
  /\ r1 = 0 => r < pm

Bezout(x, c) == \E s \in Int : x = s * pm + c * a

Alternating ==
  \/ t <= 0 /\ t1 >= 1 /\ t1 * r - t * r1 = pm
  \/ t >= 0 /\ t1 <= -1 /\ t * r1 - t1 * r = pm

LoopInv ==
  /\ Decreasing
  /\ Bezout(r, t) /\ Bezout(r1, t1)
  /\ Alternating
  /\ -pm <= 2 * t /\ 2 * t <= pm

\* The inductive invariant.
IInv ==
  /\ TypeOK
  /\ pc = "loop" => LoopInv
  /\ pc = "done" => Within(t1)
  /\ ReturnsInverse
=============================================================================
