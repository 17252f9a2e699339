------------------------------- MODULE RqRing -------------------------------
(***************************************************************************)
(* The ring R_q as the protocols use it: polynomials in the NTT domain,    *)
(* where +, - and * act residue by residue.  The protocols need only the   *)
(* laws of a commutative ring and an inversion that succeeds exactly on    *)
(* the units, so the ring is a parameter; SlotRing gives NFLlib's.         *)
(***************************************************************************)
EXTENDS Integers

CONSTANTS R, Zero, One, Plus(_, _), Minus(_, _), Times(_, _), Unit(_), Inv(_)

ASSUME RingClosed ==
  /\ Zero \in R /\ One \in R
  /\ \A a, b \in R : Plus(a, b) \in R /\ Minus(a, b) \in R /\ Times(a, b) \in R

ASSUME RingLaws ==
  /\ \A a, b \in R : Plus(a, b) = Plus(b, a) /\ Times(a, b) = Times(b, a)
  /\ \A a, b, c \in R :
       /\ Plus(Plus(a, b), c) = Plus(a, Plus(b, c))
       /\ Times(Times(a, b), c) = Times(a, Times(b, c))
       /\ Times(a, Plus(b, c)) = Plus(Times(a, b), Times(a, c))
       /\ Minus(a, b) = c <=> a = Plus(b, c)
  /\ \A a \in R : Plus(a, Zero) = a /\ Times(a, One) = a

ASSUME UnitLaws ==
  /\ \A a \in R : Unit(a) \in BOOLEAN /\ (Unit(a) <=> \E b \in R : Times(a, b) = One)
  /\ \A a \in R : Unit(a) => Inv(a) \in R /\ Times(a, Inv(a)) = One

\* The first n terms of f, added to zero in their order.
Sum(f, n) == LET g[k \in 0 .. n] == IF k = 0 THEN Zero ELSE Plus(g[k - 1], f[k - 1])
             IN  g[n]
=============================================================================
