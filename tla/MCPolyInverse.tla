--------------------------- MODULE MCPolyInverse ---------------------------
(***************************************************************************)
(* Words of nine bits and the moduli 113 and 17, which allow degrees up to *)
(* eight; four times 113 nearly fills a word, the least room ops.hpp asks  *)
(* for.  The constants of degree four bring every residue                  *)
(* of both moduli to residue_inverse; the polynomials of degree eight need *)
(* a layer before the last two, have coefficients at the ends of their     *)
(* range and below it, or a root in common with X^8 + 1.                   *)
(***************************************************************************)
EXTENDS PolyInverse

MCBasis == <<113, 17>>
MCModuli == {17, 113}

Constants4 == {[i \in 0 .. 3 |-> IF i = 0 THEN c ELSE 0] : c \in 0 .. 112}
Monomials == {[i \in 0 .. 7 |-> IF i = k THEN 3 ELSE 0] : k \in {1, 7}}
Binomials == {[i \in 0 .. 7 |-> IF i = 0 THEN -c ELSE IF i = 1 THEN 1 ELSE 0] : c \in 2 .. 14}
Dense ==
  {[i \in 0 .. 7 |-> IF i % 2 = 0 THEN 1920 ELSE -1920],
   [i \in 0 .. 7 |-> (i * i * 251 + 77 * i + 5) % 1921],
   [i \in 0 .. 7 |-> 112], [i \in 0 .. 7 |-> 1 - i],
   [i \in 0 .. 7 |-> IF i < 4 THEN 960 ELSE -961]}
MCInputs == Constants4 \cup Monomials \cup Binomials \cup Dense
=============================================================================
