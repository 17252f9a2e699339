------------------------------ MODULE MCPibnd ------------------------------
(***************************************************************************)
(* Two relations in two repetitions with a matrix of one row and two       *)
(* columns over polynomials of degree 1 modulo 5 (X^2 + 1 has the roots 2  *)
(* and 3), with true statements and with statements whose errors some      *)
(* challenges cancel.                                                      *)
(***************************************************************************)
EXTENDS Pibnd, SlotRing

MCPrimes == <<5, 5>>

\* From the values at 2 and 3 to the coefficients.
MCInvNtt(x) == <<(3 * (x[1] + x[2])) % 5, (x[2] - x[1]) % 5>>
Centered(n) == IF n > 2 THEN n - 5 ELSE n
MCFits(i, x) ==
  Centered(x[1]) * Centered(x[1]) + Centered(x[2]) * Centered(x[2]) <= IF i = 0 THEN 2 ELSE 4

Matrix(I, J, rows) == [x \in (0 .. I - 1) \X (0 .. J - 1) |-> rows[x[1] + 1][x[2] + 1]]
MCKeys == {Matrix(1, 2, << << <<2, 1>>, <<1, 4>> >> >>)}
MCWitnesses == {Matrix(2, 2, << << <<1, 1>>, <<2, 3>> >>, << <<4, 4>>, <<0, 0>> >> >>)}
MCStatements == {Matrix(2, 1, << << <<1, 4>> >>, << <<0, 0>> >> >>)}
MCGauss == {<<1, 1>>, <<3, 4>>}
MCTernary == {<<1, 1>>, <<4, 4>>}
MCLeftovers == {<<1, 2>>}
=============================================================================
