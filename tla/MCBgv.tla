------------------------------- MODULE MCBgv -------------------------------
(***************************************************************************)
(* Two coefficients modulo 49, the smallest modulus that leaves room for   *)
(* one addition and the noise of two parties: the noise these values can   *)
(* add up to reaches minus half of it.                                     *)
(***************************************************************************)
EXTENDS Bgv

P2(a, b) == [i \in 0 .. 1 |-> IF i = 0 THEN a ELSE b]

MCTernary == {P2(-1, -1), P2(1, -1)}
MCUniform == {P2(48, 1), P2(0, 25)}
MCMessages == {P2(0, 0), P2(1, 1)}
=============================================================================
