----------------------------- MODULE MCSamplers -----------------------------
(***************************************************************************)
(* For hwt_dist two of four positions, under two moduli both large enough  *)
(* to tell the coefficients -2 .. 2 of a challenge apart.  For sample_z    *)
(* mantissas of two bits and an exponent field of one bit, so that 1, 3/4, *)
(* 1/2, 3/8 and 1/4 are the probabilities a coin can have; half units,     *)
(* five deviates up to two and a half; centres that are rounded either     *)
(* way; a sigma in range and one out of range.                             *)
(***************************************************************************)
EXTENDS Samplers

MCPrimes == [x \in (1 .. 2) \X (0 .. 3) |-> IF x[1] = 1 THEN 5 ELSE 7]

\* All pairs of words, up to twice a mask, at any one position.
MCUniformInputs ==
  {[x \in DOMAIN MCPrimes |-> IF x[2] = n THEN w[x[1]] ELSE 0] :
     n \in 0 .. 3, w \in [1 .. 2 -> 0 .. 15]}

MCCenters == {-1, 0, 5}
MCDeviates == {-5, -1, 0, 2, 4}
MCFloat(m, e) == [m |-> m, e |-> e]
MCCenterProb ==
  [s \in {"in_range", "beyond"} |->
     [d \in 0 .. 1 |-> IF s = "beyond" THEN MCFloat(3, -3) ELSE MCFloat(3 - d, -1)]]
MCExp ==
  [s \in {"in_range", "beyond"} |->
     [d \in 0 .. 40 |-> CASE d = 0 -> MCFloat(2, 0)
                          [] d \in 1 .. 2 -> MCFloat(3, -1)
                          [] d \in 3 .. 5 -> MCFloat(2, -1)
                          [] d \in 6 .. 10 -> MCFloat(3, -2)
                          [] OTHER -> MCFloat(2, -2)]]
=============================================================================
