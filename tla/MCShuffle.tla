----------------------------- MODULE MCShuffle -----------------------------
(***************************************************************************)
(* Shuffles over two slots with the primes 2 and 3, the smallest ring with *)
(* zero divisors.  Two messages: all pairs of lists over two vectors.      *)
(* Three messages, for the other parity: a shuffle, a list with the same   *)
(* product of collapsed messages for some rho only, and one without.       *)
(***************************************************************************)
EXTENDS Shuffle, SlotRing

MCPrimes == <<2, 3>>
VectorA == << <<1, 1>>, <<0, 1>> >>
VectorB == << <<1, 2>>, <<1, 0>> >>
VectorC == << <<1, 1>>, <<0, 0>> >>

Three(a, b, c0) == [j \in 0 .. 2 |-> <<a, b, c0>>[j + 1]]
MCStatements ==
  [0 .. 1 -> {VectorA, VectorB}] \X [0 .. 1 -> {VectorA, VectorB}]
  \cup {<<Three(VectorA, VectorB, VectorC), Three(VectorC, VectorA, VectorB)>>,
        <<Three(VectorA, VectorB, VectorC), Three(VectorB, VectorB, VectorC)>>}
MCChallenges == {PolyOne, PolyZero}
=============================================================================
