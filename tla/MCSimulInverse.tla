--------------------------- MODULE MCSimulInverse ---------------------------
(***************************************************************************)
(* Four messages over two slots with the primes 2 and 3: the smallest     *)
(* ring that has units, zero, and zero divisors that are not zero.         *)
(***************************************************************************)
EXTENDS SimulInverse, SlotRing

MCPrimes == <<2, 3>>
=============================================================================
