----------------------------- MODULE MCLinProof -----------------------------
(***************************************************************************)
(* Vectors of two columns over one slot with the prime 5, collapsed keys   *)
(* with first entries 0 and 1 in the second row, Gaussian vectors that     *)
(* make some responses too long, a zero challenge, and statements that     *)
(* are true as well as false.                                              *)
(***************************************************************************)
EXTENDS LinProof, SlotRing

B == INSTANCE BdlopKey WITH WIDTH <- 2, SIZE <- 1

El(x) == <<x>>
V2(a, b) == [j \in 0 .. 1 |-> IF j = 0 THEN El(a) ELSE El(b)]

MCPrimes == <<5>>
MCVectors == B!Vec
MCAddVec(v, w) == B!VecAdd(v, w)
MCScaleVec(b, v) == B!VecScale(b, v)
MCKeys == {[A1 |-> [j \in {0} |-> El(a)], A2 |-> V2(0, 1)] : a \in {2, 3}}
MCFirstRow(k, v) == B!RowOne(k.A1, v)
MCSecondRow(k, v) == B!RowTwo(k.A2, v)
MCShort == {V2(1, 4), V2(0, 1)}
MCGauss == {V2(0, 1), V2(4, 0), V2(1, 1)}
MCFits(v) == \A j \in 0 .. 1 : v[j] # El(2)
MCChallenges == {El(0), El(1), El(4)}
MCScalars == {El(1), El(3)}
=============================================================================
