------------------------------ MODULE MCBdlop ------------------------------
(***************************************************************************)
(* Two messages and four columns, as in common.h, over one slot with the   *)
(* prime 3.  The factors are the unit 1, a challenge that is zero and so   *)
(* annihilates everything, and 2; an entry of the randomness is short if   *)
(* it is not 2, so that some openings fail the norm test only.             *)
(***************************************************************************)
EXTENDS Bdlop, SlotRing

MCPrimes == <<3>>
MCShort == {<<0>>, <<1>>}
MCFactors == {<<0>>, <<1>>, <<2>>}
MCMessages == {<<0>>, <<2>>}
MCTails == {<<1>>, <<2>>}
MCFits(x) == x # <<2>>
=============================================================================
