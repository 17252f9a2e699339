---------------------------- MODULE MCFastRandom ----------------------------
(***************************************************************************)
(* Two transcripts, secret draws that fill one block and a half or a whole *)
(* number of blocks, challenges that take two draws, and a counter whose   *)
(* wrap is reached exactly when the budget of one key is used up.          *)
(***************************************************************************)
EXTENDS FastRandom

MCDrawLens == {16, 24}
=============================================================================
