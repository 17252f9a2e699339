------------------------------- MODULE AesCtr -------------------------------
(***************************************************************************)
(* The process-wide generator of NFLlib/lib/prng/fastrandombytes.cpp:      *)
(* AES-256 in counter mode with three static variables, the round keys, a  *)
(* counter and an "initialised" flag.  The cipher is idealised: a block of *)
(* output is identified with the pair <<key, counter>> it encrypts, so two *)
(* outputs are related exactly when they share such a pair.  A key is      *)
(* either the n-th 32-byte string that randombytes() read from the         *)
(* operating system or a digest some caller supplied.                      *)
(*                                                                         *)
(* The state is one record, and the operations are functions on it, so     *)
(* that a caller can compose several of them in one step.                  *)
(***************************************************************************)
EXTENDS Integers

CONSTANT CtrMod   \* number of values of the 32-bit counter lane (2^32)

ASSUME CtrModAssumption == CtrMod \in Nat \ {0}

OsKey(n) == <<"os", n>>
HashKey(h) == <<"hash", h>>

\* The static variables at program start; "seeds" counts randombytes() calls.
PrngInit == [init |-> 0, key |-> <<"none", 0>>, iv |-> 0, seeds |-> 0]

\* Fault: the counter goes on where the previous key left it.
LoadKeyKeepCounter(p, k) == [p EXCEPT !.key = k, !.init = -1]

\* fastrandombytes_seed: expand the key and reset the counter.
LoadKey(p, k) == [p EXCEPT !.key = k, !.iv = 0, !.init = -1]

\* Fault: the generator is not given back.
ReseedForgotten(p) == p

\* fastrandombytes_reseed: the next draw fetches a key from the system.
Reseed(p) == [p EXCEPT !.init = 0]

\* Fault: the seed buffer is not refilled, so every system key is the first one.
EnsureKeyedStale(p) ==
  IF p.init # 0 THEN p
  ELSE [LoadKey(p, OsKey(0)) EXCEPT !.init = 1, !.seeds = @ + 1]

\* The prologue of fastrandombytes: key the generator if it is not keyed.
EnsureKeyed(p) ==
  IF p.init # 0 THEN p
  ELSE [LoadKey(p, OsKey(p.seeds)) EXCEPT !.init = 1, !.seeds = @ + 1]

\* Sixteen bytes per block; a trailing partial block costs a whole one.
NumBlocks(rlen) == (rlen + 15) \div 16

\* Fault: the counter is taken to be wider than its lane.
AdvanceUnbounded(p, n) == LET q == EnsureKeyed(p) IN [q EXCEPT !.iv = @ + n]

\* One AES_ctr_round per block: only the low 32-bit lane is incremented.
Advance(p, n) ==
  LET q == EnsureKeyed(p) IN [q EXCEPT !.iv = (@ + n) % CtrMod]

\* The blocks that a draw of n blocks returns.
BlocksOf(p, n) ==
  LET q == EnsureKeyed(p)
  IN  {<<q.key, (q.iv + i) % CtrMod>> : i \in 0 .. n - 1}
=============================================================================
