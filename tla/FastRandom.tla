----------------------------- MODULE FastRandom -----------------------------
(***************************************************************************)
(* The callers of the process-wide generator.  Samplers of secrets         *)
(* (bdlop_sample_rand, nfl::uniform for masks and shares, sample_z for the *)
(* Gaussian masks) call nfl::fastrandombytes directly.  The Fiat-Shamir    *)
(* sites (lin_hash, shuffle_hash, the prover and the verifier of pibnd)    *)
(* load a public digest as the key of the same generator, sample the       *)
(* challenge, and give the generator back.  All of it happens in one       *)
(* thread, but a secret sampler may run between any two challenges and     *)
(* cannot tell from the state whether the key it uses is public.           *)
(***************************************************************************)
EXTENDS AesCtr, FiniteSets

CONSTANTS
  Digests,     \* digests of the transcripts that are hashed
  DrawLens,    \* lengths in bytes of the secret draws
  ChalDraws,   \* number of draws that sampling one challenge takes
  ChalLen,     \* length in bytes of each of them
  MaxSeeds,    \* bound on the number of keys read from the system
  MaxBlocks    \* bound on the blocks drawn under one key

ASSUME FastRandomAssumption ==
  /\ MaxSeeds \in Nat
  /\ MaxBlocks \in Nat \ {0}
  /\ MaxBlocks <= CtrMod          \* the 32-bit lane does not wrap under one key
  /\ ChalDraws \in Nat \ {0}
  /\ ChalLen \in Nat \ {0}
  /\ DrawLens \subseteq Nat \ {0}
  /\ ChalDraws * NumBlocks(ChalLen) <= MaxBlocks

VARIABLES
  prng,     \* round_key, iv and init of fastrandombytes.cpp
  count,    \* blocks drawn since the key was loaded, never reduced
  hashing,  \* the digest whose challenge is being sampled, or << >>
  partial,  \* blocks of that challenge obtained so far
  draws,    \* draws made for that challenge
  given,    \* history: blocks handed to secret samplers
  oracle,   \* history: digest -> blocks its challenge was made from
  out       \* history: the last secret draw or complete challenge

vars == <<prng, count, hashing, partial, draws, given, oracle, out>>

Idle == hashing = << >>

\* Blocks drawn under the key that the next draw will use.
CountNow == IF prng.init = 0 THEN 0 ELSE count

CanDraw(n) ==
  /\ CountNow + n <= MaxBlocks
  /\ prng.init = 0 => prng.seeds < MaxSeeds

Init ==
  /\ prng = PrngInit
  /\ count = 0
  /\ hashing = << >>
  /\ partial = {}
  /\ draws = 0
  /\ given = {}
  /\ oracle = [h \in {} |-> {}]
  /\ out = {}

\* fastrandombytes(r, rlen) called by a sampler of secrets.
SampleSecret(rlen) ==
  LET n == NumBlocks(rlen)
  IN  /\ Idle
      /\ CanDraw(n)
      /\ prng' = Advance(prng, n)
      /\ count' = CountNow + n
      /\ out' = BlocksOf(prng, n)
      /\ given' = given \cup out'
      /\ UNCHANGED <<hashing, partial, draws, oracle>>

\* fastrandombytes_seed(hash): the transcript has been hashed.
BeginChallenge(h) ==
  /\ Idle
  /\ prng' = LoadKey(prng, HashKey(h))
  /\ count' = 0
  /\ hashing' = <<h>>
  /\ partial' = {}
  /\ draws' = 0
  /\ UNCHANGED <<given, oracle, out>>

\* One fastrandombytes call of the distribution the challenge comes from.
DrawChallenge ==
  LET n == NumBlocks(ChalLen)
  IN  /\ ~Idle
      /\ draws < ChalDraws
      /\ prng' = Advance(prng, n)
      /\ count' = CountNow + n
      /\ partial' = partial \cup BlocksOf(prng, n)
      /\ draws' = draws + 1
      /\ UNCHANGED <<hashing, given, oracle, out>>

\* fastrandombytes_reseed(): the challenge is complete, its key is dropped.
EndChallenge ==
  /\ ~Idle
  /\ draws = ChalDraws
  /\ prng' = Reseed(prng)
  /\ hashing' = << >>
  /\ out' = partial
  /\ oracle' = [h \in DOMAIN oracle \cup {hashing[1]} |->
                  IF h \in DOMAIN oracle THEN oracle[h] ELSE partial]
  /\ partial' = {}
  /\ draws' = 0
  /\ UNCHANGED <<count, given>>

Next ==
  \/ \E rlen \in DrawLens : SampleSecret(rlen)
  \/ \E h \in Digests : BeginChallenge(h)
  \/ DrawChallenge
  \/ EndChallenge

Spec == Init /\ [][Next]_vars
-----------------------------------------------------------------------------
Keys == {<<"none", 0>>} \cup {OsKey(s) : s \in 0 .. MaxSeeds - 1}
                       \cup {HashKey(h) : h \in Digests}

Blocks == Keys \X (0 .. CtrMod - 1)

\* Every counter, flag and history variable stays in its range; the key in use
\* is one the operating system or a transcript supplied.
TypeOK ==
  /\ prng \in [init : {-1, 0, 1}, key : Keys, iv : 0 .. CtrMod - 1, seeds : 0 .. MaxSeeds]
  /\ count \in 0 .. MaxBlocks
  /\ hashing \in {<< >>} \cup {<<h>> : h \in Digests}
  /\ draws \in 0 .. ChalDraws
  /\ partial \subseteq Blocks /\ given \subseteq Blocks /\ out \subseteq Blocks
  /\ DOMAIN oracle \subseteq Digests /\ oracle \in [DOMAIN oracle -> SUBSET Blocks]

\* Secrets are private: no mask, share or randomness vector is ever drawn from a
\* stream keyed by a digest, which anyone can recompute (shuffle.cpp:114-117,
\* 390-393, pibnd.cpp:327-338 each leave a public key loaded for a while).
SecretsFromSystem ==
  \A b \in given : \E s \in 0 .. prng.seeds - 1 : b[1] = OsKey(s)

\* The generator implements the randomness every protocol assumes: fresh secret
\* draws, and challenges that depend on the digest alone.
Source == INSTANCE RandomSource
ImplementsSource == Source!Spec

\* The inductive invariant.  A system key is in use exactly outside the
\* challenges, the counter is the number of blocks drawn under the key in use,
\* and the blocks handed out under it all lie below the counter.
KeyDiscipline ==
  /\ Idle => prng.init # -1
  /\ ~Idle => prng.init = -1 /\ prng.key = HashKey(hashing[1])
  /\ prng.init = 1 => prng.seeds > 0 /\ prng.key = OsKey(prng.seeds - 1)

CounterDiscipline ==
  /\ prng.init # 0 => prng.iv = count % CtrMod
  /\ ~Idle => count = draws * NumBlocks(ChalLen)
  /\ prng.init = 1 => \A b \in given : b[1] = prng.key => b[2] < count

\* Blocks 0, 1, ... of the stream that digest h keys.
Stream(h, len) == {<<HashKey(h), c>> : c \in 0 .. len - 1}

ChallengeDiscipline ==
  /\ ~Idle => partial = Stream(hashing[1], count)
  /\ \A h \in DOMAIN oracle : oracle[h] = Stream(h, ChalDraws * NumBlocks(ChalLen))

IInv ==
  /\ TypeOK
  /\ SecretsFromSystem
  /\ KeyDiscipline
  /\ CounterDiscipline
  /\ ChallengeDiscipline
=============================================================================
