-------------------------- MODULE RefinementProofs --------------------------
(***************************************************************************)
(* The two components that have an abstract specification of their own,    *)
(* and what they need to implement it.                                     *)
(*                                                                         *)
(* FastRandom implements RandomSource, for every counter width, every set  *)
(* of digests and every budget that keeps the counter from wrapping under  *)
(* one key.                                                                *)
(*                                                                         *)
(* Bgv implements AdditiveEncryption, for every degree, every odd modulus, *)
(* every number of parties and every budget of additions that leave the    *)
(* noise room (NoiseBudget).  Sums and negacyclic products of integer      *)
(* polynomials come first, then congruence modulo q and centering, then    *)
(* what is behind a ciphertext, the shares and the partial decryptions,    *)
(* and at last the inductive invariant and the refinement.                 *)
(***************************************************************************)
EXTENDS FastRandom, Bgv, WellFoundedInduction, TLAPS

LEMMA ModSmall ==
  ASSUME NEW n \in Nat \ {0}, NEW x \in 0 .. n - 1
  PROVE  x % n = x
OBVIOUS

LEMMA ModRange ==
  ASSUME NEW n \in Nat \ {0}, NEW x \in Nat
  PROVE  x % n \in 0 .. n - 1
OBVIOUS

LEMMA NumBlocksPos ==
  ASSUME NEW r \in Nat \ {0}
  PROVE  NumBlocks(r) \in Nat \ {0}
BY DEF NumBlocks

LEMMA StreamElement ==
  ASSUME NEW h, NEW len, NEW b
  PROVE  b \in Stream(h, len) <=> \E c \in 0 .. len - 1 : b = <<HashKey(h), c>>
BY DEF Stream

\* Under the budget a draw of n blocks returns the next n blocks of the stream.
LEMMA DrawIsNextBlocks ==
  ASSUME IInv, NEW n \in Nat \ {0}, CountNow + n <= MaxBlocks
  PROVE  LET q == EnsureKeyed(prng)
         IN  /\ CountNow \in 0 .. MaxBlocks
             /\ BlocksOf(prng, n) = {<<q.key, CountNow + i>> : i \in 0 .. n - 1}
             /\ Advance(prng, n) = [q EXCEPT !.iv = (CountNow + n) % CtrMod]
             /\ q.iv = CountNow
<1> DEFINE q == EnsureKeyed(prng)
<1> USE CtrModAssumption, FastRandomAssumption
<1>1. CountNow \in 0 .. MaxBlocks /\ CountNow < CtrMod
  BY DEF CountNow, IInv, TypeOK
<1>2. q.iv = CountNow
  <2>1. CASE prng.init = 0
    BY <2>1 DEF EnsureKeyed, LoadKey, CountNow, IInv, TypeOK
  <2>2. CASE prng.init # 0
    BY <2>2, <1>1, ModSmall DEF EnsureKeyed, CountNow, IInv, CounterDiscipline
  <2>3. QED
    BY <2>1, <2>2
<1>3. \A i \in 0 .. n - 1 : (q.iv + i) % CtrMod = CountNow + i
  BY <1>1, <1>2, ModSmall
<1>4. BlocksOf(prng, n) = {<<q.key, CountNow + i>> : i \in 0 .. n - 1}
  BY <1>3 DEF BlocksOf
<1>5. Advance(prng, n) = [q EXCEPT !.iv = (CountNow + n) % CtrMod]
  BY <1>2 DEF Advance
<1>6. QED
  BY <1>1, <1>2, <1>4, <1>5

LEMMA InitIInv == Init => IInv
BY CtrModAssumption, FastRandomAssumption
DEF Init, IInv, TypeOK, PrngInit, Keys, Blocks, SecretsFromSystem, KeyDiscipline,
    CounterDiscipline, ChallengeDiscipline, Idle

LEMMA SecretStep ==
  ASSUME IInv, NEW rlen \in DrawLens, SampleSecret(rlen)
  PROVE  IInv' /\ out' \cap (given \cup UNION {oracle[h] : h \in DOMAIN oracle}) = {}
<1> DEFINE n == NumBlocks(rlen)
           q == EnsureKeyed(prng)
<1> USE CtrModAssumption, FastRandomAssumption
<1>1. n \in Nat \ {0}
  BY NumBlocksPos
<1>2. /\ CountNow \in 0 .. MaxBlocks
      /\ BlocksOf(prng, n) = {<<q.key, CountNow + i>> : i \in 0 .. n - 1}
      /\ Advance(prng, n) = [q EXCEPT !.iv = (CountNow + n) % CtrMod]
  BY <1>1, DrawIsNextBlocks DEF SampleSecret, CanDraw
<1> HIDE DEF n
<1>3. /\ Idle /\ CountNow + n <= MaxBlocks
      /\ prng.init = 0 => prng.seeds < MaxSeeds
      /\ prng' = [q EXCEPT !.iv = (CountNow + n) % CtrMod]
      /\ count' = CountNow + n
      /\ out' = {<<q.key, CountNow + i>> : i \in 0 .. n - 1}
      /\ given' = given \cup out'
      /\ UNCHANGED <<hashing, partial, draws, oracle>>
  BY <1>2 DEF SampleSecret, CanDraw, n
<1>4. /\ q \in [init : {1}, key : Keys, iv : 0 .. CtrMod - 1, seeds : 1 .. MaxSeeds]
      /\ q.key = OsKey(q.seeds - 1)
      /\ q.seeds >= prng.seeds
  <2>1. CASE prng.init = 0
    <3>1. q = [prng EXCEPT !.key = OsKey(prng.seeds), !.iv = 0, !.init = 1, !.seeds = @ + 1]
      BY <2>1 DEF EnsureKeyed, LoadKey, IInv, TypeOK
    <3>2. OsKey(prng.seeds) \in Keys /\ prng.seeds \in 0 .. MaxSeeds - 1
      BY <2>1, <1>3 DEF IInv, TypeOK, Keys
    <3>3. q \in [init : {1}, key : Keys, iv : 0 .. CtrMod - 1, seeds : 1 .. MaxSeeds]
      <4>1. q = [init |-> 1, key |-> OsKey(prng.seeds), iv |-> 0, seeds |-> prng.seeds + 1]
        BY <3>1 DEF IInv, TypeOK
      <4>2. prng.seeds + 1 \in 1 .. MaxSeeds
        BY <3>2
      <4>3. QED
        BY <4>1, <4>2, <3>2
    <3>4. q.seeds = prng.seeds + 1 /\ q.key = OsKey(prng.seeds)
      BY <3>1 DEF IInv, TypeOK
    <3>5. q.seeds - 1 = prng.seeds /\ q.seeds >= prng.seeds
      BY <3>2, <3>4
    <3>6. QED
      BY <3>3, <3>4, <3>5
  <2>2. CASE prng.init # 0
    <3>1. prng.init = 1 /\ q = prng
      BY <2>2, <1>3 DEF IInv, TypeOK, KeyDiscipline, EnsureKeyed
    <3>2. QED
      BY <3>1 DEF IInv, TypeOK, KeyDiscipline
  <2>3. QED
    BY <2>1, <2>2
<1>5. (CountNow + n) % CtrMod \in 0 .. CtrMod - 1
  BY <1>1, <1>2, ModRange
<1>6. /\ prng' \in [init : {1}, key : Keys, iv : 0 .. CtrMod - 1, seeds : 1 .. MaxSeeds]
      /\ prng'.init = 1 /\ prng'.key = q.key /\ prng'.seeds = q.seeds
      /\ prng'.iv = (CountNow + n) % CtrMod
  BY <1>3, <1>4, <1>5
<1>7. out' \subseteq Blocks
  BY <1>1, <1>2, <1>3, <1>4 DEF Blocks
<1>8. out' \cap given = {}
  <2>1. CASE prng.init = 0
    BY <2>1, <1>3 DEF EnsureKeyed, LoadKey, IInv, SecretsFromSystem, TypeOK, OsKey
  <2>2. CASE prng.init # 0
    <3>1. prng.init = 1 /\ q = prng /\ CountNow = count
      BY <2>2, <1>3 DEF IInv, TypeOK, KeyDiscipline, EnsureKeyed, CountNow
    <3>2. \A b \in given : b[1] = q.key => b[2] < CountNow
      BY <3>1 DEF IInv, CounterDiscipline
    <3>3. \A b \in out' : b[1] = q.key /\ b[2] >= CountNow
      BY <1>3, <1>2, <1>1
    <3>4. \A b \in out' : b[2] \in Int
      BY <1>3, <1>2, <1>1
    <3>5. QED
      BY <3>2, <3>3, <3>4, <1>2
  <2>3. QED BY <2>1, <2>2
<1>9. out' \cap (UNION {oracle[h] : h \in DOMAIN oracle}) = {}
  BY <1>3, <1>4 DEF IInv, ChallengeDiscipline, Stream, OsKey, HashKey
<1>10. TypeOK'
  <2>1. prng' \in [init : {-1, 0, 1}, key : Keys, iv : 0 .. CtrMod - 1, seeds : 0 .. MaxSeeds]
    BY <1>6
  <2>2. count' \in 0 .. MaxBlocks
    BY <1>1, <1>2, <1>3
  <2>3. QED
    BY <2>1, <2>2, <1>3, <1>7 DEF IInv, TypeOK
<1>11. SecretsFromSystem'
  <2>1. \A b \in out' : b[1] = OsKey(q.seeds - 1) /\ q.seeds - 1 \in 0 .. prng'.seeds - 1
    BY <1>3, <1>4, <1>6
  <2>2. \A b \in given : \E k \in 0 .. prng'.seeds - 1 : b[1] = OsKey(k)
    <3>1. prng.seeds \in Nat /\ prng'.seeds \in Nat /\ prng.seeds <= prng'.seeds
      BY <1>4, <1>6, SMTT(30) DEF IInv, TypeOK
    <3>2. QED
      BY <3>1 DEF IInv, SecretsFromSystem
  <2>3. QED
    BY <2>1, <2>2, <1>3 DEF SecretsFromSystem
<1>12. KeyDiscipline'
  BY <1>3, <1>4, <1>6, SMTT(30) DEF KeyDiscipline, Idle
<1>13. CounterDiscipline'
  <2>1. \A b \in given : b[1] = q.key => b[2] < CountNow
    <3>1. CASE prng.init = 0
      BY <3>1 DEF EnsureKeyed, LoadKey, IInv, SecretsFromSystem, TypeOK, OsKey
    <3>2. CASE prng.init # 0
      BY <3>2, <1>3 DEF EnsureKeyed, CountNow, IInv, TypeOK, KeyDiscipline, CounterDiscipline
    <3>3. QED BY <3>1, <3>2
  <2>2. \A b \in given' : b[1] = q.key => b[2] < CountNow + n
    <3>1. \A b \in given : b[2] \in Int
      BY DEF IInv, TypeOK, Blocks
    <3>2. QED
      BY <2>1, <3>1, <1>1, <1>2, <1>3
  <2>3. QED
    BY <2>2, <1>3, <1>6 DEF CounterDiscipline, Idle
<1>14. ChallengeDiscipline'
  BY <1>3 DEF IInv, ChallengeDiscipline, Idle
<1>15. QED
  BY <1>8, <1>9, <1>10, <1>11, <1>12, <1>13, <1>14 DEF IInv

LEMMA ChallengeStep ==
  ASSUME IInv, DrawChallenge
  PROVE  IInv'
<1> DEFINE n == NumBlocks(ChalLen)
<1> USE CtrModAssumption, FastRandomAssumption
<1>1. n \in Nat \ {0}
  BY NumBlocksPos
<1>2. /\ ~Idle /\ prng.init = -1 /\ prng.key = HashKey(hashing[1])
      /\ count = draws * n /\ CountNow = count /\ EnsureKeyed(prng) = prng
      /\ draws \in 0 .. ChalDraws - 1
  BY SMTT(30) DEF DrawChallenge, IInv, TypeOK, KeyDiscipline, CounterDiscipline, CountNow, EnsureKeyed
<1>3. /\ (draws + 1) * n = count + n
      /\ count + n <= MaxBlocks
  <2>1. (draws + 1) * n = count + n
    BY <1>1, <1>2
  <2>2. (draws + 1) * n <= ChalDraws * n
    BY <1>1, <1>2
  <2>3. QED
    BY <2>1, <2>2, <1>1, <1>2
<1>4. /\ CountNow \in 0 .. MaxBlocks
      /\ BlocksOf(prng, n) = {<<prng.key, count + i>> : i \in 0 .. n - 1}
      /\ Advance(prng, n) = [prng EXCEPT !.iv = (count + n) % CtrMod]
  BY <1>1, <1>2, <1>3, DrawIsNextBlocks
<1> HIDE DEF n
<1>5. /\ prng' = [prng EXCEPT !.iv = (count + n) % CtrMod]
      /\ count' = count + n
      /\ partial' = partial \cup {<<prng.key, count + i>> : i \in 0 .. n - 1}
      /\ draws' = draws + 1
      /\ UNCHANGED <<hashing, given, oracle, out>>
  BY <1>2, <1>4 DEF DrawChallenge, n
<1>6. (count + n) % CtrMod \in 0 .. CtrMod - 1
  BY <1>1, <1>2, <1>4, ModRange
<1>7. prng' \in [init : {-1}, key : Keys, iv : 0 .. CtrMod - 1, seeds : 0 .. MaxSeeds]
      /\ prng'.init = -1 /\ prng'.key = prng.key /\ prng'.seeds = prng.seeds
      /\ prng'.iv = (count + n) % CtrMod
  BY <1>2, <1>5, <1>6 DEF IInv, TypeOK
<1>8. {<<prng.key, count + i>> : i \in 0 .. n - 1} \subseteq Blocks
  <2>1. prng.key \in Keys
    BY DEF IInv, TypeOK
  <2>2. \A i \in 0 .. n - 1 : count + i \in 0 .. CtrMod - 1
    BY <1>1, <1>2, <1>3, <1>4
  <2>3. QED
    BY <2>1, <2>2 DEF Blocks
<1>9. TypeOK'
  <2>1. prng' \in [init : {-1, 0, 1}, key : Keys, iv : 0 .. CtrMod - 1, seeds : 0 .. MaxSeeds]
    BY <1>7
  <2>2. count' \in 0 .. MaxBlocks
    BY <1>1, <1>2, <1>3, <1>4, <1>5
  <2>3. draws' \in 0 .. ChalDraws
    BY <1>2, <1>5
  <2>4. QED
    BY <2>1, <2>2, <2>3, <1>5, <1>8 DEF IInv, TypeOK
<1>10. SecretsFromSystem'
  BY <1>5, <1>7 DEF IInv, SecretsFromSystem
<1>11. KeyDiscipline'
  BY <1>2, <1>5, <1>7 DEF KeyDiscipline, Idle
<1>12. CounterDiscipline'
  BY <1>3, <1>5, <1>7 DEF CounterDiscipline, n
<1>13. ChallengeDiscipline'
  <2>1. partial = Stream(hashing[1], count)
    BY <1>2 DEF IInv, ChallengeDiscipline
  <2>2. partial' = Stream(hashing[1], count + n)
    <3>1. count \in Nat
      BY <1>2, <1>4
    <3>2. \A c \in count .. (count + n) - 1 : c - count \in 0 .. n - 1 /\ c = count + (c - count)
      BY <3>1, <1>1
    <3>3. \A c \in 0 .. (count + n) - 1 : c \in 0 .. count - 1 \/ \E i \in 0 .. n - 1 : c = count + i
      BY <3>1, <3>2, <1>1
    <3>4. \A i \in 0 .. n - 1 : count + i \in 0 .. (count + n) - 1
      BY <3>1, <1>1
    <3>5. Stream(hashing[1], count + n) \subseteq partial'
      <4>1. ASSUME NEW c \in 0 .. (count + n) - 1 PROVE <<HashKey(hashing[1]), c>> \in partial'
        <5>1. CASE c \in 0 .. count - 1
          BY <5>1, <2>1, <1>2, <1>5 DEF Stream
        <5>2. CASE \E i \in 0 .. n - 1 : c = count + i
          BY <5>2, <1>2, <1>5
        <5>3. QED
          BY <3>3, <4>1, <5>1, <5>2
      <4>2. ASSUME NEW b \in Stream(hashing[1], count + n) PROVE b \in partial'
        <5>1. PICK c \in 0 .. (count + n) - 1 : b = <<HashKey(hashing[1]), c>>
          BY <4>2, StreamElement
        <5>2. QED
          BY <4>1, <5>1
      <4>3. QED
        BY <4>2
    <3>6. partial' \subseteq Stream(hashing[1], count + n)
      BY <2>1, <3>1, <3>4, <1>1, <1>2, <1>5 DEF Stream
    <3>7. QED
      BY <3>5, <3>6
  <2>3. QED
    BY <2>2, <1>5 DEF IInv, ChallengeDiscipline, Idle
<1>14. QED
  BY <1>9, <1>10, <1>11, <1>12, <1>13 DEF IInv

LEMMA BeginStep ==
  ASSUME IInv, NEW h \in Digests, BeginChallenge(h)
  PROVE  IInv'
<1> USE CtrModAssumption, FastRandomAssumption
<1>1. /\ prng' = [prng EXCEPT !.key = HashKey(h), !.iv = 0, !.init = -1]
      /\ count' = 0 /\ hashing' = <<h>> /\ partial' = {} /\ draws' = 0
      /\ UNCHANGED <<given, oracle, out>>
  BY DEF BeginChallenge, LoadKey
<1>2. HashKey(h) \in Keys
  BY DEF Keys
<1>3. /\ prng' \in [init : {-1}, key : Keys, iv : {0}, seeds : 0 .. MaxSeeds]
      /\ prng'.init = -1 /\ prng'.key = HashKey(h) /\ prng'.seeds = prng.seeds
      /\ prng'.iv = 0
  BY <1>1, <1>2 DEF IInv, TypeOK
<1>4. TypeOK'
  BY <1>1, <1>3 DEF IInv, TypeOK
<1>5. SecretsFromSystem' /\ KeyDiscipline'
  BY <1>1, <1>3 DEF IInv, SecretsFromSystem, KeyDiscipline, Idle
<1>6. CounterDiscipline'
  BY <1>1, <1>3, NumBlocksPos, ModSmall DEF CounterDiscipline, Idle
<1>7. ChallengeDiscipline'
  BY <1>1 DEF IInv, ChallengeDiscipline, Idle, Stream
<1>8. QED
  BY <1>4, <1>5, <1>6, <1>7 DEF IInv

\* A completed challenge is the stream of its digest up to the fixed length,
\* so a digest queried before gets the answer it got then.
LEMMA EndStep ==
  ASSUME IInv, EndChallenge
  PROVE  /\ IInv'
         /\ out' = Stream(hashing[1], ChalDraws * NumBlocks(ChalLen))
         /\ out' \cap given = {}
         /\ \A g \in DOMAIN oracle : oracle'[g] = oracle[g]
<1> USE CtrModAssumption, FastRandomAssumption
<1>1. /\ ~Idle /\ draws = ChalDraws
      /\ prng' = [prng EXCEPT !.init = 0]
      /\ hashing' = << >> /\ out' = partial /\ partial' = {} /\ draws' = 0
      /\ UNCHANGED <<count, given>>
      /\ oracle' = [h \in DOMAIN oracle \cup {hashing[1]} |->
                      IF h \in DOMAIN oracle THEN oracle[h] ELSE partial]
  BY DEF EndChallenge, Reseed
<1>2. partial = Stream(hashing[1], ChalDraws * NumBlocks(ChalLen))
  BY <1>1 DEF IInv, CounterDiscipline, ChallengeDiscipline
<1>3. hashing[1] \in Digests
  BY <1>1 DEF IInv, TypeOK, Idle
<1>4. prng' \in [init : {0}, key : Keys, iv : 0 .. CtrMod - 1, seeds : 0 .. MaxSeeds]
      /\ prng'.init = 0 /\ prng'.seeds = prng.seeds
  BY <1>1 DEF IInv, TypeOK
<1>5. TypeOK'
  BY <1>1, <1>3, <1>4 DEF IInv, TypeOK
<1>6. SecretsFromSystem' /\ KeyDiscipline' /\ CounterDiscipline'
  BY <1>1, <1>4 DEF IInv, SecretsFromSystem, KeyDiscipline, CounterDiscipline, Idle
<1>7. ChallengeDiscipline'
  BY <1>1, <1>2 DEF IInv, ChallengeDiscipline, Idle
<1>8. out' \cap given = {}
  BY <1>1, <1>2 DEF IInv, SecretsFromSystem, Stream, OsKey, HashKey
<1>9. QED
  BY <1>1, <1>2, <1>5, <1>6, <1>7, <1>8 DEF IInv

LEMMA NextIInv == IInv /\ [Next]_vars => IInv'
<1> SUFFICES ASSUME IInv, [Next]_vars
             PROVE  IInv'
  OBVIOUS
<1>1. ASSUME NEW rlen \in DrawLens, SampleSecret(rlen) PROVE IInv'
  BY <1>1, SecretStep
<1>2. ASSUME NEW h \in Digests, BeginChallenge(h) PROVE IInv'
  BY <1>2, BeginStep
<1>3. CASE DrawChallenge
  BY <1>3, ChallengeStep
<1>4. CASE EndChallenge
  BY <1>4, EndStep
<1>5. CASE UNCHANGED vars
  BY <1>5 DEF vars, IInv, TypeOK, SecretsFromSystem, KeyDiscipline, CounterDiscipline,
     ChallengeDiscipline, Idle
<1>6. QED
  BY <1>1, <1>2, <1>3, <1>4, <1>5 DEF Next

\* The inductive invariant holds in every reachable state: key, counter and
\* challenge discipline of the one generator all samplers share.
THEOREM InvariantCorrect == Spec => []IInv
<1>1. QED
  BY InitIInv, NextIInv, PTL DEF Spec

\* Every variable of the generator and of its callers keeps its type.
THEOREM TypeCorrect == Spec => []TypeOK
<1>1. IInv => TypeOK
  BY DEF IInv
<1>2. QED
  BY <1>1, InvariantCorrect, PTL

\* No secret is ever drawn from a stream that a transcript digest keys.
THEOREM SecretsPrivate == Spec => []SecretsFromSystem
<1>1. IInv => SecretsFromSystem
  BY DEF IInv
<1>2. QED
  BY <1>1, InvariantCorrect, PTL

LEMMA InitSource == Init => Source!Init
BY DEF Init, Source!Init

LEMMA StepSource == IInv /\ [Next]_vars => [Source!Next]_(Source!vars)
<1> SUFFICES ASSUME IInv, [Next]_vars
             PROVE  [Source!Next]_(Source!vars)
  OBVIOUS
<1>1. ASSUME NEW rlen \in DrawLens, SampleSecret(rlen) PROVE Source!Secret
  BY <1>1, SecretStep DEF SampleSecret, Source!Secret, Source!Revealed
<1>2. ASSUME NEW h \in Digests, BeginChallenge(h) PROVE UNCHANGED Source!vars
  BY <1>2 DEF BeginChallenge, Source!vars
<1>3. CASE DrawChallenge
  BY <1>3 DEF DrawChallenge, Source!vars
<1>4. ASSUME EndChallenge, hashing[1] \in DOMAIN oracle PROVE Source!RepeatedChallenge
  <2>1. oracle[hashing[1]] = out'
    BY <1>4, EndStep DEF IInv, ChallengeDiscipline
  <2>2. oracle' = [h \in DOMAIN oracle |-> oracle[h]]
    BY <1>4 DEF EndChallenge
  <2>3. oracle' = oracle
    BY <2>2 DEF IInv, TypeOK
  <2>4. QED
    BY <1>4, <2>1, <2>3 DEF EndChallenge, Source!RepeatedChallenge
<1>5. ASSUME EndChallenge, hashing[1] \notin DOMAIN oracle PROVE Source!FirstChallenge
  <2>1. out' \cap (given \cup UNION {oracle[h] : h \in DOMAIN oracle}) = {}
    BY <1>5, EndStep DEF IInv, ChallengeDiscipline, Stream, HashKey
  <2>2. /\ DOMAIN oracle' = DOMAIN oracle \cup {hashing[1]}
        /\ oracle'[hashing[1]] = out'
        /\ hashing[1] \in DOMAIN oracle' \ DOMAIN oracle
    BY <1>5 DEF EndChallenge
  <2>3. QED
    BY <1>5, <2>1, <2>2, EndStep DEF EndChallenge, Source!FirstChallenge, Source!Revealed
<1>6. CASE UNCHANGED vars
  BY <1>6 DEF vars, Source!vars
<1>7. QED
  BY <1>1, <1>2, <1>3, <1>4, <1>5, <1>6 DEF Next, Source!Next

\* The generator implements the abstract randomness: every secret draw is
\* fresh, and every challenge is a function of its digest.
THEOREM Refinement == Spec => ImplementsSource
<1>1. QED
  BY InitSource, StepSource, InvariantCorrect, PTL DEF Spec, ImplementsSource, Source!Spec

-----------------------------------------------------------------------------
\* The least number of a set of numbers.
LEMMA LeastNumber ==
  ASSUME NEW S \in SUBSET Nat, S # {}
  PROVE  \E x \in S : \A y \in S : x <= y
<1> DEFINE Lower == OpToRel(<, Nat)
<1>1. IsWellFoundedOn(Lower, Nat)
  BY NatLessThanWellFounded
<1>2. \A x, y \in Nat : <<x, y>> \in Lower <=> x < y
  BY DEF OpToRel
<1> HIDE DEF Lower
<1>3. PICK x \in S : \A y \in S : <<y, x>> \notin Lower
  BY <1>1, WFMin
<1>4. \A y \in S : ~ (y < x)
  BY <1>2, <1>3
<1> QED BY <1>4

\* Induction over 0 .. n, the statement given as the set of numbers it holds for.
LEMMA Induction ==
  ASSUME NEW n \in Nat, NEW S, 0 \in S, \A k \in 0 .. n - 1 : k \in S => k + 1 \in S
  PROVE  0 .. n \subseteq S
<1> DEFINE Bad == {k \in 0 .. n : k \notin S}
<1> SUFFICES ASSUME Bad # {} PROVE FALSE
  OBVIOUS
<1>1. Bad \in SUBSET Nat
  OBVIOUS
<1>2. PICK x \in Bad : \A y \in Bad : x <= y
  BY <1>1, LeastNumber
<1>3. x \in 0 .. n /\ x \notin S /\ x # 0 /\ x - 1 \in 0 .. n - 1
  BY <1>2
<1>4. x - 1 \in S
  BY <1>2, <1>3
<1> QED BY <1>3, <1>4
-----------------------------------------------------------------------------
Row(n) == [0 .. n - 1 -> Int]

\* The running sums that SumOf is the last of.
LEMMA SumUnfolds ==
  ASSUME NEW N \in Nat, NEW x \in Row(N)
  PROVE  \E G \in [0 .. N -> Int] :
           /\ G[0] = 0
           /\ \A k \in 1 .. N : G[k] = G[k - 1] + x[k - 1]
           /\ \A k \in 0 .. N : SumOf(x, k) = G[k]
<1> USE DEF Row
<1> DEFINE Eq(g, n) == /\ g \in [0 .. n -> Int] /\ g[0] = 0
                       /\ \A k \in 1 .. n : g[k] = g[k - 1] + x[k - 1]
           Has == {n \in Nat : \E g : Eq(g, n)}
<1>1. 0 \in Has
  <2>1. Eq([k \in 0 .. 0 |-> 0], 0)
    OBVIOUS
  <2> QED BY <2>1
<1>2. ASSUME NEW n \in 0 .. N - 1, n \in Has PROVE n + 1 \in Has
  <2>1. PICK g : Eq(g, n)
    BY <1>2
  <2> DEFINE h == [k \in 0 .. n + 1 |-> IF k <= n THEN g[k] ELSE g[n] + x[n]]
  <2>2. n \in 0 .. n /\ n \in Nat /\ n + 1 \in Nat
    OBVIOUS
  <2>3. g[n] + x[n] \in Int
    BY <2>1, <2>2
  <2>4. h \in [0 .. n + 1 -> Int] /\ h[0] = 0
    BY <2>1, <2>2, <2>3
  <2>5. ASSUME NEW k \in 1 .. n + 1 PROVE h[k] = h[k - 1] + x[k - 1]
    <3>1. CASE k <= n
      BY <2>1, <2>2, <3>1
    <3>2. CASE k = n + 1
      BY <2>2, <3>2
    <3> QED BY <2>2, <3>1, <3>2
  <2> HIDE DEF h
  <2>6. Eq(h, n + 1)
    BY <2>4, <2>5
  <2> QED BY <2>2, <2>6
<1> HIDE DEF Has
<1>3. 0 .. N \subseteq Has
  BY <1>1, <1>2, Induction
<1>4. PICK G : Eq(G, N)
  <2>1. N \in Has
    BY <1>3
  <2> QED BY <2>1 DEF Has
<1>5. ASSUME NEW n \in 0 .. N PROVE SumOf(x, n) = G[n]
  <2> DEFINE Def(g) == [k \in 0 .. n |-> IF k = 0 THEN 0 ELSE g[k - 1] + x[k - 1]]
             p == CHOOSE g : g = Def(g)
             h == [k \in 0 .. n |-> G[k]]
  <2>1. h = Def(h)
    <3>1. \A k \in 0 .. n : k # 0 => k \in 1 .. N /\ k - 1 \in 0 .. n
      OBVIOUS
    <3> QED BY <1>4, <3>1
  <2> HIDE DEF h
  <2>2. p = Def(p)
    BY <2>1
  <2>3. SumOf(x, n) = p[n]
    BY DEF SumOf
  <2> HIDE DEF p
  <2> DEFINE S == {k \in 0 .. n : p[k] = G[k]}
  <2>4. 0 \in S
    BY <1>4, <2>2
  <2>5. ASSUME NEW k \in 0 .. n - 1, k \in S PROVE k + 1 \in S
    <3>1. k + 1 \in 0 .. n /\ k + 1 \in 1 .. N /\ k + 1 - 1 = k /\ k + 1 # 0
      OBVIOUS
    <3>2. p[k + 1] = p[k] + x[k] /\ G[k + 1] = G[k] + x[k]
      BY <1>4, <2>2, <3>1, SMTT(30)
    <3> QED BY <2>5, <3>1, <3>2
  <2> HIDE DEF S
  <2>6. n \in Nat /\ n \in 0 .. n
    OBVIOUS
  <2>7. 0 .. n \subseteq S
    BY <2>4, <2>5, <2>6, Induction
  <2> QED BY <2>3, <2>6, <2>7 DEF S
<1> QED BY <1>4, <1>5

\* The two equations of a sum.
LEMMA SumEquations ==
  ASSUME NEW N \in Nat, NEW x \in Row(N)
  PROVE  /\ SumOf(x, 0) = 0
         /\ \A k \in 0 .. N : SumOf(x, k) \in Int
         /\ \A k \in 0 .. N - 1 : SumOf(x, k + 1) = SumOf(x, k) + x[k]
<1>1. PICK G \in [0 .. N -> Int] :
        /\ G[0] = 0
        /\ \A k \in 1 .. N : G[k] = G[k - 1] + x[k - 1]
        /\ \A k \in 0 .. N : SumOf(x, k) = G[k]
  BY SumUnfolds
<1>2. \A k \in 0 .. N - 1 : k + 1 \in 1 .. N /\ k + 1 - 1 = k /\ k \in 0 .. N /\ k + 1 \in 0 .. N
  OBVIOUS
<1>3. SumOf(x, 0) = 0 /\ \A k \in 0 .. N : SumOf(x, k) \in Int
  BY <1>1
<1>4. ASSUME NEW k \in 0 .. N - 1 PROVE SumOf(x, k + 1) = SumOf(x, k) + x[k]
  <2>1. G[k + 1] = G[k] + x[k]
    BY <1>1, <1>2
  <2> QED BY <1>1, <1>2, <2>1
<1> QED BY <1>3, <1>4

LEMMA SumTyped == ASSUME NEW N \in Nat, NEW x \in Row(N) PROVE SumOf(x, N) \in Int
<1>1. N \in 0 .. N
  OBVIOUS
<1> QED BY <1>1, SumEquations

\* z = a * x + b * y, for the first n places.
Combines(n, z, a, x, b, y) == \A k \in 0 .. n - 1 : z[k] = a * x[k] + b * y[k]

LEMMA SumLinear ==
  ASSUME NEW N \in Nat, NEW x \in Row(N), NEW y \in Row(N), NEW z \in Row(N),
         NEW a \in Int, NEW b \in Int, Combines(N, z, a, x, b, y)
  PROVE  SumOf(z, N) = a * SumOf(x, N) + b * SumOf(y, N)
<1> DEFINE S == {k \in 0 .. N : SumOf(z, k) = a * SumOf(x, k) + b * SumOf(y, k)}
<1>1. 0 \in S
  <2>1. SumOf(z, 0) = 0 /\ SumOf(x, 0) = 0 /\ SumOf(y, 0) = 0
    BY SumEquations
  <2> QED BY <2>1
<1>2. ASSUME NEW k \in 0 .. N - 1, k \in S PROVE k + 1 \in S
  <2>1. k \in 0 .. N /\ k + 1 \in 0 .. N
    OBVIOUS
  <2>2. SumOf(z, k + 1) = SumOf(z, k) + z[k]
    BY SumEquations
  <2>3. PICK p \in Int : p = x[k] /\ SumOf(x, k + 1) = SumOf(x, k) + p
    BY SumEquations DEF Row
  <2>4. PICK q \in Int : q = y[k] /\ SumOf(y, k + 1) = SumOf(y, k) + q
    BY SumEquations DEF Row
  <2>5. PICK X \in Int, Y \in Int : X = SumOf(x, k) /\ Y = SumOf(y, k)
    BY <2>1, SumEquations
  <2>6. a * (X + p) + b * (Y + q) = (a * X + b * Y) + (a * p + b * q)
    OBVIOUS
  <2>7. z[k] = a * p + b * q
    BY <2>3, <2>4 DEF Combines
  <2>8. SumOf(z, k) = a * X + b * Y
    BY <1>2, <2>5
  <2>9. SumOf(z, k + 1) = a * SumOf(x, k + 1) + b * SumOf(y, k + 1)
    BY <2>2, <2>3, <2>4, <2>5, <2>6, <2>7, <2>8
  <2> QED BY <2>1, <2>9
<1> HIDE DEF S
<1>3. 0 .. N \subseteq S
  BY <1>1, <1>2, Induction
<1> QED BY <1>3 DEF S

LEMMA SumPlus ==
  ASSUME NEW N \in Nat, NEW x \in Row(N), NEW y \in Row(N), NEW z \in Row(N),
         \A k \in 0 .. N - 1 : z[k] = x[k] + y[k]
  PROVE  SumOf(z, N) = SumOf(x, N) + SumOf(y, N)
<1>1. ASSUME NEW k \in 0 .. N - 1 PROVE z[k] = 1 * x[k] + 1 * y[k]
  <2>1. PICK p \in Int, q \in Int : p = x[k] /\ q = y[k]
    BY DEF Row
  <2>2. z[k] = p + q
    BY <2>1
  <2> QED BY <2>1, <2>2
<1>2. PICK p \in Int, q \in Int : p = SumOf(x, N) /\ q = SumOf(y, N)
  BY SumTyped
<1>3. 1 \in Int
  OBVIOUS
<1>4. SumOf(z, N) = 1 * SumOf(x, N) + 1 * SumOf(y, N)
  BY <1>1, <1>3, SumLinear DEF Combines
<1>5. SumOf(z, N) = 1 * p + 1 * q
  BY <1>2, <1>4
<1> QED BY <1>2, <1>5

LEMMA SumTimes ==
  ASSUME NEW N \in Nat, NEW x \in Row(N), NEW z \in Row(N), NEW a \in Int,
         \A k \in 0 .. N - 1 : z[k] = a * x[k]
  PROVE  SumOf(z, N) = a * SumOf(x, N)
<1>1. ASSUME NEW k \in 0 .. N - 1 PROVE z[k] = a * x[k] + 0 * x[k]
  <2>1. PICK p \in Int : p = x[k]
    BY DEF Row
  <2>2. z[k] = a * p
    BY <2>1
  <2>3. a * p = a * p + 0 * p
    OBVIOUS
  <2> QED BY <2>1, <2>2, <2>3
<1>2. PICK p \in Int : p = SumOf(x, N)
  BY SumTyped
<1>3. 0 \in Int
  OBVIOUS
<1>4. SumOf(z, N) = a * SumOf(x, N) + 0 * SumOf(x, N)
  BY <1>1, <1>3, SumLinear DEF Combines
<1>5. SumOf(z, N) = a * p + 0 * p
  BY <1>2, <1>4
<1>6. a * p + 0 * p = a * p
  OBVIOUS
<1> QED BY <1>2, <1>5, <1>6

LEMMA SumZero ==
  ASSUME NEW N \in Nat, NEW x \in Row(N), \A k \in 0 .. N - 1 : x[k] = 0
  PROVE  SumOf(x, N) = 0
<1>1. \A k \in 0 .. N - 1 : x[k] = x[k] + x[k]
  OBVIOUS
<1>2. SumOf(x, N) = SumOf(x, N) + SumOf(x, N)
  BY <1>1, SumPlus
<1>3. PICK p \in Int : p = SumOf(x, N)
  BY SumTyped
<1>4. p = p + p
  BY <1>2, <1>3
<1>5. p = 0
  BY <1>4
<1> QED BY <1>3, <1>5

\* The summands may be divided between two sums.
LEMMA SumSplit ==
  ASSUME NEW a \in Nat, NEW b \in Nat, NEW x \in Row(a + b),
         NEW y \in Row(a), \A k \in 0 .. a - 1 : y[k] = x[k],
         NEW z \in Row(b), \A k \in 0 .. b - 1 : z[k] = x[a + k]
  PROVE  SumOf(x, a + b) = SumOf(y, a) + SumOf(z, b)
<1>1. a \in 0 .. a + b /\ a + b \in Nat
  OBVIOUS
<1>2. SumOf(x, a) = SumOf(y, a)
  <2> DEFINE S == {k \in 0 .. a : SumOf(x, k) = SumOf(y, k)}
  <2>1. 0 \in S
    BY <1>1, SumEquations
  <2>2. ASSUME NEW k \in 0 .. a - 1, k \in S PROVE k + 1 \in S
    <3>1. k \in 0 .. (a + b) - 1 /\ k + 1 \in 0 .. a
      OBVIOUS
    <3>2. SumOf(x, k + 1) = SumOf(x, k) + x[k]
      BY <1>1, <3>1, SumEquations
    <3>3. SumOf(y, k + 1) = SumOf(y, k) + y[k]
      BY SumEquations
    <3> QED BY <2>2, <3>1, <3>2, <3>3
  <2> HIDE DEF S
  <2>3. 0 .. a \subseteq S
    BY <2>1, <2>2, Induction
  <2> QED BY <2>3 DEF S
<1> DEFINE T == {k \in 0 .. b : SumOf(x, a + k) = SumOf(x, a) + SumOf(z, k)}
<1>3. 0 \in T
  <2>1. SumOf(z, 0) = 0 /\ SumOf(x, a) \in Int
    BY <1>1, SumEquations
  <2> QED BY <2>1
<1>4. ASSUME NEW k \in 0 .. b - 1, k \in T PROVE k + 1 \in T
  <2>1. a + k \in 0 .. (a + b) - 1 /\ k + 1 \in 0 .. b /\ a + (k + 1) = (a + k) + 1 /\ k \in 0 .. b
    OBVIOUS
  <2>2. SumOf(x, (a + k) + 1) = SumOf(x, a + k) + x[a + k]
    BY <1>1, <2>1, SumEquations
  <2>3. SumOf(z, k + 1) = SumOf(z, k) + z[k] /\ SumOf(z, k) \in Int
    BY <2>1, SumEquations
  <2>4. SumOf(x, a) \in Int /\ z[k] \in Int
    BY <1>1, SumEquations DEF Row
  <2> QED BY <1>4, <2>1, <2>2, <2>3, <2>4
<1> HIDE DEF T
<1>5. 0 .. b \subseteq T
  BY <1>3, <1>4, Induction
<1>6. SumOf(x, a + b) = SumOf(x, a) + SumOf(z, b)
  BY <1>5 DEF T
<1> QED BY <1>2, <1>6

\* The same summands.
LEMMA SumSame ==
  ASSUME NEW N \in Nat, NEW x \in Row(N), NEW y \in Row(N), \A k \in 0 .. N - 1 : x[k] = y[k]
  PROVE  SumOf(x, N) = SumOf(y, N)
<1>1. x = y
  BY DEF Row
<1> QED BY <1>1

\* Backwards.
LEMMA SumReversed ==
  ASSUME NEW N \in Nat, NEW x \in Row(N), NEW y \in Row(N),
         \A k \in 0 .. N - 1 : y[k] = x[N - 1 - k]
  PROVE  SumOf(y, N) = SumOf(x, N)
<1> DEFINE Tip(n) == [k \in 0 .. n - 1 |-> x[N - n + k]]
           S == {n \in 0 .. N : SumOf(y, n) = SumOf(Tip(n), n)}
<1>1. ASSUME NEW n \in 0 .. N PROVE Tip(n) \in Row(n)
  BY DEF Row
<1>2. 0 \in S
  <2>1. 0 \in 0 .. N
    OBVIOUS
  <2>2. SumOf(Tip(0), 0) = 0
    BY <1>1, <2>1, SumEquations
  <2>3. SumOf(y, 0) = 0
    BY SumEquations
  <2> QED BY <2>1, <2>2, <2>3
<1>3. ASSUME NEW n \in 0 .. N - 1, n \in S PROVE n + 1 \in S
  <2> DEFINE tip == Tip(n + 1)
             rest == Tip(n)
             top == [k \in 0 .. 0 |-> x[N - (n + 1)]]
  <2>1. n + 1 \in 0 .. N /\ n \in 0 .. N /\ n \in Nat /\ N - (n + 1) \in 0 .. N - 1
    OBVIOUS
  <2>2. tip \in Row(1 + n) /\ rest \in Row(n)
    <3>1. tip \in Row(n + 1) /\ rest \in Row(n)
      BY <1>1, <2>1
    <3> QED BY <3>1 DEF Row
  <2>3. top \in Row(1)
    BY <2>1 DEF Row
  <2>4. \A k \in 0 .. 0 : top[k] = tip[k]
    BY <2>1
  <2>5. ASSUME NEW k \in 0 .. n - 1 PROVE rest[k] = tip[1 + k]
    <3>1. 1 + k \in 0 .. (n + 1) - 1 /\ N - (n + 1) + (1 + k) = N - n + k
      BY <2>1
    <3> QED BY <3>1
  <2>6. top[0] = y[n] /\ y[n] \in Int
    BY <2>1 DEF Row
  <2> HIDE DEF top, tip, rest
  <2>7. SumOf(tip, 1 + n) = SumOf(top, 1) + SumOf(rest, n)
    BY <2>1, <2>2, <2>3, <2>4, <2>5, SumSplit
  <2>8. SumOf(top, 1) = top[0]
    <3>1. SumOf(top, 0 + 1) = SumOf(top, 0) + top[0] /\ SumOf(top, 0) = 0
      BY <2>3, SumEquations
    <3> QED BY <2>6, <3>1
  <2>9. SumOf(y, n + 1) = SumOf(y, n) + y[n] /\ SumOf(y, n) \in Int
    BY <2>1, SumEquations
  <2> QED BY <1>3, <2>1, <2>6, <2>7, <2>8, <2>9 DEF tip, rest
<1> HIDE DEF Tip, S
<1>4. 0 .. N \subseteq S
  BY <1>2, <1>3, Induction
<1>5. SumOf(y, N) = SumOf(Tip(N), N)
  BY <1>4 DEF S
<1>6. Tip(N) = x
  BY DEF Tip, Row
<1> QED BY <1>5, <1>6

\* From place d on, around the end.
LEMMA SumRotated ==
  ASSUME NEW N \in Nat, NEW d \in 0 .. N, NEW x \in Row(N), NEW y \in Row(N),
         \A k \in 0 .. N - 1 : y[k] = x[IF d + k < N THEN d + k ELSE d + k - N]
  PROVE  SumOf(y, N) = SumOf(x, N)
<1> DEFINE a == N - d
           hi == [k \in 0 .. a - 1 |-> x[d + k]]
           lo == [k \in 0 .. d - 1 |-> x[k]]
<1>1. a \in Nat /\ d \in Nat /\ a + d = N /\ d + a = N
  OBVIOUS
<1>2. hi \in Row(a) /\ lo \in Row(d)
  BY <1>1 DEF Row
<1>3. \A k \in 0 .. d - 1 : lo[k] = x[k]
  OBVIOUS
<1>4. \A k \in 0 .. a - 1 : hi[k] = x[d + k]
  OBVIOUS
<1>5. ASSUME NEW k \in 0 .. a - 1 PROVE hi[k] = y[k]
  <2>1. k \in 0 .. N - 1 /\ d + k < N
    BY <1>1
  <2> QED BY <2>1
<1>6. ASSUME NEW k \in 0 .. d - 1 PROVE lo[k] = y[a + k]
  <2>1. a + k \in 0 .. N - 1 /\ ~ (d + (a + k) < N) /\ d + (a + k) - N = k
    BY <1>1
  <2> QED BY <2>1
<1> HIDE DEF a, hi, lo
<1>7. x \in Row(d + a) /\ y \in Row(a + d)
  BY <1>1
<1>8. SumOf(x, d + a) = SumOf(lo, d) + SumOf(hi, a)
  BY <1>1, <1>2, <1>3, <1>4, <1>7, SumSplit
<1>9. SumOf(y, a + d) = SumOf(hi, a) + SumOf(lo, d)
  BY <1>1, <1>2, <1>5, <1>6, <1>7, SumSplit
<1>10. SumOf(lo, d) \in Int /\ SumOf(hi, a) \in Int
  BY <1>1, <1>2, SumTyped
<1> QED BY <1>1, <1>8, <1>9, <1>10

\* From place i down, around the end.
LEMMA SumReflected ==
  ASSUME NEW N \in Nat, NEW i \in 0 .. N - 1, NEW x \in Row(N), NEW y \in Row(N),
         \A k \in 0 .. N - 1 : y[k] = x[IF k <= i THEN i - k ELSE i - k + N]
  PROVE  SumOf(y, N) = SumOf(x, N)
<1> DEFINE a == i + 1
           b == N - (i + 1)
           lo == [k \in 0 .. a - 1 |-> x[k]]
           hi == [k \in 0 .. b - 1 |-> x[a + k]]
           lower == [k \in 0 .. a - 1 |-> y[k]]
           upper == [k \in 0 .. b - 1 |-> y[a + k]]
<1>1. a \in Nat /\ b \in Nat /\ a + b = N /\ a = i + 1 /\ b = N - a
  OBVIOUS
<1>2. lo \in Row(a) /\ hi \in Row(b) /\ lower \in Row(a) /\ upper \in Row(b)
  BY <1>1 DEF Row
<1>3. /\ \A k \in 0 .. a - 1 : lo[k] = x[k] /\ lower[k] = y[k]
      /\ \A k \in 0 .. b - 1 : hi[k] = x[a + k] /\ upper[k] = y[a + k]
  OBVIOUS
<1>4. ASSUME NEW k \in 0 .. a - 1 PROVE lower[k] = lo[a - 1 - k]
  <2>1. k \in 0 .. N - 1 /\ k <= i /\ a - 1 - k \in 0 .. a - 1 /\ a - 1 - k = i - k
    BY <1>1
  <2> QED BY <1>3, <2>1
<1>5. ASSUME NEW k \in 0 .. b - 1 PROVE upper[k] = hi[b - 1 - k]
  <2>1. /\ a + k \in 0 .. N - 1 /\ ~ (a + k <= i) /\ b - 1 - k \in 0 .. b - 1
        /\ i - (a + k) + N = a + (b - 1 - k)
    BY <1>1
  <2> QED BY <1>3, <2>1
<1> HIDE DEF a, b, lo, hi, lower, upper
<1>6. SumOf(lower, a) = SumOf(lo, a)
  BY <1>1, <1>2, <1>4, SumReversed
<1>7. SumOf(upper, b) = SumOf(hi, b)
  BY <1>1, <1>2, <1>5, SumReversed
<1>8. x \in Row(a + b) /\ y \in Row(a + b)
  BY <1>1
<1>9. SumOf(x, a + b) = SumOf(lo, a) + SumOf(hi, b)
  BY <1>1, <1>2, <1>3, <1>8, SumSplit
<1>10. SumOf(y, a + b) = SumOf(lower, a) + SumOf(upper, b)
  BY <1>1, <1>2, <1>3, <1>8, SumSplit
<1> QED BY <1>1, <1>6, <1>7, <1>9, <1>10

\* Summing a matrix by rows and by columns.
LEMMA SumsExchange ==
  ASSUME NEW K \in Nat, NEW L \in Nat, NEW M \in [(0 .. K - 1) \X (0 .. L - 1) -> Int]
  PROVE  SumOf([k \in 0 .. K - 1 |-> SumOf([l \in 0 .. L - 1 |-> M[k, l]], L)], K)
           = SumOf([l \in 0 .. L - 1 |-> SumOf([k \in 0 .. K - 1 |-> M[k, l]], K)], L)
<1> DEFINE Across(k) == [l \in 0 .. L - 1 |-> M[k, l]]
           Down(l) == [k \in 0 .. K - 1 |-> M[k, l]]
           rows == [k \in 0 .. K - 1 |-> SumOf(Across(k), L)]
           Partial(n) == [l \in 0 .. L - 1 |-> SumOf(Down(l), n)]
           S == {n \in 0 .. K : SumOf(rows, n) = SumOf(Partial(n), L)}
<1>1. ASSUME NEW k \in 0 .. K - 1
      PROVE  /\ Across(k) \in Row(L) /\ \A l \in 0 .. L - 1 : Across(k)[l] = M[k, l]
             /\ SumOf(Across(k), L) \in Int
  <2> DEFINE x == Across(k)
  <2>1. x \in Row(L) /\ \A l \in 0 .. L - 1 : x[l] = M[k, l]
    BY DEF Row
  <2> HIDE DEF x
  <2>2. SumOf(x, L) \in Int
    BY <2>1, SumTyped
  <2> QED BY <2>1, <2>2 DEF x
<1>2. ASSUME NEW l \in 0 .. L - 1
      PROVE  /\ SumOf(Down(l), 0) = 0
             /\ \A n \in 0 .. K : SumOf(Down(l), n) \in Int
             /\ \A n \in 0 .. K - 1 : SumOf(Down(l), n + 1) = SumOf(Down(l), n) + M[n, l]
  <2> DEFINE x == Down(l)
  <2>1. x \in Row(K) /\ \A n \in 0 .. K - 1 : x[n] = M[n, l]
    BY DEF Row
  <2> HIDE DEF x
  <2>2. /\ SumOf(x, 0) = 0
        /\ \A n \in 0 .. K : SumOf(x, n) \in Int
        /\ \A n \in 0 .. K - 1 : SumOf(x, n + 1) = SumOf(x, n) + x[n]
    BY <2>1, SumEquations
  <2> QED BY <2>1, <2>2 DEF x
<1> HIDE DEF Across, Down
<1>3. ASSUME NEW n \in 0 .. K
      PROVE  Partial(n) \in Row(L) /\ \A l \in 0 .. L - 1 : Partial(n)[l] = SumOf(Down(l), n)
  BY <1>2 DEF Row
<1>4. rows \in Row(K) /\ \A k \in 0 .. K - 1 : rows[k] = SumOf(Across(k), L)
  BY <1>1 DEF Row
<1> HIDE DEF rows, Partial
<1>5. 0 \in S
  <2> DEFINE x == Partial(0)
  <2>1. 0 \in 0 .. K
    OBVIOUS
  <2>2. x \in Row(L) /\ \A l \in 0 .. L - 1 : x[l] = 0
    BY <1>2, <1>3, <2>1
  <2> HIDE DEF x
  <2>3. SumOf(x, L) = 0
    BY <2>2, SumZero
  <2>4. SumOf(rows, 0) = 0
    BY <1>4, SumEquations
  <2> QED BY <2>1, <2>3, <2>4 DEF x
<1>6. ASSUME NEW n \in 0 .. K - 1, n \in S PROVE n + 1 \in S
  <2> DEFINE x == Partial(n)
             g == Across(n)
             h == Partial(n + 1)
  <2>1. n \in 0 .. K /\ n + 1 \in 0 .. K
    OBVIOUS
  <2>2. x \in Row(L) /\ g \in Row(L) /\ h \in Row(L)
    BY <1>1, <1>3, <2>1
  <2>3. \A l \in 0 .. L - 1 : h[l] = x[l] + g[l]
    BY <1>1, <1>2, <1>3, <2>1
  <2>4. SumOf(rows, n + 1) = SumOf(rows, n) + rows[n]
    BY <1>4, SumEquations
  <2>5. rows[n] = SumOf(g, L) /\ SumOf(rows, n) = SumOf(x, L)
    BY <1>4, <1>6
  <2> HIDE DEF x, g, h
  <2>6. SumOf(h, L) = SumOf(x, L) + SumOf(g, L)
    BY <2>2, <2>3, SumPlus
  <2> QED BY <2>1, <2>4, <2>5, <2>6 DEF h
<1> HIDE DEF S
<1>7. 0 .. K \subseteq S
  BY <1>5, <1>6, Induction
<1>8. SumOf(rows, K) = SumOf(Partial(K), L)
  BY <1>7 DEF S
<1> QED BY <1>8 DEF rows, Partial, Across, Down
-----------------------------------------------------------------------------
(***************************************************************************)
(* The negacyclic product of integer polynomials: linear on both sides,    *)
(* commutative and associative.  The last two renumber a sum around the    *)
(* end, where the sign of Wrapped changes twice or not at all.             *)
(***************************************************************************)
Whole == [Positions -> Int]

LEMMA Sizes ==
  /\ Degree \in Nat \ {0} /\ Positions = 0 .. Degree - 1 /\ 0 \in Positions
  /\ Whole = Row(Degree) /\ Modulus \in Nat \ {0}
BY BgvAssumption DEF Positions, Whole, Row

LEMMA WrappedTyped ==
  ASSUME NEW g \in Whole, NEW k \in 1 - Degree .. Degree - 1
  PROVE  Wrapped(g, k) \in Int
<1>1. CASE k >= 0
  <2>1. k \in Positions
    BY <1>1, Sizes
  <2> QED BY <1>1, <2>1 DEF Wrapped, Whole
<1>2. CASE ~ (k >= 0)
  <2>1. Degree + k \in Positions
    BY <1>2, Sizes
  <2>2. g[Degree + k] \in Int
    BY <2>1 DEF Whole
  <2> QED BY <1>2, <2>2 DEF Wrapped
<1> QED BY <1>1, <1>2

Terms(f, g, i) == [j \in Positions |-> f[j] * Wrapped(g, i - j)]

LEMMA TermsTyped ==
  ASSUME NEW f \in Whole, NEW g \in Whole, NEW i \in Positions
  PROVE  /\ Terms(f, g, i) \in Row(Degree)
         /\ \A j \in Positions : Terms(f, g, i)[j] = f[j] * Wrapped(g, i - j)
         /\ \A j \in Positions : Wrapped(g, i - j) \in Int
<1>1. ASSUME NEW j \in Positions PROVE Wrapped(g, i - j) \in Int
  <2>1. i - j \in 1 - Degree .. Degree - 1
    BY Sizes
  <2> QED BY <2>1, WrappedTyped
<1>2. ASSUME NEW j \in Positions PROVE f[j] * Wrapped(g, i - j) \in Int
  <2>1. PICK a \in Int, b \in Int : a = f[j] /\ b = Wrapped(g, i - j)
    BY <1>1 DEF Whole
  <2>2. a * b \in Int
    OBVIOUS
  <2> QED BY <2>1, <2>2
<1> QED BY <1>1, <1>2, Sizes DEF Terms, Row

LEMMA ProductIs ==
  ASSUME NEW f \in Whole, NEW g \in Whole
  PROVE  /\ Product(f, g) \in Whole
         /\ \A i \in Positions : Product(f, g)[i] = SumOf(Terms(f, g, i), Degree)
<1>1. \A i \in Positions : SumOf(Terms(f, g, i), Degree) \in Int
  BY TermsTyped, SumTyped, Sizes
<1>2. Product(f, g) = [i \in Positions |-> SumOf(Terms(f, g, i), Degree)]
  BY DEF Product, Terms
<1> QED BY <1>1, <1>2 DEF Whole

LEMMA WrappedLinear ==
  ASSUME NEW g \in Whole, NEW h \in Whole, NEW w \in Whole, NEW a \in Int, NEW b \in Int,
         Combines(Degree, w, a, g, b, h), NEW k \in 1 - Degree .. Degree - 1
  PROVE  Wrapped(w, k) = a * Wrapped(g, k) + b * Wrapped(h, k)
<1>1. CASE k >= 0
  <2>1. k \in Positions
    BY <1>1, Sizes
  <2> QED BY <1>1, <2>1, Sizes DEF Wrapped, Combines
<1>2. CASE ~ (k >= 0)
  <2> DEFINE l == Degree + k
  <2>1. l \in Positions
    BY <1>2, Sizes
  <2>2. PICK x \in Int, y \in Int : x = g[l] /\ y = h[l]
    BY <2>1 DEF Whole
  <2>3. w[l] = a * x + b * y
    BY <2>1, <2>2, Sizes DEF Combines
  <2>4. -(a * x + b * y) = a * (-x) + b * (-y)
    OBVIOUS
  <2>5. Wrapped(w, k) = -w[l] /\ Wrapped(g, k) = -x /\ Wrapped(h, k) = -y
    BY <1>2, <2>2 DEF Wrapped
  <2> QED BY <2>3, <2>4, <2>5
<1> QED BY <1>1, <1>2

LEMMA ProductLinear ==
  ASSUME NEW f \in Whole, NEW g \in Whole, NEW h \in Whole, NEW w \in Whole,
         NEW a \in Int, NEW b \in Int, Combines(Degree, w, a, g, b, h), NEW i \in Positions
  PROVE  /\ Product(f, w)[i] = a * Product(f, g)[i] + b * Product(f, h)[i]
         /\ Product(w, f)[i] = a * Product(g, f)[i] + b * Product(h, f)[i]
<1>1. ASSUME NEW j \in Positions
      PROVE  Terms(f, w, i)[j] = a * Terms(f, g, i)[j] + b * Terms(f, h, i)[j]
  <2>1. i - j \in 1 - Degree .. Degree - 1
    BY Sizes
  <2>2. PICK u \in Int, x \in Int, y \in Int : u = f[j] /\ x = Wrapped(g, i - j) /\ y = Wrapped(h, i - j)
    BY TermsTyped DEF Whole
  <2>3. Wrapped(w, i - j) = a * Wrapped(g, i - j) + b * Wrapped(h, i - j)
    BY <2>1, WrappedLinear
  <2>4. Wrapped(w, i - j) = a * x + b * y
    BY <2>2, <2>3
  <2>5. u * (a * x + b * y) = a * (u * x) + b * (u * y)
    OBVIOUS
  <2>6. /\ Terms(f, w, i)[j] = u * (a * x + b * y)
        /\ Terms(f, g, i)[j] = u * x /\ Terms(f, h, i)[j] = u * y
    BY <2>2, <2>4, TermsTyped
  <2> QED BY <2>5, <2>6
<1>2. ASSUME NEW j \in Positions
      PROVE  Terms(w, f, i)[j] = a * Terms(g, f, i)[j] + b * Terms(h, f, i)[j]
  <2>1. PICK u \in Int, x \in Int, y \in Int : u = Wrapped(f, i - j) /\ x = g[j] /\ y = h[j]
    BY TermsTyped DEF Whole
  <2>2. (a * x + b * y) * u = a * (x * u) + b * (y * u)
    OBVIOUS
  <2>3. w[j] = a * x + b * y
    BY <2>1, Sizes DEF Combines
  <2>4. /\ Terms(w, f, i)[j] = (a * x + b * y) * u
        /\ Terms(g, f, i)[j] = x * u /\ Terms(h, f, i)[j] = y * u
    BY <2>1, <2>3, TermsTyped
  <2> QED BY <2>2, <2>4
<1>3. /\ Terms(f, w, i) \in Row(Degree) /\ Terms(f, g, i) \in Row(Degree)
      /\ Terms(f, h, i) \in Row(Degree) /\ Terms(w, f, i) \in Row(Degree)
      /\ Terms(g, f, i) \in Row(Degree) /\ Terms(h, f, i) \in Row(Degree)
  BY TermsTyped
<1>4. SumOf(Terms(f, w, i), Degree) = a * SumOf(Terms(f, g, i), Degree) + b * SumOf(Terms(f, h, i), Degree)
  <2> DEFINE z == Terms(f, w, i)
             x == Terms(f, g, i)
             y == Terms(f, h, i)
  <2>1. Combines(Degree, z, a, x, b, y)
    BY <1>1, Sizes DEF Combines
  <2>2. z \in Row(Degree) /\ x \in Row(Degree) /\ y \in Row(Degree) /\ Degree \in Nat
    BY <1>3, Sizes
  <2> HIDE DEF z, x, y
  <2>3. SumOf(z, Degree) = a * SumOf(x, Degree) + b * SumOf(y, Degree)
    BY <2>1, <2>2, SumLinear
  <2> QED BY <2>3 DEF x, y, z
<1>5. SumOf(Terms(w, f, i), Degree) = a * SumOf(Terms(g, f, i), Degree) + b * SumOf(Terms(h, f, i), Degree)
  <2> DEFINE z == Terms(w, f, i)
             x == Terms(g, f, i)
             y == Terms(h, f, i)
  <2>1. Combines(Degree, z, a, x, b, y)
    BY <1>2, Sizes DEF Combines
  <2>2. z \in Row(Degree) /\ x \in Row(Degree) /\ y \in Row(Degree) /\ Degree \in Nat
    BY <1>3, Sizes
  <2> HIDE DEF z, x, y
  <2>3. SumOf(z, Degree) = a * SumOf(x, Degree) + b * SumOf(y, Degree)
    BY <2>1, <2>2, SumLinear
  <2> QED BY <2>3 DEF x, y, z
<1> QED BY <1>4, <1>5, ProductIs

LEMMA ProductCommutes ==
  ASSUME NEW f \in Whole, NEW g \in Whole
  PROVE  Product(f, g) = Product(g, f)
<1>1. ASSUME NEW i \in Positions
      PROVE  SumOf(Terms(g, f, i), Degree) = SumOf(Terms(f, g, i), Degree)
  <2> DEFINE x == Terms(f, g, i)
             y == Terms(g, f, i)
  <2>1. x \in Row(Degree) /\ y \in Row(Degree)
    BY TermsTyped
  <2>2. ASSUME NEW l \in 0 .. Degree - 1
        PROVE  y[l] = x[IF l <= i THEN i - l ELSE i - l + Degree]
    <3>1. l \in Positions
      BY Sizes
    <3>2. CASE l <= i
      <4>1. i - l \in Positions /\ i - l >= 0 /\ i - (i - l) = l /\ l >= 0
        BY <3>2, Sizes
      <4>2. PICK a \in Int, b \in Int : a = g[l] /\ b = f[i - l]
        BY <3>1, <4>1 DEF Whole
      <4>3. y[l] = a * b /\ x[i - l] = b * a
        BY <3>1, <4>1, <4>2, TermsTyped DEF Wrapped
      <4> QED BY <3>2, <4>3
    <3>3. CASE ~ (l <= i)
      <4>1. /\ i - l + Degree \in Positions /\ ~ (i - l >= 0) /\ ~ (i - (i - l + Degree) >= 0)
            /\ Degree + (i - l) = i - l + Degree /\ Degree + (i - (i - l + Degree)) = l
        BY <3>3, Sizes
      <4>2. PICK a \in Int, b \in Int : a = g[l] /\ b = f[i - l + Degree]
        BY <3>1, <4>1 DEF Whole
      <4>3. y[l] = a * (-b)
        BY <3>1, <4>1, <4>2, TermsTyped DEF Wrapped
      <4>4. x[i - l + Degree] = b * (-a)
        BY <4>1, <4>2, TermsTyped DEF Wrapped
      <4>5. a * (-b) = b * (-a)
        OBVIOUS
      <4> QED BY <3>3, <4>3, <4>4, <4>5
    <3> QED BY <3>2, <3>3
  <2> HIDE DEF x, y
  <2>3. Degree \in Nat /\ i \in 0 .. Degree - 1
    BY Sizes
  <2>4. SumOf(y, Degree) = SumOf(x, Degree)
    BY <2>1, <2>2, <2>3, SumReflected
  <2> QED BY <2>4 DEF x, y
<1>2. \A i \in Positions : Product(f, g)[i] = Product(g, f)[i]
  BY <1>1, ProductIs
<1> QED BY <1>2, ProductIs DEF Whole

LEMMA ShiftedProduct ==
  ASSUME NEW f \in Whole, NEW g \in Whole, NEW i \in Positions, NEW j \in Positions
  PROVE  Wrapped(Product(f, g), i - j)
           = SumOf([k \in Positions |-> Wrapped(f, k - j) * Wrapped(g, i - k)], Degree)
<1> DEFINE x == [k \in Positions |-> Wrapped(f, k - j) * Wrapped(g, i - k)]
<1>1. \A k \in Positions : Wrapped(f, k - j) \in Int /\ Wrapped(g, i - k) \in Int
  <2> TAKE k \in Positions
  <2>1. k - j \in 1 - Degree .. Degree - 1 /\ i - k \in 1 - Degree .. Degree - 1
    BY Sizes
  <2> QED BY <2>1, WrappedTyped
<1>2. x \in Row(Degree)
  <2> SUFFICES ASSUME NEW k \in Positions PROVE Wrapped(f, k - j) * Wrapped(g, i - k) \in Int
    BY Sizes DEF Row
  <2>1. PICK a \in Int, b \in Int : a = Wrapped(f, k - j) /\ b = Wrapped(g, i - k)
    BY <1>1
  <2>2. a * b \in Int
    OBVIOUS
  <2> QED BY <2>1, <2>2
<1>3. \A k \in Positions : x[k] = Wrapped(f, k - j) * Wrapped(g, i - k)
  OBVIOUS
<1> HIDE DEF x
<1>4. j \in 0 .. Degree /\ Degree \in Nat
  BY Sizes
<1>5. CASE i >= j
  <2> DEFINE y == Terms(f, g, i - j)
  <2>1. i - j \in Positions /\ i - j >= 0
    BY <1>5, Sizes
  <2>2. y \in Row(Degree)
    BY <2>1, TermsTyped
  <2>3. ASSUME NEW l \in 0 .. Degree - 1
        PROVE  y[l] = x[IF j + l < Degree THEN j + l ELSE j + l - Degree]
    <3>1. l \in Positions /\ l >= 0
      BY Sizes
    <3>2. PICK a \in Int : a = f[l]
      BY <3>1 DEF Whole
    <3>3. y[l] = a * Wrapped(g, i - j - l)
      BY <2>1, <3>1, <3>2, TermsTyped
    <3>4. CASE j + l < Degree
      <4>1. j + l \in Positions /\ (j + l) - j = l /\ i - (j + l) = i - j - l
        BY <3>1, <3>4, Sizes
      <4>2. x[j + l] = Wrapped(f, l) * Wrapped(g, i - j - l)
        BY <1>3, <4>1
      <4>3. Wrapped(f, l) = a
        BY <3>1, <3>2 DEF Wrapped
      <4> QED BY <3>3, <3>4, <4>2, <4>3
    <3>5. CASE ~ (j + l < Degree)
      <4> DEFINE k == j + l - Degree
                 e == i - j - l + Degree
      <4>1. /\ k \in Positions /\ k - j = l - Degree /\ ~ (l - Degree >= 0) /\ Degree + (l - Degree) = l
            /\ i - k = e /\ e \in Positions /\ e >= 0
            /\ ~ (i - j - l >= 0) /\ Degree + (i - j - l) = e
        BY <1>5, <3>1, <3>5, Sizes
      <4>2. PICK b \in Int : b = g[e]
        BY <4>1 DEF Whole
      <4>3. Wrapped(f, k - j) = -a /\ Wrapped(g, i - k) = b /\ Wrapped(g, i - j - l) = -b
        BY <3>2, <4>1, <4>2 DEF Wrapped
      <4>4. x[k] = (-a) * b /\ y[l] = a * (-b)
        BY <1>3, <3>3, <4>1, <4>3
      <4>5. (-a) * b = a * (-b)
        OBVIOUS
      <4> QED BY <3>5, <4>4, <4>5
    <3> QED BY <3>4, <3>5
  <2> HIDE DEF y
  <2>4. SumOf(y, Degree) = SumOf(x, Degree)
    BY <1>2, <1>4, <2>2, <2>3, SumRotated
  <2>5. Wrapped(Product(f, g), i - j) = SumOf(y, Degree)
    BY <2>1, ProductIs DEF Wrapped, y
  <2> QED BY <2>4, <2>5 DEF x
<1>6. CASE ~ (i >= j)
  <2> DEFINE d == Degree + (i - j)
             y == Terms(f, g, d)
             z == [l \in Positions |-> -y[l]]
  <2>1. d \in Positions /\ ~ (i - j >= 0)
    BY <1>6, Sizes
  <2>2. y \in Row(Degree)
    BY <2>1, TermsTyped
  <2>3. z \in Row(Degree) /\ \A l \in Positions : z[l] = -y[l]
    BY <2>2, Sizes DEF Row
  <2>4. ASSUME NEW l \in 0 .. Degree - 1
        PROVE  z[l] = x[IF j + l < Degree THEN j + l ELSE j + l - Degree]
    <3>1. l \in Positions /\ l >= 0
      BY Sizes
    <3>2. PICK a \in Int : a = f[l]
      BY <3>1 DEF Whole
    <3>3. y[l] = a * Wrapped(g, d - l)
      BY <2>1, <3>1, <3>2, TermsTyped
    <3>4. CASE j + l < Degree
      <4> DEFINE e == d - l
      <4>1. /\ j + l \in Positions /\ (j + l) - j = l /\ e \in Positions /\ e >= 0
            /\ ~ (i - (j + l) >= 0) /\ Degree + (i - (j + l)) = e
        BY <1>6, <3>1, <3>4, Sizes
      <4>2. PICK b \in Int : b = g[e]
        BY <4>1 DEF Whole
      <4>3. Wrapped(f, (j + l) - j) = a /\ Wrapped(g, i - (j + l)) = -b /\ Wrapped(g, e) = b
        BY <3>1, <3>2, <4>1, <4>2 DEF Wrapped
      <4>4. x[j + l] = a * (-b)
        BY <1>3, <4>1, <4>3
      <4>5. y[l] = a * b /\ z[l] = -(a * b)
        BY <2>3, <3>1, <3>3, <4>3
      <4>6. a * (-b) = -(a * b)
        OBVIOUS
      <4> QED BY <3>4, <4>4, <4>5, <4>6
    <3>5. CASE ~ (j + l < Degree)
      <4> DEFINE k == j + l - Degree
      <4>1. /\ k \in Positions /\ k - j = l - Degree /\ ~ (l - Degree >= 0) /\ Degree + (l - Degree) = l
            /\ i - k = d - l /\ d - l \in 1 - Degree .. Degree - 1
        BY <1>6, <3>1, <3>5, Sizes
      <4>2. PICK b \in Int : b = Wrapped(g, d - l)
        BY <4>1, WrappedTyped
      <4>3. Wrapped(f, k - j) = -a
        BY <3>2, <4>1 DEF Wrapped
      <4>4. x[k] = (-a) * b
        BY <1>3, <4>1, <4>2, <4>3
      <4>5. y[l] = a * b /\ z[l] = -(a * b)
        BY <2>3, <3>1, <3>3, <4>2
      <4>6. (-a) * b = -(a * b)
        OBVIOUS
      <4> QED BY <3>5, <4>4, <4>5, <4>6
    <3> QED BY <3>4, <3>5
  <2>5. Wrapped(Product(f, g), i - j) = -SumOf(y, Degree)
    BY <2>1, ProductIs DEF Wrapped, y
  <2>6. \A l \in 0 .. Degree - 1 : z[l] = (-1) * y[l]
    <3> TAKE l \in 0 .. Degree - 1
    <3>1. l \in Positions
      BY Sizes
    <3>2. PICK a \in Int : a = y[l]
      BY <2>2 DEF Row
    <3>3. z[l] = -a
      BY <2>3, <3>1, <3>2
    <3>4. -a = (-1) * a
      OBVIOUS
    <3> QED BY <3>2, <3>3, <3>4
  <2> HIDE DEF y, z, d
  <2>7. SumOf(z, Degree) = SumOf(x, Degree)
    BY <1>2, <1>4, <2>3, <2>4, SumRotated
  <2>8. -1 \in Int
    OBVIOUS
  <2>9. SumOf(z, Degree) = (-1) * SumOf(y, Degree)
    BY <1>4, <2>2, <2>3, <2>6, <2>8, SumTimes
  <2>10. PICK a \in Int : a = SumOf(y, Degree)
    BY <1>4, <2>2, SumTyped
  <2>11. (-1) * a = -a
    OBVIOUS
  <2>12. SumOf(x, Degree) = -a
    BY <2>7, <2>9, <2>10, <2>11
  <2> QED BY <2>5, <2>10, <2>12 DEF x
<1> QED BY <1>5, <1>6

LEMMA ProductAssociates ==
  ASSUME NEW f \in Whole, NEW g \in Whole, NEW h \in Whole
  PROVE  Product(Product(f, g), h) = Product(f, Product(g, h))
<1> DEFINE fg == Product(f, g)
           gh == Product(g, h)
<1>1. fg \in Whole /\ gh \in Whole
  BY ProductIs
<1>2. /\ \A i \in Positions : fg[i] = SumOf(Terms(f, g, i), Degree)
      /\ \A i, j \in Positions :
           Wrapped(gh, i - j) = SumOf([k \in Positions |-> Wrapped(g, k - j) * Wrapped(h, i - k)], Degree)
  BY ProductIs, ShiftedProduct
<1> HIDE DEF fg, gh
<1>3. ASSUME NEW i \in Positions
      PROVE  SumOf(Terms(fg, h, i), Degree) = SumOf(Terms(f, gh, i), Degree)
  <2> DEFINE M == [x \in (0 .. Degree - 1) \X (0 .. Degree - 1) |->
                     f[x[2]] * (Wrapped(g, x[1] - x[2]) * Wrapped(h, i - x[1]))]
             across(k) == [j \in 0 .. Degree - 1 |-> M[k, j]]
             down(j) == [k \in 0 .. Degree - 1 |-> M[k, j]]
  <2>1. ASSUME NEW k \in Positions, NEW j \in Positions
        PROVE  /\ f[j] \in Int /\ Wrapped(g, k - j) \in Int /\ Wrapped(h, i - k) \in Int
               /\ Wrapped(g, k - j) * Wrapped(h, i - k) \in Int
               /\ M[k, j] = f[j] * (Wrapped(g, k - j) * Wrapped(h, i - k)) /\ M[k, j] \in Int
    <3>1. f[j] \in Int /\ Wrapped(g, k - j) \in Int /\ Wrapped(h, i - k) \in Int
      BY TermsTyped DEF Whole
    <3>2. PICK a \in Int, b \in Int, c \in Int : a = f[j] /\ b = Wrapped(g, k - j) /\ c = Wrapped(h, i - k)
      BY <3>1
    <3>3. b * c \in Int /\ a * (b * c) \in Int
      OBVIOUS
    <3>4. M[k, j] = f[j] * (Wrapped(g, k - j) * Wrapped(h, i - k))
      BY Sizes
    <3> QED BY <3>1, <3>2, <3>3, <3>4
  <2>2. M \in [(0 .. Degree - 1) \X (0 .. Degree - 1) -> Int]
    <3> SUFFICES ASSUME NEW x \in (0 .. Degree - 1) \X (0 .. Degree - 1)
                 PROVE  f[x[2]] * (Wrapped(g, x[1] - x[2]) * Wrapped(h, i - x[1])) \in Int
      OBVIOUS
    <3>1. x[1] \in Positions /\ x[2] \in Positions
      BY Sizes
    <3> QED BY <2>1, <3>1
  <2> HIDE DEF M
  <2>3. Degree \in Nat
    BY Sizes
  <2>4. SumOf([k \in 0 .. Degree - 1 |-> SumOf(across(k), Degree)], Degree)
          = SumOf([j \in 0 .. Degree - 1 |-> SumOf(down(j), Degree)], Degree)
    BY <2>2, <2>3, SumsExchange
  <2>5. ASSUME NEW k \in Positions PROVE SumOf(across(k), Degree) = Terms(fg, h, i)[k]
    <3> DEFINE x == Terms(f, g, k)
               z == across(k)
    <3>1. PICK c \in Int : c = Wrapped(h, i - k)
      BY TermsTyped
    <3>2. x \in Row(Degree) /\ \A j \in Positions : x[j] = f[j] * Wrapped(g, k - j)
      BY TermsTyped
    <3>3. z \in Row(Degree) /\ \A j \in Positions : z[j] = M[k, j]
      BY <2>1, Sizes DEF Row
    <3>4. ASSUME NEW j \in 0 .. Degree - 1 PROVE z[j] = c * x[j]
      <4>1. j \in Positions
        BY Sizes
      <4>2. PICK a \in Int, b \in Int : a = f[j] /\ b = Wrapped(g, k - j)
        BY <2>1, <4>1
      <4>3. z[j] = a * (b * c) /\ x[j] = a * b
        BY <2>1, <3>1, <3>2, <3>3, <4>1, <4>2
      <4>4. a * (b * c) = c * (a * b)
        OBVIOUS
      <4> QED BY <4>3, <4>4
    <3> HIDE DEF x, z
    <3>5. SumOf(z, Degree) = c * SumOf(x, Degree)
      BY <2>3, <3>2, <3>3, <3>4, SumTimes
    <3>6. PICK a \in Int : a = SumOf(x, Degree)
      BY <2>3, <3>2, SumTyped
    <3>7. Terms(fg, h, i)[k] = a * c
      BY <1>1, <1>2, <3>1, <3>6, TermsTyped DEF x
    <3>8. c * a = a * c
      OBVIOUS
    <3> QED BY <3>5, <3>6, <3>7, <3>8 DEF z
  <2>6. ASSUME NEW j \in Positions PROVE SumOf(down(j), Degree) = Terms(f, gh, i)[j]
    <3> DEFINE x == [k \in Positions |-> Wrapped(g, k - j) * Wrapped(h, i - k)]
               z == down(j)
    <3>1. PICK a \in Int : a = f[j]
      BY DEF Whole
    <3>2. x \in Row(Degree) /\ \A k \in Positions : x[k] = Wrapped(g, k - j) * Wrapped(h, i - k)
      BY <2>1, Sizes DEF Row
    <3>3. z \in Row(Degree) /\ \A k \in Positions : z[k] = M[k, j]
      BY <2>1, Sizes DEF Row
    <3>4. \A k \in 0 .. Degree - 1 : z[k] = a * x[k]
      BY <2>1, <3>1, <3>2, <3>3, Sizes
    <3>5. Wrapped(gh, i - j) = SumOf(x, Degree)
      BY <1>2
    <3> HIDE DEF x, z
    <3>6. SumOf(z, Degree) = a * SumOf(x, Degree)
      BY <2>3, <3>2, <3>3, <3>4, SumTimes
    <3>7. Terms(f, gh, i)[j] = a * SumOf(x, Degree)
      BY <1>1, <3>1, <3>5, TermsTyped
    <3> QED BY <3>6, <3>7 DEF z
  <2>7. Terms(fg, h, i) = [k \in 0 .. Degree - 1 |-> SumOf(across(k), Degree)]
    <3>1. Terms(fg, h, i) = [k \in 0 .. Degree - 1 |-> Terms(fg, h, i)[k]]
      BY Sizes DEF Terms
    <3> QED BY <2>5, <3>1, Sizes
  <2>8. Terms(f, gh, i) = [j \in 0 .. Degree - 1 |-> SumOf(down(j), Degree)]
    <3>1. Terms(f, gh, i) = [j \in 0 .. Degree - 1 |-> Terms(f, gh, i)[j]]
      BY Sizes DEF Terms
    <3> QED BY <2>6, <3>1, Sizes
  <2> QED BY <2>4, <2>7, <2>8
<1>4. Product(fg, h) \in Whole /\ Product(f, gh) \in Whole
  BY <1>1, ProductIs
<1>5. \A i \in Positions : Product(fg, h)[i] = Product(f, gh)[i]
  BY <1>1, <1>3, ProductIs
<1> QED BY <1>4, <1>5 DEF Whole, fg, gh
-----------------------------------------------------------------------------
(***************************************************************************)
(* Congruence modulo the ciphertext modulus.                               *)
(***************************************************************************)
Cong(a, b) == \E k \in Int : a = b + k * Modulus

LEMMA CongSelf == ASSUME NEW a \in Int PROVE Cong(a, a)
<1>1. a = a + 0 * Modulus
  BY Sizes
<1> QED BY <1>1 DEF Cong

LEMMA CongTurn == ASSUME NEW a \in Int, NEW b \in Int, Cong(a, b) PROVE Cong(b, a)
<1>1. PICK q \in Int : q = Modulus
  BY Sizes
<1>2. PICK k \in Int : a = b + k * q
  BY <1>1 DEF Cong
<1>3. -k \in Int /\ b = a + (-k) * q
  BY <1>2
<1> QED BY <1>1, <1>3 DEF Cong

LEMMA CongVia ==
  ASSUME NEW a \in Int, NEW b \in Int, NEW c \in Int, Cong(a, b), Cong(b, c)
  PROVE  Cong(a, c)
<1>1. PICK q \in Int : q = Modulus
  BY Sizes
<1>2. PICK k \in Int : a = b + k * q
  BY <1>1 DEF Cong
<1>3. PICK l \in Int : b = c + l * q
  BY <1>1 DEF Cong
<1>4. k + l \in Int /\ a = c + (k + l) * q
  BY <1>2, <1>3
<1> QED BY <1>1, <1>4 DEF Cong

LEMMA CongPlus ==
  ASSUME NEW a \in Int, NEW b \in Int, NEW c \in Int, NEW d \in Int, Cong(a, b), Cong(c, d)
  PROVE  Cong(a + c, b + d) /\ Cong(a - c, b - d)
<1>1. PICK q \in Int : q = Modulus
  BY Sizes
<1>2. PICK k \in Int : a = b + k * q
  BY <1>1 DEF Cong
<1>3. PICK l \in Int : c = d + l * q
  BY <1>1 DEF Cong
<1>4. k + l \in Int /\ a + c = (b + d) + (k + l) * q
  BY <1>2, <1>3
<1>5. k - l \in Int /\ a - c = (b - d) + (k - l) * q
  BY <1>2, <1>3
<1> QED BY <1>1, <1>4, <1>5 DEF Cong

LEMMA CongTimes ==
  ASSUME NEW a \in Int, NEW b \in Int, NEW c \in Int, NEW d \in Int, Cong(a, b), Cong(c, d)
  PROVE  Cong(a * c, b * d)
<1>1. PICK q \in Int : q = Modulus
  BY Sizes
<1>2. PICK k \in Int : a = b + k * q
  BY <1>1 DEF Cong
<1>3. PICK l \in Int : c = d + l * q
  BY <1>1 DEF Cong
<1> DEFINE n == b * l + k * d + k * l * q
<1>4. (b + k * q) * (d + l * q) = b * d + n * q
  OBVIOUS
<1>5. n \in Int /\ a * c = b * d + n * q
  BY <1>2, <1>3, <1>4
<1> HIDE DEF n
<1> QED BY <1>1, <1>5 DEF Cong

LEMMA CongReduced ==
  ASSUME NEW a \in Int
  PROVE  a % Modulus \in 0 .. Modulus - 1 /\ Cong(a % Modulus, a)
<1>1. PICK q \in Nat \ {0} : q = Modulus
  BY Sizes
<1> DEFINE k == a \div q
           e == a % q
<1>2. k \in Int /\ e \in 0 .. q - 1 /\ a = k * q + e
  OBVIOUS
<1>3. e = a % Modulus
  BY <1>1
<1> HIDE DEF k, e
<1>4. (-k) * q = -(k * q) /\ k * q \in Int /\ -k \in Int
  BY <1>2
<1>5. e = a + (-k) * q
  BY <1>2, <1>4
<1> QED BY <1>1, <1>2, <1>3, <1>4, <1>5 DEF Cong

\* Only equal numbers are congruent at a distance below the modulus.
LEMMA CongNear ==
  ASSUME NEW a \in Int, NEW b \in Int, Cong(a, b), a - b < Modulus, b - a < Modulus
  PROVE  a = b
<1>1. PICK q \in Nat \ {0} : q = Modulus
  BY Sizes
<1>2. PICK k \in Int : a = b + k * q
  BY <1>1 DEF Cong
<1>3. k >= 1 => k * q >= q
  OBVIOUS
<1>4. k <= -1 => k * q <= -q
  OBVIOUS
<1>5. k = 0 => k * q = 0
  OBVIOUS
<1>6. PICK d \in Int : d = k * q
  OBVIOUS
<1> QED BY <1>1, <1>2, <1>3, <1>4, <1>5, <1>6

LEMMA SumCong ==
  ASSUME NEW N \in Nat, NEW x \in Row(N), NEW y \in Row(N),
         \A k \in 0 .. N - 1 : Cong(x[k], y[k])
  PROVE  Cong(SumOf(x, N), SumOf(y, N))
<1> DEFINE S == {k \in 0 .. N : Cong(SumOf(x, k), SumOf(y, k))}
<1>1. 0 \in S
  <2>1. SumOf(x, 0) = 0 /\ SumOf(y, 0) = 0 /\ 0 \in Int /\ 0 \in 0 .. N
    BY SumEquations
  <2>2. Cong(0, 0)
    BY <2>1, CongSelf
  <2> QED BY <2>1, <2>2
<1>2. ASSUME NEW k \in 0 .. N - 1, k \in S PROVE k + 1 \in S
  <2>1. k \in 0 .. N /\ k + 1 \in 0 .. N
    OBVIOUS
  <2>2. PICK a \in Int, b \in Int : a = SumOf(x, k) /\ b = SumOf(y, k)
    BY <2>1, SumEquations
  <2>3. PICK c \in Int, d \in Int : c = x[k] /\ d = y[k]
    BY DEF Row
  <2>4. Cong(a, b) /\ Cong(c, d)
    BY <1>2, <2>2, <2>3
  <2>5. Cong(a + c, b + d)
    BY <2>4, CongPlus
  <2>6. SumOf(x, k + 1) = a + c /\ SumOf(y, k + 1) = b + d
    BY <2>2, <2>3, SumEquations
  <2> QED BY <2>1, <2>5, <2>6
<1> HIDE DEF S
<1>3. 0 .. N \subseteq S
  BY <1>1, <1>2, Induction
<1> QED BY <1>3 DEF S

\* Coefficient by coefficient.
Same(f, g) == \A i \in Positions : Cong(f[i], g[i])

LEMMA WrappedCong ==
  ASSUME NEW f \in Whole, NEW g \in Whole, Same(f, g), NEW k \in 1 - Degree .. Degree - 1
  PROVE  Cong(Wrapped(f, k), Wrapped(g, k))
<1>1. CASE k >= 0
  <2>1. k \in Positions
    BY <1>1, Sizes
  <2> QED BY <1>1, <2>1 DEF Wrapped, Same
<1>2. CASE ~ (k >= 0)
  <2> DEFINE l == Degree + k
  <2>1. l \in Positions
    BY <1>2, Sizes
  <2>2. PICK a \in Int, b \in Int : a = f[l] /\ b = g[l]
    BY <2>1 DEF Whole
  <2>3. Cong(a, b) /\ Cong(0, 0)
    BY <2>1, <2>2, CongSelf DEF Same
  <2>4. Cong(0 - a, 0 - b)
    BY <2>3, CongPlus
  <2>5. Wrapped(f, k) = -a /\ Wrapped(g, k) = -b /\ 0 - a = -a /\ 0 - b = -b
    BY <1>2, <2>2 DEF Wrapped
  <2> QED BY <2>4, <2>5
<1> QED BY <1>1, <1>2

LEMMA ProductCong ==
  ASSUME NEW f \in Whole, NEW g \in Whole, NEW h \in Whole, NEW w \in Whole,
         Same(f, h), Same(g, w)
  PROVE  Same(Product(f, g), Product(h, w))
<1> SUFFICES ASSUME NEW i \in Positions
             PROVE  Cong(SumOf(Terms(f, g, i), Degree), SumOf(Terms(h, w, i), Degree))
  BY ProductIs DEF Same
<1>1. ASSUME NEW j \in Positions PROVE Cong(Terms(f, g, i)[j], Terms(h, w, i)[j])
  <2>1. i - j \in 1 - Degree .. Degree - 1
    BY Sizes
  <2>2. PICK a \in Int, b \in Int : a = f[j] /\ b = h[j]
    BY DEF Whole
  <2>3. PICK c \in Int, d \in Int : c = Wrapped(g, i - j) /\ d = Wrapped(w, i - j)
    BY TermsTyped
  <2>4. Cong(a, b)
    BY <2>2 DEF Same
  <2>5. Cong(c, d)
    BY <2>1, <2>3, WrappedCong
  <2>6. Cong(a * c, b * d)
    BY <2>4, <2>5, CongTimes
  <2> QED BY <2>2, <2>3, <2>6, TermsTyped
<1>2. Terms(f, g, i) \in Row(Degree) /\ Terms(h, w, i) \in Row(Degree)
  BY TermsTyped
<1> QED BY <1>1, <1>2, Sizes, SumCong

LEMMA PolyWhole == Poly \subseteq Whole
BY Sizes DEF Poly, Whole

LEMMA ReduceTyped ==
  ASSUME NEW f \in Whole
  PROVE  Reduce(f) \in Poly /\ Same(Reduce(f), f)
<1>1. \A i \in Positions : f[i] % Modulus \in 0 .. Modulus - 1 /\ Cong(f[i] % Modulus, f[i])
  BY CongReduced DEF Whole
<1> QED BY <1>1 DEF Reduce, Poly, Same

LEMMA AddTyped ==
  ASSUME NEW f \in Whole, NEW g \in Whole
  PROVE  /\ Add(f, g) \in Poly /\ \A i \in Positions : Cong(Add(f, g)[i], f[i] + g[i])
         /\ Sub(f, g) \in Poly /\ \A i \in Positions : Cong(Sub(f, g)[i], f[i] - g[i])
<1>1. \A i \in Positions : f[i] + g[i] \in Int /\ f[i] - g[i] \in Int
  BY DEF Whole
<1>2. \A i \in Positions : /\ (f[i] + g[i]) % Modulus \in 0 .. Modulus - 1
                            /\ Cong((f[i] + g[i]) % Modulus, f[i] + g[i])
  BY <1>1, CongReduced
<1>3. \A i \in Positions : /\ (f[i] - g[i]) % Modulus \in 0 .. Modulus - 1
                            /\ Cong((f[i] - g[i]) % Modulus, f[i] - g[i])
  BY <1>1, CongReduced
<1>4. Add(f, g) \in Poly /\ \A i \in Positions : Cong(Add(f, g)[i], f[i] + g[i])
  BY <1>2 DEF Add, Poly
<1>5. Sub(f, g) \in Poly /\ \A i \in Positions : Cong(Sub(f, g)[i], f[i] - g[i])
  BY <1>3 DEF Sub, Poly
<1> QED BY <1>4, <1>5

LEMMA ScaleTyped ==
  ASSUME NEW f \in Whole, NEW n \in Int
  PROVE  /\ Scale(n, f) \in Poly
         /\ \A i \in Positions : n * f[i] \in Int /\ Cong(Scale(n, f)[i], n * f[i])
<1>1. ASSUME NEW i \in Positions
      PROVE  /\ n * f[i] \in Int /\ (n * f[i]) % Modulus \in 0 .. Modulus - 1
             /\ Cong((n * f[i]) % Modulus, n * f[i])
  <2>1. PICK a \in Int : a = f[i]
    BY DEF Whole
  <2>2. PICK b \in Int : b = n * a
    OBVIOUS
  <2>3. b % Modulus \in 0 .. Modulus - 1 /\ Cong(b % Modulus, b)
    BY CongReduced
  <2> QED BY <2>1, <2>2, <2>3
<1> QED BY <1>1 DEF Scale, Poly

LEMMA MulTyped ==
  ASSUME NEW f \in Whole, NEW g \in Whole
  PROVE  Mul(f, g) \in Poly /\ Same(Mul(f, g), Product(f, g))
BY ProductIs, ReduceTyped DEF Mul

\* What a small number is congruent to, centered, is that number.
LEMMA Centers ==
  ASSUME NEW a \in 0 .. Modulus - 1, NEW b \in Int, Cong(a, b),
         -(Modulus \div 2) <= b, b <= Modulus \div 2
  PROVE  Center(a) = b
<1>1. PICK q \in Nat \ {0} : q = Modulus /\ q % 2 = 1
  BY Sizes, BgvAssumption
<1>2. PICK h \in Nat : h = q \div 2 /\ q = 2 * h + 1
  <2> DEFINE x == q \div 2
             e == q % 2
  <2>1. x \in Nat /\ e \in 0 .. 1 /\ q = 2 * x + e
    OBVIOUS
  <2> QED BY <1>1, <2>1
<1>3. a \in Int /\ a - q \in Int
  BY <1>1
<1>4. CASE a > h
  <2>1. Cong(a - q, b)
    <3>1. PICK k \in Int : a = b + k * q
      BY <1>1 DEF Cong
    <3>2. k - 1 \in Int /\ a - q = b + (k - 1) * q
      BY <3>1
    <3> QED BY <1>1, <3>2 DEF Cong
  <2>2. a - q = b
    BY <1>1, <1>2, <1>3, <1>4, <2>1, CongNear
  <2> QED BY <1>1, <1>2, <1>4, <2>2 DEF Center
<1>5. CASE ~ (a > h)
  <2>1. a = b
    BY <1>1, <1>2, <1>3, <1>5, CongNear
  <2> QED BY <1>1, <1>2, <1>5, <2>1 DEF Center
<1> QED BY <1>4, <1>5
-----------------------------------------------------------------------------
(***************************************************************************)
(* What a ciphertext hides: v - sk * u is congruent to the message and a   *)
(* multiple of p, short enough that centering recovers it.                 *)
(***************************************************************************)
LEMMA Values ==
  /\ Ternary \subseteq Whole /\ Uniform \subseteq Poly /\ Messages \subseteq Plain
  /\ Plain \subseteq Whole /\ Poly \subseteq Whole
  /\ PRIMEP \in Nat \ {0} /\ PARTIES \in Nat \ {0} /\ BoundD \in Nat \ {0} /\ MaxAdds \in Nat
  /\ \A f \in Ternary, i \in Positions : f[i] \in -1 .. 1
  /\ \A x \in Plain, i \in Positions : x[i] \in 0 .. PRIMEP - 1
<1>1. Plain \subseteq Whole
  BY BgvAssumption DEF Plain, Whole
<1>2. Ternary \subseteq Whole
  BY BgvAssumption DEF Whole
<1> QED BY <1>1, <1>2, BgvAssumption, PolyWhole DEF Plain

LEMMA SumBetween ==
  ASSUME NEW N \in Nat, NEW x \in Row(N), NEW a \in Int, NEW b \in Int,
         \A k \in 0 .. N - 1 : a <= x[k] /\ x[k] <= b
  PROVE  N * a <= SumOf(x, N) /\ SumOf(x, N) <= N * b
<1> DEFINE S == {k \in 0 .. N : k * a <= SumOf(x, k) /\ SumOf(x, k) <= k * b}
<1>1. 0 \in S
  <2>1. SumOf(x, 0) = 0
    BY SumEquations
  <2> QED BY <2>1
<1>2. ASSUME NEW k \in 0 .. N - 1, k \in S PROVE k + 1 \in S
  <2>1. k \in 0 .. N /\ k + 1 \in 0 .. N
    OBVIOUS
  <2>2. PICK s0 \in Int : s0 = SumOf(x, k)
    BY <2>1, SumEquations
  <2>3. PICK c \in Int : c = x[k] /\ a <= c /\ c <= b
    BY DEF Row
  <2>4. SumOf(x, k + 1) = s0 + c
    BY <2>2, <2>3, SumEquations
  <2>5. (k + 1) * a = k * a + a /\ (k + 1) * b = k * b + b /\ k * a \in Int /\ k * b \in Int
    OBVIOUS
  <2>6. k * a <= s0 /\ s0 <= k * b
    BY <1>2, <2>2
  <2>7. (k + 1) * a <= s0 + c /\ s0 + c <= (k + 1) * b
    BY <2>3, <2>5, <2>6
  <2> QED BY <2>1, <2>4, <2>7
<1> HIDE DEF S
<1>3. 0 .. N \subseteq S
  BY <1>1, <1>2, Induction
<1> QED BY <1>3 DEF S

LEMMA TernaryProduct ==
  ASSUME NEW f \in Ternary, NEW g \in Ternary, NEW i \in Positions
  PROVE  Product(f, g)[i] \in -Degree .. Degree
<1>1. f \in Whole /\ g \in Whole
  BY Values
<1> DEFINE x == Terms(f, g, i)
<1>2. x \in Row(Degree)
  BY <1>1, TermsTyped
<1>3. ASSUME NEW j \in 0 .. Degree - 1 PROVE -1 <= x[j] /\ x[j] <= 1
  <2>1. j \in Positions /\ i - j \in 1 - Degree .. Degree - 1
    BY Sizes
  <2>2. PICK a \in -1 .. 1 : a = f[j]
    BY <2>1, Values
  <2>3. PICK b \in -1 .. 1 : b = Wrapped(g, i - j)
    <3>1. CASE i - j >= 0
      <4>1. i - j \in Positions
        BY <2>1, <3>1, Sizes
      <4> QED BY <3>1, <4>1, Values DEF Wrapped
    <3>2. CASE ~ (i - j >= 0)
      <4>1. Degree + (i - j) \in Positions
        BY <2>1, <3>2, Sizes
      <4>2. PICK c \in -1 .. 1 : c = g[Degree + (i - j)]
        BY <4>1, Values
      <4>3. -c \in -1 .. 1
        OBVIOUS
      <4> QED BY <3>2, <4>2, <4>3 DEF Wrapped
    <3> QED BY <3>1, <3>2
  <2>4. x[j] = a * b
    BY <1>1, <2>1, <2>2, <2>3, TermsTyped
  <2>5. a * b \in -1 .. 1
    <3>1. a \in {-1, 0, 1}
      OBVIOUS
    <3> QED BY <3>1
  <2> QED BY <2>4, <2>5
<1>4. Product(f, g)[i] = SumOf(x, Degree)
  BY <1>1, ProductIs
<1> HIDE DEF x
<1>5. Degree \in Nat /\ -1 \in Int /\ 1 \in Int
  BY Sizes
<1>6. Degree * (-1) <= SumOf(x, Degree) /\ SumOf(x, Degree) <= Degree * 1
  BY <1>2, <1>3, <1>5, SumBetween
<1>7. SumOf(x, Degree) \in Int
  BY <1>2, <1>5, SumTyped
<1> QED BY <1>4, <1>5, <1>6, <1>7

\* The product with a polynomial that is hidden behind a short error.
LEMMA Masked ==
  ASSUME NEW A \in Whole, NEW k \in Whole, NEW k0 \in Whole, Same(k0, k),
         NEW h \in Whole, NEW h0 \in Whole, Same(h0, h), NEW e \in Whole,
         NEW i \in Positions
  PROVE  /\ Add(Mul(A, k0), Scale(PRIMEP, e)) \in Poly
         /\ Cong(Product(Add(Mul(A, k0), Scale(PRIMEP, e)), h0)[i],
                 Product(Product(A, k), h)[i] + PRIMEP * Product(e, h)[i])
<1> DEFINE y == Mul(A, k0)
           z == Scale(PRIMEP, e)
           w == Add(y, z)
           Ak == Product(A, k)
           b == [j \in Positions |-> 1 * Ak[j] + PRIMEP * e[j]]
<1>1. PRIMEP \in Int /\ 1 \in Int
  BY Values
<1>2. y \in Whole /\ Same(y, Product(A, k0)) /\ Product(A, k0) \in Whole
  BY MulTyped, ProductIs, PolyWhole
<1>3. z \in Whole /\ \A j \in Positions : PRIMEP * e[j] \in Int /\ Cong(z[j], PRIMEP * e[j])
  BY <1>1, ScaleTyped, PolyWhole
<1>4. Ak \in Whole
  BY ProductIs
<1>5. Same(Product(A, k0), Ak)
  <2>1. Same(A, A)
    BY CongSelf DEF Same, Whole
  <2> QED BY <2>1, ProductCong
<1> HIDE DEF y, z, Ak
<1>6. w \in Poly /\ w \in Whole /\ \A j \in Positions : Cong(w[j], y[j] + z[j])
  BY <1>2, <1>3, AddTyped, PolyWhole
<1>7. b \in Whole /\ Combines(Degree, b, 1, Ak, PRIMEP, e)
  <2> SUFFICES ASSUME NEW j \in Positions PROVE 1 * Ak[j] + PRIMEP * e[j] \in Int
    BY Sizes DEF Whole, Combines
  <2>1. PICK a \in Int, c \in Int : a = Ak[j] /\ c = PRIMEP * e[j]
    BY <1>3, <1>4 DEF Whole
  <2>2. 1 * a + c \in Int
    OBVIOUS
  <2> QED BY <2>1, <2>2
<1>8. Same(w, b)
  <2> SUFFICES ASSUME NEW j \in Positions PROVE Cong(w[j], b[j])
    BY DEF Same
  <2>1. PICK a \in Int, c \in Int, d \in Int : a = y[j] /\ c = Product(A, k0)[j] /\ d = Ak[j]
    BY <1>2, <1>4 DEF Whole
  <2>2. PICK f \in Int, g \in Int, o \in Int : f = z[j] /\ g = PRIMEP * e[j] /\ o = w[j]
    BY <1>3, <1>6 DEF Whole
  <2>3. Cong(a, d)
    <3>1. Cong(a, c) /\ Cong(c, d)
      BY <1>2, <1>5, <2>1 DEF Same
    <3> QED BY <3>1, CongVia
  <2>4. Cong(f, g)
    BY <1>3, <2>2
  <2>5. Cong(a + f, d + g)
    BY <2>3, <2>4, CongPlus
  <2>6. Cong(o, a + f)
    BY <1>6, <2>1, <2>2
  <2>7. a + f \in Int /\ d + g \in Int
    OBVIOUS
  <2>8. Cong(o, d + g)
    BY <2>5, <2>6, <2>7, CongVia
  <2>9. b[j] = d + g
    <3>1. 1 * d + g = d + g
      OBVIOUS
    <3> QED BY <2>1, <2>2, <3>1
  <2> QED BY <2>2, <2>8, <2>9
<1> HIDE DEF w, b
<1>9. Same(Product(w, h0), Product(b, h))
  BY <1>6, <1>7, <1>8, ProductCong
<1>10. Product(b, h)[i] = 1 * Product(Ak, h)[i] + PRIMEP * Product(e, h)[i]
  BY <1>1, <1>4, <1>7, ProductLinear
<1>11. PICK a \in Int, c \in Int : a = Product(Ak, h)[i] /\ c = PRIMEP * Product(e, h)[i]
  <2>1. Product(Ak, h) \in Whole /\ Product(e, h) \in Whole
    BY <1>4, ProductIs
  <2>2. PICK d \in Int, o \in Int : d = PRIMEP /\ o = Product(e, h)[i]
    BY <1>1, <2>1 DEF Whole
  <2>3. d * o \in Int
    OBVIOUS
  <2> QED BY <2>1, <2>2, <2>3 DEF Whole
<1>12. Product(b, h)[i] = a + c
  <2>1. 1 * a + c = a + c
    OBVIOUS
  <2> QED BY <1>10, <1>11, <2>1
<1> QED BY <1>6, <1>9, <1>11, <1>12 DEF w, y, z, Ak, Same

\* What is behind a ciphertext of bgv_encrypt: its message and a small multiple of p.
Pair(A, B, r, e1, e2, x) ==
  [u |-> Add(Mul(A, r), Scale(PRIMEP, e1)),
   v |-> Add(Add(Mul(B, r), Scale(PRIMEP, e2)), x)]

LEMMA PairTyped ==
  ASSUME NEW A \in Whole, NEW B \in Whole, NEW r \in Whole, NEW e1 \in Whole, NEW e2 \in Whole,
         NEW x \in Whole
  PROVE  /\ Pair(A, B, r, e1, e2, x).u \in Poly /\ Pair(A, B, r, e1, e2, x).v \in Poly
         /\ \A i \in Positions :
              Cong(Pair(A, B, r, e1, e2, x).v[i], Product(B, r)[i] + PRIMEP * e2[i] + x[i])
<1> DEFINE y == Mul(B, r)
           z == Scale(PRIMEP, e2)
           w == Add(y, z)
           v == Add(w, x)
<1>1. PRIMEP \in Int
  BY Values
<1>2. y \in Whole /\ Same(y, Product(B, r)) /\ Product(B, r) \in Whole
  BY MulTyped, ProductIs, PolyWhole
<1>3. z \in Whole /\ \A j \in Positions : PRIMEP * e2[j] \in Int /\ Cong(z[j], PRIMEP * e2[j])
  BY <1>1, ScaleTyped, PolyWhole
<1>4. Mul(A, r) \in Whole /\ Scale(PRIMEP, e1) \in Whole
  BY <1>1, MulTyped, ScaleTyped, PolyWhole
<1>5. Add(Mul(A, r), Scale(PRIMEP, e1)) \in Poly
  BY <1>4, AddTyped
<1> HIDE DEF y, z
<1>6. w \in Poly /\ w \in Whole /\ \A j \in Positions : Cong(w[j], y[j] + z[j])
  BY <1>2, <1>3, AddTyped, PolyWhole
<1> HIDE DEF w
<1>7. v \in Poly /\ v \in Whole /\ \A j \in Positions : Cong(v[j], w[j] + x[j])
  BY <1>6, AddTyped, PolyWhole
<1> HIDE DEF v
<1>8. ASSUME NEW i \in Positions PROVE Cong(v[i], Product(B, r)[i] + PRIMEP * e2[i] + x[i])
  <2>1. PICK a \in Int, b \in Int : a = y[i] /\ b = Product(B, r)[i]
    BY <1>2 DEF Whole
  <2>2. PICK f \in Int, g \in Int : f = z[i] /\ g = PRIMEP * e2[i]
    BY <1>3 DEF Whole
  <2>3. PICK o \in Int, t0 \in Int, xi \in Int : o = w[i] /\ t0 = v[i] /\ xi = x[i]
    BY <1>6, <1>7 DEF Whole
  <2>4. Cong(a, b)
    BY <1>2, <2>1 DEF Same
  <2>5. Cong(f, g)
    BY <1>3, <2>2
  <2>6. Cong(a + f, b + g) /\ Cong(o, a + f) /\ a + f \in Int /\ b + g \in Int
    <3>1. Cong(a + f, b + g)
      BY <2>4, <2>5, CongPlus
    <3>2. Cong(o, a + f)
      BY <1>6, <2>1, <2>2, <2>3
    <3> QED BY <3>1, <3>2
  <2>7. Cong(o, b + g)
    BY <2>6, CongVia
  <2>8. Cong(xi, xi)
    BY CongSelf
  <2>9. Cong(o + xi, b + g + xi) /\ o + xi \in Int /\ b + g + xi \in Int
    BY <2>6, <2>7, <2>8, CongPlus
  <2>10. Cong(t0, o + xi)
    BY <1>7, <2>3
  <2>11. Cong(t0, b + g + xi)
    BY <2>9, <2>10, CongVia
  <2> QED BY <2>1, <2>2, <2>3, <2>11
<1> QED BY <1>5, <1>7, <1>8 DEF v, w, y, z, Pair

LEMMA Fresh ==
  ASSUME NEW key \in Ternary, NEW e \in Ternary, NEW e1 \in Ternary, NEW e2 \in Ternary,
         NEW r \in Ternary, NEW A \in Poly, NEW x \in Plain, NEW c, NEW i \in Positions,
         c = Pair(A, Add(Mul(A, Reduce(key)), Scale(PRIMEP, e)), r, e1, e2, x)
  PROVE  /\ c.u \in Poly /\ c.v \in Poly
         /\ \E n \in -(2 * Degree + 1) .. 2 * Degree + 1 :
              Cong(Sub(c.v, Mul(Reduce(key), c.u))[i], PRIMEP * n + x[i])
<1> DEFINE K == Reduce(key)
           B == Add(Mul(A, K), Scale(PRIMEP, e))
           y == Mul(K, c.u)
           d == Sub(c.v, y)
<1>1. PRIMEP \in Int /\ A \in Whole /\ key \in Whole /\ e \in Whole /\ e1 \in Whole /\ e2 \in Whole
      /\ r \in Whole /\ x \in Whole
  BY Values
<1>2. K \in Poly /\ K \in Whole /\ Same(K, key) /\ Same(r, r)
  <2>1. Same(r, r)
    BY <1>1, CongSelf DEF Same, Whole
  <2> QED BY <1>1, <2>1, ReduceTyped, PolyWhole
<1> HIDE DEF K
<1>3. B \in Poly /\ Cong(Product(B, r)[i], Product(Product(A, key), r)[i] + PRIMEP * Product(e, r)[i])
  BY <1>1, <1>2, Masked
<1>4. Cong(Product(Add(Mul(A, r), Scale(PRIMEP, e1)), K)[i],
           Product(Product(A, r), key)[i] + PRIMEP * Product(e1, key)[i])
  BY <1>1, <1>2, Masked
<1>5. B \in Whole
  BY <1>3, PolyWhole
<1>6. c.u \in Poly /\ c.v \in Poly /\ Cong(c.v[i], Product(B, r)[i] + PRIMEP * e2[i] + x[i])
  <2>1. c = Pair(A, B, r, e1, e2, x)
    BY DEF K
  <2> HIDE DEF B
  <2> QED BY <1>1, <1>5, <2>1, PairTyped
<1>7. c.u = Add(Mul(A, r), Scale(PRIMEP, e1))
  BY DEF Pair
<1> HIDE DEF B
<1>8. c.u \in Whole /\ c.v \in Whole
  BY <1>6, PolyWhole
<1>9. y \in Poly /\ y \in Whole /\ Cong(y[i], Product(K, c.u)[i]) /\ Product(K, c.u) \in Whole
  BY <1>2, <1>8, MulTyped, PolyWhole, ProductIs DEF Same
<1>10. Product(K, c.u) = Product(c.u, K)
  BY <1>2, <1>8, ProductCommutes
<1>11. Product(Product(A, key), r) = Product(Product(A, r), key)
  BY <1>1, ProductAssociates, ProductCommutes
<1> HIDE DEF y
<1>12. Cong(d[i], c.v[i] - y[i]) /\ d[i] \in Int
  <2>1. d \in Poly /\ Cong(d[i], c.v[i] - y[i])
    BY <1>8, <1>9, AddTyped
  <2> QED BY <2>1, PolyWhole DEF Whole
<1> HIDE DEF d
<1>13. PICK p \in Int, vi \in Int, yi \in Int, di \in Int, xi \in Int, Br \in Int, uK \in Int :
         /\ p = PRIMEP /\ vi = c.v[i] /\ yi = y[i] /\ di = d[i] /\ xi = x[i]
         /\ Br = Product(B, r)[i] /\ uK = Product(c.u, K)[i]
  <2>1. Product(B, r) \in Whole /\ Product(c.u, K) \in Whole
    BY <1>1, <1>2, <1>5, <1>8, ProductIs
  <2>2. c.v[i] \in Int /\ y[i] \in Int /\ x[i] \in Int
    BY <1>1, <1>8, <1>9 DEF Whole
  <2> QED BY <1>1, <1>12, <2>1, <2>2 DEF Whole
<1>14. PICK F \in Int, n1 \in -Degree .. Degree, n2 \in -Degree .. Degree, n3 \in -1 .. 1 :
         /\ F = Product(Product(A, key), r)[i] /\ n1 = Product(e, r)[i]
         /\ n2 = Product(e1, key)[i] /\ n3 = e2[i]
  <2>1. Product(Product(A, key), r) \in Whole
    BY <1>1, ProductIs
  <2>2. Product(Product(A, key), r)[i] \in Int
    BY <2>1 DEF Whole
  <2>3. Product(e, r)[i] \in -Degree .. Degree /\ Product(e1, key)[i] \in -Degree .. Degree
    BY TernaryProduct
  <2>4. e2[i] \in -1 .. 1
    BY Values
  <2> QED BY <2>2, <2>3, <2>4
<1>15. PICK D \in Nat : D = Degree
  BY Sizes
<1>16. n1 \in Int /\ n2 \in Int /\ n3 \in Int
  BY <1>15
<1>17. p * n1 \in Int /\ p * n2 \in Int /\ p * n3 \in Int
  BY <1>16
<1>18. PICK q1 \in Int, q2 \in Int, q3 \in Int : q1 = p * n1 /\ q2 = p * n2 /\ q3 = p * n3
  BY <1>17
<1>19. Cong(Br, F + q1) /\ Cong(uK, F + q2) /\ Cong(yi, uK) /\ Cong(vi, Br + q3 + xi)
       /\ Cong(di, vi - yi)
  BY <1>3, <1>4, <1>6, <1>7, <1>9, <1>10, <1>11, <1>12, <1>13, <1>14, <1>18
<1>20. Cong(di, (q1 + q3 - q2) + xi)
  <2>1. F + q1 \in Int /\ F + q2 \in Int /\ Br + q3 + xi \in Int /\ vi - yi \in Int /\ q3 + xi \in Int
        /\ F + q1 + (q3 + xi) \in Int /\ (F + q1 + (q3 + xi)) - (F + q2) \in Int
        /\ (F + q1 + (q3 + xi)) - (F + q2) = (q1 + q3 - q2) + xi
        /\ Br + q3 + xi = Br + (q3 + xi)
    OBVIOUS
  <2>2. Cong(yi, F + q2)
    BY <1>19, <2>1, CongVia
  <2>3. Cong(q3 + xi, q3 + xi)
    BY <2>1, CongSelf
  <2>4. Cong(Br + (q3 + xi), F + q1 + (q3 + xi))
    BY <1>19, <2>1, <2>3, CongPlus
  <2>5. Cong(vi, F + q1 + (q3 + xi))
    BY <1>19, <2>1, <2>4, CongVia
  <2>6. Cong(vi - yi, (F + q1 + (q3 + xi)) - (F + q2))
    BY <2>1, <2>2, <2>5, CongPlus
  <2> QED BY <1>19, <2>1, <2>6, CongVia
<1> DEFINE n == n1 + n3 - n2
<1>21. n \in -(2 * D + 1) .. 2 * D + 1
  BY <1>15
<1>22. p * n = q1 + q3 - q2
  <2>1. p * (n1 + n3 - n2) = p * n1 + p * n3 - p * n2
    BY <1>16
  <2> QED BY <1>18, <2>1
<1> HIDE DEF n
<1>23. Cong(d[i], PRIMEP * n + x[i])
  BY <1>13, <1>20, <1>22
<1>24. n \in -(2 * Degree + 1) .. 2 * Degree + 1
  BY <1>15, <1>21
<1>25. \E nn \in -(2 * Degree + 1) .. 2 * Degree + 1 : Cong(d[i], PRIMEP * nn + x[i])
  BY <1>23, <1>24
<1> QED BY <1>6, <1>25 DEF d, y, K

LEMMA Halves ==
  \E q, h \in Nat : q = Modulus /\ h = Modulus \div 2 /\ q = 2 * h + 1
<1>1. PICK q \in Nat \ {0} : q = Modulus /\ q % 2 = 1
  BY Sizes, BgvAssumption
<1> DEFINE h == q \div 2
           e == q % 2
<1>2. h \in Nat /\ q = 2 * h + e
  OBVIOUS
<1>3. h = Modulus \div 2 /\ e = 1
  BY <1>1
<1> HIDE DEF h, e
<1> QED BY <1>1, <1>2, <1>3

LEMMA CenterTyped ==
  ASSUME NEW a \in 0 .. Modulus - 1
  PROVE  Center(a) \in Int /\ Cong(a, Center(a))
<1>1. PICK q \in Int : q = Modulus
  BY Sizes
<1>2. a \in Int
  BY <1>1
<1>3. CASE a > Modulus \div 2
  <2>1. a - q \in Int /\ a = (a - q) + 1 * q
    BY <1>2
  <2>2. Center(a) = a - q
    BY <1>1, <1>3 DEF Center
  <2> QED BY <1>1, <2>1, <2>2 DEF Cong
<1>4. CASE ~ (a > Modulus \div 2)
  <2>1. Center(a) = a
    BY <1>4 DEF Center
  <2> QED BY <1>2, <2>1, CongSelf
<1> QED BY <1>3, <1>4

\* The budget leaves room for every number of additions that is allowed.
LEMMA Budget ==
  ASSUME NEW n \in 1 .. MaxAdds + 1
  PROVE  /\ FreshNoise \in Nat /\ FreshNoise + PRIMEP - 1 \in Nat
         /\ n * FreshNoise \in Nat /\ n * (FreshNoise + PRIMEP - 1) \in Nat
         /\ n * FreshNoise <= Modulus \div 2 /\ n * (FreshNoise + PRIMEP - 1) <= Modulus \div 2
<1>1. PICK h \in Nat : h = Modulus \div 2
  BY Halves
<1>2. PICK p \in Nat \ {0}, D \in Nat, M \in Nat : p = PRIMEP /\ D = Degree /\ M = MaxAdds
  BY Values, Sizes
<1>3. p * (2 * D + 1) \in Nat
  OBVIOUS
<1>4. PICK f \in Nat : f = FreshNoise
  BY <1>2, <1>3 DEF FreshNoise
<1>5. PICK b \in Nat : b = f + p - 1
  OBVIOUS
<1>6. f <= b
  BY <1>5
<1>7. (M + 1) * b <= h
  BY <1>1, <1>2, <1>4, <1>5, NoiseBudget
<1>8. n \in Nat /\ n <= M + 1
  BY <1>2
<1>9. n * b <= (M + 1) * b
  <2>1. PICK k \in Nat : M + 1 = n + k
    BY <1>8
  <2>2. (n + k) * b = n * b + k * b
    BY <1>8
  <2>3. k * b \in Nat /\ n * b \in Nat
    BY <1>8
  <2> QED BY <2>1, <2>2, <2>3
<1>10. n * f <= n * b
  <2>1. PICK k \in Nat : b = f + k
    BY <1>6
  <2>2. n * (f + k) = n * f + n * k
    BY <1>8
  <2>3. n * f \in Nat /\ n * k \in Nat
    BY <1>8
  <2> QED BY <2>1, <2>2, <2>3
<1>11. n * f \in Nat /\ n * b \in Nat /\ (M + 1) * b \in Nat
  BY <1>8
<1>12. PICK nf \in Nat, nb \in Nat, Mb \in Nat : nf = n * f /\ nb = n * b /\ Mb = (M + 1) * b
  BY <1>11
<1>13. nf <= h /\ nb <= h
  BY <1>7, <1>9, <1>10, <1>12
<1> QED BY <1>1, <1>2, <1>4, <1>5, <1>12, <1>13

\* A short number that a reduced one is congruent to is what centering finds.
LEMMA CentersShort ==
  ASSUME NEW n \in 1 .. MaxAdds + 1, NEW a \in 0 .. Modulus - 1,
         NEW b \in -(n * FreshNoise) .. n * (FreshNoise + PRIMEP - 1), Cong(a, b)
  PROVE  Center(a) = b
<1>1. PICK h \in Nat : h = Modulus \div 2
  BY Halves
<1>2. PICK lo \in Nat, hi \in Nat :
        /\ lo = n * FreshNoise /\ hi = n * (FreshNoise + PRIMEP - 1) /\ lo <= h /\ hi <= h
  BY <1>1, Budget
<1>3. b \in Int /\ -lo <= b /\ b <= hi
  BY <1>2
<1>4. -h <= b /\ b <= h
  BY <1>2, <1>3
<1> QED BY <1>1, <1>3, <1>4, Centers

LEMMA ModTyped ==
  ASSUME NEW a \in Int, NEW p \in Nat \ {0}
  PROVE  a % p \in 0 .. p - 1 /\ \E k \in Int : a = k * p + (a % p)
<1> DEFINE k == a \div p
           e == a % p
<1>1. k \in Int /\ e \in 0 .. p - 1 /\ a = k * p + e
  OBVIOUS
<1> QED BY <1>1

\* The remainder is the one number of its range.
LEMMA ModIs ==
  ASSUME NEW p \in Nat \ {0}, NEW k \in Int, NEW e \in 0 .. p - 1
  PROVE  (k * p + e) % p = e
<1> DEFINE a == k * p + e
<1>1. k * p \in Int
  OBVIOUS
<1>2. a \in Int
  BY <1>1
<1> HIDE DEF a
<1>3. PICK l \in Int : a = l * p + (a % p)
  BY <1>2, ModTyped
<1>4. PICK r \in 0 .. p - 1 : r = a % p
  BY <1>2, ModTyped
<1>5. (k - l) * p = r - e
  <2>1. (k - l) * p = k * p - l * p
    OBVIOUS
  <2>2. PICK x \in Int, y \in Int : x = k * p /\ y = l * p
    BY <1>1
  <2>3. a = x + e /\ a = y + r
    BY <1>3, <1>4, <2>2 DEF a
  <2>4. x + e = y + r
    BY <2>3
  <2>5. x - y = r - e
    BY <2>4
  <2> QED BY <2>1, <2>2, <2>5
<1>6. k - l >= 1 => (k - l) * p >= p
  OBVIOUS
<1>7. k - l <= -1 => (k - l) * p <= -p
  OBVIOUS
<1>8. k - l = 0 => (k - l) * p = 0
  OBVIOUS
<1>9. r = e
  <2>1. (k - l) * p < p /\ (k - l) * p > -p
    BY <1>5
  <2> QED BY <1>5, <1>6, <1>7, <1>8, <2>1
<1> QED BY <1>4, <1>9 DEF a

\* Remainders add up modulo p.
LEMMA ModAdds ==
  ASSUME NEW p \in Nat \ {0}, NEW a \in Int, NEW b \in Int
  PROVE  (a + b) % p = ((a % p) + (b % p)) % p
<1>1. PICK k \in Int, x \in 0 .. p - 1 : a = k * p + x /\ x = a % p
  BY ModTyped
<1>2. PICK l \in Int, y \in 0 .. p - 1 : b = l * p + y /\ y = b % p
  BY ModTyped
<1>3. PICK j \in Int, z \in 0 .. p - 1 : x + y = j * p + z /\ z = (x + y) % p
  <2>1. x + y \in Int
    OBVIOUS
  <2> QED BY <2>1, ModTyped
<1>4. k + l + j \in Int /\ a + b = (k + l + j) * p + z
  <2>1. (k + l + j) * p = k * p + l * p + j * p
    OBVIOUS
  <2>2. PICK kp \in Int, lp \in Int, jp \in Int : kp = k * p /\ lp = l * p /\ jp = j * p
    OBVIOUS
  <2>3. a = kp + x
    BY <1>1, <2>2
  <2>4. b = lp + y
    BY <1>2, <2>2
  <2>5. x + y = jp + z
    BY <1>3, <2>2
  <2>6. a + b = kp + lp + jp + z
    <3>1. x \in Int /\ y \in Int /\ z \in Int
      OBVIOUS
    <3>2. kp + x + (lp + y) = kp + lp + (x + y)
      BY <3>1
    <3> QED BY <2>3, <2>4, <2>5, <3>1, <3>2
  <2> QED BY <2>1, <2>2, <2>6
<1>5. (a + b) % p = z
  BY <1>4, ModIs
<1> QED BY <1>1, <1>2, <1>3, <1>5

\* A ciphertext decrypted with a key: a reduced polynomial, what it hides is known
\* from its centered coefficients.
LEMMA DecryptIs ==
  ASSUME NEW K \in Poly, NEW c, c.u \in Poly, c.v \in Poly
  PROVE  /\ Mul(K, c.u) \in Poly /\ Sub(c.v, Mul(K, c.u)) \in Poly
         /\ Decrypt(c, K) \in Plain
         /\ \A i \in Positions : Decrypt(c, K)[i] = Center(Sub(c.v, Mul(K, c.u))[i]) % PRIMEP
<1> DEFINE y == Mul(K, c.u)
           d == Sub(c.v, y)
<1>1. K \in Whole /\ c.u \in Whole /\ c.v \in Whole
  BY PolyWhole
<1>2. y \in Poly /\ y \in Whole
  BY <1>1, MulTyped, PolyWhole
<1>3. d \in Poly
  BY <1>1, <1>2, AddTyped
<1>4. Decrypt(c, K) = ToPlain(d)
  BY DEF Decrypt
<1> HIDE DEF d
<1>5. ASSUME NEW i \in Positions PROVE Center(d[i]) % PRIMEP \in 0 .. PRIMEP - 1
  <2>1. d[i] \in 0 .. Modulus - 1
    BY <1>3 DEF Poly
  <2>2. PICK z \in Int : z = Center(d[i])
    BY <2>1, CenterTyped
  <2>3. PRIMEP \in Nat \ {0}
    BY Values
  <2> QED BY <2>2, <2>3, ModTyped
<1>6. ToPlain(d) \in Plain /\ \A i \in Positions : ToPlain(d)[i] = Center(d[i]) % PRIMEP
  BY <1>5 DEF ToPlain, Plain
<1> QED BY <1>2, <1>3, <1>4, <1>6 DEF d

\* A fresh ciphertext decrypts to its message, its noise is that of one encryption.
LEMMA FreshDecrypts ==
  ASSUME NEW key \in Ternary, NEW e \in Ternary, NEW e1 \in Ternary, NEW e2 \in Ternary,
         NEW r \in Ternary, NEW A \in Poly, NEW x \in Plain, NEW c,
         c = Pair(A, Add(Mul(A, Reduce(key)), Scale(PRIMEP, e)), r, e1, e2, x),
         sk = Reduce(key)
  PROVE  c.u \in Poly /\ c.v \in Poly /\ Behind(c, 1) /\ Decrypt(c, sk) = x
<1> DEFINE K == Reduce(key)
           d == Sub(c.v, Mul(K, c.u))
<1>1. c.u \in Poly /\ c.v \in Poly
  <2>1. 0 \in Positions
    BY Sizes
  <2> QED BY <2>1, Fresh
<1>2. K \in Poly
  BY Values, ReduceTyped
<1>3. d \in Poly /\ Decrypt(c, K) \in Plain
      /\ \A i \in Positions : Decrypt(c, K)[i] = Center(d[i]) % PRIMEP
  BY <1>1, <1>2, DecryptIs
<1>4. \A i \in Positions : \E n \in -(2 * Degree + 1) .. 2 * Degree + 1 : Cong(d[i], PRIMEP * n + x[i])
  BY Fresh
<1> HIDE DEF d
<1>5. ASSUME NEW i \in Positions
      PROVE  /\ Center(d[i]) \in -(1 * FreshNoise) .. 1 * (FreshNoise + PRIMEP - 1)
             /\ Center(d[i]) % PRIMEP = x[i]
  <2>1. PICK p \in Nat \ {0}, D \in Nat : p = PRIMEP /\ D = Degree
    BY Values, Sizes
  <2>2. PICK n \in -(2 * D + 1) .. 2 * D + 1 : Cong(d[i], PRIMEP * n + x[i])
    BY <1>4, <2>1
  <2>3. PICK xi \in 0 .. p - 1 : xi = x[i]
    BY <2>1 DEF Plain
  <2> DEFINE w == 2 * D + 1
  <2>4. w \in Nat /\ n \in Int /\ -w <= n /\ n <= w
    OBVIOUS
  <2> HIDE DEF w
  <2>5. p * w \in Nat /\ p * n \in Int
    BY <2>4
  <2>6. p * n <= p * w
    <3>1. PICK k \in Nat : w = n + k
      BY <2>4
    <3>2. p * (n + k) = p * n + p * k /\ p * k \in Nat
      BY <2>4
    <3> QED BY <2>5, <3>1, <3>2
  <2>7. -(p * w) <= p * n
    <3>1. PICK k \in Nat : n = k - w
      BY <2>4
    <3>2. p * (k - w) = p * k - p * w /\ p * k \in Nat
      BY <2>4
    <3> QED BY <2>5, <3>1, <3>2
  <2>8. FreshNoise = p * w
    BY <2>1 DEF FreshNoise, w
  <2>9. PICK P \in Nat, q \in Int : P = p * w /\ q = p * n
    BY <2>5
  <2>10. q + xi \in -(1 * FreshNoise) .. 1 * (FreshNoise + PRIMEP - 1)
    BY <2>1, <2>6, <2>7, <2>8, <2>9
  <2>11. Cong(d[i], q + xi)
    BY <2>1, <2>2, <2>3, <2>9
  <2>12. d[i] \in 0 .. Modulus - 1
    BY <1>3 DEF Poly
  <2>13. 1 \in 1 .. MaxAdds + 1
    BY Values
  <2>14. Center(d[i]) = q + xi
    BY <2>10, <2>11, <2>12, <2>13, CentersShort
  <2>15. q = n * p
    BY <2>4, <2>9
  <2>16. (q + xi) % p = xi
    BY <2>4, <2>15, ModIs
  <2> QED BY <2>1, <2>3, <2>10, <2>14, <2>16
<1>6. Decrypt(c, K) = x
  BY <1>3, <1>5 DEF Plain
<1>7. Behind(c, 1)
  BY <1>5 DEF Behind, d
<1> QED BY <1>1, <1>6, <1>7

\* What is behind a sum of ciphertexts is the sum of what is behind them.
LEMMA SumBehind ==
  ASSUME NEW K \in Poly, NEW u \in Poly, NEW v \in Poly, NEW y \in Poly, NEW z \in Poly,
         NEW i \in Positions
  PROVE  /\ Add(u, y) \in Poly /\ Add(v, z) \in Poly
         /\ Cong(Sub(Add(v, z), Mul(K, Add(u, y)))[i], Sub(v, Mul(K, u))[i] + Sub(z, Mul(K, y))[i])
<1> DEFINE a == Add(u, y)
           b == Add(v, z)
           g == [j \in Positions |-> 1 * u[j] + 1 * y[j]]
           Ka == Mul(K, a)
           Ku == Mul(K, u)
           Ky == Mul(K, y)
           d == Sub(b, Ka)
           d1 == Sub(v, Ku)
           d2 == Sub(z, Ky)
<1>1. K \in Whole /\ u \in Whole /\ v \in Whole /\ y \in Whole /\ z \in Whole
  BY PolyWhole
<1>2. a \in Poly /\ a \in Whole /\ \A j \in Positions : Cong(a[j], u[j] + y[j])
  BY <1>1, AddTyped, PolyWhole
<1>3. b \in Poly /\ b \in Whole /\ Cong(b[i], v[i] + z[i])
  BY <1>1, AddTyped, PolyWhole
<1>4. Ku \in Whole /\ Ky \in Whole /\ Same(Ku, Product(K, u)) /\ Same(Ky, Product(K, y))
  BY <1>1, MulTyped, PolyWhole
<1> HIDE DEF a, b
<1>5. Ka \in Whole /\ Same(Ka, Product(K, a))
  BY <1>1, <1>2, MulTyped, PolyWhole
<1>6. ASSUME NEW j \in Positions PROVE g[j] \in Int /\ g[j] = u[j] + y[j]
  <2>1. PICK m1 \in Int, m2 \in Int : m1 = u[j] /\ m2 = y[j]
    BY <1>1 DEF Whole
  <2>2. 1 * m1 + 1 * m2 \in Int /\ 1 * m1 + 1 * m2 = m1 + m2
    OBVIOUS
  <2> QED BY <2>1, <2>2
<1>7. g \in Whole /\ Combines(Degree, g, 1, u, 1, y) /\ Same(a, g)
  BY <1>2, <1>6, Sizes DEF Whole, Combines, Same
<1> HIDE DEF g, Ku, Ky, Ka
<1>8. Product(K, g)[i] = 1 * Product(K, u)[i] + 1 * Product(K, y)[i]
  BY <1>1, <1>7, ProductLinear
<1>9. Same(Product(K, a), Product(K, g))
  <2>1. Same(K, K)
    BY <1>1, CongSelf DEF Same, Whole
  <2> QED BY <1>1, <1>2, <1>7, <2>1, ProductCong
<1>10. PICK Pa \in Int, Pg \in Int, Pu \in Int, Py \in Int :
         Pa = Product(K, a)[i] /\ Pg = Product(K, g)[i] /\ Pu = Product(K, u)[i] /\ Py = Product(K, y)[i]
  <2>1. Product(K, a) \in Whole /\ Product(K, g) \in Whole /\ Product(K, u) \in Whole
        /\ Product(K, y) \in Whole
    BY <1>1, <1>2, <1>7, ProductIs
  <2> QED BY <2>1 DEF Whole
<1>11. Pg = Pu + Py
  <2>1. 1 * Pu + 1 * Py = Pu + Py
    OBVIOUS
  <2> QED BY <1>8, <1>10, <2>1
<1>12. Cong(d[i], b[i] - Ka[i]) /\ Cong(d1[i], v[i] - Ku[i]) /\ Cong(d2[i], z[i] - Ky[i])
       /\ d \in Whole /\ d1 \in Whole /\ d2 \in Whole
  BY <1>1, <1>3, <1>4, <1>5, AddTyped, PolyWhole
<1> HIDE DEF d, d1, d2
<1>13. PICK di \in Int, d1i \in Int, d2i \in Int : di = d[i] /\ d1i = d1[i] /\ d2i = d2[i]
  BY <1>12 DEF Whole
<1>14. PICK bi \in Int, vi \in Int, zi \in Int : bi = b[i] /\ vi = v[i] /\ zi = z[i]
  BY <1>1, <1>3 DEF Whole
<1>15. PICK Kai \in Int, Kui \in Int, Kyi \in Int : Kai = Ka[i] /\ Kui = Ku[i] /\ Kyi = Ky[i]
  BY <1>4, <1>5 DEF Whole
<1>16. Cong(Kui, Pu) /\ Cong(Kyi, Py) /\ Cong(Kai, Pa) /\ Cong(Pa, Pg)
  BY <1>4, <1>5, <1>9, <1>10, <1>15 DEF Same
<1>17. Cong(di, bi - Kai) /\ Cong(d1i, vi - Kui) /\ Cong(d2i, zi - Kyi) /\ Cong(bi, vi + zi)
  BY <1>3, <1>12, <1>13, <1>14, <1>15
<1>18. Cong(di, d1i + d2i)
  <2>1. /\ Pu + Py \in Int /\ bi - Kai \in Int /\ vi - Kui \in Int /\ zi - Kyi \in Int
        /\ vi + zi \in Int /\ vi - Pu \in Int /\ zi - Py \in Int
        /\ (vi + zi) - (Pu + Py) = (vi - Pu) + (zi - Py) /\ (vi - Pu) + (zi - Py) \in Int
        /\ d1i + d2i \in Int
    OBVIOUS
  <2>2. Cong(vi, vi) /\ Cong(zi, zi)
    BY CongSelf
  <2>3. Cong(vi - Kui, vi - Pu) /\ Cong(zi - Kyi, zi - Py)
    BY <1>16, <2>2, CongPlus
  <2>4. Cong(d1i, vi - Pu) /\ Cong(d2i, zi - Py)
    BY <1>17, <2>1, <2>3, CongVia
  <2>5. Cong(d1i + d2i, (vi - Pu) + (zi - Py))
    BY <2>1, <2>4, CongPlus
  <2>6. Cong(Kai, Pu + Py)
    BY <1>11, <1>16, CongVia
  <2>7. Cong(bi - Kai, (vi + zi) - (Pu + Py))
    BY <1>17, <2>1, <2>6, CongPlus
  <2>8. Cong(di, (vi - Pu) + (zi - Py))
    BY <1>17, <2>1, <2>7, CongVia
  <2>9. Cong((vi - Pu) + (zi - Py), d1i + d2i)
    BY <2>1, <2>5, CongTurn
  <2> QED BY <2>1, <2>8, <2>9, CongVia
<1> QED BY <1>2, <1>3, <1>13, <1>18 DEF a, b, d, d1, d2, Ka, Ku, Ky

\* Adding ciphertexts adds plaintexts modulo p, as long as the budget lasts.
LEMMA SumDecrypts ==
  ASSUME sk \in Poly, NEW n \in 1 .. MaxAdds, NEW a, NEW b, NEW c,
         a.u \in Poly, a.v \in Poly, Behind(a, n), b.u \in Poly, b.v \in Poly, Behind(b, 1),
         c.u = Add(a.u, b.u), c.v = Add(a.v, b.v)
  PROVE  /\ c.u \in Poly /\ c.v \in Poly /\ Behind(c, n + 1)
         /\ Decrypt(c, sk) = PlainAdd(Decrypt(a, sk), Decrypt(b, sk))
<1> DEFINE d == Sub(c.v, Mul(sk, c.u))
           d1 == Sub(a.v, Mul(sk, a.u))
           d2 == Sub(b.v, Mul(sk, b.u))
<1>1. c.u = Add(a.u, b.u) /\ c.v = Add(a.v, b.v)
  OBVIOUS
<1>2. /\ c.u \in Poly /\ c.v \in Poly
      /\ \A i \in Positions : Cong(d[i], d1[i] + d2[i])
  <2>1. 0 \in Positions
    BY Sizes
  <2>2. Add(a.u, b.u) \in Poly /\ Add(a.v, b.v) \in Poly
    BY <2>1, SumBehind
  <2>3. \A i \in Positions : Cong(Sub(Add(a.v, b.v), Mul(sk, Add(a.u, b.u)))[i],
                                  Sub(a.v, Mul(sk, a.u))[i] + Sub(b.v, Mul(sk, b.u))[i])
    BY SumBehind
  <2> QED BY <1>1, <2>2, <2>3
<1>3. d \in Poly /\ Decrypt(c, sk) \in Plain
      /\ \A i \in Positions : Decrypt(c, sk)[i] = Center(d[i]) % PRIMEP
  BY <1>2, DecryptIs
<1>4. d1 \in Poly /\ \A i \in Positions : Decrypt(a, sk)[i] = Center(d1[i]) % PRIMEP
  BY DecryptIs
<1>5. d2 \in Poly /\ \A i \in Positions : Decrypt(b, sk)[i] = Center(d2[i]) % PRIMEP
  BY DecryptIs
<1>6. \A i \in Positions : Center(d1[i]) \in -(n * FreshNoise) .. n * (FreshNoise + PRIMEP - 1)
  BY DEF Behind
<1>7. \A i \in Positions : Center(d2[i]) \in -(1 * FreshNoise) .. 1 * (FreshNoise + PRIMEP - 1)
  BY DEF Behind
<1> HIDE DEF d, d1, d2
<1>8. n + 1 \in 1 .. MaxAdds + 1 /\ n \in Nat
  BY Values
<1>9. ASSUME NEW i \in Positions
      PROVE  /\ Center(d[i]) \in -((n + 1) * FreshNoise) .. (n + 1) * (FreshNoise + PRIMEP - 1)
             /\ Center(d[i]) % PRIMEP = (Decrypt(a, sk)[i] + Decrypt(b, sk)[i]) % PRIMEP
  <2>1. PICK F \in Nat, G \in Nat : F = FreshNoise /\ G = FreshNoise + PRIMEP - 1
    BY <1>8, Budget
  <2>2. PICK z1 \in Int, z2 \in Int : z1 = Center(d1[i]) /\ z2 = Center(d2[i])
    <3>1. d1[i] \in 0 .. Modulus - 1 /\ d2[i] \in 0 .. Modulus - 1
      BY <1>4, <1>5 DEF Poly
    <3> QED BY <3>1, CenterTyped
  <2>3. d[i] \in 0 .. Modulus - 1 /\ d1[i] \in 0 .. Modulus - 1 /\ d2[i] \in 0 .. Modulus - 1
    BY <1>3, <1>4, <1>5 DEF Poly
  <2>4. d[i] \in Int /\ d1[i] \in Int /\ d2[i] \in Int
    <3>1. PICK q \in Int : q = Modulus
      BY Sizes
    <3> QED BY <2>3, <3>1
  <2>5. Cong(d[i], z1 + z2)
    <3>1. Cong(d1[i], z1) /\ Cong(d2[i], z2)
      BY <2>2, <2>3, CenterTyped
    <3>2. Cong(d1[i] + d2[i], z1 + z2)
      BY <2>4, <3>1, CongPlus
    <3>3. d1[i] + d2[i] \in Int /\ z1 + z2 \in Int
      BY <2>4
    <3> QED BY <1>2, <2>4, <3>2, <3>3, CongVia
  <2>6. z1 + z2 \in -((n + 1) * F) .. (n + 1) * G
    <3>1. PICK nF \in Nat, nG \in Nat : nF = n * F /\ nG = n * G
      BY <1>8
    <3>2. (n + 1) * F = nF + F /\ (n + 1) * G = nG + G
      BY <1>8, <3>1
    <3>3. -nF <= z1 /\ z1 <= nG
      BY <1>6, <2>1, <2>2, <3>1
    <3>4. 1 * F = F /\ 1 * G = G
      OBVIOUS
    <3>5. -F <= z2 /\ z2 <= G
      BY <1>7, <2>1, <2>2, <3>4
    <3> QED BY <3>2, <3>3, <3>5
  <2>7. Center(d[i]) = z1 + z2
    BY <1>8, <2>1, <2>3, <2>5, <2>6, CentersShort
  <2>8. (z1 + z2) % PRIMEP = ((z1 % PRIMEP) + (z2 % PRIMEP)) % PRIMEP
    BY Values, ModAdds
  <2>9. Decrypt(a, sk)[i] = z1 % PRIMEP /\ Decrypt(b, sk)[i] = z2 % PRIMEP
    BY <1>4, <1>5, <2>2
  <2> QED BY <2>1, <2>6, <2>7, <2>8, <2>9
<1>10. Behind(c, n + 1)
  BY <1>9 DEF Behind, d
<1>11. Decrypt(c, sk) = PlainAdd(Decrypt(a, sk), Decrypt(b, sk))
  BY <1>3, <1>9 DEF PlainAdd, Plain
<1> QED BY <1>2, <1>10, <1>11

\* The loop that subtracts one polynomial after the other.
Reduced(g, n) == \A k \in 1 .. n : g[k] \in Poly

LEMMA LessUnfolds ==
  ASSUME NEW n \in Nat, NEW f \in Poly, NEW g, Reduced(g, n)
  PROVE  \E G \in [0 .. n -> Poly] :
           /\ G[0] = f
           /\ \A k \in 1 .. n : G[k] = Sub(G[k - 1], g[k])
           /\ Less(f, g, n) = G[n]
<1> USE DEF Reduced
<1> DEFINE Eq(h, k) == /\ h \in [0 .. k -> Poly] /\ h[0] = f
                       /\ \A l \in 1 .. k : h[l] = Sub(h[l - 1], g[l])
           Has == {k \in Nat : \E h : Eq(h, k)}
<1>1. 0 \in Has
  <2>1. Eq([k \in 0 .. 0 |-> f], 0)
    OBVIOUS
  <2> QED BY <2>1
<1>2. ASSUME NEW k \in 0 .. n - 1, k \in Has PROVE k + 1 \in Has
  <2>1. PICK h : Eq(h, k)
    BY <1>2
  <2> DEFINE o == [l \in 0 .. k + 1 |-> IF l <= k THEN h[l] ELSE Sub(h[k], g[k + 1])]
  <2>2. k \in 0 .. k /\ k \in Nat /\ k + 1 \in Nat /\ k + 1 \in 1 .. n
    OBVIOUS
  <2>3. Sub(h[k], g[k + 1]) \in Poly
    <3>1. h[k] \in Whole /\ g[k + 1] \in Whole
      BY <2>1, <2>2, PolyWhole
    <3> QED BY <3>1, AddTyped
  <2>4. o \in [0 .. k + 1 -> Poly] /\ o[0] = f
    BY <2>1, <2>2, <2>3
  <2>5. ASSUME NEW l \in 1 .. k + 1 PROVE o[l] = Sub(o[l - 1], g[l])
    <3>1. CASE l <= k
      BY <2>1, <2>2, <3>1
    <3>2. CASE l = k + 1
      BY <2>2, <3>2
    <3> QED BY <2>2, <3>1, <3>2
  <2> HIDE DEF o
  <2>6. Eq(o, k + 1)
    BY <2>4, <2>5
  <2> QED BY <2>2, <2>6
<1> HIDE DEF Has
<1>3. 0 .. n \subseteq Has
  BY <1>1, <1>2, Induction
<1>4. PICK G : Eq(G, n)
  <2>1. n \in Has
    BY <1>3
  <2> QED BY <2>1 DEF Has
<1> DEFINE Def(h) == [k \in 0 .. n |-> IF k = 0 THEN f ELSE Sub(h[k - 1], g[k])]
           p == CHOOSE h : h = Def(h)
<1>5. G = Def(G)
  <2>1. \A k \in 0 .. n : k # 0 => k \in 1 .. n
    OBVIOUS
  <2> QED BY <1>4, <2>1
<1>6. p = Def(p)
  BY <1>5
<1>7. Less(f, g, n) = p[n]
  BY DEF Less
<1> HIDE DEF p
<1> DEFINE S == {k \in 0 .. n : p[k] = G[k]}
<1>8. 0 \in S
  BY <1>4, <1>6
<1>9. ASSUME NEW k \in 0 .. n - 1, k \in S PROVE k + 1 \in S
  <2>1. k + 1 \in 0 .. n /\ k + 1 \in 1 .. n /\ k + 1 - 1 = k /\ k + 1 # 0
    OBVIOUS
  <2>2. p[k + 1] = Sub(p[k], g[k + 1]) /\ G[k + 1] = Sub(G[k], g[k + 1])
    BY <1>4, <1>6, <2>1
  <2> QED BY <1>9, <2>1, <2>2
<1> HIDE DEF S
<1>10. 0 .. n \subseteq S
  BY <1>8, <1>9, Induction
<1>11. n \in S
  BY <1>10
<1> QED BY <1>4, <1>7, <1>11 DEF S

\* It leaves what is left when their sum is taken away.
LEMMA LessIs ==
  ASSUME NEW n \in Nat, NEW f \in Poly, NEW g, \A k \in 1 .. n : g[k] \in Poly,
         NEW i \in Positions, NEW y \in Row(n), \A k \in 0 .. n - 1 : y[k] = g[k + 1][i]
  PROVE  Less(f, g, n) \in Poly /\ Cong(Less(f, g, n)[i], f[i] - SumOf(y, n))
<1>0. PICK left : left = Less(f, g, n) /\ Reduced(g, n)
  BY DEF Reduced
<1>1. PICK G \in [0 .. n -> Poly] :
        /\ G[0] = f
        /\ \A k \in 1 .. n : G[k] = Sub(G[k - 1], g[k])
        /\ left = G[n]
  BY <1>0, LessUnfolds
<1>2. PICK F \in Int : F = f[i]
  BY PolyWhole DEF Whole
<1> DEFINE S == {k \in 0 .. n : Cong(G[k][i], F - SumOf(y, k))}
<1>3. 0 \in S
  <2>1. SumOf(y, 0) = 0
    BY SumEquations
  <2>2. F - 0 = F /\ Cong(F, F)
    BY CongSelf
  <2> QED BY <1>1, <1>2, <2>1, <2>2
<1>4. ASSUME NEW k \in 0 .. n - 1, k \in S PROVE k + 1 \in S
  <2>1. k + 1 \in 0 .. n /\ k \in 0 .. n /\ k + 1 \in 1 .. n /\ k + 1 - 1 = k
    OBVIOUS
  <2>2. SumOf(y, k + 1) = SumOf(y, k) + y[k] /\ SumOf(y, k) \in Int
    BY <2>1, SumEquations
  <2>3. G[k] \in Whole /\ g[k + 1] \in Whole /\ G[k + 1] = Sub(G[k], g[k + 1])
    BY <1>1, <2>1, PolyWhole
  <2>4. Cong(Sub(G[k], g[k + 1])[i], G[k][i] - g[k + 1][i])
    BY <2>3, AddTyped
  <2>5. G[k + 1] \in Whole
    BY <1>1, <2>1, PolyWhole
  <2>6. PICK a \in Int, b \in Int, c \in Int, z \in Int :
          a = G[k][i] /\ b = g[k + 1][i] /\ c = SumOf(y, k) /\ z = G[k + 1][i]
    BY <2>2, <2>3, <2>5 DEF Whole
  <2>7. Cong(z, a - b)
    BY <2>3, <2>4, <2>6
  <2>8. Cong(a, F - c)
    BY <1>4, <2>6
  <2>9. Cong(b, b) /\ F - c \in Int
    BY CongSelf
  <2>10. Cong(a - b, (F - c) - b)
    BY <2>8, <2>9, CongPlus
  <2>11. (F - c) - b = F - (c + b) /\ a - b \in Int /\ F - (c + b) \in Int
    OBVIOUS
  <2>12. Cong(z, F - (c + b))
    BY <2>7, <2>10, <2>11, CongVia
  <2>13. SumOf(y, k + 1) = c + b
    BY <2>2, <2>6
  <2> QED BY <2>1, <2>6, <2>12, <2>13
<1> HIDE DEF S
<1>5. 0 .. n \subseteq S
  BY <1>3, <1>4, Induction
<1>6. n \in S /\ n \in 0 .. n
  BY <1>5
<1> QED BY <1>0, <1>1, <1>2, <1>6 DEF S

\* The first term and the others.
LEMMA SumFirst ==
  ASSUME NEW n \in Nat, NEW x \in Row(1 + n), NEW y \in Row(n), \A k \in 0 .. n - 1 : y[k] = x[1 + k]
  PROVE  SumOf(x, 1 + n) = x[0] + SumOf(y, n)
<1> DEFINE o == [k \in 0 .. 0 |-> x[0]]
<1>1. 1 \in Nat /\ 0 \in 0 .. 0 /\ 0 \in 0 .. 1 - 1 /\ 0 \in 0 .. (1 + n) - 1
  OBVIOUS
<1>2. x[0] \in Int
  BY <1>1 DEF Row
<1>3. o \in Row(1) /\ \A k \in 0 .. 1 - 1 : o[k] = x[k]
  <2>1. 0 .. 1 - 1 = 0 .. 0 /\ \A k \in 0 .. 0 : k = 0
    OBVIOUS
  <2> QED BY <1>2, <2>1 DEF Row
<1>4. o[0] = x[0]
  BY <1>1
<1> HIDE DEF o
<1>5. SumOf(x, 1 + n) = SumOf(o, 1) + SumOf(y, n)
  BY <1>1, <1>3, SumSplit
<1>6. SumOf(o, 1) = x[0]
  <2>1. SumOf(o, 0) = 0 /\ SumOf(o, 0 + 1) = SumOf(o, 0) + o[0]
    BY <1>1, <1>3, SumEquations
  <2>2. 0 + 1 = 1
    OBVIOUS
  <2>3. SumOf(o, 1) = 0 + x[0]
    BY <1>4, <2>1, <2>2
  <2> QED BY <1>2, <2>3
<1> QED BY <1>5, <1>6

LEMMA Others ==
  \E n \in Nat : PARTIES = 1 + n /\ n = PARTIES - 1 /\ Parties = 0 .. n
                 /\ \A k \in 1 .. n : k \in Parties \ {0}
<1>1. PICK P \in Nat \ {0} : P = PARTIES
  BY Values
<1>2. P - 1 \in Nat /\ P = 1 + (P - 1)
  OBVIOUS
<1>3. \A k \in 1 .. P - 1 : k \in 0 .. P - 1 /\ k # 0
  OBVIOUS
<1> QED BY <1>1, <1>2, <1>3 DEF Parties

\* The shares of bgv_keyshare add up to the key.
LEMMA SharesAdd ==
  ASSUME NEW K \in Poly, NEW rest \in [Parties \ {0} -> Poly], NEW f,
         f = [j \in Parties |-> IF j = 0 THEN Less(K, rest, PARTIES - 1) ELSE rest[j]]
  PROVE  f \in [Parties -> Poly] /\ Adds(f, K)
<1>1. PICK n \in Nat : /\ PARTIES = 1 + n /\ n = PARTIES - 1 /\ Parties = 0 .. n
                        /\ \A k \in 1 .. n : k \in Parties \ {0}
  BY Others
<1>2. PICK left : left = Less(K, rest, n)
  OBVIOUS
<1>3. \A k \in 1 .. n : rest[k] \in Poly
  BY <1>1
<1>4. ASSUME NEW i \in Positions, NEW y \in Row(n), \A k \in 0 .. n - 1 : y[k] = rest[k + 1][i]
      PROVE  left \in Poly /\ Cong(left[i], K[i] - SumOf(y, n))
  BY <1>2, <1>3, <1>4, LessIs
<1> DEFINE y(i) == [k \in 0 .. n - 1 |-> rest[k + 1][i]]
<1>5. ASSUME NEW i \in Positions
      PROVE  y(i) \in Row(n) /\ \A k \in 0 .. n - 1 : y(i)[k] = rest[k + 1][i]
  <2>1. \A k \in 0 .. n - 1 : k + 1 \in 1 .. n
    OBVIOUS
  <2>2. \A k \in 0 .. n - 1 : rest[k + 1][i] \in Int
    BY <1>3, <2>1, PolyWhole DEF Whole
  <2> QED BY <2>2 DEF Row
<1> HIDE DEF y
<1>6. left \in Poly
  <2>1. 0 \in Positions
    BY Sizes
  <2> QED BY <1>4, <1>5, <2>1
<1>7. f = [j \in Parties |-> IF j = 0 THEN left ELSE rest[j]]
  BY <1>1, <1>2
<1>8. f \in [Parties -> Poly] /\ f[0] = left /\ \A k \in 1 .. n : f[k] = rest[k]
  <2>1. 0 \in Parties /\ \A k \in 1 .. n : k # 0
    BY <1>1
  <2> QED BY <1>1, <1>6, <1>7, <2>1
<1>9. ASSUME NEW i \in Positions
      PROVE  SumOf([j \in Parties |-> f[j][i]], PARTIES) % Modulus = K[i]
  <2> DEFINE x == [j \in Parties |-> f[j][i]]
  <2>1. x \in Row(1 + n)
    <3>1. \A j \in Parties : f[j][i] \in Int
      BY <1>8, PolyWhole DEF Whole
    <3>2. 0 .. (1 + n) - 1 = 0 .. n
      OBVIOUS
    <3> QED BY <1>1, <3>1, <3>2 DEF Row
  <2>2. x[0] = left[i] /\ \A k \in 0 .. n - 1 : y(i)[k] = x[1 + k]
    <3>1. 0 \in Parties /\ \A k \in 0 .. n - 1 : 1 + k \in 1 .. n /\ 1 + k = k + 1
      BY <1>1
    <3>2. \A k \in 0 .. n - 1 : 1 + k \in Parties
      BY <1>1, <3>1
    <3> QED BY <1>5, <1>8, <3>1, <3>2
  <2> HIDE DEF x
  <2>3. SumOf(x, 1 + n) = x[0] + SumOf(y(i), n)
    BY <1>5, <2>1, <2>2, SumFirst
  <2>4. PICK q \in Nat \ {0} : q = Modulus
    BY Sizes
  <2>5. PICK l \in Int, Ki \in 0 .. q - 1, Y \in Int : l = left[i] /\ Ki = K[i] /\ Y = SumOf(y(i), n)
    BY <1>5, <1>6, <2>4, SumTyped, PolyWhole DEF Whole, Poly
  <2>6. Cong(l, Ki - Y)
    BY <1>4, <1>5, <2>5
  <2>7. PICK k \in Int : l = (Ki - Y) + k * q
    BY <2>4, <2>6 DEF Cong
  <2>8. l + Y = k * q + Ki
    <3>1. PICK kq \in Int : kq = k * q
      OBVIOUS
    <3>2. l = (Ki - Y) + kq
      BY <2>7, <3>1
    <3>3. l + Y = kq + Ki
      BY <3>2
    <3> QED BY <3>1, <3>3
  <2>9. (l + Y) % q = Ki
    BY <2>8, ModIs
  <2>10. SumOf(x, PARTIES) = l + Y
    BY <1>1, <2>2, <2>3, <2>5
  <2> QED BY <2>4, <2>5, <2>9, <2>10 DEF x
<1> QED BY <1>8, <1>9 DEF Adds

\* A product is linear in a sum of n polynomials.
LEMMA ProductOfSum ==
  ASSUME NEW n \in Nat, NEW f \in [0 .. n - 1 -> Whole], NEW g \in Whole, NEW i \in Positions,
         NEW S \in Whole,
         \A l \in Positions : S[l] = SumOf([k \in 0 .. n - 1 |-> f[k][l]], n)
  PROVE  Product(S, g)[i] = SumOf([k \in 0 .. n - 1 |-> Product(f[k], g)[i]], n)
<1> DEFINE w == [l \in Positions |-> Wrapped(g, i - l)]
           M == [kl \in (0 .. n - 1) \X (0 .. Degree - 1) |-> f[kl[1]][kl[2]] * w[kl[2]]]
<1>1. \A l \in Positions : w[l] \in Int /\ w[l] = Wrapped(g, i - l)
  BY TermsTyped
<1> HIDE DEF w
<1>2. Positions = 0 .. Degree - 1 /\ Degree \in Nat
  BY Sizes
<1>3. ASSUME NEW k \in 0 .. n - 1, NEW l \in Positions
      PROVE  f[k][l] \in Int /\ f[k][l] * w[l] \in Int
  <2>1. PICK a \in Int, b \in Int : a = f[k][l] /\ b = w[l]
    BY <1>1 DEF Whole
  <2>2. a * b \in Int
    OBVIOUS
  <2> QED BY <2>1, <2>2
<1>4. /\ M \in [(0 .. n - 1) \X (0 .. Degree - 1) -> Int]
      /\ \A k \in 0 .. n - 1, l \in Positions : M[k, l] = f[k][l] * w[l]
  BY <1>2, <1>3
<1> HIDE DEF M
<1>5. SumOf([k \in 0 .. n - 1 |-> SumOf([l \in 0 .. Degree - 1 |-> M[k, l]], Degree)], n)
        = SumOf([l \in 0 .. Degree - 1 |-> SumOf([k \in 0 .. n - 1 |-> M[k, l]], n)], Degree)
  BY <1>2, <1>4, SumsExchange
<1>6. ASSUME NEW k \in 0 .. n - 1
      PROVE  Product(f[k], g)[i] = SumOf([l \in 0 .. Degree - 1 |-> M[k, l]], Degree)
  <2>1. Terms(f[k], g, i) = [l \in 0 .. Degree - 1 |-> M[k, l]]
    BY <1>1, <1>2, <1>4 DEF Terms
  <2>2. Product(f[k], g)[i] = SumOf(Terms(f[k], g, i), Degree)
    BY ProductIs
  <2> QED BY <2>1, <2>2
<1>7. ASSUME NEW l \in 0 .. Degree - 1
      PROVE  SumOf([k \in 0 .. n - 1 |-> M[k, l]], n) = S[l] * w[l]
  <2> DEFINE z == [k \in 0 .. n - 1 |-> M[k, l]]
             x == [k \in 0 .. n - 1 |-> f[k][l]]
  <2>1. l \in Positions
    BY <1>2
  <2>2. z \in Row(n) /\ x \in Row(n) /\ \A k \in 0 .. n - 1 : z[k] = M[k, l] /\ x[k] = f[k][l]
    BY <1>3, <1>4, <2>1 DEF Row
  <2>3. S[l] = SumOf(x, n)
    BY <2>1
  <2>4. PICK b \in Int, X \in Int : b = w[l] /\ X = SumOf(x, n)
    BY <1>1, <2>1, <2>2, SumTyped
  <2>5. \A k \in 0 .. n - 1 : z[k] = b * x[k]
    <3> SUFFICES ASSUME NEW k \in 0 .. n - 1 PROVE z[k] = b * x[k]
      OBVIOUS
    <3>1. PICK a \in Int : a = f[k][l]
      BY <1>3, <2>1
    <3>2. a * b = b * a
      OBVIOUS
    <3> QED BY <1>4, <2>1, <2>2, <2>4, <3>1, <3>2
  <2> HIDE DEF z, x
  <2>6. SumOf(z, n) = b * X
    BY <2>2, <2>4, <2>5, SumTimes
  <2>7. b * X = X * b
    OBVIOUS
  <2> QED BY <2>3, <2>4, <2>6, <2>7 DEF z
<1>8. Terms(S, g, i) = [l \in 0 .. Degree - 1 |-> SumOf([k \in 0 .. n - 1 |-> M[k, l]], n)]
  BY <1>1, <1>2, <1>7 DEF Terms
<1>9. Product(S, g)[i] = SumOf(Terms(S, g, i), Degree)
  BY ProductIs
<1>10. [k \in 0 .. n - 1 |-> Product(f[k], g)[i]]
         = [k \in 0 .. n - 1 |-> SumOf([l \in 0 .. Degree - 1 |-> M[k, l]], Degree)]
  BY <1>6
<1> QED BY <1>5, <1>8, <1>9, <1>10

\* The budget leaves room for the noise of all parties.
LEMMA PartyBudget ==
  ASSUME NEW n \in 1 .. MaxAdds + 1, NEW e \in 0 .. PARTIES * (BoundD - 1)
  PROVE  /\ PRIMEP * e \in Nat
         /\ n * FreshNoise + PRIMEP * e <= Modulus \div 2
<1>1. PICK h \in Nat : h = Modulus \div 2
  BY Halves
<1>2. PICK p \in Nat \ {0}, P \in Nat \ {0}, M \in Nat, c \in Nat :
        p = PRIMEP /\ P = PARTIES /\ M = MaxAdds /\ c = BoundD - 1
  BY Values
<1>3. PICK f \in Nat : f = FreshNoise
  BY Budget
<1>4. (M + 1) * f + P * p * c <= h
  BY <1>1, <1>2, <1>3, NoiseBudget
<1>5. n \in Nat /\ n <= M + 1
  BY <1>2
<1>6. n * f <= (M + 1) * f
  <2>1. PICK k \in Nat : M + 1 = n + k
    BY <1>5
  <2>2. (n + k) * f = n * f + k * f
    BY <1>5
  <2>3. k * f \in Nat /\ n * f \in Nat
    BY <1>5
  <2> QED BY <2>1, <2>2, <2>3
<1>7. P * c \in Nat
  OBVIOUS
<1>8. PICK top \in Nat : top = P * c
  BY <1>7
<1>9. e \in Nat /\ e <= top
  BY <1>2, <1>8
<1>10. p * e <= p * top /\ p * e \in Nat /\ p * top \in Nat
  <2>1. PICK k \in Nat : top = e + k
    BY <1>9
  <2>2. p * (e + k) = p * e + p * k
    BY <1>9
  <2>3. p * e \in Nat /\ p * k \in Nat
    BY <1>9
  <2> QED BY <2>1, <2>2, <2>3
<1>11. P * p * c = p * top
  <2>1. P * p * c = p * (P * c)
    OBVIOUS
  <2> QED BY <1>8, <2>1
<1>12. n * f \in Nat /\ (M + 1) * f \in Nat
  BY <1>5
<1>13. PICK x \in Nat, y \in Nat, z \in Nat, w \in Nat :
         x = n * f /\ y = (M + 1) * f /\ z = p * e /\ w = p * top
  BY <1>10, <1>12
<1>14. x + z <= h
  BY <1>4, <1>6, <1>10, <1>11, <1>13
<1> QED BY <1>1, <1>2, <1>3, <1>13, <1>14

\* Taking away multiples of p leaves the remainder.
LEMMA ModLess ==
  ASSUME NEW p \in Nat \ {0}, NEW a \in Int, NEW e \in Int
  PROVE  (a - p * e) % p = a % p
<1>1. PICK k \in Int, r \in 0 .. p - 1 : a = k * p + r /\ r = a % p
  BY ModTyped
<1>2. k - e \in Int /\ a - p * e = (k - e) * p + r
  <2>1. (k - e) * p = k * p - p * e
    OBVIOUS
  <2>2. PICK kp \in Int, pe \in Int : kp = k * p /\ pe = p * e
    OBVIOUS
  <2>3. a = kp + r
    BY <1>1, <2>2
  <2>4. (kp + r) - pe = (kp - pe) + r
    OBVIOUS
  <2> QED BY <2>1, <2>2, <2>3, <2>4
<1>3. ((k - e) * p + r) % p = r
  BY <1>2, ModIs
<1> QED BY <1>1, <1>2, <1>3

Dealt == [Parties -> Poly]
Noises == [Parties -> [Positions -> 0 .. BoundD - 1]]

\* T are the partial decryptions with the shares f and the noise E.
PartsOf(T, f, u, E) == \A j \in Parties : T[j] = Add(Mul(f[j], u), Scale(PRIMEP, E[j]))

LEMMA PartsTyped ==
  ASSUME NEW f \in Dealt, NEW u \in Poly, NEW T, NEW E \in Noises, PartsOf(T, f, u, E),
         NEW j \in Parties
  PROVE  E[j] \in Whole /\ T[j] \in Poly
<1>1. f[j] \in Whole /\ u \in Whole /\ E[j] \in Whole /\ PRIMEP \in Int
  <2>1. f[j] \in Poly /\ E[j] \in [Positions -> 0 .. BoundD - 1] /\ BoundD \in Int
    BY Values DEF Dealt, Noises
  <2>2. \A x \in 0 .. BoundD - 1 : x \in Int
    BY <2>1
  <2> QED BY <2>1, <2>2, PolyWhole, Values DEF Whole
<1>2. Mul(f[j], u) \in Whole /\ Scale(PRIMEP, E[j]) \in Whole
  BY <1>1, MulTyped, ScaleTyped, PolyWhole
<1>3. Add(Mul(f[j], u), Scale(PRIMEP, E[j])) \in Poly
  BY <1>2, AddTyped
<1> QED BY <1>1, <1>3 DEF PartsOf

\* They add up to the product with the key, behind their noise.
LEMMA PartsAdd ==
  ASSUME NEW K \in Poly, NEW f \in Dealt, Adds(f, K), NEW u \in Poly,
         NEW T, NEW E \in Noises,
         PartsOf(T, f, u, E),
         NEW i \in Positions, NEW x \in Row(PARTIES), \A j \in Parties : x[j] = T[j][i]
  PROVE  \E e \in 0 .. PARTIES * (BoundD - 1) : Cong(SumOf(x, PARTIES), Mul(K, u)[i] + PRIMEP * e)
<1> DEFINE S == [l \in Positions |-> SumOf([j \in Parties |-> f[j][l]], PARTIES)]
           y == [j \in Parties |-> Product(f[j], u)[i]]
           o == [j \in Parties |-> E[j][i]]
           z == [j \in Parties |-> 1 * y[j] + PRIMEP * o[j]]
<1>1. PARTIES \in Nat /\ Parties = 0 .. PARTIES - 1 /\ PRIMEP \in Int /\ BoundD - 1 \in Nat
  BY Values DEF Parties
<1>2. K \in Whole /\ u \in Whole /\ \A j \in Parties : f[j] \in Whole /\ T[j] \in Whole /\ E[j] \in Whole
  <2>1. \A j \in Parties : f[j] \in Poly
    BY DEF Dealt
  <2> QED BY <2>1, PartsTyped, PolyWhole
<1>3. ASSUME NEW l \in Positions PROVE S[l] \in Int /\ Cong(S[l], K[l])
  <2>1. [j \in Parties |-> f[j][l]] \in Row(PARTIES)
    BY <1>1, <1>2 DEF Whole, Row
  <2>2. S[l] \in Int
    BY <1>1, <2>1, SumTyped
  <2>3. S[l] % Modulus = K[l]
    BY DEF Adds
  <2>4. Cong(K[l], S[l])
    BY <2>2, <2>3, CongReduced
  <2> QED BY <1>2, <2>2, <2>4, CongTurn DEF Whole
<1>4. S \in Whole /\ Same(S, K)
  BY <1>3 DEF Whole, Same
<1>5. Product(S, u)[i] = SumOf(y, PARTIES)
  <2>1. f \in [0 .. PARTIES - 1 -> Whole]
    BY <1>1, <1>2 DEF Dealt
  <2>2. \A l \in Positions : S[l] = SumOf([j \in 0 .. PARTIES - 1 |-> f[j][l]], PARTIES)
    BY <1>1
  <2> HIDE DEF S
  <2>3. Product(S, u)[i] = SumOf([j \in 0 .. PARTIES - 1 |-> Product(f[j], u)[i]], PARTIES)
    BY <1>1, <1>2, <1>4, <2>1, <2>2, ProductOfSum
  <2> QED BY <1>1, <2>3
<1> HIDE DEF S
<1>6. ASSUME NEW j \in Parties
      PROVE  /\ y[j] \in Int /\ o[j] \in Int /\ z[j] \in Int /\ 0 <= o[j] /\ o[j] <= BoundD - 1
             /\ Cong(x[j], z[j])
  <2>1. Product(f[j], u) \in Whole /\ Mul(f[j], u) \in Whole /\ Same(Mul(f[j], u), Product(f[j], u))
    BY <1>2, ProductIs, MulTyped, PolyWhole
  <2>2. Scale(PRIMEP, E[j]) \in Whole /\ PRIMEP * E[j][i] \in Int
        /\ Cong(Scale(PRIMEP, E[j])[i], PRIMEP * E[j][i])
    BY <1>1, <1>2, ScaleTyped, PolyWhole
  <2>3. PICK a \in Int, b \in Int, c \in Int, d \in Int, w \in Int :
          /\ a = y[j] /\ b = PRIMEP * o[j] /\ c = Mul(f[j], u)[i] /\ d = Scale(PRIMEP, E[j])[i]
          /\ w = x[j]
    <3>1. x[j] \in Int
      BY <1>2 DEF Whole
    <3> QED BY <2>1, <2>2, <3>1 DEF Whole
  <2>4. Cong(c, a) /\ Cong(d, b)
    BY <2>1, <2>2, <2>3 DEF Same
  <2>5. Cong(T[j][i], Mul(f[j], u)[i] + Scale(PRIMEP, E[j])[i])
    BY <2>1, <2>2, AddTyped DEF PartsOf
  <2>6. Cong(w, c + d)
    BY <2>3, <2>5
  <2>7. Cong(c + d, a + b) /\ c + d \in Int /\ a + b \in Int
    BY <2>4, CongPlus
  <2>8. Cong(w, a + b)
    BY <2>6, <2>7, CongVia
  <2>9. z[j] = a + b
    <3>1. 1 * a + b = a + b
      OBVIOUS
    <3> QED BY <2>3, <3>1
  <2>10. o[j] \in 0 .. BoundD - 1
    BY DEF Noises
  <2> QED BY <1>1, <2>3, <2>7, <2>8, <2>9, <2>10
<1>7. y \in Row(PARTIES) /\ o \in Row(PARTIES) /\ z \in Row(PARTIES)
      /\ Combines(PARTIES, z, 1, y, PRIMEP, o)
  BY <1>1, <1>6 DEF Row, Combines
<1> HIDE DEF y, o, z
<1>8. SumOf(z, PARTIES) = 1 * SumOf(y, PARTIES) + PRIMEP * SumOf(o, PARTIES)
  <2>1. 1 \in Int
    OBVIOUS
  <2> QED BY <1>1, <1>7, <2>1, SumLinear
<1>9. Cong(SumOf(x, PARTIES), SumOf(z, PARTIES))
  BY <1>1, <1>6, <1>7, SumCong
<1>10. SumOf(o, PARTIES) \in 0 .. PARTIES * (BoundD - 1)
  <2>1. PICK P \in Nat, c \in Nat : P = PARTIES /\ c = BoundD - 1
    BY <1>1
  <2>2. P * 0 <= SumOf(o, P) /\ SumOf(o, P) <= P * c
    <3>1. \A k \in 0 .. P - 1 : 0 <= o[k] /\ o[k] <= c
      BY <1>1, <1>6, <2>1
    <3>2. 0 \in Int /\ c \in Int
      OBVIOUS
    <3> QED BY <1>7, <2>1, <3>1, <3>2, SumBetween
  <2>3. PICK X \in Int : X = SumOf(o, P)
    BY <1>7, <2>1, SumTyped
  <2>4. P * 0 = 0 /\ P * c \in Nat
    OBVIOUS
  <2>5. X \in 0 .. P * c
    BY <2>2, <2>3, <2>4
  <2> QED BY <2>1, <2>3, <2>5
<1>11. PICK X \in Int, Y \in Int, Z \in Int, e \in Int, p \in Int :
         /\ X = SumOf(x, PARTIES) /\ Y = SumOf(y, PARTIES) /\ Z = SumOf(z, PARTIES)
         /\ e = SumOf(o, PARTIES) /\ p = PRIMEP
  BY <1>1, <1>7, SumTyped
<1>12. Product(S, u) \in Whole /\ Product(K, u) \in Whole /\ Mul(K, u) \in Whole
       /\ Same(Product(S, u), Product(K, u)) /\ Same(Mul(K, u), Product(K, u))
  <2>1. Same(u, u)
    BY <1>2, CongSelf DEF Same, Whole
  <2> QED BY <1>2, <1>4, <2>1, ProductIs, MulTyped, PolyWhole, ProductCong
<1>13. PICK k \in Int, m0 \in Int : k = Product(K, u)[i] /\ m0 = Mul(K, u)[i]
  BY <1>12 DEF Whole
<1>14. Cong(Y, k) /\ Cong(m0, k)
  BY <1>5, <1>11, <1>12, <1>13 DEF Same
<1>15. Cong(Y, m0)
  BY <1>14, CongTurn, CongVia
<1>16. p * e \in Int
  OBVIOUS
<1>17. PICK pe \in Int : pe = p * e
  BY <1>16
<1>18. Z = Y + pe
  <2>1. 1 * Y = Y
    OBVIOUS
  <2> QED BY <1>8, <1>11, <1>17, <2>1
<1>19. Cong(Y + pe, m0 + pe) /\ Y + pe \in Int /\ m0 + pe \in Int
  <2>1. Cong(pe, pe)
    BY CongSelf
  <2>2. Cong(Y + pe, m0 + pe)
    BY <1>15, <2>1, CongPlus
  <2> QED BY <2>2
<1>20. Cong(X, Y + pe)
  BY <1>9, <1>11, <1>18
<1>21. Cong(X, m0 + pe)
  BY <1>19, <1>20, CongVia
<1> QED BY <1>10, <1>11, <1>13, <1>17, <1>21

\* What the parties combine is what the key decrypts.
LEMMA CombReveals ==
  ASSUME NEW K \in Poly, NEW f \in Dealt, Adds(f, K),
         NEW u \in Poly, NEW v \in Poly,
         NEW T, NEW E \in Noises,
         PartsOf(T, f, u, E),
         NEW n \in 1 .. MaxAdds + 1,
         \A i \in Positions : Center(Sub(v, Mul(K, u))[i])
                                \in -(n * FreshNoise) .. n * (FreshNoise + PRIMEP - 1)
  PROVE  ToPlain(Less(Sub(v, T[0]), T, PARTIES - 1)) = ToPlain(Sub(v, Mul(K, u)))
<1> DEFINE d == Sub(v, Mul(K, u))
           w == Sub(v, T[0])
           y(i) == [k \in 0 .. PARTIES - 2 |-> T[k + 1][i]]
           x(i) == [j \in Parties |-> T[j][i]]
<1>1. PICK N \in Nat : /\ PARTIES = 1 + N /\ N = PARTIES - 1 /\ Parties = 0 .. N
                        /\ \A k \in 1 .. N : k \in Parties \ {0}
  BY Others
<1>2. PICK left : left = Less(w, T, N)
  OBVIOUS
<1>3. Mul(K, u) \in Poly /\ Mul(K, u) \in Whole /\ v \in Whole
  BY MulTyped, PolyWhole
<1>4. T[0] \in Poly /\ T[0] \in Whole /\ \A k \in 1 .. N : T[k] \in Poly
  <2>1. 0 \in Parties
    BY <1>1
  <2>2. \A j \in Parties : T[j] \in Poly
    BY PartsTyped
  <2> QED BY <1>1, <2>1, <2>2, PolyWhole
<1>5. w \in Poly /\ w \in Whole /\ \A i \in Positions : Cong(w[i], v[i] - T[0][i])
  BY <1>3, <1>4, AddTyped, PolyWhole
<1>6. d \in Poly /\ d \in Whole /\ \A i \in Positions : Cong(d[i], v[i] - Mul(K, u)[i])
  BY <1>3, AddTyped, PolyWhole
<1> HIDE DEF w, d
<1>7. ASSUME NEW i \in Positions
      PROVE  /\ y(i) \in Row(N) /\ \A k \in 0 .. N - 1 : y(i)[k] = T[k + 1][i]
             /\ x(i) \in Row(1 + N) /\ \A j \in Parties : x(i)[j] = T[j][i]
             /\ \A k \in 0 .. N - 1 : y(i)[k] = x(i)[1 + k]
  <2>1. \A j \in Parties : T[j][i] \in Int
    BY PartsTyped, PolyWhole DEF Whole
  <2>2. \A k \in 0 .. N - 1 : k + 1 \in Parties /\ 1 + k = k + 1
    BY <1>1
  <2>3. 0 .. PARTIES - 2 = 0 .. N - 1 /\ 0 .. (1 + N) - 1 = Parties
    BY <1>1
  <2> QED BY <2>1, <2>2, <2>3 DEF Row
<1> HIDE DEF x, y
<1>8. ASSUME NEW i \in Positions
      PROVE  left \in Poly /\ Cong(left[i], w[i] - SumOf(y(i), N))
  BY <1>2, <1>4, <1>5, <1>7, LessIs
<1>9. ASSUME NEW i \in Positions
      PROVE  \E e \in 0 .. PARTIES * (BoundD - 1) : Cong(left[i], d[i] - PRIMEP * e)
  <2>1. PICK e \in 0 .. PARTIES * (BoundD - 1) :
          Cong(SumOf(x(i), PARTIES), Mul(K, u)[i] + PRIMEP * e)
    <3>1. x(i) \in Row(PARTIES) /\ \A j \in Parties : x(i)[j] = T[j][i]
      BY <1>1, <1>7
    <3> QED BY <3>1, PartsAdd
  <2>2. SumOf(x(i), 1 + N) = x(i)[0] + SumOf(y(i), N) /\ x(i)[0] = T[0][i]
    <3>1. 0 \in Parties
      BY <1>1
    <3> QED BY <1>7, <3>1, SumFirst
  <2>3. PRIMEP * e \in Int
    <3>1. PICK c \in Nat : c = PARTIES * (BoundD - 1)
      <4>1. PICK a \in Nat, b \in Nat : a = PARTIES /\ b = BoundD - 1
        BY Values
      <4>2. a * b \in Nat
        OBVIOUS
      <4> QED BY <4>1, <4>2
    <3>2. PICK p \in Int, b \in Int : p = PRIMEP /\ b = e
      BY <3>1, Values
    <3>3. p * b \in Int
      OBVIOUS
    <3> QED BY <3>2, <3>3
  <2>4. PICK m0 \in Int, pe \in Int, X \in Int, Y \in Int :
          m0 = Mul(K, u)[i] /\ pe = PRIMEP * e /\ X = SumOf(x(i), PARTIES) /\ Y = SumOf(y(i), N)
    <3>1. PARTIES \in Nat /\ SumOf(x(i), PARTIES) \in Int /\ SumOf(y(i), N) \in Int
      BY <1>1, <1>7, SumTyped
    <3> QED BY <1>3, <2>3, <3>1 DEF Whole
  <2>5. PICK vi \in Int, t0 \in Int, wi \in Int, di \in Int, li \in Int :
          vi = v[i] /\ t0 = T[0][i] /\ wi = w[i] /\ di = d[i] /\ li = left[i]
    BY <1>3, <1>4, <1>5, <1>6, <1>8, PolyWhole DEF Whole
  <2>6. X = t0 + Y
    BY <1>1, <2>2, <2>4, <2>5
  <2>7. Cong(X, m0 + pe)
    BY <2>1, <2>4
  <2>8. Cong(wi, vi - t0)
    BY <1>5, <2>5
  <2>9. Cong(di, vi - m0)
    BY <1>6, <2>4, <2>5
  <2>10. Cong(li, wi - Y)
    BY <1>8, <2>4, <2>5
  <2>11. Cong(Y, Y) /\ Cong(vi, vi) /\ Cong(pe, pe)
    BY CongSelf
  <2>12. Cong(wi - Y, (vi - t0) - Y)
    <3>1. vi - t0 \in Int
      OBVIOUS
    <3> QED BY <2>8, <2>11, <3>1, CongPlus
  <2>13. /\ (vi - t0) - Y = vi - X /\ wi - Y \in Int /\ vi - X \in Int /\ m0 + pe \in Int
         /\ vi - (m0 + pe) = (vi - m0) - pe /\ vi - (m0 + pe) \in Int /\ vi - m0 \in Int
         /\ di - pe \in Int /\ (vi - m0) - pe \in Int
    BY <2>6
  <2>14. Cong(li, vi - X)
    BY <2>10, <2>12, <2>13, CongVia
  <2>15. Cong(vi - X, vi - (m0 + pe))
    BY <2>7, <2>11, <2>13, CongPlus
  <2>16. Cong(li, (vi - m0) - pe)
    BY <2>13, <2>14, <2>15, CongVia
  <2>17. Cong(di - pe, (vi - m0) - pe)
    BY <2>9, <2>11, <2>13, CongPlus
  <2>18. Cong((vi - m0) - pe, di - pe)
    BY <2>13, <2>17, CongTurn
  <2>19. Cong(li, di - pe)
    BY <2>13, <2>16, <2>18, CongVia
  <2> QED BY <2>4, <2>5, <2>19
<1>10. ASSUME NEW i \in Positions
       PROVE  Center(left[i]) % PRIMEP = Center(d[i]) % PRIMEP
  <2>1. PICK e \in 0 .. PARTIES * (BoundD - 1) : Cong(left[i], d[i] - PRIMEP * e)
    BY <1>9
  <2>2. PRIMEP * e \in Nat /\ n * FreshNoise + PRIMEP * e <= Modulus \div 2
    BY PartyBudget
  <2>3. e \in Nat
    <3>1. PICK a \in Nat, b \in Nat : a = PARTIES /\ b = BoundD - 1
      BY Values
    <3>2. a * b \in Nat
      OBVIOUS
    <3>3. PICK c \in Nat : c = PARTIES * (BoundD - 1)
      BY <3>1, <3>2
    <3> QED BY <3>3
  <2>4. d[i] \in 0 .. Modulus - 1 /\ left[i] \in 0 .. Modulus - 1
    BY <1>6, <1>8 DEF Poly
  <2>5. PICK h \in Nat, di \in Int, z \in Int, pe \in Nat :
          h = Modulus \div 2 /\ di = d[i] /\ z = Center(d[i]) /\ pe = PRIMEP * e
    <3>1. Center(d[i]) \in Int
      BY <2>4, CenterTyped
    <3>2. d[i] \in Int
      BY <1>6 DEF Whole
    <3> QED BY <2>2, <3>1, <3>2, Halves
  <2>6. PICK lo \in Nat, hi \in Nat :
          lo = n * FreshNoise /\ hi = n * (FreshNoise + PRIMEP - 1) /\ hi <= h
    BY <2>5, Budget
  <2>7. -lo <= z /\ z <= hi
    <3>1. z \in -lo .. hi
      BY <2>5, <2>6 DEF d
    <3> QED BY <3>1
  <2>8. lo + pe <= h
    BY <2>2, <2>5, <2>6
  <2>9. -h <= z - pe /\ z - pe <= h /\ z - pe \in Int
    BY <2>6, <2>7, <2>8
  <2>10. Cong(di, z)
    BY <2>4, <2>5, CenterTyped
  <2>11. Cong(pe, pe)
    BY CongSelf
  <2>12. Cong(di - pe, z - pe)
    BY <2>10, <2>11, CongPlus
  <2>13. PICK li \in 0 .. Modulus - 1 : li = left[i]
    BY <2>4
  <2>14. Cong(li, di - pe) /\ di - pe \in Int /\ li \in Int
    <3>1. left[i] \in Int
      BY <1>8, PolyWhole DEF Whole
    <3> QED BY <2>1, <2>5, <2>13, <3>1
  <2>15. Cong(li, z - pe)
    BY <2>9, <2>12, <2>14, CongVia
  <2>16. Center(li) = z - pe
    BY <2>5, <2>9, <2>15, Centers
  <2>17. PICK p \in Nat \ {0} : p = PRIMEP
    BY Values
  <2>18. (z - p * e) % p = z % p
    <3>1. e \in Int
      BY <2>3
    <3> QED BY <3>1, ModLess, Zenon
  <2> QED BY <2>5, <2>13, <2>16, <2>17, <2>18
<1>11. ToPlain(left) = ToPlain(d)
  BY <1>10 DEF ToPlain
<1> QED BY <1>1, <1>2, <1>11 DEF d, w

-----------------------------------------------------------------------------
LEMMA Presence ==
  /\ \A x, y : [u |-> x, v |-> y] # None /\ [a |-> x, b |-> y] # None
  /\ \A f \in Plain : f # None
  /\ \A f \in Dealt : f # None
  /\ DOMAIN None = {}
<1>1. DOMAIN None = {}
  BY DEF None
<1>2. ASSUME NEW x, NEW y PROVE [u |-> x, v |-> y] # None /\ [a |-> x, b |-> y] # None
  <2>1. "u" \in DOMAIN [u |-> x, v |-> y] /\ "a" \in DOMAIN [a |-> x, b |-> y]
    OBVIOUS
  <2> QED BY <1>1, <2>1
<1>3. ASSUME NEW f \in Plain PROVE f # None
  <2>1. 0 \in DOMAIN f
    BY Sizes DEF Plain
  <2> QED BY <1>1, <2>1
<1>4. ASSUME NEW f \in Dealt PROVE f # None
  <2>1. 0 \in Parties
    BY Others
  <2>2. 0 \in DOMAIN f
    BY <2>1 DEF Dealt
  <2> QED BY <1>1, <2>2
<1> QED BY <1>1, <1>2, <1>3, <1>4

LEMMA InitBgvInv == BgvInit => BgvInv
<1> SUFFICES ASSUME BgvInit PROVE BgvInv
  OBVIOUS
<1> USE DEF BgvInit
<1>1. DOMAIN t = {}
  BY Presence
<1>2. BgvTypeOK
  <2>1. adds \in 0 .. MaxAdds
    BY Values
  <2> QED BY <1>1, <2>1 DEF BgvTypeOK
<1>3. KeysFirst /\ KeyPair /\ PartsAnswer /\ NoiseBounded
  BY <1>1 DEF KeysFirst, KeyPair, PartsAnswer, NoiseBounded
<1> QED BY <1>2, <1>3 DEF BgvInv

\* A new ciphertext, whichever slot it goes to.
LEMMA EncryptionIs ==
  ASSUME BgvInv, pk # None, NEW x \in Messages, NEW c \in Encryptions(x)
  PROVE  /\ c # None /\ c.u \in Poly /\ c.v \in Poly /\ Behind(c, 1) /\ Decrypt(c, sk) = x
         /\ x \in Plain /\ x # None
<1>1. PICK e1 \in Ternary, e2 \in Ternary, r \in Ternary : c = Pair(pk.a, pk.b, r, e1, e2, x)
  BY DEF Encryptions, Pair
<1>2. PICK key \in Ternary, e \in Ternary :
        sk = Reduce(key) /\ pk = [a |-> pk.a, b |-> Add(Mul(pk.a, sk), Scale(PRIMEP, e))]
  BY DEF BgvInv, KeyPair
<1>3. pk.b = Add(Mul(pk.a, sk), Scale(PRIMEP, e))
  BY <1>2
<1>4. PICK A \in Poly : A = pk.a
  BY DEF BgvInv, BgvTypeOK
<1>5. c = Pair(A, Add(Mul(A, Reduce(key)), Scale(PRIMEP, e)), r, e1, e2, x)
  BY <1>1, <1>2, <1>3, <1>4
<1>6. x \in Plain
  BY Values
<1>7. c # None
  BY <1>1, Presence DEF Pair
<1>8. c.u \in Poly /\ c.v \in Poly /\ Behind(c, 1) /\ Decrypt(c, sk) = x
  <2>1. sk = Reduce(key)
    BY <1>2
  <2>2. Behind(c, 1)
    BY <1>5, <1>6, <2>1, FreshDecrypts, ZenonT(30)
  <2>3. Decrypt(c, sk) = x
    BY <1>5, <1>6, <2>1, FreshDecrypts
  <2>4. c.u \in Poly
    BY <1>5, <1>6, <2>1, FreshDecrypts, ZenonT(30)
  <2>5. c.v \in Poly
    BY <1>5, <1>6, <2>1, FreshDecrypts, ZenonT(30)
  <2> QED BY <2>2, <2>3, <2>4, <2>5
<1> QED BY <1>6, <1>7, <1>8, Presence

\* The sum of the two ciphertexts.
LEMMA HomAddIs ==
  ASSUME BgvInv, HomAdd
  PROVE  /\ c1' # None /\ c1'.u \in Poly /\ c1'.v \in Poly /\ Behind(c1', adds + 2)
         /\ Decrypt(c1', sk) = PlainAdd(Decrypt(c1, sk), Decrypt(c2, sk))
         /\ adds + 1 \in 0 .. MaxAdds
<1>1. c1 # None /\ c2 # None /\ adds < MaxAdds
      /\ c1' = [u |-> Add(c1.u, c2.u), v |-> Add(c1.v, c2.v)]
  BY DEF HomAdd
<1>2. pk # None
  BY <1>1 DEF BgvInv, KeysFirst
<1>3. /\ sk \in Poly /\ c1.u \in Poly /\ c1.v \in Poly /\ c2.u \in Poly /\ c2.v \in Poly
      /\ adds \in 0 .. MaxAdds /\ Behind(c1, adds + 1) /\ Behind(c2, 1)
  BY <1>1, <1>2 DEF BgvInv, BgvTypeOK, NoiseBounded
<1>4. PICK n \in Nat : n = adds /\ n < MaxAdds
  BY <1>1, <1>3
<1>5. n + 1 \in 1 .. MaxAdds /\ n + 1 + 1 = n + 2
  BY <1>4, Values
<1>6. PICK N \in 1 .. MaxAdds : N = n + 1 /\ N = adds + 1
  BY <1>4, <1>5
<1>7. c1'.u = Add(c1.u, c2.u) /\ c1'.v = Add(c1.v, c2.v)
  BY <1>1
<1>8. Behind(c1, N)
  BY <1>3, <1>6
<1>9. c1'.u \in Poly /\ c1'.v \in Poly /\ Behind(c1', N + 1)
      /\ Decrypt(c1', sk) = PlainAdd(Decrypt(c1, sk), Decrypt(c2, sk))
  BY <1>3, <1>7, <1>8, SumDecrypts
<1>10. N + 1 = adds + 2 /\ adds + 1 \in 0 .. MaxAdds
  BY <1>4, <1>5, <1>6, Values
<1> QED BY <1>1, <1>9, <1>10, Presence

\* What the parties reveal.
LEMMA CombIs ==
  ASSUME BgvInv, Comb
  PROVE  c1 # None /\ sk \in Poly /\ m' = Decrypt(c1, sk) /\ m' \in Plain
<1>1. DOMAIN t = Parties /\ m' = ToPlain(Less(Sub(c1.v, t[0]), t, PARTIES - 1))
  BY DEF Comb
<1>2. 0 \in Parties
  BY Others
<1>3. s # None /\ c1 # None
  BY <1>1, <1>2 DEF BgvInv, PartsAnswer
<1>4. pk # None
  BY <1>3 DEF BgvInv, KeysFirst
<1>5. /\ sk \in Poly /\ s \in Dealt /\ Adds(s, sk) /\ c1.u \in Poly /\ c1.v \in Poly
      /\ adds \in 0 .. MaxAdds /\ Behind(c1, adds + 1)
  BY <1>3, <1>4 DEF BgvInv, BgvTypeOK, NoiseBounded, Dealt
<1>6. \A j \in Parties : \E E \in [Positions -> 0 .. BoundD - 1] :
        t[j] = Add(Mul(s[j], c1.u), Scale(PRIMEP, E))
  BY <1>1 DEF BgvInv, PartsAnswer
<1> DEFINE E == [j \in Parties |-> CHOOSE o \in [Positions -> 0 .. BoundD - 1] :
                                     t[j] = Add(Mul(s[j], c1.u), Scale(PRIMEP, o))]
<1>7. E \in Noises /\ PartsOf(t, s, c1.u, E)
  BY <1>6 DEF Noises, PartsOf
<1> HIDE DEF E
<1>8. PICK n \in 1 .. MaxAdds + 1 : n = adds + 1
  BY <1>5, Values
<1>9. \A i \in Positions : Center(Sub(c1.v, Mul(sk, c1.u))[i])
                             \in -(n * FreshNoise) .. n * (FreshNoise + PRIMEP - 1)
  BY <1>5, <1>8 DEF Behind
<1>10. ToPlain(Less(Sub(c1.v, t[0]), t, PARTIES - 1)) = ToPlain(Sub(c1.v, Mul(sk, c1.u)))
  BY <1>5, <1>7, <1>9, CombReveals
<1>11. m' = Decrypt(c1, sk)
  BY <1>1, <1>10 DEF Decrypt
<1> QED BY <1>3, <1>5, <1>11, DecryptIs

-----------------------------------------------------------------------------
\* One lemma per action: the invariant is kept.
LEMMA KeyGenKeeps == BgvInv /\ KeyGen => BgvInv'
<1> SUFFICES ASSUME BgvInv, KeyGen PROVE BgvInv'
  OBVIOUS
<1>1. PICK e \in Ternary, key \in Ternary, A \in Uniform :
        sk' = Reduce(key) /\ pk' = [a |-> A, b |-> Add(Mul(A, sk'), Scale(PRIMEP, e))]
  BY DEF KeyGen
<1>2. /\ pk = None /\ s' = s /\ c1' = c1 /\ c2' = c2 /\ adds' = adds /\ t' = t /\ m' = m
      /\ asked' = asked
  BY DEF KeyGen
<1>3. s = None /\ c1 = None /\ c2 = None /\ DOMAIN t = {}
  BY <1>2 DEF BgvInv, KeysFirst, PartsAnswer
<1>4. sk' \in Poly /\ A \in Poly /\ Add(Mul(A, sk'), Scale(PRIMEP, e)) \in Poly
  <2>1. sk' \in Poly /\ A \in Poly /\ PRIMEP \in Int /\ e \in Whole
    BY <1>1, Values, ReduceTyped
  <2>2. Mul(A, sk') \in Whole /\ Scale(PRIMEP, e) \in Whole
    BY <2>1, PolyWhole, MulTyped, ScaleTyped
  <2> QED BY <2>1, <2>2, AddTyped
<1>5. pk'.a = A /\ pk'.b = Add(Mul(A, sk'), Scale(PRIMEP, e)) /\ pk' # None
  BY <1>1, Presence
<1>6. BgvTypeOK'
  BY <1>2, <1>3, <1>4, <1>5 DEF BgvInv, BgvTypeOK
<1>7. KeysFirst' /\ PartsAnswer' /\ NoiseBounded'
  BY <1>2, <1>3, <1>5 DEF KeysFirst, PartsAnswer, NoiseBounded
<1>8. KeyPair'
  BY <1>1, <1>5 DEF KeyPair
<1> QED BY <1>6, <1>7, <1>8 DEF BgvInv

LEMMA KeyShareKeeps == BgvInv /\ KeyShare => BgvInv'
<1> SUFFICES ASSUME BgvInv, KeyShare PROVE BgvInv'
  OBVIOUS
<1>1. PICK rest \in [Parties \ {0} -> Uniform] :
        s' = [j \in Parties |-> IF j = 0 THEN Less(sk, rest, PARTIES - 1) ELSE rest[j]]
  BY DEF KeyShare
<1>2. /\ pk # None /\ s = None /\ sk' = sk /\ pk' = pk /\ c1' = c1 /\ c2' = c2 /\ adds' = adds
      /\ t' = t /\ m' = m /\ asked' = asked
  BY DEF KeyShare
<1>3. DOMAIN t = {}
  BY <1>2 DEF BgvInv, PartsAnswer
<1>4. sk \in Poly
  BY <1>2 DEF BgvInv, BgvTypeOK
<1>5. s' \in [Parties -> Poly] /\ Adds(s', sk)
  <2>1. rest \in [Parties \ {0} -> Poly]
    BY Values
  <2> QED BY <1>1, <1>4, <2>1, SharesAdd
<1>6. Adds(s, sk)'
  BY <1>2, <1>5 DEF Adds
<1>7. BgvTypeOK'
  BY <1>2, <1>3, <1>5, <1>6 DEF BgvInv, BgvTypeOK
<1>8. KeysFirst' /\ PartsAnswer' /\ KeyPair'
  BY <1>2, <1>3 DEF BgvInv, KeysFirst, PartsAnswer, KeyPair
<1>9. NoiseBounded'
  BY <1>2 DEF BgvInv, NoiseBounded, Behind
<1> QED BY <1>7, <1>8, <1>9 DEF BgvInv

LEMMA EncryptFirstKeeps ==
  ASSUME BgvInv, NEW x \in Messages, EncryptFirst(x) PROVE BgvInv'
<1>1. /\ pk # None /\ c1 = None /\ c1' \in Encryptions(x) /\ asked' = x /\ sk' = sk /\ pk' = pk
      /\ s' = s /\ c2' = c2 /\ adds' = adds /\ t' = t /\ m' = m
  BY DEF EncryptFirst
<1>2. c1' # None /\ c1'.u \in Poly /\ c1'.v \in Poly /\ Behind(c1', 1)
  BY <1>1, EncryptionIs
<1>3. DOMAIN t = {}
  BY <1>1 DEF BgvInv, PartsAnswer
<1>4. BgvTypeOK'
  BY <1>1, <1>2, <1>3 DEF BgvInv, BgvTypeOK, Adds
<1>5. KeysFirst' /\ PartsAnswer' /\ KeyPair'
  BY <1>1, <1>3 DEF BgvInv, KeysFirst, PartsAnswer, KeyPair
<1>6. NoiseBounded'
  <2>1. adds \in Nat
    BY Values DEF BgvInv, BgvTypeOK
  <2>2. ASSUME NEW i \in Positions
        PROVE  Center(Sub(c1'.v, Mul(sk, c1'.u))[i])
                 \in -((adds + 1) * FreshNoise) .. (adds + 1) * (FreshNoise + PRIMEP - 1)
    <3>1. PICK F \in Nat, G \in Nat : F = FreshNoise /\ G = FreshNoise + PRIMEP - 1
      <4>1. 1 \in 1 .. MaxAdds + 1
        BY Values
      <4> QED BY <4>1, Budget
    <3>2. Center(Sub(c1'.v, Mul(sk, c1'.u))[i]) \in -(1 * F) .. 1 * G
      BY <1>2, <3>1 DEF Behind
    <3>3. F <= (adds + 1) * F /\ G <= (adds + 1) * G
      <4>1. PICK k \in Nat : k = adds
        BY <2>1
      <4>2. (k + 1) * F = k * F + F /\ (k + 1) * G = k * G + G /\ k * F \in Nat /\ k * G \in Nat
        OBVIOUS
      <4> QED BY <4>1, <4>2
    <3>4. PICK aF \in Int, aG \in Int : aF = (adds + 1) * F /\ aG = (adds + 1) * G
      BY <2>1
    <3> QED BY <3>1, <3>2, <3>3, <3>4
  <2>3. Behind(c1', adds + 1)
    BY <2>2 DEF Behind
  <2> QED BY <1>1, <2>3 DEF BgvInv, NoiseBounded, Behind
<1> QED BY <1>4, <1>5, <1>6 DEF BgvInv

LEMMA EncryptSecondKeeps ==
  ASSUME BgvInv, NEW x \in Messages, EncryptSecond(x) PROVE BgvInv'
<1>1. /\ pk # None /\ c2 = None /\ c2' \in Encryptions(x) /\ asked' = x /\ sk' = sk /\ pk' = pk
      /\ s' = s /\ c1' = c1 /\ adds' = adds /\ t' = t /\ m' = m
  BY DEF EncryptSecond
<1>2. c2' # None /\ c2'.u \in Poly /\ c2'.v \in Poly /\ Behind(c2', 1)
  BY <1>1, EncryptionIs
<1>3. BgvTypeOK'
  BY <1>1, <1>2 DEF BgvInv, BgvTypeOK, Adds
<1>4. KeysFirst' /\ PartsAnswer' /\ KeyPair'
  BY <1>1 DEF BgvInv, KeysFirst, PartsAnswer, KeyPair
<1>5. NoiseBounded'
  BY <1>1, <1>2 DEF BgvInv, NoiseBounded, Behind
<1> QED BY <1>3, <1>4, <1>5 DEF BgvInv

LEMMA HomAddKeeps == BgvInv /\ HomAdd => BgvInv'
<1> SUFFICES ASSUME BgvInv, HomAdd PROVE BgvInv'
  OBVIOUS
<1>1. /\ c1 # None /\ c2 # None /\ t = None /\ adds' = adds + 1 /\ sk' = sk /\ pk' = pk /\ s' = s
      /\ c2' = c2 /\ t' = t /\ m' = m /\ asked' = asked
  BY DEF HomAdd
<1>2. /\ c1' # None /\ c1'.u \in Poly /\ c1'.v \in Poly /\ Behind(c1', adds + 2)
      /\ adds + 1 \in 0 .. MaxAdds
  BY HomAddIs
<1>3. DOMAIN t = {} /\ pk # None
  BY <1>1, Presence DEF BgvInv, KeysFirst
<1>4. BgvTypeOK'
  BY <1>1, <1>2, <1>3 DEF BgvInv, BgvTypeOK, Adds
<1>5. KeysFirst' /\ PartsAnswer' /\ KeyPair'
  BY <1>1, <1>3 DEF BgvInv, KeysFirst, PartsAnswer, KeyPair
<1>6. NoiseBounded'
  <2>1. adds + 2 = adds' + 1
    <3>1. adds \in Int
      BY Values DEF BgvInv, BgvTypeOK
    <3> QED BY <1>1, <3>1
  <2>2. Behind(c1', adds' + 1)
    BY <1>2, <2>1
  <2> QED BY <1>1, <2>2 DEF BgvInv, NoiseBounded, Behind
<1> QED BY <1>4, <1>5, <1>6 DEF BgvInv

LEMMA DistDecKeeps ==
  ASSUME BgvInv, NEW j \in Parties, DistDec(j) PROVE BgvInv'
<1>1. PICK f \in Uniform :
        t' = [k \in DOMAIN t \cup {j} |->
                IF k = j THEN Add(Mul(s[j], c1.u), Scale(PRIMEP, Smudge(f))) ELSE t[k]]
  BY DEF DistDec
<1>2. /\ s # None /\ c1 # None /\ j \notin DOMAIN t /\ sk' = sk /\ pk' = pk /\ s' = s /\ c1' = c1
      /\ c2' = c2 /\ adds' = adds /\ m' = m /\ asked' = asked
  BY DEF DistDec
<1>3. Smudge(f) \in [Positions -> 0 .. BoundD - 1] /\ Smudge(f) \in Whole
  <2>1. BoundD \in Nat \ {0} /\ f \in Poly
    BY Values
  <2>2. ASSUME NEW i \in Positions PROVE Center(f[i]) % BoundD \in 0 .. BoundD - 1
    <3>1. f[i] \in 0 .. Modulus - 1
      BY <2>1 DEF Poly
    <3>2. PICK z \in Int : z = Center(f[i])
      BY <3>1, CenterTyped
    <3> QED BY <2>1, <3>2, ModTyped
  <2>3. \A x \in 0 .. BoundD - 1 : x \in Int
    BY <2>1
  <2> QED BY <2>2, <2>3 DEF Smudge, Whole
<1> DEFINE tj == Add(Mul(s[j], c1.u), Scale(PRIMEP, Smudge(f)))
<1>4. tj \in Poly
  <2>1. s[j] \in Whole /\ c1.u \in Whole /\ PRIMEP \in Int
    BY <1>2, PolyWhole, Values DEF BgvInv, BgvTypeOK
  <2>2. Mul(s[j], c1.u) \in Whole /\ Scale(PRIMEP, Smudge(f)) \in Whole
    BY <1>3, <2>1, PolyWhole, MulTyped, ScaleTyped
  <2> QED BY <2>2, AddTyped
<1>5. \E E \in [Positions -> 0 .. BoundD - 1] : tj = Add(Mul(s[j], c1.u), Scale(PRIMEP, E))
  BY <1>3
<1>6. DOMAIN t' = DOMAIN t \cup {j} /\ t'[j] = tj /\ \A k \in DOMAIN t : t'[k] = t[k]
  BY <1>1, <1>2
<1> HIDE DEF tj
<1>7. BgvTypeOK'
  BY <1>2, <1>4, <1>6 DEF BgvInv, BgvTypeOK, Adds
<1>8. PartsAnswer'
  BY <1>2, <1>5, <1>6 DEF BgvInv, PartsAnswer
<1>9. KeysFirst' /\ KeyPair'
  BY <1>2 DEF BgvInv, KeysFirst, KeyPair
<1>10. NoiseBounded'
  BY <1>2 DEF BgvInv, NoiseBounded, Behind
<1> QED BY <1>7, <1>8, <1>9, <1>10 DEF BgvInv

LEMMA CombKeeps == BgvInv /\ Comb => BgvInv'
<1> SUFFICES ASSUME BgvInv, Comb PROVE BgvInv'
  OBVIOUS
<1>1. /\ sk' = sk /\ pk' = pk /\ s' = s /\ c1' = c1 /\ c2' = c2 /\ adds' = adds /\ t' = t
      /\ asked' = asked
  BY DEF Comb
<1>2. m' \in Plain
  BY CombIs
<1>3. BgvTypeOK'
  BY <1>1, <1>2 DEF BgvInv, BgvTypeOK, Adds
<1>4. KeysFirst' /\ KeyPair' /\ PartsAnswer' /\ NoiseBounded'
  BY <1>1 DEF BgvInv, KeysFirst, KeyPair, PartsAnswer, NoiseBounded, Behind
<1> QED BY <1>3, <1>4 DEF BgvInv

LEMMA StillKeeps == BgvInv /\ UNCHANGED bgvVars => BgvInv'
BY DEF BgvInv, bgvVars, BgvTypeOK, Adds, KeysFirst, KeyPair, PartsAnswer, NoiseBounded, Behind

LEMMA StepBgvInv == BgvInv /\ [BgvNext]_bgvVars => BgvInv'
<1> SUFFICES ASSUME BgvInv, [BgvNext]_bgvVars PROVE BgvInv'
  OBVIOUS
<1>1. CASE KeyGen
  BY <1>1, KeyGenKeeps
<1>2. CASE KeyShare
  BY <1>2, KeyShareKeeps
<1>3. CASE \E x \in Messages : EncryptFirst(x)
  BY <1>3, EncryptFirstKeeps
<1>4. CASE \E x \in Messages : EncryptSecond(x)
  BY <1>4, EncryptSecondKeeps
<1>5. CASE HomAdd
  BY <1>5, HomAddKeeps
<1>6. CASE \E j \in Parties : DistDec(j)
  BY <1>6, DistDecKeeps
<1>7. CASE Comb
  BY <1>7, CombKeeps
<1>8. CASE UNCHANGED bgvVars
  BY <1>8, StillKeeps
<1> QED BY <1>1, <1>2, <1>3, <1>4, <1>5, <1>6, <1>7, <1>8 DEF BgvNext

\* Every reachable state satisfies the inductive invariant; in particular the shares
\* add up to the secret key (bgv_keyshare) and everything kept is reduced.
THEOREM BgvInvariant == BgvSpec => []BgvInv
<1>1. BgvInit => BgvInv
  BY InitBgvInv
<1>2. BgvInv /\ [BgvNext]_bgvVars => BgvInv'
  BY StepBgvInv
<1> QED BY <1>1, <1>2, PTL DEF BgvSpec

\* The noise behind the ciphertexts stays within the budget of their additions, for
\* every degree, modulus and number of parties that leave room for it.
THEOREM NoiseCorrect == BgvSpec => []NoiseBounded
<1>1. BgvInv => NoiseBounded
  BY DEF BgvInv
<1> QED BY <1>1, BgvInvariant, PTL

-----------------------------------------------------------------------------
\* The steps of the scheme, under the refinement mapping.
LEMMA SchemeStarts == BgvInit => Scheme!Start
BY Presence DEF BgvInit, Scheme!Start, Plaintext

LEMMA PlaintextIs ==
  ASSUME BgvInv
  PROVE  /\ c1 # None => Plaintext(c1) = Decrypt(c1, sk) /\ Plaintext(c1) \in Plain /\ Plaintext(c1) # None
         /\ c2 # None => Plaintext(c2) = Decrypt(c2, sk) /\ Plaintext(c2) \in Plain /\ Plaintext(c2) # None
         /\ c1 = None => Plaintext(c1) = None
         /\ c2 = None => Plaintext(c2) = None
<1>1. c1 # None \/ c2 # None => sk \in Poly
  BY DEF BgvInv, KeysFirst, BgvTypeOK
<1>2. c1 # None => Decrypt(c1, sk) \in Plain
  BY <1>1, DecryptIs DEF BgvInv, BgvTypeOK
<1>3. c2 # None => Decrypt(c2, sk) \in Plain
  BY <1>1, DecryptIs DEF BgvInv, BgvTypeOK
<1> QED BY <1>2, <1>3, Presence DEF Plaintext

LEMMA SchemeSteps == BgvInv /\ [BgvNext]_bgvVars => [Scheme!Step]_(Scheme!abstract)
<1> SUFFICES ASSUME BgvInv, [BgvNext]_bgvVars PROVE [Scheme!Step]_(Scheme!abstract)
  OBVIOUS
<1>1. CASE KeyGen
  <2>1. c1 = None /\ c2 = None /\ c1' = c1 /\ c2' = c2 /\ t' = t /\ m' = m /\ asked' = asked
    BY <1>1 DEF BgvInv, KeysFirst, KeyGen
  <2> QED BY <2>1 DEF Scheme!abstract, Plaintext
<1>2. CASE KeyShare
  <2>1. sk' = sk /\ c1' = c1 /\ c2' = c2 /\ t' = t /\ m' = m /\ asked' = asked
    BY <1>2 DEF KeyShare
  <2> QED BY <2>1 DEF Scheme!abstract, Plaintext
<1>3. ASSUME NEW x \in Messages, EncryptFirst(x) PROVE Scheme!PutFirst
  <2>1. /\ pk # None /\ c1 = None /\ c1' \in Encryptions(x) /\ asked' = x /\ sk' = sk
        /\ c2' = c2 /\ t' = t /\ m' = m
    BY <1>3 DEF EncryptFirst
  <2>2. c1' # None /\ Decrypt(c1', sk) = x /\ x \in Plain
    BY <2>1, EncryptionIs
  <2>3. Plaintext(c1) = None /\ Plaintext(c1)' = x /\ Plaintext(c2)' = Plaintext(c2)
    BY <2>1, <2>2 DEF Plaintext
  <2> QED BY <2>1, <2>2, <2>3 DEF Scheme!PutFirst
<1>4. ASSUME NEW x \in Messages, EncryptSecond(x) PROVE Scheme!PutSecond
  <2>1. /\ pk # None /\ c2 = None /\ c2' \in Encryptions(x) /\ asked' = x /\ sk' = sk
        /\ c1' = c1 /\ t' = t /\ m' = m
    BY <1>4 DEF EncryptSecond
  <2>2. c2' # None /\ Decrypt(c2', sk) = x /\ x \in Plain
    BY <2>1, EncryptionIs
  <2>3. Plaintext(c2) = None /\ Plaintext(c2)' = x /\ Plaintext(c1)' = Plaintext(c1)
    BY <2>1, <2>2 DEF Plaintext
  <2> QED BY <2>1, <2>2, <2>3 DEF Scheme!PutSecond
<1>5. CASE HomAdd
  <2>1. /\ c1 # None /\ c2 # None /\ t = None /\ sk' = sk /\ c2' = c2 /\ t' = t /\ m' = m
        /\ asked' = asked
    BY <1>5 DEF HomAdd
  <2>2. c1' # None /\ Decrypt(c1', sk) = PlainAdd(Decrypt(c1, sk), Decrypt(c2, sk))
    BY <1>5, HomAddIs
  <2>3. /\ Plaintext(c1) # None /\ Plaintext(c2) # None
        /\ Plaintext(c1) = Decrypt(c1, sk) /\ Plaintext(c2) = Decrypt(c2, sk)
    BY <2>1, PlaintextIs
  <2>4. Plaintext(c1)' = PlainAdd(Plaintext(c1), Plaintext(c2)) /\ Plaintext(c2)' = Plaintext(c2)
    BY <2>1, <2>2, <2>3 DEF Plaintext
  <2>5. Scheme!AddSecond
    BY <2>1, <2>3, <2>4, Presence DEF Scheme!AddSecond
  <2> QED BY <2>5 DEF Scheme!Step
<1>6. ASSUME NEW j \in Parties, DistDec(j) PROVE Scheme!Help
  <2>1. /\ c1 # None /\ j \notin DOMAIN t /\ DOMAIN t' = DOMAIN t \cup {j} /\ sk' = sk /\ c1' = c1
        /\ c2' = c2 /\ m' = m /\ asked' = asked
    BY <1>6 DEF DistDec
  <2>2. Plaintext(c1) # None /\ Plaintext(c1)' = Plaintext(c1) /\ Plaintext(c2)' = Plaintext(c2)
    BY <2>1, PlaintextIs DEF Plaintext
  <2> QED BY <2>1, <2>2 DEF Scheme!Help
<1>7. CASE Comb
  <2>1. DOMAIN t = Parties /\ sk' = sk /\ c1' = c1 /\ c2' = c2 /\ t' = t /\ asked' = asked
    BY <1>7 DEF Comb
  <2>2. c1 # None /\ m' = Decrypt(c1, sk)
    BY <1>7, CombIs
  <2>3. m' = Plaintext(c1) /\ Plaintext(c1)' = Plaintext(c1) /\ Plaintext(c2)' = Plaintext(c2)
    BY <2>1, <2>2 DEF Plaintext
  <2>4. Scheme!Reveal
    BY <2>1, <2>3 DEF Scheme!Reveal
  <2> QED BY <2>4 DEF Scheme!Step
<1>8. CASE UNCHANGED bgvVars
  BY <1>8 DEF bgvVars, Scheme!abstract, Plaintext
<1> QED BY <1>1, <1>2, <1>3, <1>4, <1>5, <1>6, <1>7, <1>8 DEF BgvNext, Scheme!Step

\* bgv.cpp implements additive encryption: what is encrypted is what decrypts,
\* bgv_add adds plaintexts modulo p, and the parties' combination reveals what the
\* key would, whatever shares, randomness and errors were drawn.
THEOREM SchemeRefined == BgvSpec => ImplementsScheme
<1>1. BgvInit => Scheme!Start
  BY SchemeStarts
<1>2. BgvInv /\ [BgvNext]_bgvVars => [Scheme!Step]_(Scheme!abstract)
  BY SchemeSteps
<1> QED BY <1>1, <1>2, BgvInvariant, PTL DEF BgvSpec, ImplementsScheme, Scheme!AbstractSpec
=============================================================================
