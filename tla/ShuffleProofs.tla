--------------------------- MODULE ShuffleProofs ---------------------------
(***************************************************************************)
(* Randomness, challenges, masks and verdict of the shuffle, for every     *)
(* ring, every number of messages and every number of rejected attempts:   *)
(* induction over the run with two invariants, IInv of Shuffle for what is *)
(* drawn from the generator, and DInv for commitments, quotients, proofs   *)
(* and verdict.                                                            *)
(***************************************************************************)
EXTENDS Shuffle, RingTheorems

LEMMA ModSmall ==
  ASSUME NEW n \in Nat \ {0}, NEW x \in 0 .. n - 1
  PROVE  x % n = x
OBVIOUS

LEMMA ModRange ==
  ASSUME NEW n \in Nat \ {0}, NEW x \in Nat
  PROVE  x % n \in 0 .. n - 1
OBVIOUS

\* What the proofs need of the generator between two operations.
Good(p) ==
  /\ p = [init |-> p.init, key |-> p.key, iv |-> p.iv, seeds |-> p.seeds]
  /\ p.init \in {0, 1} /\ p.iv \in 0 .. CtrMod - 1 /\ p.seeds \in Nat
  /\ p.init = 1 => p.seeds >= 1 /\ p.key = OsKey(p.seeds - 1)

SeedsAfter(p) == IF p.init = 0 THEN p.seeds + 1 ELSE p.seeds
IvAfter(p) == IF p.init = 0 THEN 0 ELSE p.iv

\* A secret draw: under a system key, at the counter, which then moves on.
LEMMA SecretDraw ==
  ASSUME NEW p, Good(p), NEW n \in Nat
  PROVE  /\ Position(p) = <<OsKey(SeedsAfter(p) - 1), IvAfter(p)>>
         /\ Good(Advance(p, n))
         /\ Advance(p, n).init = 1
         /\ Advance(p, n).seeds = SeedsAfter(p)
         /\ Advance(p, n).iv = (IvAfter(p) + n) % CtrMod
         /\ IvAfter(p) \in 0 .. CtrMod - 1
         /\ SeedsAfter(p) \in Nat \ {0}
<1> DEFINE q == EnsureKeyed(p)
<1>1. /\ q = [init |-> 1, key |-> OsKey(SeedsAfter(p) - 1), iv |-> IvAfter(p), seeds |-> SeedsAfter(p)]
      /\ SeedsAfter(p) \in Nat \ {0} /\ IvAfter(p) \in 0 .. CtrMod - 1
  <2>1. CASE p.init = 0
    <3>1. q = [[[p EXCEPT !.key = OsKey(p.seeds), !.iv = 0, !.init = -1] EXCEPT !.init = 1] EXCEPT !.seeds = @ + 1]
      BY <2>1 DEF EnsureKeyed, LoadKey
    <3>2. q = [init |-> 1, key |-> OsKey(p.seeds), iv |-> 0, seeds |-> p.seeds + 1]
      BY <3>1 DEF Good
    <3>3. SeedsAfter(p) = p.seeds + 1 /\ SeedsAfter(p) - 1 = p.seeds /\ IvAfter(p) = 0
      BY <2>1 DEF Good, SeedsAfter, IvAfter
    <3> QED BY <3>2, <3>3, CtrModAssumption DEF Good
  <2>2. CASE p.init # 0
    BY <2>2 DEF Good, SeedsAfter, IvAfter, EnsureKeyed
  <2> QED BY <2>1, <2>2
<1>2. q.iv + n \in Nat /\ (q.iv + n) % CtrMod \in 0 .. CtrMod - 1
  BY <1>1, CtrModAssumption, ModRange
<1>3. Advance(p, n) = [init |-> 1, key |-> OsKey(SeedsAfter(p) - 1),
                       iv |-> (IvAfter(p) + n) % CtrMod, seeds |-> SeedsAfter(p)]
  BY <1>1 DEF Advance
<1>4. Position(p) = <<OsKey(SeedsAfter(p) - 1), IvAfter(p)>>
  BY <1>1 DEF Position
<1> HIDE DEF q
<1> QED BY <1>1, <1>2, <1>3, <1>4 DEF Good

\* The same for the one block of a draw in the model.
LEMMA OneBlock ==
  ASSUME NEW p, Good(p)
  PROVE  /\ Position(p) = <<OsKey(SeedsAfter(p) - 1), IvAfter(p)>>
         /\ Good(Advance(p, 1))
         /\ Advance(p, 1).init = 1
         /\ Advance(p, 1).seeds = SeedsAfter(p)
         /\ Advance(p, 1).iv = (IvAfter(p) + 1) % CtrMod
BY SecretDraw, 1 \in Nat

\* A challenge: its position is that of its transcript, and afterwards the
\* generator has no key.
LEMMA ChallengeDraw ==
  ASSUME NEW p, Good(p), NEW transcript
  PROVE  /\ Position(Keyed(p, transcript)) = <<HashKey(transcript), 0>>
         /\ Good(AfterChallenge(p, transcript))
         /\ AfterChallenge(p, transcript).init = 0
         /\ AfterChallenge(p, transcript).seeds = p.seeds
<1> DEFINE k == Keyed(p, transcript)
<1>1. k = [init |-> -1, key |-> HashKey(transcript), iv |-> 0, seeds |-> p.seeds]
  <2>1. k = [p EXCEPT !.key = HashKey(transcript), !.iv = 0, !.init = -1]
    BY DEF Keyed, LoadKey
  <2> QED BY <2>1 DEF Good
<1>2. EnsureKeyed(k) = k
  BY <1>1 DEF EnsureKeyed
<1>3. 1 % CtrMod \in 0 .. CtrMod - 1
  BY CtrModAssumption, ModRange
<1>4. AfterChallenge(p, transcript) =
        [init |-> 0, key |-> HashKey(transcript), iv |-> 1 % CtrMod, seeds |-> p.seeds]
  <2>1. Advance(k, 1) = [k EXCEPT !.iv = (k.iv + 1) % CtrMod]
    BY <1>2 DEF Advance
  <2>2. k.iv + 1 = 1
    BY <1>1
  <2>3. Advance(k, 1) = [init |-> -1, key |-> HashKey(transcript), iv |-> 1 % CtrMod,
                         seeds |-> p.seeds]
    BY <1>1, <2>1, <2>2
  <2>4. AfterChallenge(p, transcript) = Reseed(Advance(k, 1))
    BY DEF AfterChallenge
  <2> HIDE DEF k
  <2> QED BY <2>3, <2>4 DEF Reseed
<1>5. Position(k) = <<HashKey(transcript), 0>>
  BY <1>1, <1>2 DEF Position
<1> QED BY <1>3, <1>4, <1>5 DEF Good

LEMMA Sizes ==
  ASSUME IInv
  PROVE  MSGS \in Nat \ {0, 1} /\ 2 * MSGS <= CtrMod /\ CtrMod \in Nat \ {0} /\ Last \in Nat \ {0}
BY ShuffleAssumption, CounterLasts, CtrModAssumption DEF IInv, MSGS, Last

LEMMA GoodPrng == ASSUME IInv PROVE Good(prng)
BY DEF IInv, KeyDiscipline, Good

\* Finding a stream position keeps what was found before.
LEMMA LearnKeeps ==
  ASSUME NEW pos, NEW V, NEW v \in Values(pos, V)
  PROVE  /\ pos \in DOMAIN Learn(pos, v) /\ Learn(pos, v)[pos] = v
         /\ \A old \in DOMAIN stream :
              old \in DOMAIN Learn(pos, v) /\ Learn(pos, v)[old] = stream[old]
BY DEF Learn, Values

\* Secrets drawn at or above Blocks under the key in use, or under the next key,
\* leave every secret at a position of its own below the new Blocks.
LEMMA NewSecrets ==
  ASSUME IInv, NEW new,
         secrets' = Record(new),
         Good(prng'), prng'.seeds = SeedsAfter(prng),
         \A x \in DOMAIN new : \E k \in 0 .. CtrMod - 1 :
           /\ new[x] = <<OsKey(SeedsAfter(prng) - 1), k>>
           /\ prng.init = 1 => k >= Blocks
           /\ prng'.init = 1 => k < Blocks',
         \A x, y \in DOMAIN new : new[x] = new[y] => x = y,
         prng.init = 1 /\ prng'.init = 1 => Blocks' >= Blocks /\ Blocks \in Int /\ Blocks' \in Int
  PROVE  SecretsBelow' /\ SecretsFresh'
<1> DEFINE S == prng.seeds
           T == SeedsAfter(prng)
<1>1. /\ S \in Nat /\ prng.init \in {0, 1} /\ prng'.init \in {0, 1}
      /\ T \in Nat \ {0} /\ T = (IF prng.init = 0 THEN S + 1 ELSE S)
      /\ prng'.seeds = T
  BY GoodPrng DEF Good, SeedsAfter
<1>2. DOMAIN secrets' = DOMAIN secrets \cup DOMAIN new
  BY DEF Record
<1>3. ASSUME NEW x \in DOMAIN new PROVE secrets'[x] = new[x]
  BY <1>3 DEF Record
<1>4. ASSUME NEW x \in DOMAIN secrets, x \notin DOMAIN new PROVE secrets'[x] = secrets[x]
  BY <1>4 DEF Record
<1>5. ASSUME NEW x \in DOMAIN secrets
      PROVE  \E n \in 0 .. S - 1, k \in 0 .. CtrMod - 1 :
               secrets[x] = <<OsKey(n), k>> /\ (n = S - 1 /\ prng.init = 1 => k < Blocks)
  BY DEF IInv, SecretsBelow
<1> HIDE DEF S, T
<1>6. SecretsBelow'
  <2> SUFFICES ASSUME NEW x \in DOMAIN secrets'
               PROVE  \E n \in 0 .. T - 1, k \in 0 .. CtrMod - 1 :
                        secrets'[x] = <<OsKey(n), k>>
                          /\ (n = T - 1 /\ prng'.init = 1 => k < Blocks')
    BY <1>1 DEF SecretsBelow
  <2>1. CASE x \in DOMAIN new
    <3>1. PICK k \in 0 .. CtrMod - 1 :
            new[x] = <<OsKey(T - 1), k>> /\ (prng'.init = 1 => k < Blocks')
      BY <2>1 DEF T
    <3> QED BY <1>1, <1>3, <2>1, <3>1
  <2>2. CASE x \notin DOMAIN new
    <3>1. PICK n \in 0 .. S - 1, k \in 0 .. CtrMod - 1 :
            secrets[x] = <<OsKey(n), k>> /\ (n = S - 1 /\ prng.init = 1 => k < Blocks)
      BY <1>2, <1>5, <2>2
    <3>2. n \in 0 .. T - 1 /\ (n = T - 1 => prng.init = 1 /\ n = S - 1)
      BY <1>1
    <3>3. n = T - 1 /\ prng'.init = 1 => k < Blocks'
      BY <3>1, <3>2
    <3> QED BY <1>2, <1>4, <2>2, <3>1, <3>2, <3>3
  <2> QED BY <2>1, <2>2
<1>7. ASSUME NEW x \in DOMAIN new, NEW y \in DOMAIN secrets, y \notin DOMAIN new
      PROVE  secrets'[x] # secrets'[y]
  <2>1. PICK k \in 0 .. CtrMod - 1 :
          new[x] = <<OsKey(T - 1), k>> /\ (prng.init = 1 => k >= Blocks)
    BY DEF T
  <2>2. PICK n \in 0 .. S - 1, l \in 0 .. CtrMod - 1 :
          secrets[y] = <<OsKey(n), l>> /\ (n = S - 1 /\ prng.init = 1 => l < Blocks)
    BY <1>5
  <2>3. ASSUME <<OsKey(T - 1), k>> = <<OsKey(n), l>> PROVE n = T - 1 /\ k = l
    BY <2>3 DEF OsKey
  <2>4. n = T - 1 => n = S - 1 /\ prng.init = 1
    BY <1>1
  <2>5. prng.init = 1 => Blocks \in Int
    BY GoodPrng, Sizes DEF IInv, KeyDiscipline, Blocks
  <2>6. ~(n = T - 1 /\ k = l)
    BY <2>1, <2>2, <2>4, <2>5
  <2> QED BY <1>3, <1>4, <1>7, <2>1, <2>2, <2>3, <2>6
<1>8. SecretsFresh'
  <2> SUFFICES ASSUME NEW x \in DOMAIN secrets', NEW y \in DOMAIN secrets',
                      secrets'[x] = secrets'[y]
               PROVE  x = y
    BY DEF SecretsFresh
  <2>1. CASE x \in DOMAIN new /\ y \in DOMAIN new
    BY <1>3, <2>1
  <2>2. CASE x \in DOMAIN new /\ y \notin DOMAIN new
    BY <1>2, <1>7, <2>2
  <2>3. CASE x \notin DOMAIN new /\ y \in DOMAIN new
    BY <1>2, <1>7, <2>3
  <2>4. CASE x \notin DOMAIN new /\ y \notin DOMAIN new
    BY <1>2, <1>4, <2>4 DEF IInv, SecretsFresh
  <2> QED BY <2>1, <2>2, <2>3, <2>4
<1> QED BY <1>6, <1>8

LEMMA InitIInv == Init => IInv
<1> SUFFICES ASSUME Init PROVE IInv
  OBVIOUS
<1>1. \E st \in Statements : m = st[1]
  BY DEF Init
<1>2. /\ KeyDiscipline
      /\ i \in Nat /\ pc \in Phases /\ pc = "collapse" /\ DOMAIN secrets = {}
  BY CtrModAssumption DEF Init, PrngInit, KeyDiscipline, Phases
<1> QED BY <1>1, <1>2 DEF IInv, SecretsBelow, SecretsFresh, ChallengeRemembered, ChallengesAgree

\* Steps that only compute on the prover's and the verifier's own data.
LEMMA QuietStep ==
  ASSUME IInv, UNCHANGED <<prng, stream, secrets, m, rho, ms_, c, d, beta, beta_v>>,
         pc \notin {"collapse", "mask", "hash"}, pc' \in Phases,
         pc' \notin {"collapse", "mask", "hash"},
         pc' # "abort" => pc # "abort",
         pc' \in {"verify", "done"} => pc \in {"verify", "done"},
         i' \in Nat
  PROVE  IInv'
<1>1. KeyDiscipline'
  BY DEF IInv, KeyDiscipline
<1>2. SecretsBelow' /\ SecretsFresh'
  BY DEF IInv, SecretsBelow, SecretsFresh, KeyDiscipline
<1>3. ChallengeRemembered' /\ ChallengesAgree'
  BY DEF IInv, Phases, ChallengeRemembered, ChallengesAgree, ShuffleTranscript
<1> QED BY <1>1, <1>2, <1>3 DEF IInv

LEMMA CollapseStep == ASSUME IInv, Collapse PROVE IInv'
<1> DEFINE new == [x \in {<<"rho", 0, 0>>} |-> Position(prng)]
<1>1. /\ prng' = Advance(prng, 1) /\ secrets' = Record(new) /\ m' = m
      /\ pc = "collapse" /\ pc' = "mask" /\ i' = 0
  BY DEF Collapse, inputs
<1>2. prng.init = 0 /\ Good(prng)
  BY <1>1, GoodPrng DEF IInv, KeyDiscipline
<1>3. /\ Position(prng) = <<OsKey(SeedsAfter(prng) - 1), 0>>
      /\ Good(prng') /\ prng'.init = 1 /\ prng'.seeds = SeedsAfter(prng)
      /\ prng'.iv = 1 % CtrMod
  <2>1. IvAfter(prng) = 0 /\ 0 + 1 = 1
    BY <1>2 DEF IvAfter
  <2> QED BY <1>1, <1>2, <2>1, OneBlock
<1>4. Blocks' = 1 /\ 0 \in 0 .. CtrMod - 1
  BY <1>1, Sizes DEF Blocks
<1>5. SecretsBelow' /\ SecretsFresh'
  <2>1. \A x \in DOMAIN new : new[x] = <<OsKey(SeedsAfter(prng) - 1), 0>>
    BY <1>3
  <2>2. \A x, y \in DOMAIN new : new[x] = new[y] => x = y
    OBVIOUS
  <2> HIDE DEF new
  <2> QED BY <1>1, <1>2, <1>3, <1>4, <2>1, <2>2, NewSecrets
<1>6. KeyDiscipline'
  BY <1>1, <1>3, <1>4 DEF KeyDiscipline, Good
<1>7. 0 <= Last'
  BY <1>1, Sizes DEF Last, MSGS
<1> QED
  BY <1>1, <1>5, <1>6, <1>7 DEF IInv, Phases, ChallengeRemembered, ChallengesAgree

LEMMA SampleMaskStep == ASSUME IInv, SampleMask PROVE IInv'
<1> DEFINE next == Advance(prng, 1)
           new == [x \in {<<"theta", i, 0>>, <<"r_", i, 0>>} |->
                     IF x[1] = "theta" THEN Position(prng) ELSE Position(next)]
           low == 1 + 2 * i
<1>1. /\ prng' = Advance(next, 1) /\ secrets' = Record(new) /\ m' = m
      /\ pc = "mask" /\ pc' = "mask" /\ i < Last /\ i' = i + 1
  BY DEF SampleMask, inputs
<1>2. /\ i \in Nat /\ low \in 0 .. CtrMod - 1 /\ low + 1 \in 0 .. CtrMod - 1
      /\ Blocks = low /\ Blocks' = low + 2 /\ Last' = Last /\ Last \in Nat
  BY <1>1, Sizes DEF IInv, Blocks, Last, MSGS
<1>3. prng.init = 1 /\ Good(prng) /\ prng.iv = low
  <2>1. prng.init = 1 /\ Good(prng) /\ prng.iv = low % CtrMod
    BY <1>1, <1>2, GoodPrng DEF IInv, KeyDiscipline
  <2> HIDE DEF low
  <2> QED BY <1>2, <2>1, ModSmall, Sizes
<1> HIDE DEF low
<1>4. /\ Position(prng) = <<OsKey(SeedsAfter(prng) - 1), low>>
      /\ Good(next) /\ next.init = 1 /\ next.seeds = SeedsAfter(prng) /\ next.iv = low + 1
  <2>1. (low + 1) % CtrMod = low + 1
    BY <1>2, ModSmall, Sizes
  <2>2. IvAfter(prng) = low
    BY <1>3 DEF IvAfter
  <2> QED BY <1>3, <2>1, <2>2, OneBlock
<1> HIDE DEF next
<1>5. /\ Position(next) = <<OsKey(SeedsAfter(prng) - 1), low + 1>>
      /\ Good(prng') /\ prng'.init = 1 /\ prng'.seeds = SeedsAfter(prng)
      /\ prng'.iv = (low + 2) % CtrMod
  <2>1. SeedsAfter(next) = SeedsAfter(prng) /\ IvAfter(next) = low + 1 /\ low + 1 + 1 = low + 2
    BY <1>2, <1>4 DEF SeedsAfter, IvAfter
  <2> QED BY <1>1, <1>4, <2>1, OneBlock
<1>6. SecretsBelow' /\ SecretsFresh'
  <2>1. \A x \in DOMAIN new : \E k \in {low, low + 1} : new[x] = <<OsKey(SeedsAfter(prng) - 1), k>>
    BY <1>4, <1>5
  <2>2. \A x, y \in DOMAIN new : new[x] = new[y] => x = y
    <3>1. low # low + 1
      BY <1>2
    <3> QED BY <1>4, <1>5, <3>1
  <2> HIDE DEF new
  <2>3. \A x \in DOMAIN new : \E k \in 0 .. CtrMod - 1 :
          /\ new[x] = <<OsKey(SeedsAfter(prng) - 1), k>>
          /\ prng.init = 1 => k >= Blocks
          /\ prng'.init = 1 => k < Blocks'
    BY <1>2, <2>1
  <2>4. Blocks' >= Blocks /\ Blocks \in Int /\ Blocks' \in Int
    BY <1>2
  <2> QED BY <1>1, <1>5, <2>2, <2>3, <2>4, NewSecrets
<1>7. KeyDiscipline'
  BY <1>1, <1>2, <1>5 DEF KeyDiscipline, Good
<1>8. i' \in Nat /\ i' <= Last'
  BY <1>1, <1>2
<1> QED
  BY <1>1, <1>6, <1>7, <1>8 DEF IInv, Phases, ChallengeRemembered, ChallengesAgree

LEMMA CommitLastStep == ASSUME IInv, CommitLast PROVE IInv'
<1> DEFINE new == [x \in {<<"r_", Last, 0>>} |-> Position(prng)]
           low == 1 + 2 * i
<1>1. /\ prng' = Advance(prng, 1) /\ secrets' = Record(new) /\ m' = m
      /\ pc = "mask" /\ pc' = "hash" /\ i = Last /\ i' = i
  BY DEF CommitLast, inputs
<1>2. /\ i \in Nat /\ low \in 0 .. CtrMod - 1
      /\ Blocks = low /\ Blocks' = low + 1
  BY <1>1, Sizes DEF IInv, Blocks, Last, MSGS
<1>3. prng.init = 1 /\ Good(prng) /\ prng.iv = low
  <2>1. prng.init = 1 /\ Good(prng) /\ prng.iv = low % CtrMod
    BY <1>1, <1>2, GoodPrng DEF IInv, KeyDiscipline
  <2> HIDE DEF low
  <2> QED BY <1>2, <2>1, ModSmall, Sizes
<1> HIDE DEF low
<1>4. /\ Position(prng) = <<OsKey(SeedsAfter(prng) - 1), low>>
      /\ Good(prng') /\ prng'.init = 1 /\ prng'.seeds = SeedsAfter(prng)
      /\ prng'.iv = (low + 1) % CtrMod
  <2>1. IvAfter(prng) = low
    BY <1>3 DEF IvAfter
  <2> QED BY <1>1, <1>3, <2>1, OneBlock
<1>5. SecretsBelow' /\ SecretsFresh'
  <2>1. \A x \in DOMAIN new : new[x] = <<OsKey(SeedsAfter(prng) - 1), low>>
    BY <1>4
  <2>2. \A x, y \in DOMAIN new : new[x] = new[y] => x = y
    OBVIOUS
  <2> HIDE DEF new
  <2>3. \A x \in DOMAIN new : \E k \in 0 .. CtrMod - 1 :
          /\ new[x] = <<OsKey(SeedsAfter(prng) - 1), k>>
          /\ prng.init = 1 => k >= Blocks
          /\ prng'.init = 1 => k < Blocks'
    BY <1>2, <2>1
  <2>4. Blocks' >= Blocks /\ Blocks \in Int /\ Blocks' \in Int
    BY <1>2
  <2> QED BY <1>1, <1>4, <2>2, <2>3, <2>4, NewSecrets
<1>6. KeyDiscipline'
  BY <1>1, <1>2, <1>4 DEF KeyDiscipline, Good
<1> QED
  BY <1>1, <1>2, <1>5, <1>6 DEF IInv, Phases, ChallengeRemembered, ChallengesAgree

\* After a challenge the generator has no key: what held of the secrets holds on.
LEMMA ChallengeStep ==
  ASSUME IInv, NEW transcript, prng' = AfterChallenge(prng, transcript),
         secrets' = secrets, pc' \in Phases \ {"mask", "hash"}
  PROVE  /\ Position(Keyed(prng, transcript)) = <<HashKey(transcript), 0>>
         /\ KeyDiscipline' /\ SecretsBelow' /\ SecretsFresh'
<1>1. /\ Position(Keyed(prng, transcript)) = <<HashKey(transcript), 0>>
      /\ Good(prng') /\ prng'.init = 0 /\ prng'.seeds = prng.seeds
  BY GoodPrng, ChallengeDraw
<1>2. KeyDiscipline'
  BY <1>1 DEF KeyDiscipline, Good
<1>3. SecretsBelow'
  BY <1>1 DEF IInv, SecretsBelow
<1>4. SecretsFresh'
  BY DEF IInv, SecretsFresh
<1> QED BY <1>1, <1>2, <1>3, <1>4

LEMMA HashStatementStep == ASSUME IInv, HashStatement PROVE IInv'
<1> DEFINE pos == Position(Keyed(prng, ShuffleTranscript))
<1>1. /\ pc = "hash" /\ pc' = "inverse" /\ m' = m /\ i' = i /\ secrets' = secrets
      /\ prng' = AfterChallenge(prng, ShuffleTranscript)
  BY DEF HashStatement, inputs
<1>2. ShuffleTranscript' = ShuffleTranscript
  BY DEF HashStatement, collapsed, ShuffleTranscript
<1>3. pos \in DOMAIN stream' /\ stream'[pos] = beta'
  <2>1. PICK b \in Values(pos, R) : beta' = b /\ stream' = Learn(pos, b)
    BY DEF HashStatement
  <2> HIDE DEF pos
  <2> QED BY <2>1, LearnKeeps
<1>4. pos = <<HashKey(ShuffleTranscript), 0>> /\ KeyDiscipline' /\ SecretsBelow' /\ SecretsFresh'
  BY <1>1, ChallengeStep DEF Phases
<1>5. ChallengeRemembered'
  BY <1>2, <1>3, <1>4 DEF ChallengeRemembered
<1> QED BY <1>1, <1>4, <1>5 DEF IInv, Phases, ChallengesAgree

LEMMA RehashStep == ASSUME IInv, Rehash PROVE IInv'
<1> DEFINE pos == Position(Keyed(prng, ShuffleTranscript))
<1>1. /\ pc = "relation" /\ pc' = "verify" /\ m' = m /\ i' = 0 /\ secrets' = secrets
      /\ beta' = beta /\ prng' = AfterChallenge(prng, ShuffleTranscript)
  BY DEF Rehash, inputs
<1>2. ShuffleTranscript' = ShuffleTranscript
  BY DEF Rehash, collapsed, ShuffleTranscript
<1>3. pos = <<HashKey(ShuffleTranscript), 0>> /\ KeyDiscipline' /\ SecretsBelow' /\ SecretsFresh'
  BY <1>1, ChallengeStep DEF Phases
<1>4. pos \in DOMAIN stream /\ stream[pos] = beta
  BY <1>1, <1>3 DEF IInv, ChallengeRemembered
<1>5. pos \in DOMAIN stream' /\ stream'[pos] = beta /\ beta_v' = beta
  <2>1. PICK b \in Values(pos, R) : beta_v' = b /\ stream' = Learn(pos, b)
    BY DEF Rehash
  <2>2. b = beta
    BY <1>4 DEF Values
  <2> HIDE DEF pos
  <2> QED BY <1>4, <2>1, <2>2, LearnKeeps
<1>6. ChallengeRemembered'
  BY <1>1, <1>2, <1>3, <1>5 DEF ChallengeRemembered
<1> QED BY <1>1, <1>3, <1>5, <1>6 DEF IInv, Phases, ChallengesAgree

LEMMA VerifyRelationStep == ASSUME IInv, VerifyRelation PROVE IInv'
<1> DEFINE transcript == LinTranscript(beta_v, i, proof[i].first)
           pos == Position(Keyed(prng, transcript))
           old == <<HashKey(ShuffleTranscript), 0>>
<1>1. /\ pc = "verify" /\ pc' = pc /\ m' = m /\ i' = i + 1 /\ secrets' = secrets
      /\ beta' = beta /\ beta_v' = beta_v /\ prng' = AfterChallenge(prng, transcript)
  BY DEF VerifyRelation, inputs
<1>2. ShuffleTranscript' = ShuffleTranscript
  BY DEF VerifyRelation, collapsed, ShuffleTranscript
<1>3. KeyDiscipline' /\ SecretsBelow' /\ SecretsFresh'
  <2> HIDE DEF transcript
  <2> QED BY <1>1, ChallengeStep DEF Phases
<1>4. old \in DOMAIN stream /\ stream[old] = beta
  BY <1>1 DEF IInv, ChallengeRemembered
<1>5. old \in DOMAIN stream' /\ stream'[old] = beta
  <2>1. PICK b \in Values(pos, LinChallenges) : stream' = Learn(pos, b)
    BY DEF VerifyRelation
  <2> HIDE DEF pos, old
  <2> QED BY <1>4, <2>1, LearnKeeps
<1>6. ChallengeRemembered' /\ ChallengesAgree'
  BY <1>1, <1>2, <1>5 DEF IInv, ChallengeRemembered, ChallengesAgree
<1> QED BY <1>1, <1>3, <1>6 DEF IInv, Phases

LEMMA AttemptStep == ASSUME IInv, NEW accepted \in BOOLEAN, Attempt(accepted) PROVE IInv'
<1> DEFINE next == Advance(prng, 1)
           drawn == Advance(prng, 2)
           new == [x \in {<<"y", i, rejects>>, <<"y_", i, rejects>>} |->
                     IF x[1] = "y" THEN Position(prng) ELSE Position(next)]
           transcript == LinTranscript(beta, i, <<Position(prng), Position(next)>>)
           pos == Position(Keyed(prng, transcript))
           old == <<HashKey(ShuffleTranscript), 0>>
<1>1. /\ pc = "relation" /\ pc' = pc /\ m' = m /\ secrets' = Record(new)
      /\ beta' = beta /\ beta_v' = beta_v /\ prng' = AfterChallenge(drawn, transcript)
  BY DEF Attempt, inputs
<1>2. prng.init = 0 /\ Good(prng)
  BY <1>1, GoodPrng DEF IInv, KeyDiscipline
<1>3. /\ Position(prng) = <<OsKey(SeedsAfter(prng) - 1), 0>>
      /\ Good(next) /\ next.init = 1 /\ next.seeds = SeedsAfter(prng) /\ next.iv = 1
  <2>1. IvAfter(prng) = 0 /\ (0 + 1) % CtrMod = 1
    BY <1>2, Sizes, ModSmall DEF IvAfter
  <2> QED BY <1>2, <2>1, OneBlock
<1>4. Good(drawn) /\ drawn.seeds = SeedsAfter(prng)
  BY <1>2, SecretDraw, 2 \in Nat
<1> HIDE DEF next, drawn
<1>5. Position(next) = <<OsKey(SeedsAfter(prng) - 1), 1>>
  <2>1. SeedsAfter(next) = SeedsAfter(prng) /\ IvAfter(next) = 1
    BY <1>3 DEF SeedsAfter, IvAfter
  <2> QED BY <1>3, <2>1, OneBlock
<1>6. Good(prng') /\ prng'.init = 0 /\ prng'.seeds = SeedsAfter(prng)
  <2> HIDE DEF transcript
  <2> QED BY <1>1, <1>4, ChallengeDraw
<1>7. SecretsBelow' /\ SecretsFresh'
  <2>1. \A x \in DOMAIN new : \E k \in {0, 1} : new[x] = <<OsKey(SeedsAfter(prng) - 1), k>>
    BY <1>3, <1>5
  <2>2. \A x, y \in DOMAIN new : new[x] = new[y] => x = y
    BY <1>3, <1>5
  <2>3. {0, 1} \subseteq 0 .. CtrMod - 1
    BY Sizes
  <2> HIDE DEF new
  <2> QED BY <1>1, <1>2, <1>6, <2>1, <2>2, <2>3, NewSecrets
<1>8. KeyDiscipline'
  BY <1>1, <1>6 DEF KeyDiscipline, Good
<1>9. old \in DOMAIN stream' /\ stream'[old] = beta
  <2>1. PICK b \in Values(pos, LinChallenges) : stream' = Learn(pos, b)
    BY DEF Attempt, next
  <2>2. old \in DOMAIN stream /\ stream[old] = beta
    BY <1>1 DEF IInv, ChallengeRemembered
  <2> HIDE DEF pos, old
  <2> QED BY <2>1, <2>2, LearnKeeps
<1>10. ShuffleTranscript' = ShuffleTranscript
  BY DEF Attempt, collapsed, ShuffleTranscript
<1>11. ChallengeRemembered' /\ ChallengesAgree'
  BY <1>1, <1>9, <1>10 DEF IInv, ChallengeRemembered, ChallengesAgree
<1>12. i' \in Nat
  BY DEF Attempt, IInv
<1> QED BY <1>1, <1>7, <1>8, <1>11, <1>12 DEF IInv, Phases

LEMMA NextIInv == IInv /\ [Next]_vars => IInv'
<1> SUFFICES ASSUME IInv, [Next]_vars PROVE IInv'
  OBVIOUS
<1>1. CASE Collapse
  BY <1>1, CollapseStep
<1>2. CASE SampleMask
  BY <1>2, SampleMaskStep
<1>3. CASE CommitLast
  BY <1>3, CommitLastStep
<1>4. CASE HashStatement
  BY <1>4, HashStatementStep
<1>5. CASE Invert
  BY <1>5, QuietStep DEF Invert, inputs, collapsed, Phases
<1>6. CASE ComputeQuotient
  <2>1. i' \in Nat
    BY <1>6 DEF ComputeQuotient, IInv
  <2> QED BY <1>6, <2>1, QuietStep DEF ComputeQuotient, inputs, collapsed, Phases
<1>7. CASE StartRelations
  BY <1>7, QuietStep DEF StartRelations, inputs, collapsed, Phases
<1>8. CASE \E accepted \in BOOLEAN : Attempt(accepted)
  BY <1>8, AttemptStep
<1>9. CASE Rehash
  BY <1>9, RehashStep
<1>10. CASE VerifyRelation
  BY <1>10, VerifyRelationStep
<1>11. CASE Finish
  BY <1>11, QuietStep DEF Finish, inputs, collapsed, Phases, IInv
<1>12. CASE UNCHANGED vars
  <2>1. ShuffleTranscript' = ShuffleTranscript /\ Blocks' = Blocks /\ Last' = Last
    BY <1>12 DEF vars, ShuffleTranscript, Blocks, Last, MSGS
  <2> QED
    BY <1>12, <2>1 DEF vars, IInv, KeyDiscipline, SecretsBelow, SecretsFresh,
                       ChallengeRemembered, ChallengesAgree
<1> QED
  BY <1>1, <1>2, <1>3, <1>4, <1>5, <1>6, <1>7, <1>8, <1>9, <1>10, <1>11, <1>12
     DEF Next, Stopped

\* The invariant behind the three results below.
THEOREM InvariantCorrect == Spec => []IInv
<1>1. QED
  BY InitIInv, NextIInv, PTL DEF Spec

\* Masks, commitment randomness and Gaussian vectors of prover and verifier are
\* drawn under keys of the operating system only, whatever was hashed before.
THEOREM PrivateSecrets == Spec => []SecretsPrivate
<1>1. IInv => SecretsPrivate
  BY DEF IInv, SecretsBelow, SecretsPrivate, OsKey
<1>2. QED
  BY <1>1, InvariantCorrect, PTL

\* No two secret draws of a shuffle, retries included, read the same block.
THEOREM FreshSecrets == Spec => []SecretsFresh
<1>1. IInv => SecretsFresh
  BY DEF IInv
<1>2. QED
  BY <1>1, InvariantCorrect, PTL

\* The verifier's shuffle_hash gives the challenge the prover's one gave.
THEOREM SameChallenges == Spec => []ChallengesAgree
<1>1. IInv => ChallengesAgree
  BY DEF IInv
<1>2. QED
  BY <1>1, InvariantCorrect, PTL
-----------------------------------------------------------------------------
(***************************************************************************)
(* The verdict.  Four facts about the state lead to it: the commitments    *)
(* hold the collapsed messages and the masks, the quotients solve their    *)
(* recurrence, the proofs hold the challenge of their transcript, and the  *)
(* verdict so far is that of the relations looked at.                      *)
(***************************************************************************)

\* How far each loop has come.
Masked == IF pc = "mask" THEN i ELSE IF pc = "collapse" THEN 0 ELSE MSGS
Divided == IF pc = "quotient" THEN i
           ELSE IF pc \in {"relation", "verify", "done"} THEN Last ELSE 0
Proved == IF pc = "relation" THEN i ELSE IF pc \in {"verify", "done"} THEN MSGS ELSE 0
Verified == IF pc = "verify" THEN i ELSE IF pc = "done" THEN MSGS ELSE 0

\* What the prover's commitment j hides.
MaskSum(j) ==
  IF j = 0 THEN Times(theta[0], ms_[0])
  ELSE IF j = Last THEN Times(theta[Last - 1], ms[Last])
  ELSE Plus(Times(theta[j - 1], ms[j]), Times(theta[j], ms_[j]))

Typed ==
  /\ \E st \in Statements : m = st[1] /\ m_ = st[2]
  /\ rho \in R /\ beta \in R /\ beta_v \in R
  /\ ms \in [Index -> R] /\ ms_ \in [Index -> R]
  /\ theta \in [Index \ {Last} -> R] /\ s \in [Index \ {Last} -> R]
  /\ DOMAIN c = Index /\ DOMAIN d = Index
  /\ \A j \in Index : c[j].msg \in R /\ d[j].msg \in R
  /\ \A pos \in DOMAIN stream : stream[pos] \in R
  /\ pc \in Phases /\ result \in BOOLEAN /\ rejects \in 0 .. MaxRejects
  /\ i \in 0 .. MSGS
  /\ pc \in {"mask", "hash", "inverse", "quotient"} => i <= Last

CommitmentsHold ==
  /\ pc # "collapse" => \A j \in Index : c[j].msg = ms[j]
  /\ \A j \in Index : j < Masked => d[j].msg = MaskSum(j)

QuotientsSolve ==
  /\ pc \in {"quotient", "relation", "verify", "done"} => \A j \in Index : Unit(ms_[j])
  /\ \A j \in Index \ {Last} :
       j < Divided => s[j] = Times(Numerator(theta, s, j), Inv(ms_[j]))

ProofsAnswer ==
  /\ DOMAIN proof = {l \in Index : l < Proved}
  /\ \A l \in DOMAIN proof :
       /\ proof[l].at = <<HashKey(LinTranscript(beta, l, proof[l].first)), 0>>
       /\ proof[l].at \in DOMAIN stream /\ stream[proof[l].at] = proof[l].chal
       /\ proof[l].r = c[l].rnd /\ proof[l].r_ = d[l].rnd

VerdictSoFar ==
  result <=> \A l \in Index : l < Verified => RelationHolds(proof[l].chal, beta, l)

DInv == Typed /\ CommitmentsHold /\ QuotientsSolve /\ ProofsAnswer /\ VerdictSoFar

LEMMA Shape ==
  ASSUME Typed
  PROVE  /\ MSGS \in Nat \ {0, 1} /\ Last \in Nat \ {0} /\ Last = MSGS - 1
         /\ Index = 0 .. Last /\ Index \ {Last} = 0 .. Last - 1
         /\ m \in [Index -> R \X R] /\ m_ \in [Index -> R \X R]
<1>1. PICK st \in Statements : m = st[1] /\ m_ = st[2]
  BY DEF Typed
<1>2. /\ MSGS \in Nat \ {0, 1}
      /\ m \in [0 .. MSGS - 1 -> R \X R] /\ m_ \in [0 .. MSGS - 1 -> R \X R]
  BY <1>1, ShuffleAssumption DEF MSGS
<1> QED BY <1>2 DEF Index, Last

LEMMA WeighTyped ==
  ASSUME NEW v \in R \X R, NEW w \in R
  PROVE  Weigh(v, w) \in R
BY RingClosed DEF Weigh

\* What is found in the stream is a ring element.
LEMMA LearnTyped ==
  ASSUME Typed, NEW pos, NEW V \in SUBSET R, NEW v \in Values(pos, V)
  PROVE  v \in R /\ \A x \in DOMAIN Learn(pos, v) : Learn(pos, v)[x] \in R
<1>1. v \in R
  BY DEF Typed, Values
<1> QED BY <1>1 DEF Learn, Typed

\* Before the first relation there is no proof, and no verdict on one.
LEMMA NothingProved ==
  ASSUME Typed, ProofsAnswer, VerdictSoFar, UNCHANGED <<m, proof, result>>,
         Proved = 0, Verified = 0, Proved' = 0, Verified' = 0
  PROVE  ProofsAnswer' /\ VerdictSoFar'
<1>1. Index' = Index /\ \A l \in Index : ~(l < 0)
  BY Shape DEF Index, MSGS
<1> QED BY <1>1 DEF ProofsAnswer, VerdictSoFar

LEMMA InitDInv == ASSUME Init PROVE DInv
<1>1. PICK st \in Statements : m = st[1] /\ m_ = st[2]
  BY DEF Init
<1>2. MSGS \in Nat \ {0, 1} /\ Index = 0 .. MSGS - 1
  BY <1>1, ShuffleAssumption DEF MSGS, Index
<1>3. Typed
  BY <1>1, <1>2, RingClosed, ShuffleAssumption DEF Init, Typed, Commit, Phases
<1>4. Masked = 0 /\ Divided = 0 /\ Proved = 0 /\ Verified = 0 /\ pc = "collapse"
  BY DEF Init, Masked, Divided, Proved, Verified
<1>5. CommitmentsHold /\ QuotientsSolve
  BY <1>2, <1>4 DEF CommitmentsHold, QuotientsSolve
<1>6. DOMAIN proof = {} /\ result = TRUE
  BY DEF Init
<1>7. ProofsAnswer /\ VerdictSoFar
  BY <1>2, <1>4, <1>6 DEF ProofsAnswer, VerdictSoFar
<1> QED BY <1>3, <1>5, <1>7 DEF DInv

LEMMA CollapseData == ASSUME DInv, Collapse PROVE DInv'
<1>1. PICK w \in Values(Position(prng), R) :
        /\ rho' = w
        /\ stream' = Learn(Position(prng), w)
        /\ ms' = [j \in Index |-> Weigh(m[j], w)]
        /\ ms_' = [j \in Index |-> Weigh(m_[j], w)]
        /\ c' = [j \in Index |-> Commit(Weigh(m[j], w), <<"input", j>>)]
  BY DEF Collapse
<1>2. /\ pc = "collapse" /\ pc' = "mask" /\ i' = 0
      /\ UNCHANGED <<m, m_, d, theta, s, beta, beta_v, proof, rejects, result>>
  BY DEF Collapse, inputs
<1>3. MSGS' = MSGS /\ Last' = Last /\ Index' = Index
  BY <1>2 DEF MSGS, Last, Index
<1>4. w \in R /\ \A x \in DOMAIN stream' : stream'[x] \in R
  BY <1>1, LearnTyped DEF DInv
<1>5. Typed
  BY DEF DInv
<1>6. ms' \in [Index -> R] /\ ms_' \in [Index -> R]
  BY <1>1, <1>4, <1>5, Shape, WeighTyped
<1>7. DOMAIN c' = Index /\ \A j \in Index : c'[j].msg = ms'[j]
  BY <1>1 DEF Commit
<1>8. Typed'
  <2>1. \A j \in Index : c'[j].msg \in R /\ d'[j].msg \in R
    BY <1>2, <1>5, <1>6, <1>7 DEF Typed
  <2>2. i' \in 0 .. MSGS /\ i' <= Last
    BY <1>2, <1>5, Shape
  <2>3. pc' \in Phases
    BY <1>2 DEF Phases
  <2> QED BY <1>1, <1>2, <1>3, <1>4, <1>5, <1>6, <1>7, <2>1, <2>2, <2>3 DEF Typed
<1>9. /\ Masked' = 0 /\ Divided' = 0 /\ Proved = 0 /\ Verified = 0
      /\ Proved' = 0 /\ Verified' = 0
  BY <1>2 DEF Masked, Divided, Proved, Verified
<1>10. CommitmentsHold' /\ QuotientsSolve'
  <2>1. \A j \in Index : ~(j < 0)
    BY <1>5, Shape
  <2> QED BY <1>2, <1>3, <1>7, <1>9, <2>1 DEF CommitmentsHold, QuotientsSolve
<1>11. ProofsAnswer' /\ VerdictSoFar'
  BY <1>2, <1>5, <1>9, NothingProved DEF DInv
<1> QED BY <1>8, <1>10, <1>11 DEF DInv

LEMMA SampleMaskData == ASSUME DInv, SampleMask PROVE DInv'
<1> DEFINE next == Advance(prng, 1)
<1>1. PICK v \in Values(Position(prng), R) :
        /\ theta' = [theta EXCEPT ![i] = v]
        /\ stream' = Learn(Position(prng), v)
        /\ d' = [d EXCEPT ![i] =
                   Commit(IF i = 0 THEN Times(v, ms_[i])
                          ELSE Plus(Times(theta[i - 1], ms[i]), Times(v, ms_[i])),
                          Position(next))]
  BY DEF SampleMask
<1>2. /\ pc = "mask" /\ pc' = "mask" /\ i' = i + 1 /\ i < Last
      /\ UNCHANGED <<m, m_, rho, ms, ms_, c, s, beta, beta_v, proof, rejects, result>>
  BY DEF SampleMask, inputs, collapsed
<1> HIDE DEF next
<1>3. MSGS' = MSGS /\ Last' = Last /\ Index' = Index
  BY <1>2 DEF MSGS, Last, Index
<1>4. v \in R /\ \A x \in DOMAIN stream' : stream'[x] \in R
  BY <1>1, LearnTyped DEF DInv
<1>5. Typed /\ Index = 0 .. Last /\ Last \in Nat \ {0} /\ MSGS = Last + 1 /\ i \in 0 .. Last - 1
      /\ Index \ {Last} = 0 .. Last - 1
  BY <1>2, Shape DEF DInv, Typed
<1>k. PICK k \in 0 .. Last - 1 : k = i
  BY <1>5
<1>6. /\ theta' \in [Index \ {Last} -> R] /\ theta'[k] = v
      /\ \A j \in Index \ {Last} : j # k => theta'[j] = theta[j]
  BY <1>1, <1>4, <1>5, <1>k DEF Typed
<1>7. /\ DOMAIN d' = Index
      /\ \A j \in Index : j # k => d'[j] = d[j]
      /\ d'[k].msg = MaskSum(k)'
  <2>1. DOMAIN d' = Index /\ \A j \in Index : j # k => d'[j] = d[j]
    BY <1>1, <1>5, <1>k DEF Typed
  <2>2. d'[k].msg = IF k = 0 THEN Times(v, ms_[k])
                    ELSE Plus(Times(theta[k - 1], ms[k]), Times(v, ms_[k]))
    BY <1>1, <1>5, <1>k DEF Typed, Commit
  <2>3. MaskSum(k)' = IF k = 0 THEN Times(theta'[0], ms_'[0])
                      ELSE Plus(Times(theta'[k - 1], ms'[k]), Times(theta'[k], ms_'[k]))
    BY <1>3, <1>5, <1>k DEF MaskSum
  <2>4. k # 0 => k - 1 \in Index \ {Last} /\ k - 1 # k
    BY <1>5
  <2> QED BY <1>2, <1>6, <2>1, <2>2, <2>3, <2>4
<1>8. \A j \in Index : j < k => MaskSum(j)' = MaskSum(j)
  <2> SUFFICES ASSUME NEW j \in Index, j < k PROVE MaskSum(j)' = MaskSum(j)
    OBVIOUS
  <2>1. j # Last /\ theta'[j] = theta[j] /\ (j # 0 => theta'[j - 1] = theta[j - 1])
    BY <1>5, <1>6
  <2>2. j = 0 => theta'[0] = theta[0]
    BY <2>1
  <2> QED BY <1>2, <1>3, <2>1, <2>2 DEF MaskSum
<1>9. \A j \in Index : d'[j].msg \in R
  <2>1. MaskSum(k)' \in R
    <3>1. k \in Index \ {Last} /\ (k # 0 => k - 1 \in Index \ {Last})
      BY <1>5
    <3>2. ms' \in [Index -> R] /\ ms_' \in [Index -> R]
      BY <1>2, <1>5 DEF Typed
    <3> QED BY <1>3, <1>6, <3>1, <3>2, RingClosed DEF MaskSum
  <2> QED BY <1>5, <1>7, <2>1 DEF Typed
<1>10. Typed'
  <2>1. i' \in 0 .. MSGS /\ i' <= Last
    BY <1>2, <1>5
  <2> QED BY <1>2, <1>3, <1>4, <1>5, <1>6, <1>7, <1>9, <2>1 DEF Typed
<1>11. /\ Masked = i /\ Masked' = i + 1 /\ Divided' = 0 /\ Proved = 0 /\ Verified = 0
       /\ Proved' = 0 /\ Verified' = 0
  BY <1>2 DEF Masked, Divided, Proved, Verified
<1>12. CommitmentsHold'
  <2>1. \A j \in Index : j < i + 1 => j = k \/ j < k
    BY <1>5, <1>k
  <2>2. \A j \in Index : j < i + 1 => d'[j].msg = MaskSum(j)'
    BY <1>7, <1>8, <1>11, <1>k, <2>1 DEF DInv, CommitmentsHold
  <2>3. \A j \in Index : c'[j].msg = ms'[j]
    BY <1>2 DEF DInv, CommitmentsHold
  <2> QED BY <1>3, <1>11, <2>2, <2>3 DEF CommitmentsHold
<1>13. QuotientsSolve'
  <2>1. \A j \in Index : ~(j < 0)
    BY <1>5
  <2> QED BY <1>2, <1>3, <1>11, <2>1 DEF QuotientsSolve
<1>14. ProofsAnswer' /\ VerdictSoFar'
  BY <1>2, <1>5, <1>11, NothingProved DEF DInv
<1> QED BY <1>10, <1>12, <1>13, <1>14 DEF DInv

LEMMA CommitLastData == ASSUME DInv, CommitLast PROVE DInv'
<1>1. /\ d' = [d EXCEPT ![Last] = Commit(Times(theta[Last - 1], ms[Last]), Position(prng))]
      /\ pc = "mask" /\ pc' = "hash" /\ i = Last
      /\ UNCHANGED <<m, m_, rho, ms, ms_, c, s, beta, beta_v, proof, rejects, result,
                     theta, stream, i>>
  BY DEF CommitLast, inputs, collapsed
<1>2. MSGS' = MSGS /\ Last' = Last /\ Index' = Index
  BY <1>1 DEF MSGS, Last, Index
<1>3. Typed /\ Index = 0 .. Last /\ Last \in Nat \ {0} /\ MSGS = Last + 1
      /\ Index \ {Last} = 0 .. Last - 1
  BY Shape DEF DInv
<1>4. \A j \in Index : MaskSum(j)' = MaskSum(j)
  BY <1>1, <1>2 DEF MaskSum
<1>5. /\ DOMAIN d' = Index /\ \A j \in Index : j # Last => d'[j] = d[j]
      /\ d'[Last].msg = Times(theta[Last - 1], ms[Last])
  BY <1>1, <1>3 DEF Typed, Commit
<1>6. d'[Last].msg = MaskSum(Last) /\ d'[Last].msg \in R
  <2>1. Last - 1 \in Index \ {Last} /\ Last \in Index
    BY <1>3
  <2> QED BY <1>3, <1>5, <2>1, RingClosed DEF MaskSum, Typed
<1>7. Typed'
  <2>1. \A j \in Index : d'[j].msg \in R
    BY <1>3, <1>5, <1>6 DEF Typed
  <2> QED BY <1>1, <1>2, <1>3, <1>5, <2>1 DEF Typed, Phases
<1>8. /\ Masked = Last /\ Masked' = MSGS /\ Divided' = 0 /\ Proved = 0 /\ Verified = 0
      /\ Proved' = 0 /\ Verified' = 0
  BY <1>1, <1>2 DEF Masked, Divided, Proved, Verified
<1>9. CommitmentsHold'
  <2>1. \A j \in Index : j = Last \/ j < Last
    BY <1>3
  <2>2. \A j \in Index : d'[j].msg = MaskSum(j)'
    BY <1>4, <1>5, <1>6, <1>8, <2>1 DEF DInv, CommitmentsHold
  <2>3. \A j \in Index : c'[j].msg = ms'[j]
    BY <1>1 DEF DInv, CommitmentsHold
  <2> QED BY <1>2, <2>2, <2>3 DEF CommitmentsHold
<1>10. QuotientsSolve'
  <2>1. \A j \in Index : ~(j < 0)
    BY <1>3
  <2> QED BY <1>1, <1>2, <1>8, <2>1 DEF QuotientsSolve
<1>11. ProofsAnswer' /\ VerdictSoFar'
  BY <1>1, <1>3, <1>8, NothingProved DEF DInv
<1> QED BY <1>7, <1>9, <1>10, <1>11 DEF DInv

\* Steps after the hash leave messages, masks and commitments alone.
LEMMA ArraysKept ==
  ASSUME DInv, UNCHANGED <<m, m_, rho, ms, ms_, c, d, theta, s>>,
         pc \notin {"collapse", "mask"}, pc' \notin {"collapse", "mask"}
  PROVE  /\ MSGS' = MSGS /\ Last' = Last /\ Index' = Index
         /\ CommitmentsHold'
<1>1. MSGS' = MSGS /\ Last' = Last /\ Index' = Index
  BY DEF MSGS, Last, Index
<1>2. Masked' = MSGS /\ Masked = MSGS
  BY <1>1 DEF Masked
<1>3. \A j \in Index : MaskSum(j)' = MaskSum(j)
  BY <1>1 DEF MaskSum
<1> QED BY <1>1, <1>2, <1>3 DEF DInv, CommitmentsHold

\* The quotients still solve their recurrence while relations are proved.
LEMMA QuotientsKept ==
  ASSUME DInv, UNCHANGED <<m, m_, rho, ms, ms_, c, d, theta, s, beta>>,
         pc \in {"relation", "verify"}, pc' \in {"relation", "verify", "done"}
  PROVE  QuotientsSolve'
<1>1. MSGS' = MSGS /\ Last' = Last /\ Index' = Index
  BY ArraysKept
<1>2. Divided' = Last /\ Divided = Last
  BY <1>1 DEF Divided
<1>3. \A j \in Index : Numerator(theta, s, j)' = Numerator(theta, s, j)
  BY DEF Numerator
<1> QED BY <1>1, <1>2, <1>3 DEF DInv, QuotientsSolve

LEMMA HashStatementData == ASSUME DInv, HashStatement PROVE DInv'
<1> DEFINE pos == Position(Keyed(prng, ShuffleTranscript))
<1>1. PICK b \in Values(pos, R) : beta' = b /\ stream' = Learn(pos, b)
  BY DEF HashStatement
<1> HIDE DEF pos
<1>2. /\ pc = "hash" /\ pc' = "inverse"
      /\ UNCHANGED <<m, m_, rho, ms, ms_, c, d, theta, s, beta_v, proof, rejects, result, i>>
  BY DEF HashStatement, inputs, collapsed
<1>3. MSGS' = MSGS /\ Last' = Last /\ Index' = Index /\ CommitmentsHold'
  BY <1>2, ArraysKept
<1>4. b \in R /\ \A x \in DOMAIN stream' : stream'[x] \in R
  BY <1>1, LearnTyped DEF DInv
<1>5. Typed'
  BY <1>1, <1>2, <1>3, <1>4 DEF DInv, Typed, Phases
<1>6. Divided' = 0 /\ Proved = 0 /\ Verified = 0 /\ Proved' = 0 /\ Verified' = 0
  BY <1>2 DEF Divided, Proved, Verified
<1>7. QuotientsSolve'
  <2>1. \A j \in Index : ~(j < 0)
    BY Shape DEF DInv
  <2> QED BY <1>2, <1>3, <1>6, <2>1 DEF QuotientsSolve
<1>8. ProofsAnswer' /\ VerdictSoFar'
  BY <1>2, <1>6, NothingProved DEF DInv
<1> QED BY <1>3, <1>5, <1>7, <1>8 DEF DInv

LEMMA InvertData == ASSUME DInv, Invert PROVE DInv'
<1>1. /\ pc = "inverse" /\ pc' = IF \A j \in Index : Unit(ms_[j]) THEN "quotient" ELSE "abort"
      /\ i' = 0
      /\ UNCHANGED <<m, m_, rho, ms, ms_, c, d, theta, s, beta, beta_v, stream, proof,
                     rejects, result>>
  BY DEF Invert, inputs, collapsed
<1>2. MSGS' = MSGS /\ Last' = Last /\ Index' = Index /\ CommitmentsHold'
  BY <1>1, ArraysKept
<1>3. Typed'
  <2>1. 0 \in 0 .. MSGS /\ 0 <= Last
    BY Shape DEF DInv
  <2> QED BY <1>1, <1>2, <2>1 DEF DInv, Typed, Phases
<1>4. Divided' = 0 /\ Proved = 0 /\ Verified = 0 /\ Proved' = 0 /\ Verified' = 0
  BY <1>1 DEF Divided, Proved, Verified
<1>5. QuotientsSolve'
  <2>1. \A j \in Index : ~(j < 0)
    BY Shape DEF DInv
  <2>2. pc' = "quotient" => \A j \in Index : Unit(ms_[j])
    BY <1>1
  <2>3. pc' \in {"quotient", "abort"}
    BY <1>1
  <2> QED BY <1>1, <1>2, <1>4, <2>1, <2>2, <2>3 DEF QuotientsSolve
<1>6. ProofsAnswer' /\ VerdictSoFar'
  BY <1>1, <1>4, NothingProved DEF DInv
<1> QED BY <1>2, <1>3, <1>5, <1>6 DEF DInv

LEMMA ComputeQuotientData == ASSUME DInv, ComputeQuotient PROVE DInv'
<1>1. /\ pc = "quotient" /\ pc' = "quotient" /\ i < Last /\ i' = i + 1
      /\ s' = [s EXCEPT ![i] = Times(Numerator(theta, s, i), Inv(ms_[i]))]
      /\ UNCHANGED <<m, m_, rho, ms, ms_, c, d, theta, beta, beta_v, stream, proof,
                     rejects, result>>
  BY DEF ComputeQuotient, inputs, collapsed
<1>2. /\ Typed /\ Index = 0 .. Last /\ Last \in Nat \ {0} /\ MSGS = Last + 1
      /\ Index \ {Last} = 0 .. Last - 1
      /\ \A j \in Index : Unit(ms_[j])
  BY <1>1, Shape DEF DInv, QuotientsSolve
<1>3. MSGS' = MSGS /\ Last' = Last /\ Index' = Index
  BY <1>1 DEF MSGS, Last, Index
<1>4. PICK k \in 0 .. Last - 1 : k = i
  BY <1>1, <1>2 DEF Typed
<1>5. Times(Numerator(theta, s, k), Inv(ms_[k])) \in R
  <2>1. /\ k \in Index \ {Last} /\ k \in Index /\ (k # 0 => k - 1 \in Index \ {Last})
        /\ ms_[k] \in R /\ Inv(ms_[k]) \in R
    BY <1>2, UnitLaws DEF Typed
  <2>2. Numerator(theta, s, k) \in R
    BY <1>2, <2>1, RingClosed DEF Numerator, Typed
  <2> QED BY <2>1, <2>2, RingClosed
<1>6. /\ s' \in [Index \ {Last} -> R]
      /\ s'[k] = Times(Numerator(theta, s, k), Inv(ms_[k]))
      /\ \A j \in Index \ {Last} : j # k => s'[j] = s[j]
  BY <1>1, <1>2, <1>4, <1>5 DEF Typed
<1>7. Typed'
  <2>1. i' \in 0 .. MSGS /\ i' <= Last
    BY <1>1, <1>2, <1>4
  <2> QED BY <1>1, <1>2, <1>3, <1>6, <2>1 DEF Typed
<1>8. \A j \in Index \ {Last} : j <= k => Numerator(theta, s, j)' = Numerator(theta, s, j)
  <2> SUFFICES ASSUME NEW j \in Index \ {Last}, j <= k
               PROVE  Numerator(theta, s, j)' = Numerator(theta, s, j)
    OBVIOUS
  <2>1. j # 0 => s'[j - 1] = s[j - 1]
    BY <1>2, <1>6
  <2> QED BY <1>1, <2>1 DEF Numerator
<1>9. QuotientsSolve'
  <2>1. Divided = k /\ Divided' = k + 1
    BY <1>1, <1>4 DEF Divided
  <2>2. ASSUME NEW j \in Index \ {Last}, j < k + 1
        PROVE  s'[j] = Times(Numerator(theta, s, j)', Inv(ms_[j]))
    <3>1. j = k \/ (j < k /\ j # k)
      BY <1>2, <2>2
    <3>2. CASE j = k
      BY <1>6, <1>8, <3>2
    <3>3. CASE j < k /\ j # k
      <4>1. s[j] = Times(Numerator(theta, s, j), Inv(ms_[j]))
        BY <2>1, <3>3 DEF DInv, QuotientsSolve
      <4>2. s'[j] = s[j] /\ Numerator(theta, s, j)' = Numerator(theta, s, j)
        <5>1. j <= k
          BY <1>2, <3>3
        <5> QED BY <1>6, <1>8, <3>3, <5>1
      <4> QED BY <4>1, <4>2
    <3> QED BY <3>1, <3>2, <3>3
  <2> QED BY <1>1, <1>2, <1>3, <2>1, <2>2 DEF QuotientsSolve
<1>10. CommitmentsHold'
  <2>1. Masked' = MSGS /\ Masked = MSGS
    BY <1>1, <1>3 DEF Masked
  <2>2. \A j \in Index : MaskSum(j)' = MaskSum(j)
    BY <1>1, <1>3 DEF MaskSum
  <2> QED BY <1>1, <1>3, <2>1, <2>2 DEF DInv, CommitmentsHold
<1>11. Proved = 0 /\ Verified = 0 /\ Proved' = 0 /\ Verified' = 0
  BY <1>1 DEF Proved, Verified
<1>12. ProofsAnswer' /\ VerdictSoFar'
  BY <1>1, <1>2, <1>11, NothingProved DEF DInv
<1> QED BY <1>7, <1>9, <1>10, <1>12 DEF DInv

LEMMA StartRelationsData == ASSUME DInv, StartRelations PROVE DInv'
<1>1. /\ pc = "quotient" /\ pc' = "relation" /\ i = Last /\ i' = 0
      /\ UNCHANGED <<m, m_, rho, ms, ms_, c, d, theta, s, beta, beta_v, stream, proof,
                     rejects, result>>
  BY DEF StartRelations, inputs, collapsed
<1>2. MSGS' = MSGS /\ Last' = Last /\ Index' = Index /\ CommitmentsHold'
  BY <1>1, ArraysKept
<1>3. Typed'
  <2>1. 0 \in 0 .. MSGS
    BY Shape DEF DInv
  <2> QED BY <1>1, <1>2, <2>1 DEF DInv, Typed, Phases
<1>4. /\ Divided' = Last /\ Divided = Last
      /\ Proved = 0 /\ Verified = 0 /\ Proved' = 0 /\ Verified' = 0
  BY <1>1, <1>2 DEF Divided, Proved, Verified
<1>5. QuotientsSolve'
  <2>1. \A j \in Index : Numerator(theta, s, j)' = Numerator(theta, s, j)
    BY <1>1 DEF Numerator
  <2> QED BY <1>1, <1>2, <1>4, <2>1 DEF DInv, QuotientsSolve
<1>6. ProofsAnswer' /\ VerdictSoFar'
  BY <1>1, <1>4, NothingProved DEF DInv
<1> QED BY <1>2, <1>3, <1>5, <1>6 DEF DInv

LEMMA AttemptData ==
  ASSUME IInv, DInv, NEW accepted \in BOOLEAN, Attempt(accepted)
  PROVE  DInv'
<1> DEFINE first == <<Position(prng), Position(Advance(prng, 1))>>
           transcript == LinTranscript(beta, i, first)
           pos == Position(Keyed(prng, transcript))
<1>1. PICK b \in Values(pos, LinChallenges) :
        /\ stream' = Learn(pos, b)
        /\ proof' = IF ~accepted THEN proof
                    ELSE [x \in DOMAIN proof \cup {i} |->
                            IF x = i THEN [first |-> first, at |-> pos, chal |-> b,
                                           r |-> c[i].rnd, r_ |-> d[i].rnd]
                            ELSE proof[x]]
  BY DEF Attempt
<1>2. /\ pc = "relation" /\ pc' = "relation" /\ i < MSGS
      /\ (~accepted => rejects < MaxRejects)
      /\ i' = IF accepted THEN i + 1 ELSE i
      /\ rejects' = IF accepted THEN rejects ELSE rejects + 1
      /\ UNCHANGED <<m, m_, rho, ms, ms_, c, d, theta, s, beta, beta_v, result>>
  BY DEF Attempt, inputs, collapsed
<1>3. pos = <<HashKey(transcript), 0>>
  <2> HIDE DEF transcript
  <2> QED BY GoodPrng, ChallengeDraw
<1> HIDE DEF first, pos
<1>4. MSGS' = MSGS /\ Last' = Last /\ Index' = Index /\ CommitmentsHold'
  BY <1>2, ArraysKept
<1>5. QuotientsSolve'
  BY <1>2, QuotientsKept
<1>6. /\ \A x \in DOMAIN stream' : stream'[x] \in R
      /\ pos \in DOMAIN stream' /\ stream'[pos] = b
      /\ \A x \in DOMAIN stream : x \in DOMAIN stream' /\ stream'[x] = stream[x]
  BY <1>1, LearnTyped, LearnKeeps, ShuffleAssumption DEF DInv
<1>7. Typed /\ Index = 0 .. Last /\ Last \in Nat \ {0} /\ MSGS = Last + 1 /\ MaxRejects \in Nat
  BY Shape, ShuffleAssumption DEF DInv
<1>8. Typed'
  <2>1. i' \in 0 .. MSGS /\ rejects' \in 0 .. MaxRejects
    BY <1>2, <1>7 DEF Typed
  <2> QED BY <1>2, <1>4, <1>6, <1>7, <2>1 DEF Typed
<1>9. ProofsAnswer'
  <2>1. PICK k \in Index : k = i
    BY <1>2, <1>7 DEF Typed
  <2>2. Proved = k /\ Proved' = (IF accepted THEN k + 1 ELSE k)
    BY <1>2, <2>1 DEF Proved
  <2>3. DOMAIN proof = {l \in Index : l < k}
    BY <2>2 DEF DInv, ProofsAnswer
  <2>4. \A l \in DOMAIN proof : proof'[l] = proof[l]
    BY <1>1, <2>1, <2>3, <1>7
  <2>5. ASSUME NEW l \in DOMAIN proof
        PROVE  /\ proof'[l].at = <<HashKey(LinTranscript(beta, l, proof[l].first)'), 0>>
               /\ proof'[l].at \in DOMAIN stream' /\ stream'[proof'[l].at] = proof'[l].chal
               /\ proof'[l].r = c'[l].rnd /\ proof'[l].r_ = d'[l].rnd
    <3>1. LinTranscript(beta, l, proof[l].first)' = LinTranscript(beta, l, proof[l].first)
      <4>1. l \in Index /\ proof'[l] = proof[l]
        BY <2>3, <2>4
      <4> QED BY <1>2, <1>4, <4>1 DEF LinTranscript, AlphaZero, AlphaOne
    <3> QED BY <1>2, <1>6, <2>4, <3>1 DEF DInv, ProofsAnswer
  <2>6. CASE accepted
    <3>1. /\ DOMAIN proof' = {l \in Index : l < k + 1}
          /\ proof'[k] = [first |-> first, at |-> pos, chal |-> b,
                          r |-> c[k].rnd, r_ |-> d[k].rnd]
      <4>1. {l \in Index : l < k + 1} = {l \in Index : l < k} \cup {k}
        BY <1>7
      <4> QED BY <1>1, <2>1, <2>3, <2>6, <4>1
    <3>2. proof'[k].at = <<HashKey(LinTranscript(beta, k, first)), 0>>
      BY <1>3, <2>1, <3>1
    <3>3. LinTranscript(beta, k, proof[k].first)' = LinTranscript(beta, k, first)
      BY <1>2, <1>4, <3>1 DEF LinTranscript, AlphaZero, AlphaOne
    <3>4. /\ proof'[k].at \in DOMAIN stream' /\ stream'[proof'[k].at] = proof'[k].chal
          /\ proof'[k].r = c'[k].rnd /\ proof'[k].r_ = d'[k].rnd
      BY <1>2, <1>6, <3>1
    <3>5. \A l \in DOMAIN proof' : l = k \/ l \in DOMAIN proof
      BY <1>7, <2>3, <3>1
    <3> QED BY <1>4, <2>2, <2>5, <2>6, <3>1, <3>2, <3>3, <3>4, <3>5 DEF ProofsAnswer
  <2>7. CASE ~accepted
    <3>1. DOMAIN proof' = {l \in Index : l < k}
      BY <1>1, <2>3, <2>7
    <3> QED BY <1>4, <2>2, <2>3, <2>5, <2>7, <3>1 DEF ProofsAnswer
  <2> QED BY <2>6, <2>7
<1>10. VerdictSoFar'
  <2>1. Verified = 0 /\ Verified' = 0 /\ \A l \in Index : ~(l < 0)
    BY <1>2, <1>7 DEF Verified
  <2> QED BY <1>2, <1>4, <2>1 DEF DInv, VerdictSoFar
<1> QED BY <1>4, <1>5, <1>8, <1>9, <1>10 DEF DInv

LEMMA RehashData == ASSUME IInv, DInv, Rehash PROVE DInv'
<1> DEFINE pos == Position(Keyed(prng, ShuffleTranscript))
<1>1. PICK b \in Values(pos, R) : beta_v' = b /\ stream' = Learn(pos, b)
  BY DEF Rehash
<1> HIDE DEF pos
<1>2. /\ pc = "relation" /\ pc' = "verify" /\ i = MSGS /\ i' = 0
      /\ UNCHANGED <<m, m_, rho, ms, ms_, c, d, theta, s, beta, proof, rejects, result>>
  BY DEF Rehash, inputs, collapsed
<1>3. MSGS' = MSGS /\ Last' = Last /\ Index' = Index /\ CommitmentsHold'
  BY <1>2, ArraysKept
<1>4. /\ b \in R
      /\ \A x \in DOMAIN stream' : stream'[x] \in R
      /\ \A x \in DOMAIN stream : x \in DOMAIN stream' /\ stream'[x] = stream[x]
  BY <1>1, LearnTyped, LearnKeeps DEF DInv
<1>5. QuotientsSolve'
  BY <1>2, QuotientsKept
<1>6. Typed'
  <2>1. 0 \in 0 .. MSGS
    BY Shape DEF DInv
  <2> QED BY <1>1, <1>2, <1>3, <1>4, <2>1 DEF DInv, Typed, Phases
<1>7. Proved = MSGS /\ Proved' = MSGS /\ Verified = 0 /\ Verified' = 0
  BY <1>2, <1>3 DEF Proved, Verified
<1>8. ProofsAnswer'
  <2>1. \A l \in Index : LinTranscript(beta, l, proof[l].first)' = LinTranscript(beta, l, proof[l].first)
    BY <1>2, <1>3 DEF LinTranscript, AlphaZero, AlphaOne
  <2> QED BY <1>2, <1>3, <1>4, <1>7, <2>1 DEF DInv, ProofsAnswer
<1>9. VerdictSoFar'
  <2>1. \A l \in Index : ~(l < 0)
    BY Shape DEF DInv
  <2> QED BY <1>2, <1>3, <1>7, <2>1 DEF DInv, VerdictSoFar
<1> QED BY <1>3, <1>5, <1>6, <1>8, <1>9 DEF DInv

\* The verifier recomputes the position of the prover's challenge, so what it
\* finds there is that challenge: its verdict is the relation's.
LEMMA VerifyRelationData == ASSUME IInv, DInv, VerifyRelation PROVE DInv'
<1> DEFINE transcript == LinTranscript(beta_v, i, proof[i].first)
           pos == Position(Keyed(prng, transcript))
<1>1. PICK b \in Values(pos, LinChallenges) :
        /\ stream' = Learn(pos, b)
        /\ result' = (result /\ pos = proof[i].at
                             /\ proof[i].r = c[i].rnd /\ proof[i].r_ = d[i].rnd
                             /\ RelationHolds(b, beta_v, i))
  BY DEF VerifyRelation
<1>2. /\ pc = "verify" /\ pc' = "verify" /\ i < MSGS /\ i' = i + 1
      /\ UNCHANGED <<m, m_, rho, ms, ms_, c, d, theta, s, beta, beta_v, proof, rejects>>
  BY DEF VerifyRelation, inputs, collapsed
<1>3. pos = <<HashKey(transcript), 0>>
  <2> HIDE DEF transcript
  <2> QED BY GoodPrng, ChallengeDraw
<1>4. beta_v = beta
  BY <1>2 DEF IInv, ChallengesAgree
<1>5. MSGS' = MSGS /\ Last' = Last /\ Index' = Index /\ CommitmentsHold'
  BY <1>2, ArraysKept
<1>6. Typed /\ Index = 0 .. Last /\ Last \in Nat \ {0} /\ MSGS = Last + 1
  BY Shape DEF DInv
<1>7. PICK k \in Index : k = i
  BY <1>2, <1>6 DEF Typed
<1>8. Proved = MSGS /\ Proved' = MSGS /\ Verified = k /\ Verified' = k + 1
  BY <1>2, <1>5, <1>7 DEF Proved, Verified
<1>9. k \in DOMAIN proof
  BY <1>6, <1>8 DEF DInv, ProofsAnswer
<1>10. /\ pos = proof[k].at /\ pos \in DOMAIN stream /\ stream[pos] = proof[k].chal
       /\ proof[k].r = c[k].rnd /\ proof[k].r_ = d[k].rnd
  BY <1>3, <1>4, <1>7, <1>9 DEF DInv, ProofsAnswer
<1> HIDE DEF pos
<1>11. b = proof[k].chal
  BY <1>10 DEF Values
<1>12. result' = (result /\ RelationHolds(proof[k].chal, beta, k))
  <2>1. (pos = proof[i].at) = TRUE /\ (proof[i].r = c[i].rnd) = TRUE /\ (proof[i].r_ = d[i].rnd) = TRUE
    BY <1>7, <1>10
  <2>2. RelationHolds(b, beta_v, i) = RelationHolds(proof[k].chal, beta, k)
    BY <1>4, <1>7, <1>11
  <2> QED BY <1>1, <2>1, <2>2
<1>13. /\ \A x \in DOMAIN stream' : stream'[x] \in R
       /\ \A x \in DOMAIN stream : x \in DOMAIN stream' /\ stream'[x] = stream[x]
  BY <1>1, LearnTyped, LearnKeeps, ShuffleAssumption DEF DInv
<1>14. Typed'
  <2>1. i' \in 0 .. MSGS
    BY <1>2, <1>6, <1>7
  <2>2. result' \in BOOLEAN
    BY <1>12, <1>6 DEF Typed, RelationHolds
  <2> QED BY <1>2, <1>5, <1>6, <1>13, <2>1, <2>2 DEF Typed
<1>15. QuotientsSolve'
  BY <1>2, QuotientsKept
<1>16. ProofsAnswer'
  <2>1. \A l \in Index : LinTranscript(beta, l, proof[l].first)' = LinTranscript(beta, l, proof[l].first)
    BY <1>2, <1>5 DEF LinTranscript, AlphaZero, AlphaOne
  <2> QED BY <1>2, <1>5, <1>8, <1>13, <2>1 DEF DInv, ProofsAnswer
<1>17. VerdictSoFar'
  <2>1. \A l \in Index : RelationHolds(proof[l].chal, beta, l)' = RelationHolds(proof[l].chal, beta, l)
    BY <1>2, <1>5 DEF RelationHolds, Residue, AlphaZero, AlphaOne
  <2>2. \A l \in Index : l < k + 1 <=> l < k \/ l = k
    BY <1>6
  <2>3. result <=> \A l \in Index : l < k => RelationHolds(proof[l].chal, beta, l)
    BY <1>8 DEF DInv, VerdictSoFar
  <2>4. result' <=> \A l \in Index : l < k + 1 => RelationHolds(proof[l].chal, beta, l)
    BY <1>12, <2>2, <2>3
  <2> QED BY <1>5, <1>8, <2>1, <2>4 DEF VerdictSoFar
<1> QED BY <1>5, <1>14, <1>15, <1>16, <1>17 DEF DInv

\* The verifier's loop is over, or nothing happens.
LEMMA RestData ==
  ASSUME DInv,
         UNCHANGED <<m, m_, rho, ms, ms_, c, d, theta, s, beta, beta_v, stream, proof, i,
                     rejects, result>>,
         pc' = pc \/ (pc = "verify" /\ i = MSGS /\ pc' = "done")
  PROVE  DInv'
<1>1. MSGS' = MSGS /\ Last' = Last /\ Index' = Index
  BY DEF MSGS, Last, Index
<1>2. Masked' = Masked /\ Divided' = Divided /\ Proved' = Proved /\ Verified' = Verified
  BY <1>1 DEF Masked, Divided, Proved, Verified
<1>3. /\ \A j \in Index : MaskSum(j)' = MaskSum(j)
      /\ \A j \in Index : Numerator(theta, s, j)' = Numerator(theta, s, j)
      /\ \A l \in Index : LinTranscript(beta, l, proof[l].first)' = LinTranscript(beta, l, proof[l].first)
      /\ \A l \in Index : RelationHolds(proof[l].chal, beta, l)' = RelationHolds(proof[l].chal, beta, l)
  BY <1>1 DEF MaskSum, Numerator, LinTranscript, RelationHolds, Residue, AlphaZero, AlphaOne
<1>4. Typed'
  BY <1>1 DEF DInv, Typed, Phases
<1>5. CommitmentsHold'
  BY <1>1, <1>2, <1>3 DEF DInv, CommitmentsHold
<1>6. QuotientsSolve'
  BY <1>1, <1>2, <1>3 DEF DInv, QuotientsSolve
<1>7. ProofsAnswer'
  BY <1>1, <1>2, <1>3 DEF DInv, ProofsAnswer
<1>8. VerdictSoFar'
  BY <1>1, <1>2, <1>3 DEF DInv, VerdictSoFar
<1> QED BY <1>4, <1>5, <1>6, <1>7, <1>8 DEF DInv

LEMMA NextDInv == IInv /\ DInv /\ [Next]_vars => DInv'
<1> SUFFICES ASSUME IInv, DInv, [Next]_vars PROVE DInv'
  OBVIOUS
<1>1. CASE Collapse
  BY <1>1, CollapseData
<1>2. CASE SampleMask
  BY <1>2, SampleMaskData
<1>3. CASE CommitLast
  BY <1>3, CommitLastData
<1>4. CASE HashStatement
  BY <1>4, HashStatementData
<1>5. CASE Invert
  BY <1>5, InvertData
<1>6. CASE ComputeQuotient
  BY <1>6, ComputeQuotientData
<1>7. CASE StartRelations
  BY <1>7, StartRelationsData
<1>8. CASE \E accepted \in BOOLEAN : Attempt(accepted)
  BY <1>8, AttemptData
<1>9. CASE Rehash
  BY <1>9, RehashData
<1>10. CASE VerifyRelation
  BY <1>10, VerifyRelationData
<1>11. CASE Finish
  BY <1>11, RestData DEF Finish, inputs, collapsed
<1>12. CASE UNCHANGED vars
  BY <1>12, RestData DEF vars
<1> QED
  BY <1>1, <1>2, <1>3, <1>4, <1>5, <1>6, <1>7, <1>8, <1>9, <1>10, <1>11, <1>12
     DEF Next, Stopped

\* What the prover's and the verifier's arrays hold, throughout.
THEOREM DataCorrect == Spec => []DInv
<1>1. Init => DInv
  BY InitDInv
<1>2. QED
  BY <1>1, NextDInv, InvariantCorrect, PTL DEF Spec

\* Every variable of the run stays in its range.
THEOREM TypeCorrect == Spec => []TypeOK
<1>1. IInv /\ DInv => TypeOK
  BY DEF IInv, KeyDiscipline, DInv, Typed, ProofsAnswer, TypeOK
<1>2. QED
  BY <1>1, InvariantCorrect, DataCorrect, PTL
-----------------------------------------------------------------------------
\* Product is a running product: what its recursion computes, one factor a step.
LEMMA ProductUnfolds ==
  ASSUME Typed, NEW f \in [Index -> R]
  PROVE  \E g \in [Index -> R] :
           /\ g[0] = f[0]
           /\ \A k \in 1 .. Last : g[k] = Times(g[k - 1], f[k])
           /\ Product(f) = g[Last]
<1> DEFINE Eq(g, n) == /\ g \in [0 .. n -> R] /\ g[0] = f[0]
                       /\ \A k \in 1 .. n : g[k] = Times(g[k - 1], f[k])
           Has == {n \in Nat : \E g : Eq(g, n)}
<1>1. Index = 0 .. Last /\ Last \in Nat
  BY Shape
<1>2. 0 \in Has
  <2>1. Eq([k \in 0 .. 0 |-> f[0]], 0)
    BY <1>1
  <2> QED BY <2>1
<1>3. ASSUME NEW n \in 0 .. Last - 1, n \in Has PROVE n + 1 \in Has
  <2>1. PICK g : Eq(g, n)
    BY <1>3
  <2> DEFINE h == [k \in 0 .. n + 1 |-> IF k <= n THEN g[k] ELSE Times(g[n], f[n + 1])]
  <2>2. n + 1 \in Index /\ n \in 0 .. n /\ n \in Nat
    BY <1>1
  <2>3. Times(g[n], f[n + 1]) \in R
    BY <2>1, <2>2, RingClosed
  <2>4. h \in [0 .. n + 1 -> R]
    BY <2>1, <2>2, <2>3
  <2>5. h[0] = f[0]
    BY <2>1, <2>2
  <2>6. ASSUME NEW k \in 1 .. n + 1 PROVE h[k] = Times(h[k - 1], f[k])
    <3>1. CASE k <= n
      BY <2>1, <2>2, <3>1
    <3>2. CASE k = n + 1
      BY <2>2, <3>2
    <3> QED BY <2>2, <3>1, <3>2
  <2> HIDE DEF h
  <2>7. Eq(h, n + 1)
    BY <2>4, <2>5, <2>6
  <2> QED BY <2>2, <2>7
<1> HIDE DEF Has
<1>4. Last \in Has
  <2>1. 0 .. Last \subseteq Has
    BY <1>1, <1>2, <1>3, Induction
  <2> QED BY <1>1, <2>1
<1>5. PICK g : Eq(g, Last)
  BY <1>4 DEF Has
<1> DEFINE Def(h) == [k \in Index |-> IF k = 0 THEN f[0] ELSE Times(h[k - 1], f[k])]
<1>6. g = Def(g)
  BY <1>1, <1>5
<1>7. Product(f) = (CHOOSE h : h = Def(h))[Last]
  BY DEF Product
<1> DEFINE p == CHOOSE h : h = Def(h)
<1>8. p = Def(p)
  BY <1>6
<1> HIDE DEF p
<1>9. p[0] = f[0] /\ \A k \in 1 .. Last : p[k] = Times(p[k - 1], f[k])
  BY <1>1, <1>8
<1>10. p \in [Index -> R]
  <2> DEFINE In == {k \in 0 .. Last : p[k] \in R}
  <2>1. 0 \in In
    BY <1>1, <1>9
  <2>2. ASSUME NEW k \in 0 .. Last - 1, k \in In PROVE k + 1 \in In
    <3>1. k + 1 \in 1 .. Last /\ k + 1 \in Index /\ k + 1 - 1 = k
      BY <1>1
    <3>2. p[k + 1] = Times(p[k], f[k + 1])
      BY <1>9, <3>1
    <3> QED BY <1>1, <2>2, <3>1, <3>2, RingClosed
  <2> HIDE DEF In
  <2>3. 0 .. Last \subseteq In
    BY <1>1, <2>1, <2>2, Induction
  <2>4. \A k \in Index : p[k] \in R
    BY <1>1, <2>3 DEF In
  <2>5. DOMAIN p = Index
    BY <1>8
  <2>6. p = [k \in Index |-> p[k]]
    BY <1>8
  <2> QED BY <2>4, <2>6
<1>11. Product(f) = p[Last]
  BY <1>7 DEF p
<1> QED BY <1>9, <1>10, <1>11

\* The sign of the telescoped relations after l steps.
Signed(l, x) == IF l % 2 = 0 THEN Neg(x) ELSE x

LEMMA SignedStep ==
  ASSUME NEW l \in Nat, NEW x \in R, NEW y \in R
  PROVE  Neg(Times(Signed(l, x), y)) = Signed(l + 1, Times(x, y))
<1>1. CASE l % 2 = 0
  <2>1. (l + 1) % 2 # 0
    BY <1>1
  <2>2. Times(Neg(x), y) = Neg(Times(x, y)) /\ Times(x, y) \in R
    BY TimesNeg, RingClosed
  <2> QED BY <1>1, <2>1, <2>2, NegNeg DEF Signed
<1>2. CASE l % 2 # 0
  <2>1. (l + 1) % 2 = 0
    BY <1>2
  <2> QED BY <1>2, <2>1 DEF Signed
<1> QED BY <1>1, <1>2

\* When the quotients are computed, each solves its relation.
LEMMA QuotientTimes ==
  ASSUME Typed, QuotientsSolve, pc \in {"relation", "verify", "done"},
         NEW j \in Index \ {Last}
  PROVE  /\ Times(s[j], ms_[j]) = Numerator(theta, s, j) /\ Unit(ms_[j])
         /\ Numerator(theta, s, j) \in R
<1>1. /\ j \in Index /\ Unit(ms_[j]) /\ ms_[j] \in R /\ (j # 0 => j - 1 \in Index \ {Last})
      /\ j < Last
  BY Shape, SMTT(30) DEF Typed, QuotientsSolve
<1>2. Numerator(theta, s, j) \in R
  BY <1>1, RingClosed DEF Numerator, Typed
<1>3. s[j] = Times(Numerator(theta, s, j), Inv(ms_[j]))
  BY <1>1 DEF QuotientsSolve, Divided
<1> QED BY <1>1, <1>2, <1>3, UnitDivides

\* The masks blind the quotients additively: e[j] = s[j] - theta[j].
LEMMA Blinded ==
  ASSUME Typed, QuotientsSolve, pc \in {"relation", "verify", "done"},
         NEW j \in Index \ {Last}
  PROVE  Times(Minus(s[j], theta[j]), ms_[j]) =
           IF j = 0 THEN Neg(Times(beta, ms[0]))
           ELSE Neg(Times(Minus(s[j - 1], theta[j - 1]), ms[j]))
<1> DEFINE own == Times(theta[j], ms_[j])
<1>1. /\ j \in Index /\ s[j] \in R /\ theta[j] \in R /\ ms_[j] \in R /\ ms[j] \in R
      /\ ms[0] \in R /\ beta \in R
      /\ (j # 0 => s[j - 1] \in R /\ theta[j - 1] \in R)
  BY Shape DEF Typed
<1>2. Times(Minus(s[j], theta[j]), ms_[j]) = Minus(Times(s[j], ms_[j]), own)
  BY <1>1, TimesRight
<1>3. Times(s[j], ms_[j]) = Numerator(theta, s, j)
  BY QuotientTimes
<1>4. own \in R
  BY <1>1, RingClosed
<1>5. CASE j = 0
  <2> DEFINE b == Times(beta, ms[0])
  <2>1. b \in R
    BY <1>1, RingClosed
  <2>2. Numerator(theta, s, j) = Minus(own, b)
    BY <1>5 DEF Numerator
  <2> HIDE DEF own, b
  <2>3. Minus(own, b) = Plus(own, Neg(b)) /\ Neg(b) \in R
    BY <1>4, <2>1, MinusIsPlusNeg, NegCancels
  <2>4. Plus(own, Neg(b)) = Plus(Neg(b), own)
    BY <1>4, <2>3, RingLaws
  <2>5. Minus(Plus(Neg(b), own), own) = Neg(b)
    BY <1>4, <2>3, MinusPlus
  <2> QED BY <1>2, <1>3, <1>5, <2>2, <2>3, <2>4, <2>5 DEF own, b
<1>6. CASE j # 0
  <2> DEFINE t == Times(theta[j - 1], ms[j])
             q == Times(s[j - 1], ms[j])
  <2>1. t \in R /\ q \in R
    BY <1>1, <1>6, RingClosed
  <2>2. Numerator(theta, s, j) = Minus(Plus(t, own), q)
    BY <1>6 DEF Numerator
  <2>3. Times(Minus(s[j - 1], theta[j - 1]), ms[j]) = Minus(q, t)
    BY <1>1, <1>6, TimesRight
  <2> HIDE DEF own, t, q
  <2>4. Minus(Minus(Plus(t, own), q), own) = Neg(Minus(q, t))
    <3> DEFINE z == Minus(q, t)
    <3>1. z \in R /\ q = Plus(t, z)
      BY <2>1, RingClosed, PlusMinus
    <3>2. Neg(z) \in R /\ Plus(z, Neg(z)) = Zero
      BY <3>1, NegCancels
    <3> HIDE DEF z
    <3>3. Plus(t, own) = Plus(q, Plus(Neg(z), own))
      <4>1. Plus(Plus(t, z), Plus(Neg(z), own)) = Plus(t, Plus(z, Plus(Neg(z), own)))
        BY <1>4, <2>1, <3>1, <3>2, RingClosed, RingLaws
      <4>2. Plus(z, Plus(Neg(z), own)) = Plus(Plus(z, Neg(z)), own)
        BY <1>4, <3>1, <3>2, RingLaws
      <4>3. Plus(Zero, own) = own
        BY <1>4, RingClosed, RingLaws
      <4> QED BY <3>1, <3>2, <4>1, <4>2, <4>3
    <3>4. Plus(t, own) \in R /\ Plus(Neg(z), own) \in R
      BY <1>4, <2>1, <3>2, RingClosed
    <3>5. Minus(Plus(t, own), q) = Plus(Neg(z), own)
      BY <2>1, <3>3, <3>4, RingLaws
    <3>6. Minus(Plus(Neg(z), own), own) = Neg(z)
      BY <1>4, <3>2, MinusPlus
    <3> QED BY <3>5, <3>6 DEF z
  <2> QED BY <1>2, <1>3, <1>6, <2>2, <2>3, <2>4 DEF own
<1> QED BY <1>5, <1>6

\* The blinded quotient l carries the product of the first l + 1 messages over
\* that of the first l + 1 shuffled ones, with the sign of the parity.
LEMMA Telescope ==
  ASSUME Typed, QuotientsSolve, pc \in {"relation", "verify", "done"},
         NEW p \in [Index -> R], NEW q \in [Index -> R],
         p[0] = ms[0], \A k \in 1 .. Last : p[k] = Times(p[k - 1], ms[k]),
         q[0] = ms_[0], \A k \in 1 .. Last : q[k] = Times(q[k - 1], ms_[k]),
         NEW l \in Index \ {Last}
  PROVE  /\ Times(Minus(s[l], theta[l]), q[l]) = Signed(l, Times(beta, p[l]))
         /\ Unit(q[l])
<1> DEFINE e(k) == Minus(s[k], theta[k])
           S == {k \in 0 .. Last - 1 : /\ Times(e(k), q[k]) = Signed(k, Times(beta, p[k]))
                                       /\ Unit(q[k])}
<1>1. /\ Index = 0 .. Last /\ Last \in Nat \ {0} /\ Index \ {Last} = 0 .. Last - 1
      /\ beta \in R
  BY Shape DEF Typed
<1>2. \A k \in 0 .. Last - 1 : /\ k \in Index \ {Last} /\ e(k) \in R /\ Unit(ms_[k])
                               /\ p[k] \in R /\ q[k] \in R /\ ms[k] \in R /\ ms_[k] \in R
  BY <1>1, QuotientTimes, RingClosed DEF Typed
<1>3. 0 \in S
  <2>1. Times(e(0), ms_[0]) = Neg(Times(beta, ms[0])) /\ 0 \in Index \ {Last} /\ 0 \in 0 .. Last - 1
    BY <1>1, Blinded
  <2>2. 0 % 2 = 0
    OBVIOUS
  <2> QED BY <1>2, <2>1, <2>2 DEF Signed
<1>4. ASSUME NEW k \in 0 .. Last - 2, k \in S PROVE k + 1 \in S
  <2> DEFINE n == k + 1
             x == Times(beta, p[k])
  <2>1. n \in 0 .. Last - 1 /\ k \in 0 .. Last - 1 /\ n \in 1 .. Last /\ n - 1 = k /\ n # 0
    BY <1>1
  <2> HIDE DEF n
  <2>2. Times(e(n), ms_[n]) = Neg(Times(e(k), ms[n]))
    <3>1. n \in Index \ {Last}
      BY <1>1, <2>1
    <3> QED BY <2>1, <3>1, Blinded
  <2>3. p[n] = Times(p[k], ms[n]) /\ q[n] = Times(q[k], ms_[n])
    BY <2>1
  <2>4. Times(e(k), q[k]) = Signed(k, x) /\ Unit(q[k]) /\ x \in R
    BY <1>1, <1>2, <1>4, <2>1, RingClosed
  <2>5. /\ e(n) \in R /\ e(k) \in R /\ q[k] \in R /\ p[k] \in R /\ ms[n] \in R /\ ms_[n] \in R
        /\ Unit(ms_[n])
    BY <1>2, <2>1
  <2> HIDE DEF e, x
  <2>6. Times(e(n), q[n]) = Times(Times(e(n), ms_[n]), q[k])
    <3>1. q[n] = Times(ms_[n], q[k])
      BY <2>3, <2>5, RingLaws
    <3> QED BY <2>5, <3>1, RingLaws
  <2>7. Times(Times(e(n), ms_[n]), q[k]) = Neg(Times(Signed(k, x), ms[n]))
    <3>1. Times(e(k), ms[n]) \in R
      BY <2>5, RingClosed
    <3>2. Times(Neg(Times(e(k), ms[n])), q[k]) = Neg(Times(Times(e(k), ms[n]), q[k]))
      BY <2>5, <3>1, TimesNeg
    <3>3. Times(Times(e(k), ms[n]), q[k]) = Times(Times(e(k), q[k]), ms[n])
      BY <2>5, TimesSwap
    <3> QED BY <2>2, <2>4, <3>2, <3>3
  <2>8. Neg(Times(Signed(k, x), ms[n])) = Signed(n, Times(x, ms[n]))
    <3>1. k \in Nat /\ n = k + 1
      BY <2>1 DEF n
    <3> QED BY <2>4, <2>5, <3>1, SignedStep
  <2>9. Times(x, ms[n]) = Times(beta, p[n])
    BY <1>1, <2>3, <2>5, RingLaws, SMTT(30) DEF x
  <2>10. Unit(q[n])
    <3>1. Inv(q[k]) \in R /\ Inv(ms_[n]) \in R /\ Times(q[k], Inv(q[k])) = One
          /\ Times(ms_[n], Inv(ms_[n])) = One
      BY <2>4, <2>5, UnitLaws
    <3>2. Times(Inv(ms_[n]), Inv(q[k])) \in R /\ q[n] \in R
      BY <2>3, <2>5, <3>1, RingClosed
    <3>3. Times(q[n], Times(Inv(ms_[n]), Inv(q[k]))) = One
      <4>1. Times(q[n], Times(Inv(ms_[n]), Inv(q[k]))) = Times(Times(q[n], Inv(ms_[n])), Inv(q[k]))
        BY <3>1, <3>2, RingLaws
      <4>2. Times(q[n], Inv(ms_[n])) = q[k]
        BY <2>3, <2>5, UnitDivides
      <4> QED BY <3>1, <4>1, <4>2
    <3> QED BY <3>2, <3>3, UnitLaws
  <2>11. Times(e(n), q[n]) = Signed(n, Times(beta, p[n]))
    BY <2>6, <2>7, <2>8, <2>9
  <2> QED BY <2>1, <2>10, <2>11 DEF n
<1> HIDE DEF S
<1>5. 0 .. Last - 1 \subseteq S
  <2>1. Last - 1 \in Nat /\ Last - 1 - 1 = Last - 2
    BY <1>1
  <2> QED BY <1>3, <1>4, <2>1, Induction
<1> QED BY <1>1, <1>5 DEF S

\* All relations but the last hold, whatever the messages are.
LEMMA InnerRelations ==
  ASSUME DInv, pc \in {"relation", "verify", "done"}, NEW l \in Index \ {Last}
  PROVE  Residue(beta, l) = Zero
<1>1. /\ Typed /\ l \in Index /\ l < Last /\ Last \in Nat /\ (l # 0 => l - 1 \in Index \ {Last})
      /\ l # Last /\ 0 \in Index /\ MSGS > l /\ l \in Nat
  BY Shape DEF DInv
<1>2. /\ c[l].msg = ms[l] /\ d[l].msg = MaskSum(l)
      /\ Times(s[l], ms_[l]) = Numerator(theta, s, l)
  BY <1>1, QuotientTimes DEF DInv, CommitmentsHold, Masked
<1> DEFINE own == Times(theta[l], ms_[l])
           a == Times(AlphaZero(beta, l), ms[l])
           t == IF l = 0 THEN own ELSE Plus(Times(theta[l - 1], ms[l]), own)
<1>3. a \in R /\ t \in R
  BY <1>1, RingClosed DEF AlphaZero, Typed
<1>4. Numerator(theta, s, l) = Minus(t, a) /\ MaskSum(l) = t
  BY <1>1 DEF Numerator, AlphaZero, MaskSum
<1>5. Residue(beta, l) = Minus(Plus(a, Minus(t, a)), t)
  BY <1>1, <1>2, <1>4 DEF Residue, AlphaOne
<1> HIDE DEF a, t
<1> QED BY <1>3, <1>5, PlusMinus, MinusSelf

\* The last relation, scaled with a unit, is the difference of the products.
LEMMA LastRelation ==
  ASSUME DInv, pc \in {"relation", "verify", "done"}
  PROVE  \E u \in R :
           /\ Unit(u) /\ Residue(beta, Last) \in R
           /\ Product(ms) \in R /\ Product(ms_) \in R
           /\ LET delta == Times(beta, Minus(Product(ms), Product(ms_)))
              IN  Times(Residue(beta, Last), u) \in {delta, Neg(delta)}
<1>1. /\ Typed /\ QuotientsSolve /\ Last \in Nat \ {0} /\ MSGS = Last + 1
      /\ Index = 0 .. Last /\ Index \ {Last} = 0 .. Last - 1
  BY Shape DEF DInv
<1>2. PICK p \in [Index -> R] :
        p[0] = ms[0] /\ (\A k \in 1 .. Last : p[k] = Times(p[k - 1], ms[k])) /\ Product(ms) = p[Last]
  BY <1>1, ProductUnfolds DEF Typed
<1>3. PICK q \in [Index -> R] :
        q[0] = ms_[0] /\ (\A k \in 1 .. Last : q[k] = Times(q[k - 1], ms_[k])) /\ Product(ms_) = q[Last]
  BY <1>1, ProductUnfolds DEF Typed
<1> DEFINE n == Last - 1
           e == Minus(s[n], theta[n])
           u == q[n]
           P == p[Last]
           Q == q[Last]
           bP == Times(beta, P)
           bQ == Times(beta, Q)
<1>4. n \in Index \ {Last} /\ n \in Nat /\ Last \in 1 .. Last /\ Last \in Index /\ n \in Index /\ Last # 0
  BY <1>1
<1>5. /\ s[n] \in R /\ theta[n] \in R /\ e \in R /\ u \in R /\ P \in R /\ Q \in R /\ beta \in R
      /\ ms[Last] \in R /\ ms_[Last] \in R /\ bP \in R /\ bQ \in R /\ p[n] \in R
  BY <1>1, <1>2, <1>3, <1>4, RingClosed DEF Typed
<1>6. Times(e, u) = Signed(n, Times(beta, p[n])) /\ Unit(u)
  BY <1>1, <1>2, <1>3, <1>4, Telescope
<1>7. P = Times(p[n], ms[Last]) /\ Q = Times(u, ms_[Last])
  BY <1>2, <1>3, <1>4
<1> DEFINE one == AlphaOne(beta, Last)
           E == Times(e, ms[Last])
<1>8. one = (IF MSGS % 2 = 1 THEN Neg(Times(beta, ms_[Last])) ELSE Times(beta, ms_[Last])) /\ one \in R
  <2>1. ~(Last < Last)
    BY <1>1
  <2> QED BY <1>5, <2>1, RingClosed, NegCancels DEF AlphaOne, Neg
<1>9. Residue(beta, Last) = Plus(E, one) /\ E \in R
  <2>1. c[Last].msg = ms[Last] /\ d[Last].msg = Times(theta[n], ms[Last])
    <3>1. Last < MSGS
      BY <1>1
    <3> QED BY <1>4, <3>1 DEF DInv, CommitmentsHold, Masked, MaskSum
  <2> DEFINE x == Times(s[n], ms[Last])
             y == Times(theta[n], ms[Last])
  <2>2. AlphaZero(beta, Last) = s[n]
    BY <1>4 DEF AlphaZero
  <2>3. Residue(beta, Last) = Minus(Plus(x, one), y)
    BY <2>1, <2>2 DEF Residue
  <2>4. x \in R /\ y \in R /\ E = Minus(x, y)
    <3>1. s[n] \in R /\ theta[n] \in R /\ ms[Last] \in R
      BY <1>5
    <3> HIDE DEF n
    <3> QED BY <3>1, RingClosed, TimesRight, ZenonT(30)
  <2>8. one \in R
    BY <1>8
  <2> HIDE DEF x, y, one, E, n
  <2>5. Minus(Plus(x, one), Plus(y, Zero)) = Plus(Minus(x, y), Minus(one, Zero))
    BY <2>4, <2>8, RingClosed, MinusSums
  <2>6. Plus(y, Zero) = y /\ Minus(one, Zero) = one
    <3>1. Plus(Zero, one) = one
      BY <2>8, RingClosed, RingLaws
    <3> QED BY <2>4, <2>8, <3>1, RingClosed, RingLaws
  <2>7. E \in R
    BY <2>4, RingClosed
  <2> QED BY <2>3, <2>4, <2>5, <2>6, <2>7
<1>10. Times(Residue(beta, Last), u) = Plus(Times(E, u), Times(one, u))
  BY <1>5, <1>8, <1>9, TimesRight
<1>11. Times(E, u) = Times(Signed(n, Times(beta, p[n])), ms[Last])
  BY <1>5, <1>6, TimesSwap
<1> HIDE DEF u, P, Q, e, one, E
<1>12. Times(Times(beta, p[n]), ms[Last]) = bP
  BY <1>5, <1>7, RingLaws, SMTT(30)
<1>13. Times(Times(beta, ms_[Last]), u) = bQ
  <2>1. Times(Times(beta, ms_[Last]), u) = Times(beta, Times(ms_[Last], u))
    BY <1>5, RingLaws
  <2>2. Times(ms_[Last], u) = Q
    BY <1>5, <1>7, RingLaws
  <2> QED BY <2>1, <2>2
<1>14. Times(beta, Minus(P, Q)) = Minus(bP, bQ)
  BY <1>5, TimesMinus
<1>15. Times(beta, p[n]) \in R /\ Times(beta, ms_[Last]) \in R
  BY <1>5, RingClosed
<1> HIDE DEF bP, bQ
<1>16. CASE MSGS % 2 = 1
  <2>1. n % 2 = 1
    BY <1>1, <1>16
  <2>2. Times(E, u) = bP
    BY <1>11, <1>12, <2>1 DEF Signed
  <2>3. Times(one, u) = Neg(bQ)
    BY <1>5, <1>8, <1>13, <1>15, <1>16, TimesNeg
  <2>4. Times(Residue(beta, Last), u) = Minus(bP, bQ)
    BY <1>5, <1>10, <2>2, <2>3, MinusIsPlusNeg
  <2> QED BY <1>2, <1>3, <1>5, <1>6, <1>8, <1>9, <1>14, <2>4, RingClosed DEF P, Q
<1>17. CASE MSGS % 2 # 1
  <2>1. n % 2 = 0
    BY <1>1, <1>17
  <2>2. Times(E, u) = Neg(bP)
    BY <1>11, <1>12, <1>15, <1>5, <2>1, TimesNeg DEF Signed
  <2>3. Times(one, u) = bQ
    BY <1>8, <1>13, <1>17
  <2>4. Times(Residue(beta, Last), u) = Neg(Minus(bP, bQ))
    <3>1. Neg(Minus(bP, bQ)) = Minus(bQ, bP)
      <4>1. Minus(Plus(Zero, bQ), Plus(bP, Zero)) = Plus(Minus(Zero, bP), Minus(bQ, Zero))
        BY <1>5, RingClosed, MinusSums
      <4>2. Plus(Zero, bQ) = bQ /\ Plus(bP, Zero) = bP /\ Minus(bQ, Zero) = bQ
        BY <1>5, RingClosed, RingLaws
      <4>3. Minus(bQ, bP) = Plus(Neg(bP), bQ)
        BY <4>1, <4>2 DEF Neg
      <4>4. Plus(Minus(bP, bQ), Minus(bQ, bP)) = Zero
        <5> DEFINE z == Minus(bP, bQ)
        <5>1. z \in R /\ bP = Plus(bQ, z)
          BY <1>5, RingClosed, PlusMinus
        <5>2. Minus(bQ, bP) \in R /\ Plus(bP, Minus(bQ, bP)) = bQ
          BY <1>5, RingClosed, PlusMinus
        <5> HIDE DEF z
        <5>3. Plus(Plus(z, Minus(bQ, bP)), bQ) = bQ
          BY <1>5, <5>1, <5>2, RingClosed, RingLaws
        <5>4. Plus(z, Minus(bQ, bP)) \in R
          BY <5>1, <5>2, RingClosed
        <5> QED BY <1>5, <5>3, <5>4, Cancel DEF z
      <4>5. Minus(Zero, Minus(bP, bQ)) = Minus(bQ, bP)
        BY <1>5, <4>4, RingClosed, RingLaws
      <4> QED BY <4>5 DEF Neg
    <3>2. Plus(Neg(bP), bQ) = Minus(bQ, bP)
      BY <1>5, MinusIsPlusNeg, NegCancels, RingLaws
    <3> QED BY <1>10, <2>2, <2>3, <3>1, <3>2
  <2> QED BY <1>2, <1>3, <1>5, <1>6, <1>8, <1>9, <1>14, <2>4, RingClosed DEF P, Q
<1> QED BY <1>16, <1>17

\* The challenges annihilate the last residue exactly if they annihilate the
\* difference of the two products.
LEMMA ChallengeAnnihilates ==
  ASSUME NEW ch \in R, NEW x \in R, NEW u \in R, Unit(u), NEW b \in R, NEW y \in R,
         Times(x, u) \in {Times(b, y), Neg(Times(b, y))}
  PROVE  Times(ch, x) = Zero <=> Times(Times(ch, b), y) = Zero
<1> DEFINE by == Times(b, y)
<1>1. by \in R /\ Times(ch, x) \in R /\ Times(ch, by) \in R
  BY RingClosed
<1>2. Times(Times(ch, b), y) = Times(ch, by)
  BY RingLaws
<1>3. Times(Times(ch, x), u) = Times(ch, Times(x, u))
  BY RingLaws
<1>4. Times(ch, Neg(by)) = Neg(Times(ch, by))
  BY <1>1, TimesNeg
<1> HIDE DEF by
<1>5. Times(Times(ch, x), u) = Zero <=> Times(ch, by) = Zero
  BY <1>1, <1>3, <1>4, NegIsZero DEF by
<1> QED BY <1>1, <1>2, <1>5, UnitAnnihilates

\* The verdict of shuffle_verifier on an honest transcript, for every ring, every
\* number of messages and all challenges: it accepts exactly if the challenges of
\* the run annihilate the difference of the products of the collapsed messages.
THEOREM VerdictCorrect == Spec => []VerdictIsProductEquality
<1>1. ASSUME DInv PROVE VerdictIsProductEquality
  <2> SUFFICES ASSUME pc = "done"
               PROVE  result <=> Times(Times(LastChallenge, beta),
                                       Minus(Product(ms), Product(ms_))) = Zero
    BY DEF VerdictIsProductEquality
  <2>1. /\ Typed /\ Last \in Nat \ {0} /\ MSGS = Last + 1
        /\ Index = 0 .. Last /\ Index \ {Last} = 0 .. Last - 1
    BY <1>1, Shape DEF DInv
  <2>2. Proved = MSGS /\ Verified = MSGS
    BY DEF Proved, Verified
  <2>3. \A l \in Index : l < MSGS /\ (l = Last \/ l \in Index \ {Last})
    BY <2>1
  <2>4. \A l \in Index : proof[l].chal \in R
    BY <1>1, <2>2, <2>3 DEF DInv, ProofsAnswer, Typed
  <2>5. ASSUME NEW l \in Index \ {Last} PROVE RelationHolds(proof[l].chal, beta, l)
    BY <1>1, <2>4, InnerRelations, TimesZero DEF RelationHolds
  <2>6. result <=> RelationHolds(proof[Last].chal, beta, Last)
    <3>1. Last \in Index
      BY <2>1
    <3>2. result <=> \A l \in Index : RelationHolds(proof[l].chal, beta, l)
      BY <1>1, <2>2, <2>3 DEF DInv, VerdictSoFar
    <3> QED BY <2>3, <2>5, <3>1, <3>2
  <2>7. PICK u \in R :
          /\ Unit(u) /\ Residue(beta, Last) \in R
          /\ Product(ms) \in R /\ Product(ms_) \in R
          /\ Times(Residue(beta, Last), u) \in
               {Times(beta, Minus(Product(ms), Product(ms_))),
                Neg(Times(beta, Minus(Product(ms), Product(ms_))))}
    BY <1>1, LastRelation
  <2>8. beta \in R /\ Minus(Product(ms), Product(ms_)) \in R /\ LastChallenge \in R
    <3>1. Last \in Index
      BY <2>1
    <3> QED BY <2>1, <2>4, <2>7, <3>1, RingClosed DEF Typed, LastChallenge
  <2> QED BY <2>6, <2>7, <2>8, ChallengeAnnihilates DEF RelationHolds, LastChallenge
<1>2. QED
  BY <1>1, DataCorrect, PTL

\* QuotientsOf computes its entries in order, each from the one before.
LEMMA QuotientsUnfold ==
  ASSUME Typed, \A j \in Index : Unit(ms_[j]), NEW th \in [Index \ {Last} -> R]
  PROVE  QuotientsOf(th) =
           [j \in Index \ {Last} |-> Times(Numerator(th, QuotientsOf(th), j), Inv(ms_[j]))]
<1> DEFINE Step(q, j) == Times(Numerator(th, q, j), Inv(ms_[j]))
           Eq(q, n) == DOMAIN q = 0 .. n /\ \A j \in 0 .. n : q[j] = Step(q, j)
           Has == {n \in Nat : \E q : Eq(q, n)}
<1>1. Index \ {Last} = 0 .. Last - 1 /\ Last - 1 \in Nat
  BY Shape
<1>2. 0 \in Has
  <2> DEFINE q == [j \in 0 .. 0 |-> Step([k \in {} |-> Zero], 0)]
  <2>1. Step(q, 0) = Step([k \in {} |-> Zero], 0)
    BY DEF Numerator
  <2>2. Eq(q, 0)
    BY <2>1
  <2> QED BY <2>2
<1>3. ASSUME NEW n \in 0 .. Last - 1 - 1, n \in Has PROVE n + 1 \in Has
  <2>1. PICK q : Eq(q, n)
    BY <1>3
  <2> DEFINE h == [j \in 0 .. n + 1 |-> IF j <= n THEN q[j] ELSE Step(q, n + 1)]
  <2>2. n \in Nat /\ n + 1 \in Nat
    BY <1>1
  <2>3. ASSUME NEW j \in 0 .. n + 1 PROVE h[j] = Step(h, j)
    <3>1. j # 0 => h[j - 1] = q[j - 1]
      BY <2>2
    <3>2. Step(h, j) = Step(q, j)
      <4> HIDE DEF h
      <4> QED BY <3>1 DEF Numerator
    <3>3. CASE j <= n
      BY <2>1, <2>2, <3>2, <3>3
    <3>4. CASE j = n + 1
      BY <2>2, <3>2, <3>4
    <3> QED BY <2>2, <3>3, <3>4
  <2>4. DOMAIN h = 0 .. n + 1
    OBVIOUS
  <2> HIDE DEF h
  <2>5. Eq(h, n + 1)
    BY <2>3, <2>4
  <2> QED BY <2>2, <2>5
<1> HIDE DEF Has
<1>4. Last - 1 \in Has
  <2>1. 0 .. Last - 1 \subseteq Has
    BY <1>1, <1>2, <1>3, Induction
  <2> QED BY <1>1, <2>1
<1>5. PICK q : Eq(q, Last - 1)
  BY <1>4 DEF Has
<1> DEFINE r == [j \in Index \ {Last} |-> q[j]]
<1>6. r = [j \in Index \ {Last} |-> Times(Numerator(th, r, j), Inv(ms_[j]))]
  <2>1. ASSUME NEW j \in Index \ {Last} PROVE r[j] = Times(Numerator(th, r, j), Inv(ms_[j]))
    <3>1. j # 0 => r[j - 1] = q[j - 1]
      BY <1>1
    <3>2. Step(r, j) = Step(q, j)
      <4> HIDE DEF r
      <4> QED BY <3>1 DEF Numerator
    <3> QED BY <1>1, <1>5, <3>2
  <2>2. DOMAIN r = Index \ {Last} /\ r = [j \in DOMAIN r |-> r[j]]
    OBVIOUS
  <2> HIDE DEF r
  <2> QED BY <2>1, <2>2
<1> HIDE DEF r
<1>7. QuotientsOf(th) = CHOOSE x : x = [j \in Index \ {Last} |-> Times(Numerator(th, x, j), Inv(ms_[j]))]
  BY DEF QuotientsOf
<1> QED BY <1>6, <1>7

\* The published quotients determine the masks and conversely: every vector of
\* masks explains one vector s, for the given messages and challenge.
THEOREM MasksBlind == Spec => []QuotientsMasked
<1>1. ASSUME DInv PROVE QuotientsMasked
  <2> SUFFICES ASSUME pc = "relation", NEW th \in [Index \ {Last} -> R]
               PROVE  QuotientsOf(th) = s <=> th = theta
    BY DEF QuotientsMasked
  <2>1. /\ Typed /\ Last - 1 \in Nat /\ Index \ {Last} = 0 .. Last - 1
        /\ s \in [Index \ {Last} -> R] /\ theta \in [Index \ {Last} -> R]
        /\ \A j \in Index : Unit(ms_[j]) /\ ms_[j] \in R /\ ms[j] \in R
        /\ beta \in R
    BY <1>1, Shape DEF DInv, Typed, QuotientsSolve
  <2> DEFINE q == QuotientsOf(th)
  <2>2. q = [j \in Index \ {Last} |-> Times(Numerator(th, q, j), Inv(ms_[j]))]
    BY <2>1, QuotientsUnfold
  <2>3. \A j \in Index \ {Last} : s[j] = Times(Numerator(theta, s, j), Inv(ms_[j]))
    <3>1. Divided = Last /\ \A j \in Index \ {Last} : j < Last
      BY <2>1, Shape DEF Divided
    <3> QED BY <1>1, <3>1 DEF DInv, QuotientsSolve
  <2> HIDE DEF q
  <2>4. ASSUME th = theta PROVE q = s
    <3> DEFINE S == {j \in 0 .. Last - 1 : q[j] = s[j]}
    <3>1. 0 \in S
      BY <2>1, <2>2, <2>3, <2>4 DEF Numerator
    <3>2. ASSUME NEW j \in 0 .. Last - 1 - 1, j \in S PROVE j + 1 \in S
      <4>1. j + 1 \in 0 .. Last - 1 /\ j + 1 # 0 /\ j + 1 - 1 = j /\ q[j] = s[j]
        BY <2>1, <3>2
      <4>2. Numerator(th, q, j + 1) = Numerator(theta, s, j + 1)
        BY <2>4, <4>1 DEF Numerator
      <4> QED BY <2>1, <2>2, <2>3, <4>1, <4>2
    <3> HIDE DEF S
    <3>3. 0 .. Last - 1 \subseteq S
      BY <2>1, <3>1, <3>2, Induction
    <3>4. \A j \in Index \ {Last} : q[j] = s[j]
      BY <2>1, <3>3 DEF S
    <3>5. q = [j \in Index \ {Last} |-> q[j]] /\ s = [j \in Index \ {Last} |-> s[j]]
      BY <2>1, <2>2
    <3> QED BY <3>4, <3>5
  <2>5. ASSUME q = s PROVE th = theta
    <3> DEFINE S == {j \in 0 .. Last - 1 : th[j] = theta[j]}
    <3>1. ASSUME NEW j \in 0 .. Last - 1, j # 0 => th[j - 1] = theta[j - 1]
          PROVE  th[j] = theta[j]
      <4>1. /\ j \in Index \ {Last} /\ j \in Index /\ th[j] \in R /\ theta[j] \in R
            /\ Unit(ms_[j]) /\ ms_[j] \in R /\ ms[j] \in R
            /\ (j # 0 => j - 1 \in Index \ {Last} /\ s[j - 1] \in R /\ theta[j - 1] \in R)
        BY <2>1
      <4> DEFINE x == Times(th[j], ms_[j])
                 y == Times(theta[j], ms_[j])
      <4>2. x \in R /\ y \in R
        BY <4>1, RingClosed
      <4>3. Numerator(th, s, j) = Numerator(theta, s, j)
        <5>1. Numerator(th, s, j) \in R /\ Numerator(theta, s, j) \in R
          <6>1. j # 0 => th[j - 1] \in R
            BY <3>1, <4>1
          <6>2. j = 0 => 0 \in Index /\ th[0] = th[j] /\ theta[0] = theta[j]
            BY <4>1
          <6>3. 0 \in Index
            BY <2>1, Shape
          <6> QED BY <2>1, <4>1, <6>1, <6>2, <6>3, RingClosed DEF Numerator
        <5>2. Times(Numerator(th, s, j), Inv(ms_[j])) = Times(Numerator(theta, s, j), Inv(ms_[j]))
          BY <2>2, <2>3, <2>5, <4>1
        <5> QED BY <4>1, <5>1, <5>2, UnitDivides
      <4>4. x = y
        <5>1. CASE j = 0
          <6> DEFINE b == Times(beta, ms[0])
          <6>1. b \in R /\ Minus(x, b) = Minus(y, b)
            BY <2>1, <4>1, <4>3, <5>1, RingClosed DEF Numerator
          <6> HIDE DEF x, y, b
          <6> QED BY <4>2, <6>1, PlusMinus
        <5>2. CASE j # 0
          <6> DEFINE t == Times(theta[j - 1], ms[j])
                     b == Times(s[j - 1], ms[j])
          <6>1. t \in R /\ b \in R /\ Minus(Plus(t, x), b) = Minus(Plus(t, y), b)
            BY <3>1, <4>1, <4>3, <5>2, RingClosed DEF Numerator
          <6> HIDE DEF x, y, t, b
          <6>2. Plus(t, x) \in R /\ Plus(t, y) \in R
            BY <4>2, <6>1, RingClosed
          <6>3. Plus(t, x) = Plus(t, y)
            BY <6>1, <6>2, PlusMinus
          <6>4. Plus(x, t) = Plus(y, t)
            BY <4>2, <6>1, <6>3, RingLaws
          <6> QED BY <4>2, <6>1, <6>4, MinusPlus
        <5> QED BY <5>1, <5>2
      <4> QED BY <4>1, <4>4, UnitDivides
    <3>2. 0 \in S
      BY <2>1, <3>1
    <3>3. ASSUME NEW j \in 0 .. Last - 1 - 1, j \in S PROVE j + 1 \in S
      <4>1. j + 1 \in 0 .. Last - 1 /\ j + 1 - 1 = j
        BY <2>1
      <4> QED BY <3>1, <3>3, <4>1
    <3> HIDE DEF S
    <3>4. 0 .. Last - 1 \subseteq S
      BY <2>1, <3>2, <3>3, Induction
    <3> QED BY <2>1, <3>4 DEF S
  <2> QED BY <2>4, <2>5 DEF q
<1>2. QED
  BY <1>1, DataCorrect, PTL
=============================================================================
