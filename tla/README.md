# A lattice-based verifiable mix-net, specified in TLA+

The repository is a proof of concept of a verifiable mix-net from lattice
assumptions: five single-threaded binaries (`bdlop`, `bgv`, `shuffle`,
`pismall`, `pibnd`), each with its tests and benchmarks, over a vendored copy of
NFLlib for ring arithmetic and of BLAKE3 for hashing. There is no network, no
thread and nothing persistent. What is hard in it is of another kind: one global
generator that is keyed with public digests and has to be given back every time;
file-scope arrays that prover and verifier share; loops that overwrite what they
still need; retries that must not reuse randomness; a sign that depends on the
parity of a build-time constant; an output that is only partly set on failure;
arithmetic at the edge of a word, of a modulus, of `q/2`; one function in six
hand-written variants of which any machine runs one.

## 1. Inventory

| part | code (under `src/`) | state | operations |
|---|---|---|---|
| generator | `NFLlib/lib/prng/*.cpp` | `round_key`, `iv`, `init` (static) | `fastrandombytes`, `_seed`, `_reseed`; `randombytes` |
| samplers | `NFLlib/include/nfl/core.hpp` | the polynomial written | `uniform`, `ZO_dist`, `hwt_dist` |
| Gaussian samplers | `src/sample_z_*.c` | buffers and offsets of one call | `sample_z` |
| ring | `NFLlib/include/nfl/{ops,core,algos,permut,gmp}.hpp` | words per modulus, tables | kernels, transforms, permutation, conversion from and to integers |
| commitments | `src/bdlop.cpp` | key, commitment | `bdlop_keygen`, `_commit`, `_open`, `_sample_*`, `_test_norm` |
| encryption | `src/bgv.cpp` | keys, shares, ciphertexts | `bgv_keygen`, `_keyshare`, `_encrypt`, `_add`, `_decrypt`, `_distdec`, `_comb` |
| shuffle | `src/shuffle.cpp` | file-scope arrays of statement and proof | `run`, `shuffle_prover`, `shuffle_hash`, `shuffle_verifier` |
| linear relation | `src/shuffle.cpp` | responses, first message | `lin_prover`, `lin_hash`, `lin_verifier`, `rej_sampling` |
| inversion | `src/shuffle.cpp` | `inv`, `inv_tmp` | `simul_inverse`, `poly_inverse`, `residue_inverse` |
| exact proof | `src/pismall.cpp` | encoded rows, Merkle tree, opened columns | `pismall_prover`, `pismall_verifier`, `aex_*`, `gr_*` |
| bounded-norm proof | `src/pibnd.cpp` | `W`, `C`, `Z`, `SC` | prover, verifier, `pibnd_rej_sampling`, `pibnd_test_norm` |
| hash | `src/blake3/*.c` | `blake3_hasher` | `init`, `init_keyed`, `init_derive_key`, `update`, `finalize`, `finalize_seek`, `reset` |
| helpers | `include/util.hpp` | none | `center`, `equal`, `is_zero` |
| external | GMP, FLINT | | integers, polynomials over Z_q |

How they interact. Everything random except messages and acceptance decisions
comes from the one generator. The Fiat-Shamir sites (`lin_hash`, `shuffle_hash`,
prover and verifier of `pibnd`) hash a transcript with BLAKE3, load the digest as
the key of that generator, sample a challenge through the ordinary samplers, and
call `fastrandombytes_reseed` so that the next draw fetches a key from the system.
The shuffle collapses the committed vectors with one random weight, commits to
masked neighbours, derives a challenge, inverts all shuffled messages at once
(residue by residue, in the transformed domain), publishes masked quotients, and
proves one linear relation per message; the relations telescope to the equality
of two products. `pismall` encodes witnesses and masks as evaluations of
polynomials over `GR(q,2)`, commits to the columns with a Merkle tree, and opens
columns at places the challenge names.

What makes each part correct: secrets are never drawn under a public key and
never drawn twice; a challenge depends on its transcript alone; the batch
inversion inverts every message or fails; the verdict of each proof says what
the paper says it says; the verifier accepts what an honest prover sends and
never reads what a failed one left unset; sums of noise stay below `q/2` and
lazily reduced words below `2p`; a challenge is one polynomial of its weight under
all moduli, and every draw of a sampler is used once and stands for the outcome
its probability says (where comments name another distribution than the code has,
section 5); a hash does not depend on how its input was cut or on the processor.

## 2. Modules

| module | models | how |
|---|---|---|
| `AesCtr` | `fastrandombytes.cpp` | record `[init, key, iv, seeds]`, one operator per function; an output block is the pair of key and counter it encrypts |
| `RandomSource` | what callers assume of randomness | abstract: fresh secret blocks, and a random oracle |
| `FastRandom` | generator and its callers | one action per secret draw, three per challenge (key, draw, give back), so that every order of calls occurs |
| `RqRing` | what protocols need of the ring | constants with the laws of a commutative ring; sums in the order of the code's loops |
| `SlotRing` | NFLlib's NTT domain | a residue per slot; instantiates `RqRing` in the runs |
| `Words` | kernels of `ops.hpp`, vectorised sum of `avx2.hpp` | words modulo `W`, the products by precomputed quotients as the code forms them, lanes as signed words |
| `Transform` | tables, layers and permutation of `core.hpp`, `algos.hpp`, `permut.hpp`; `gmp.hpp` | one operator per layer, conversion by the scaled quotient |
| `PolyInverse` | `mpz2poly`, both transforms, `poly_inverse`, `poly2mpz` | one action per loop of a transform, one call of `residue_inverse` per slot |
| `ResidueInverse` | `residue_inverse` | one action per iteration, signed integers |
| `SimulInverse` | `simul_inverse` | one action per loop iteration |
| `Shuffle` | `run`, `shuffle_prover`, `shuffle_hash`, `shuffle_verifier` | one action per iteration of each loop, over `RqRing` and `AesCtr` |
| `LinProof` | `lin_prover`, `lin_hash`, `lin_verifier` | one action per stage of an attempt; vectors with linear commitment rows |
| `BdlopKey` | matrices of `bdlop.cpp` | rows of a key applied to a vector |
| `Bdlop` | `bdlop_keygen`, `_commit`, `_open`; subtraction and collapse in `test2()` and `run()` | one action per call, linear operations in any order |
| `AdditiveEncryption` | what users assume of `bgv.cpp` | abstract: plaintexts that are put, added and jointly revealed |
| `Bgv` | `bgv.cpp` | one action per call, on coefficients, with real noise |
| `Pibnd` | `pibnd_prover`, `pibnd_hash`, `pibnd_verifier` | one action per loop, on the shared matrices |
| `GaloisRing` | `gr_*` and the word arithmetic of `pismall.cpp` | operators on pairs; `gr_mul`, `gr_inv`, `gr_mul_nr` a second time on a store of variables, for aliases |
| `Merkle` | `aex_tree`, paths and their verification | levels in one array, indices as the code computes them |
| `Extract` | `aex_extract`, its transform and its division, for all components, coefficients and primes | one action per pass over the work buffers, which keep what the last call left |
| `Pismall` | `pismall_prover`, `pismall_verifier`, `test()` | one action per stage, with the early return, tampered openings and repeated verification |
| `Blake3Kernels` | compression and many-input kernels, portable and of five instruction sets | the order of mixing steps per cell, lanes and counters per input |
| `Blake3` | `blake3.c`, `blake3_dispatch.c` | one action per public call; chaining values are terms; loops are recursive functions of the passes made |
| `HwtDist` | `nfl::hwt_dist`, `bdlop_sample_chal` | one action per random word; counts the word sequences behind each outcome |
| `SampleZ` | `sample_z` of both files | one action per buffer, deviate and test |
| `Norms` | `bdlop_test_norm`, `pibnd_test_norm`, `util::center` | operators on residues |
| `Samplers` | `ZO_dist`, `uniform`; one call of any sampler | composes `HwtDist`, `SampleZ` and `Norms` |
| `MC*` | | instances for TLC |
| `RingTheorems` | | consequences of the ring laws, sums, induction |
| `RefinementProofs`, `ShuffleProofs`, `ContractProofs`, `CommitmentProofs`, `PibndProofs`, `PolyInverseProofs`, `SamplersProofs` | | theorems, section 4; `RefinementProofs` is about `FastRandom` and `Bgv`, `ContractProofs` about `SimulInverse`, `LinProof` and `Blake3`, `CommitmentProofs` about `Bdlop` and `Pismall` with `Merkle` and `GaloisRing` |

How they compose. `Shuffle` uses the generator (`AesCtr`, the same operators as
`FastRandom`) and the ring (`RqRing`). Its step `Invert` is the contract that
`SimulInverse` establishes, the inversion of the ring is what `PolyInverse`
shows of words, transforms and Euclidean loops together, its `RelationHolds` is
what `LinProof` shows of `lin_verifier`, and its ideal commitment stands for
`Bdlop`. `LinProof` takes vectors and rows as parameters; `MCLinProof` fills them
from `BdlopKey`. `Pismall` runs the actions of `Extract` as its first phase and
uses `Merkle` and `GaloisRing`. `PolyInverse` runs the actions of
`ResidueInverse`. `FastRandom` implements `RandomSource`, `Bgv` implements
`AdditiveEncryption`; in both cases the abstract specification is a PROPERTY of
the run.

State and code. Variables carry the names of the code's arrays (`inv`, `inv_tmp`,
`ms`, `_ms` as `ms_`, `theta`, `s`, `beta`, `Z`, `W`, `C`, `hitted`, `bufA`).
Additional variables are program counters, loop counters, and histories, which
comments mark. Modules that are proved about together keep their names apart:
`Bdlop` has `factor`, `answer` and `stage` for `f`, `s` and the program counter, and
the constant `R` of `pismall.cpp` is `ROWS`. Operators whose comment begins with
"Fault:" are single slips one could make in the code (a missing reset, a swapped
order, an inverted test). No specification uses them; they show that each property
notices something.

Idealisations:

- The cipher and the hash have no collisions: a block is its key and counter, a
  digest its transcript, a chaining value the term of its compression.
  `/dev/urandom` always answers, with a new key.
- In the protocols ring elements keep exact arithmetic modulo small primes, and
  changes of representation are left out; that the words, tables and transforms
  compute this is the subject of `Words`, `Transform` and `PolyInverse`.
- Gaussian vectors are members of a small set (`LinProof`, `Pibnd`) or positions
  in a stream (`Shuffle`). Acceptance by `rej_sampling` and `pibnd_rej_sampling`
  is a free choice. In `SampleZ` deviates lie on a grid and `exp` is a table of
  floating-point numbers; rounding errors are not modelled. Callers pass centre 0
  and a sigma in range; the module covers other centres, and a sigma too small or
  too large for the comparison, because its interface takes any.
- In `LinProof` and `Pibnd` norm tests are predicates, chosen so that some
  responses pass and some do not; `Norms` has the tests themselves.
- A commitment in `Shuffle` and `Pismall` is the pair of its message and its
  randomness.

## 3. Runs

| run | instance | states | question |
|---|---|---|---|
| `fast_random` | 2 digests, draws of 1 and 2 blocks, challenges of 2 draws, 3 system keys, counter modulo 5 | 10297 | Do all orders of secret draws and challenges look like fresh secrets and a random oracle? |
| `simul_inverse` | 4 messages over Z_2 x Z_3 | 6544 | Does the shared array end with all inverses, and does the assertion fire exactly on zero divisors? |
| `poly_inverse` | 9-bit words, moduli 113 and 17, degrees 4 and 8 | 8005 | From integer coefficients to those of the inverse: is it right, and does every word fit? |
| `shuffle` | 2 and 3 messages over Z_2 x Z_3, one rejected attempt, counter modulo 6 | 604206 | The complete proof, with both parities of `MSGS`, a retry and zero divisors |
| `bdlop` | WIDTH 4, SIZE 2 as in `common.h`, prime 3, 2 linear operations | 784929 | Which messages does a commitment open to after subtractions and a collapse? |
| `lin_proof` | vectors of 2 columns, prime 5, zero challenge included | 45344 | What does the verdict of `lin_verifier` say, and does the rejection loop end? |
| `bgv` | 2 coefficients modulo 49, 2 parties, 1 addition | 169753 | At the smallest admissible modulus, is joint decryption right for all noise? |
| `pibnd` | 2 relations, 2 repetitions, 1 x 2 matrix, degree 2 modulo 5 | 31298 | Is the first verdict exact whatever the shared matrices held before? |
| `pismall` | 4 relations, 8 columns, primes 17 and 113, 2 components of degree 2 | 8144 | Is the verdict the vanishing of both sums, as far as the opened columns show, and is nothing unset read? |
| `blake3` | blocks of 2 bytes, chunks of 4, up to 17 chunks and a byte, 7 processors, 3 modes | 8820 | Is the hash independent of cuts, reads, resets and the processor? |
| `samplers` | 2 of 4 positions, moduli 5 and 7, coins of 3 bits, 5 deviates, 3 centres | 13144 | What weight, density and numbers of draws are behind what the samplers return, and do the norm tests measure it? |
| `hwt_subsets` | as `samplers` | | Does the comment on the selection of positions hold? It does not, see section 5 |

What the main properties mean.

- `ImplementsSource`: the four Fiat-Shamir sites and the samplers may run in any
  order, and no block of a secret draw is ever handed out again or derivable from
  a digest, as long as one key serves at most 2^32 blocks.
- `SecretsPrivate`, `SecretsFresh`: the same for the actual call sequence of the
  shuffle, where a rejected attempt comes back to its sampler after a challenge.
  `ChallengesAgree`: both sides derive one `beta`.
- `VerdictIsProductEquality`: the shuffle accepts exactly if the last challenge
  times `beta` times the difference of the two products of collapsed messages is
  zero; that every honest shuffle is accepted is a case of it. With `beta` and
  the challenge invertible this is the equality of the products, the statement
  the proof is about; how likely that is for vectors that are no permutation of
  each other depends on the random weight and is not modelled.
- `QuotientsMasked`: for every run, the published `s` comes from one `theta` only.
- `VerdictIsRelation`: in `LinProof`, the verdict is the linear relation between
  committed messages times the challenge, and the two norms, whatever was
  rejected before. In `Pibnd`, it is that the errors of all relations cancel under
  the challenge, and the norms. In `Pismall`, it is that two sums over the
  relations vanish at the challenge, that of `t_i - A s_i`, and that of
  `s_i^3 - s_i` where the opened columns evaluate it, for an untouched opening; a
  tampered one is rejected. A verifier sees the columns it drew and no others: the run
  has a witness that passes because it opens one column only, twice.
- `LagrangeIsBasis`: the closed form with a single inversion gives the values of
  the basis polynomials built at setup, and fails for exactly the challenges whose
  `l_0` is a zero divisor, so that the later inversion of `l_0` cannot.
- `UnsetNeverRead`: when the prover gives up early, the verifier fails on the same
  inversion and rejects before it reads what was left unset.
- `OpensOnlyItself`: of all columns, paths and indices exactly matching ones verify.
- `AliasesHarmless`: `gr_mul`, `gr_inv`, `gr_mul_nr` with arguments and results in
  whatever variables, one or several times the same.
- `OpensExactly`: after any two operations, an opening succeeds for the resulting
  messages (up to what the factor annihilates) and for no others.
- `ImplementsScheme`: a fresh ciphertext decrypts to what `bgv_encrypt` was given
  (`asked`), additions add plaintexts, and what the parties combine is what the key
  decrypts. `NoiseBounded`: the centered value behind a ciphertext stays in the
  range its additions allow.
- `InverseIsInverse`: the integers that `poly2mpz` returns are the inverse modulo
  `X^n + 1` and the product of the moduli, and there is a result exactly for
  polynomials with no root in common with `X^n + 1`. `WordsFit`: between the
  layers words stay below `2p`, elsewhere below `p`. `KernelsExact`: every product
  kernel, with one operand any residue and the other any word it can be given, and
  the sums, in signed lanes too.
  `CoefficientsFit`: Bezout coefficients and products stay within a signed word.
- `HashIsReference`: whatever the pieces, the output is that of the reference tree
  over the whole message. `ReadsAreSlices`: `finalize_seek`
  returns slices of one stream. `StackOrdered`: the stack is the binary
  representation of the chunks before the current one, a complete subtree for
  every 1-bit; only the halves of the last subtree stay apart, while no byte
  follows them, because their parent may be the root. `WideFits`: the recursion
  returns at least two chaining values and never more than its arrays hold. `KernelsAgree`: the kernels each processor selects
  mix the same words in the same order as the portable code, lane by lane,
  across the carry of the low counter word.
- `ExactWeight`: both halves of a challenge have `Hwt` coefficients 1 or -1, the
  same under all moduli. `SamplesGaussian`: a coin passes a test for exactly as
  many of its values as the probability says, and density of a deviate times its
  acceptance is the Gaussian at the rounded value. `NothingReused`: no byte and no
  deviate is used twice. `OutcomesCounted`: `ZO_dist` writes one ternary
  polynomial under all moduli, `(rho + 1) / 2` bytes behind 1 and as many behind -1;
  `uniform` writes residues, two masked words behind the small ones and one behind
  the others. `NormIsLeast`: the norm tests measure the shortest integer
  polynomial behind the residues. `EveryCallReturns`.

Type invariants are stated in every module with state of its own. They are
checked as a property of a run for the generator and as part of the inductive
invariant where one is proved; elsewhere they are kept for the reader, since the
properties above could not be evaluated in a state that violates them.

Bounds and why they are enough.

- `fast_random`: `CtrMod = MaxBlocks = 5`, so that the counter reaches its last
  value under one key; three system keys allow two challenges between secrets.
- `shuffle`: 2 and 3 messages are the smallest chain of each parity, 3 the
  smallest with an interior relation; six blocks are what three messages draw
  under one key, so the counter comes to its end. One rejection is enough to leave
  and re-enter the loop (any number is proved). Zero divisors need two slots.
- `poly_inverse`: 4 * 113 is the most a word of nine bits leaves two bits of, the
  least room `ops.hpp` asks for. The constants of degree 4 bring every residue of
  both moduli to `residue_inverse`; degree 8 has a layer before the last two; the
  inputs include polynomials with a root of `X^8 + 1` and coefficients at both ends
  of their range and below it.
- `bdlop`: all shapes of `common.h`; two operations allow both orders of
  subtraction and collapse. Prime 3 has a short, a non-short and a zero value.
- `bgv`: 49 is the least modulus that satisfies `NoiseBudget` for these
  parameters, and the chosen ternary values attain its lower end: the run fails
  with 47, with twice the partial noise, and with a noise bound one smaller.
- `pibnd`: both a true statement and one whose two errors cancel under some of
  the challenges; accepted and rejected verdicts occur for both.
- `pismall`: 17 and 113 are the smallest primes with the roots of unity for eight
  columns for which 3 is a non-residue, as for the program's. Challenges lie in
  `Z_q`, outside it, on a node, on a node modulo one prime, and where an error
  vanishes modulo one prime; witnesses are ternary, not ternary, and not ternary
  modulo one prime; one false statement is accepted because its errors cancel,
  another because its cubics vanish in the first column. Two coefficients are the
  fewest for which the product modulo `X^N + 1` wraps around and a polynomial can
  vanish in one column only.
- `blake3`: seventeen chunks exceed the widest kernel (sixteen) by one; sizes
  around one chunk, two, and powers of two let pieces end on, before and behind
  every boundary; `MAX_DEPTH` 5 and `SIZE_BITS` 8 leave room for 69 bytes and cut
  nothing off; words of 16 values make the low counter word overflow within one
  call. Processors differ in instruction sets, operating-system support
  and architecture. The seven rounds and their permutations are the real ones.
- `samplers`: two positions are filled after the first two, so that the second
  depends on the first, and a buffer of two words runs out between draws.
  Probabilities are 1, 3/4, 1/2, 3/8 and 1/4 so that shifts of both kinds and the
  case of certainty occur; centres round down, up and not at all.

Fairness. `SimulInverse`, `PolyInverse`: weak fairness of the loop, single
threaded code keeps running. `LinProof`, `Pibnd`: weak fairness of every stage
and strong fairness of an accepted attempt, because every attempt is independent
and accepted with a probability that does not depend on the earlier ones
(two tests with M = 1.75 or sqrt(3) each). `HwtDist`: weak fairness of drawing
an accepted word, at least half of all words being accepted at any position.
`SampleZ`: strong fairness of drawing two coins of value 0, since coins are
independent and 0 passes every test. The other modules have no liveness
property: their loops are bounded by construction, and `FastRandom`, `Bgv` and
`Blake3` are services that may idle.

## 4. Proofs

What a theorem assumes is written in the ASSUMEs of the modules it extends; TLC
evaluates each of them in the runs. The last column repeats those that matter.

| theorem | establishes, for every value of the constants | assumes |
|---|---|---|
| `RefinementProofs!TypeCorrect`, `SecretsPrivate`, `Refinement` | the generator implements `RandomSource`: secrets are fresh, challenges a random oracle | no key serves more blocks than the counter has values |
| `RefinementProofs!SchemeRefined`, `NoiseCorrect`, `BgvInvariant` | `bgv.cpp` implements `AdditiveEncryption`: messages decrypt, additions add modulo `p`, the parties reveal what the key decrypts; noise stays in the range of its additions | odd modulus; `NoiseBudget`: the noise of all additions and of all parties fits in half of the modulus |
| `ShuffleProofs!VerdictCorrect` | the verdict on a shuffle is the equality of the two products, blinded by the challenges, for every number of messages of either parity | commutative ring whose inversion succeeds exactly on units |
| `ShuffleProofs!MasksBlind`, `DataCorrect` | every published quotient comes from one mask only; commitments, quotients and proofs are related as intended at every step | as above |
| `ShuffleProofs!PrivateSecrets`, `FreshSecrets`, `SameChallenges` | the shuffle's secrets come from system keys, each from a position of its own, and both sides derive one challenge, whatever was rejected | `CounterLasts`: the masks of one shuffle fit under one key |
| `ContractProofs!AllInverted`, `AbortIsZeroDivisor` | the batch inversion inverts all messages or fails on a zero divisor | as `VerdictCorrect` |
| `ContractProofs!TypeCorrect`, `VerdictCorrect` | the verdict of the linear proof, for every key, statement, sampler and norm test | linear rows, proved of bdlop's keys by `CommitmentProofs!KeyRowsLinear` |
| `CommitmentProofs!OpeningExact`, `CollapsedApplied` | what a commitment opens to after any linear operations, and that collapsing a key commutes with applying it | commutative ring; shapes of `common.h`: `WIDTH >= HEIGHT + SIZE` |
| `CommitmentProofs!PathBinds`, `ColumnsBound` | at every index of the Merkle tree of `pismall.cpp` exactly the committed column and path verify, whatever is presented | `AEX_COLS` a power of two; ideal hash |
| `CommitmentProofs!AexInvariant`, `UnsetUnread` | prover and verifier of the exact proof succeed or fail at the same inversion, so nothing unset is read | challenges are elements of the Galois ring |
| `CommitmentProofs!AliasingHarmless`, `AliasesNeverMatter` | `gr_mul`, `gr_inv` and `gr_mul_nr` give the same result whatever variables coincide | distinct odd primes |
| `CommitmentProofs!BasisByDefinition`, `LagrangeValues` | the Lagrange basis computed with a single inversion fails exactly when `l_0` is a zero divisor, and otherwise consists of `l_0` and the `l_i` built at setup at that challenge | distinct odd primes, `p = 1 (mod 4 TAU)`, `TAU` a power of two |
| `PibndProofs!VerdictCorrect`, `TypeCorrect` | the first verdict is exact for every shape of the matrices, whatever they held before | commutative ring |
| `PolyInverseProofs!InverseCorrect`, `NoOverflow`, `SlotsInverted`, `SlotsDoNotOverflow` | the Euclidean loop inverts and stays within a word, alone and as `poly_inverse` calls it, in place | primality |
| `PolyInverseProofs!WordsStayInRange`, `TablesBelow`, `LayerStaysBelow` | no word of a whole transform, permutation, twist or inversion leaves its range | `BasisAssumption`: two bits of room, `p = 1 (mod 2n)`, roots and inverses of `n`, as the tables of `params.hpp` give |
| `PolyInverseProofs!InversesAreInverses`, `InverseInvariant`, `LayerKeeps`, `Poly2mpzIs` | what `simul_inverse` gets for a polynomial is its inverse modulo `X^n + 1` and the product of the moduli, reduced, and the zero check fails exactly for those that have none | `BasisAssumption`: as above, distinct primes, a degree of at least 4 that is a power of two |
| `PolyInverseProofs!KernelsCorrect`, `ShoupBelowTwice`, `MulmodExact` | the product kernels are exact, the lazy one within `2p` | room: `Pn * W + p^2 <= W^2`, which all moduli of `params.hpp` satisfy |
| `SamplersProofs!WeightCorrect` | each half of a challenge is one integer polynomial under all moduli, with exactly `Hwt` coefficients 1 or -1 | `degree`, `Hwt`, word range as `hwt_dist` needs |
| `SamplersProofs!FirstSetNever` | `hwt_dist` never selects the set of the first `Hwt` positions: what the run `hwt_subsets` shows holds for every size | as above, `Hwt < Degree` |
| `SamplersProofs!GaussianSampled`, `AcceptanceIsProbability`, `TestsIndependent` | density times acceptance is the Gaussian; the exponent is in the table; no byte or deviate is used twice | tables in range; laws of powers of two, see below |
| `SamplersProofs!PolynomialsCorrect` | `ZO_dist` is ternary under all moduli with `(rho + 1) / 2` bytes behind each sign; `uniform` returns residues, two masked words behind the small ones and one behind the others | `rho % 4 = 3` (the code uses `0x7F`) |
| `SamplersProofs!NormsCorrect` | norm tests measure the shortest integer polynomial and do not overflow | distinct odd primes; the bound fits a word |
| `ContractProofs!HashesTheMessage`, `ReadsTheStream` | the hash is that of the reference tree over the message, and every read a piece of its stream, for every cut, read, reset, mode, processor and length | two chaining values fill a block, a chunk is a power of two of at least two bytes, a message fits `size_t` and the depth of the stack; compression is a term (ideal) |
| `ContractProofs!HasherDetermined`, `StackIsBinary`, `HasherFits`, `ArraysSuffice` | the state of the hasher depends on the number of bytes only; its stack is the binary representation of the chunks and stays in its array, and so do the arrays of the recursion | as above |
| `ContractProofs!LanesCount` | groups, lanes and carries of every kernel give each input its own counter | words of an even number of values, at least 16 |

The theorems about a specification rest on inductive invariants, which are
stronger than what the runs check: what the runs check is not preserved by the
steps on its own.

- `FastRandom`: a system key is in use exactly outside challenges, the counter
  equals the blocks drawn under the key in use, what was handed out under it lies
  below the counter, and the partial challenge is a prefix of the digest's stream.
  Without the third part a draw could repeat a block.
- `Shuffle`, randomness (`IInv`): outside a challenge the generator is unkeyed or
  has a system key (`KeyDiscipline`); every secret lies below the blocks drawn
  under the key in use (`SecretsBelow`), which is what makes the next one fresh;
  the stream remembers `beta` at the position of the statement's transcript
  (`ChallengeRemembered`), so the verifier finds it there.
- `Shuffle`, data (`DInv`): commitment `j` hides the message of `j` and that
  before it under their masks (`CommitmentsHold`); quotient `j` was divided from the one before it
  (`QuotientsSolve`); each proof answers for its relation (`ProofsAnswer`); and the
  partial verdict is the conjunction of the relations seen so far (`VerdictSoFar`).
  The verdict follows because the relations telescope: each but the last holds by
  the choice of its quotient, so what the last one says is the alternating product
  of all, whose sign is that of the parity of `MSGS`.
- `SimulInverse`: below the counter the array still holds prefix products, above
  it inverses, and `w` is the inverse of the prefix at the counter.
- `LinProof`: while an attempt is in flight the first message belongs to the
  vectors in `y` and `_y`, later to some vectors that differ from the responses by
  the challenge times the randomness; the verifier's transcript is the one hashed.
- `Bdlop`: a commitment is that of its message under its key and randomness
  (`Committed`), through every subtraction and the collapse (the key keeps the
  identity block of its second rows up to then, `KeyBlock`), and an opening scales
  the same randomness by the factor (`Answered`). Sums over the columns are linear,
  and the collapse exchanges the sum over rows with that over columns.
- `Pismall` (`AexInv`): from the response on, the prover's challenge is the one the
  verifier will come to, because root and first commitment are those it asked with;
  hence the opening is set exactly if the inversion at that challenge succeeds, and
  the verifier passes its first check under the same condition. During the opening the
  tree is that of the encoded columns. `UnsetNeverRead` alone says nothing of an
  opening before it is read, and is not inductive.
- `Pismall`, basis (`BasisInv`): before the answer no basis value is set; afterwards
  they are what `aex_lagrange` gives for the challenge that was asked.
- `Bgv` (`BgvInv`): nothing is made before the keys (`KeysFirst`); the public key
  hides the secret one behind a ternary error (`KeyPair`), without which a
  fresh ciphertext need not decrypt; the shares add up to the key; a partial
  decryption is that of the ciphertext as it stands, with its party's share and noise
  below `BOUND_D` (`PartsAnswer`), which holds because nobody adds after the first
  partial decryption; and the centered value behind each ciphertext is in the range
  of its additions (`NoiseBounded`).
- `Pibnd`: during an attempt the digest is that of `A` applied to the masks in `Z`
  (`Answered`); once the response is given it is that of `A` applied to some matrix
  from which `Z` differs by `SC` (`Handed`). `A(Y + SC) - TC` is entrywise `AY + (AS - T)C`, by
  exchanging the sum over columns with that over relations (`SumsExchange`).
- `PolyInverse` (`PolyInv`): the width of the layer divides the degree, words are
  below `2p` inside a transform and below `p` outside, slots behind the counter
  are inverted and those ahead untouched, and the Euclidean loop is in its own
  invariant for the slot it works on: Bezout's identity for both pairs,
  alternating signs, and the determinant `|t1| * r + |t| * r1 = pm`, which bounds
  every coefficient and product.
- `PolyInverse`, values (`InverseInv`): for each modulus and each root `f` of
  `X^n + 1` whose powers its tables hold, what the words carry (`Progress`). On the
  way forth, with the coefficients times powers of `f` for `X`: between the layers,
  block `b` of `c` blocks has the values of `X` at those powers of `w = f^2` whose
  exponent is `b` with its bits reversed, modulo `c` (`BlocksHold`); after the last layer
  a word is one value (`Transformed`). In the slots, a word is the value or, behind the
  counters, its reciprocal. On the way back the same holds of the polynomial `Y` of the
  reciprocals and the inverse root, after the permutation has put them in order;
  the last product divides by the degree and the powers of `f` (`Taken`). The zero
  check has been right since it was made (`Verdict`). `InverseIsInverse` says nothing
  before the end, and is not inductive.
- `Samplers` (`SamplersInv`, with `Results`): the index into coins and that into
  deviates walk in step with the tests and everything ahead of them is unused
  (`UnusedAhead`); the argument under test is a deviate of the table
  (`Arguments`); the reservoir of `hwt_dist` holds distinct places below the
  candidate, and each finished polynomial is one of `Hwt` signs (`Reservoir`). For
  `FirstSetNever`: once a word was accepted, some place in the reservoir is not among
  the first `Hwt` (`Left`), because candidate `Hwt` comes in whatever its word is and
  only later candidates replace it. Nothing is said of equal numbers of words behind
  the choices of places; there are none.

- `Blake3` (`HasherInv`): the hasher is `StateAt` the number of bytes absorbed, in
  one of three shapes. Nothing absorbed: a new chunk and an empty stack. In an open
  chunk, of one byte up to a full one: its chaining value and buffer are those of
  the reference chain, and the stack is `Subtrees` of the chunks before it. On a chunk
  boundary that a whole subtree has reached: an empty chunk, and a stack whose last
  two entries are the halves of the last subtree, not yet merged (`Paired`).
  `HashIsReference` is not inductive: two stacks with one root may continue
  differently. For the last shape the next byte merges exactly the halves
  (`popcnt` of the counter says how many entries may stay), and if no byte follows,
  the fold in `blake3_hasher_finalize_seek` starts from their parent as root.

The arguments about data. A recursive function `f[k]` is first unfolded by a
lemma (`f[0]`, `f[k + 1]`). The library's induction theorems take the statement as
an operator and cannot be instantiated, so `RingTheorems!Induction` takes it as
the set of numbers it holds of, and follows from the existence of a least element
(`WFMin`). Partial products, sums of ring elements, powers in the tables and the
weight of a challenge are handled this way. Probabilities are numbers of draws: a
bijection with pairs of numbers gives the size of a set of words (`Rectangle`,
`Counted`). That residues modulo distinct primes have one integer behind them
follows from Bezout, with the greatest common divisor as the least positive
combination. Ranges of products are inequalities between products of numbers,
which the solver needs to be led through one factor at a time.

The tree of `Merkle` is an array of levels, addressed by offsets. `LevelsApart` shows
that no two levels overlap, so that a position belongs to one of them (`NodeAt`);
`JoinedAbove`, that the node above a leaf's ancestor joins it with its sibling, on
the side the index says. As hashes are ideal, equal joins have equal halves, and
from the root down to the leaf the recomputed hash and the committed one agree
exactly if all siblings and the column do (`PathBinds`). For `gr_mul` the cells that
each assignment writes are followed in order; Karatsuba's product is the schoolbook
one modulo `Q`, which the alias-free definition uses.

For `Bgv` the negacyclic product of integer polynomials is shown to be bilinear,
commutative (the sum read backwards, `SumReflected`) and associative (shifting a
product shifts one of its factors, `ShiftedProduct`), and to respect congruence
modulo `q`. What is behind a ciphertext is then congruent to a number small enough
to be the one that centering finds (`CentersShort`).

For `Blake3` the loop of `update` is followed pass by pass: `SubtreeLen` takes the
largest power of two of chunks that fits and divides the bytes absorbed, so the new
subtree stands where `Subtrees` puts it; the wide recursion returns the chaining
values of a row of such subtrees, from whichever processor, and `Condense` joins
neighbours until two are left (`WideTable`, `Node`). `Subtrees` of `n` is unfolded from
the low bit for merges and from the high bit for the fold, which yields the reference
tree's split at the largest power of two below the length.

For `PolyInverse` a butterfly splits a polynomial into the one with its values at
the even powers of the root and the one with those at the odd powers
(`Butterfly`), whatever the lazy ranges (`LayerHalves`), so a layer halves the blocks
and keeps what they carry (`LayerKeeps`). A root `w` of `X^m + 1`, `m` a power of
two, has order `2m` (`RootOrder`), its powers add up to zero (`RootSum`), and so the rows
of the transform are orthogonal to those of the inverse one (`Orthogonal`):
transforming the values at the inverse powers gives the coefficients back, times the degree
(`Inversion`). The points `f * w^j` are all the roots of `X^n + 1` (`PointsAreAll`), which
makes the zero check exact; at each of them the value of a product modulo `X^n + 1` is
the product of the values (`Convolution`), and a polynomial that is 1 at all of them is
1 (`AllOnes`). One coefficient after the other, a number that is 0 modulo every
prime of the basis is 0 modulo their product (`MultipleOfProduct`). The lifting
integers come from Bezout, and the reciprocal that `poly2mpz` multiplies by is
precise enough that one subtraction is left (`ReciprocalQuotient`, `ShiftIs`).

For `LagrangeIsBasis`, the multiples of a non-zero residue permute the non-zero
residues (Fermat), a polynomial has no more roots than its degree, and so the
search `RootOf` finds a number whose power is -1; the remainder theorem joins those
of the primes to one root of order `TAU` modulo `Q`. By induction over powers of two,
opposite powers paired, the differences `w^i - w^j` multiply to `TAU * w^(-i)`
(`DiffsMultiply`) and the factors `x - w^j` to `x^TAU - 1` in the Galois ring
(`DensMultiply`), which is what the code inverts. Its prefix products and its way back are
products over sets of nodes (`PrefixIs`, `BackwardsIs`), and two disjoint sets
multiply to their union (`OverBoth`).

The provers know nothing of `^`. That `TAU` is a power of two is therefore stated
through its divisors: each of them but 1 is even (`ExtractAssumption`). `CoinPowers` and one conjunct of
`SamplersAssumption` therefore state what a power of two is, `2^0 = 1` and
`2^(l + 1) = 2 * 2^l`, over the exponents that occur; TLC evaluates both.

Only model-checked:

- Liveness (`Returns`, `Terminates`, `EveryCallReturns`): fairness is beyond the
  prover.
- `VerdictIsRelation` of `Pismall`. It is stated for polynomials of any length, with
  what the opened columns show of the cubics; a proof needs what the transforms of
  the extraction evaluate and the linearity of the encoding for every size. How
  many columns a false statement can pass is a count, not an invariant.
- `KernelsAgree`, its order of mixing steps and its transpositions: they have no
  parameter, so the evaluation by TLC is exhaustive. Its third part, the
  counters, depends on the size of a word and is proved (`LanesCount`).

## 5. Disagreements between code and comments

- `core.hpp:364-382` draws the position for candidate `k` below `k` where reservoir
  sampling needs `k + 1` values; `core.hpp:363` says positions are selected
  uniformly. The set of the first `hwt` positions is never selected, because
  candidate `hwt` always replaces one of them (run `hwt_subsets`). The inclusive
  bound at `core.hpp:376` gives residue 0 one word more than every other; with
  64-bit words that is negligible.

- `poly.hpp:57` gives the probabilities of 1 and -1 in `ZO_dist` as `(rho/0xFF)/2`
  each. The comparison at `core.hpp:342` is inclusive: `(rho + 1) / 2` of 256 bytes
  stand for each, with `rho = 0x7F` a probability of 1/4 instead of 127/510.
- `core.hpp:142-143` says `uniform` sets coefficients uniformly at random. It masks a
  word and subtracts the modulus once (`core.hpp:173`), so residues below the mask's
  excess come from two masked words and the others from one. For the
  39-bit modulus 549701287937 the excess is 54525951, one residue in ten thousand.
- `common.h:18` calls `NONZERO` the largest l1-norm of a challenge;
  `bdlop_sample_chal` returns the difference of two polynomials that have
  `NONZERO` coefficients each, with norm up to `2 * NONZERO`.

The first of these is shown by a counterexample, and for every value of the
constants by the theorem `FirstSetNever`. For the others the properties state what
the code does, `OutcomesCounted` with the numbers behind each outcome and
`ExactWeight` with the weight of each of the two polynomials; both are proved.

Behaviour worth knowing, not in conflict with anything written:

- The norm test of `pibnd` transforms `Z` in place, so only the first verification
  of a proof sees it in the NTT domain. The repeated verifications of `bench()`
  work on coefficients, and in the instance none of them accepts.
- When an inversion fails, `pismall_prover` returns (`pismall.cpp:1316`) without
  having set the opened columns and paths. The verifier never reads them, but a
  caller that clears the opening would delete unset pointers (`Clear` leads to
  `"undefined"`); challenges that fail are too rare for the test to meet.

## 6. Not modelled

- AES itself; timing, output and the benchmark harness; failures of `/dev/urandom`.
- The sum of products with one reduction at the end (`muladd`), degrees 1 and 2,
  and 16-bit words: no binary uses them. Words of 32 bits occur in the plaintexts of
  `bgv.cpp` (`params::poly_p`), which are converted from and to integers and, in its
  test, added: `Transform` has the conversions for words of any width, `Words` the
  sum in signed lanes that an AVX2 build selects (`addmod_avx2`). The other
  vectorised kernels are for 16 and 32 bits, too, and no binary multiplies or
  transforms such a polynomial; for 64-bit words every build runs the scalar ones.
- Hand-written assembly of BLAKE3 for x86: it is modelled from the C files with
  intrinsics for the same instruction sets.
- Rounding errors of the Gaussian samplers' floating-point functions.
- NFLlib's `FastGaussianNoise`, `non_uniform` and `gaussian`, and the duplicates
  under `src/lib`: unused.
- FLINT and GMP: their operations are the mathematical ones.

## 7. Plan

Done: generator, inversion with words and transforms, shuffle, commitments, linear
relation, encryption, both amortised proofs, hash, samplers and norm tests, all
checked; proofs of all of these but the verdict of the exact proof.

What could follow, by importance:

1. The completeness half of the `VerdictIsRelation` of `Pismall`, from
   `LagrangeValues` and the linearity of `aex_encode`.
2. The extraction lemma of the linear proof: two accepted responses to one first
   message yield a relaxed opening.
3. Acceptance of `rej_sampling` as a comparison of inner products instead of a free
   choice, on the grid of `SampleZ`.
