-------------------------------- MODULE Bgv --------------------------------
(***************************************************************************)
(* bgv.cpp: BGV encryption with additive homomorphism and distributed      *)
(* decryption.  Polynomials are their coefficients (the NTT is a change of *)
(* representation in which products are negacyclic convolutions), with the *)
(* modulus small enough that noise can reach half of it.                   *)
(*                                                                         *)
(* bgv_decrypt changes no state: it is the operator Decrypt, which maps a  *)
(* ciphertext to the plaintext of the abstract specification.              *)
(***************************************************************************)
EXTENDS Integers

CONSTANTS
  Degree, Modulus,  \* of params::poly_q
  PRIMEP, PARTIES, BoundD,
  Ternary,          \* values of nfl::ZO_dist, coefficients in -1 .. 1
  Uniform,          \* values of nfl::uniform
  Messages,         \* values of bgv_sample_message
  MaxAdds           \* bound on homomorphic additions

Positions == 0 .. Degree - 1
Poly == [Positions -> 0 .. Modulus - 1]
Plain == [Positions -> 0 .. PRIMEP - 1]

ASSUME BgvAssumption ==
  /\ Degree \in Nat \ {0} /\ Modulus \in Nat /\ Modulus % 2 = 1
  /\ PRIMEP \in Nat \ {0} /\ PARTIES \in Nat \ {0} /\ BoundD \in Nat \ {0} /\ MaxAdds \in Nat
  /\ Ternary \subseteq [Positions -> -1 .. 1] /\ Uniform \subseteq Poly
  /\ Messages \subseteq Plain

\* What the scheme needs of its parameters: the noise of all additions, e * r +
\* e2 - key * e1 each time, and of all parties, which is subtracted and never
\* negative, stays within half of the modulus.
FreshNoise == PRIMEP * (2 * Degree + 1)
ASSUME NoiseBudget ==
  /\ (MaxAdds + 1) * (FreshNoise + PRIMEP - 1) <= Modulus \div 2
  /\ (MaxAdds + 1) * FreshNoise + PARTIES * PRIMEP * (BoundD - 1) <= Modulus \div 2

VARIABLES
  sk, pk,   \* key pair, pk = [a, b]
  s,        \* key shares
  c1, c2,   \* ciphertexts [u, v]
  adds,     \* additions so far
  t,        \* partial decryptions, a function from the parties that sent one
  m,        \* result of bgv_comb
  asked     \* the last message given to bgv_encrypt

bgvVars == <<sk, pk, s, c1, c2, adds, t, m, asked>>

None == << >>
Parties == 0 .. PARTIES - 1

Reduce(f) == [i \in Positions |-> f[i] % Modulus]
Add(f, g) == [i \in Positions |-> (f[i] + g[i]) % Modulus]
Sub(f, g) == [i \in Positions |-> (f[i] - g[i]) % Modulus]
Scale(n, f) == [i \in Positions |-> (n * f[i]) % Modulus]

\* f[0] + ... + f[n - 1].
SumOf(f, n) == LET g[k \in 0 .. n] == IF k = 0 THEN 0 ELSE g[k - 1] + f[k - 1] IN g[n]

\* X^Degree = -1: what stands at place k of g, from 1 - Degree on.
Wrapped(g, k) == IF k >= 0 THEN g[k] ELSE -g[Degree + k]
Product(f, g) == [i \in Positions |-> SumOf([j \in Positions |-> f[j] * Wrapped(g, i - j)], Degree)]
Mul(f, g) == Reduce(Product(f, g))

\* f - g[1] - ... - g[n], the loops of bgv_keyshare and bgv_comb.
Less(f, g, n) == LET d[k \in 0 .. n] == IF k = 0 THEN f ELSE Sub(d[k - 1], g[k]) IN d[n]

\* Fault: coefficients are taken modulo p without centering them first.
ToPlainUncentered(f) == [i \in Positions |-> f[i] % PRIMEP]

Center(x) == IF x > Modulus \div 2 THEN x - Modulus ELSE x

\* Every coefficient centered, then reduced modulo p.
ToPlain(f) == [i \in Positions |-> Center(f[i]) % PRIMEP]

Decrypt(c, key) == ToPlain(Sub(c.v, Mul(key, c.u)))

\* Noise of one partial decryption: a uniform value, centered, modulo BOUND_D.
Smudge(f) == [i \in Positions |-> Center(f[i]) % BoundD]
-----------------------------------------------------------------------------
BgvInit ==
  /\ sk = None /\ pk = None /\ s = None /\ c1 = None /\ c2 = None
  /\ adds = 0 /\ t = None /\ m = None /\ asked = None

KeyGen ==
  /\ pk = None
  /\ \E e, key \in Ternary, a \in Uniform :
       /\ sk' = Reduce(key)
       /\ pk' = [a |-> a, b |-> Add(Mul(a, sk'), Scale(PRIMEP, e))]
  /\ UNCHANGED <<s, c1, c2, adds, t, m, asked>>

\* All shares but the first are uniform, the first is the rest of the key.
KeyShare ==
  /\ pk # None /\ s = None
  /\ \E rest \in [Parties \ {0} -> Uniform] :
       s' = [j \in Parties |-> IF j = 0 THEN Less(sk, rest, PARTIES - 1) ELSE rest[j]]
  /\ UNCHANGED <<sk, pk, c1, c2, adds, t, m, asked>>

\* Fault: the loop adds the errors once too often.
EncryptionsOnceMore(x) ==
  {[u |-> Add(Mul(pk.a, r), Scale(PRIMEP + 1, e1)),
    v |-> Add(Add(Mul(pk.b, r), Scale(PRIMEP + 1, e2)), x)] : e1, e2, r \in Ternary}

\* The ciphertexts bgv_encrypt can return for x.
Encryptions(x) ==
  {[u |-> Add(Mul(pk.a, r), Scale(PRIMEP, e1)),
    v |-> Add(Add(Mul(pk.b, r), Scale(PRIMEP, e2)), x)] : e1, e2, r \in Ternary}

EncryptFirst(x) ==
  /\ pk # None /\ c1 = None
  /\ c1' \in Encryptions(x) /\ asked' = x
  /\ UNCHANGED <<sk, pk, s, c2, adds, t, m>>

EncryptSecond(x) ==
  /\ pk # None /\ c2 = None
  /\ c2' \in Encryptions(x) /\ asked' = x
  /\ UNCHANGED <<sk, pk, s, c1, adds, t, m>>

\* bgv_add(c1, c1, c2), before anyone decrypts c1.
HomAdd ==
  /\ c1 # None /\ c2 # None /\ t = None
  /\ adds < MaxAdds
  /\ c1' = [u |-> Add(c1.u, c2.u), v |-> Add(c1.v, c2.v)]
  /\ adds' = adds + 1
  /\ UNCHANGED <<sk, pk, s, c2, t, m, asked>>

\* bgv_distdec of party j; the parties answer in any order.
DistDec(j) ==
  /\ s # None /\ c1 # None
  /\ j \in Parties \ DOMAIN t
  /\ \E f \in Uniform :
       LET tj == Add(Mul(s[j], c1.u), Scale(PRIMEP, Smudge(f)))
       IN  t' = [k \in DOMAIN t \cup {j} |-> IF k = j THEN tj ELSE t[k]]
  /\ UNCHANGED <<sk, pk, s, c1, c2, adds, m, asked>>

Comb ==
  /\ DOMAIN t = Parties
  /\ m' = ToPlain(Less(Sub(c1.v, t[0]), t, PARTIES - 1))
  /\ UNCHANGED <<sk, pk, s, c1, c2, adds, t, asked>>

BgvNext ==
  \/ KeyGen
  \/ KeyShare
  \/ \E x \in Messages : EncryptFirst(x)
  \/ \E x \in Messages : EncryptSecond(x)
  \/ HomAdd
  \/ \E j \in Parties : DistDec(j)
  \/ Comb

BgvSpec == BgvInit /\ [][BgvNext]_bgvVars
-----------------------------------------------------------------------------
\* The polynomials in f add up to g.
Adds(f, g) ==
  \A i \in Positions : SumOf([j \in Parties |-> f[j][i]], PARTIES) % Modulus = g[i]

\* Polynomials are reduced, and whoever misses one share misses the key: the
\* shares add up to it ("acc == sk" in test(), bgv.cpp:278).
BgvTypeOK ==
  /\ pk # None => sk \in Poly /\ pk.a \in Poly /\ pk.b \in Poly
  /\ s # None => s \in [Parties -> Poly] /\ Adds(s, sk)
  /\ \A c \in {c1, c2} \ {None} : c.u \in Poly /\ c.v \in Poly
  /\ adds \in 0 .. MaxAdds
  /\ DOMAIN t \subseteq Parties /\ \A j \in DOMAIN t : t[j] \in Poly
  /\ m = None \/ m \in Plain
  /\ asked = None \/ asked \in Messages

\* The centered value behind a ciphertext never leaves the range its additions
\* allow, however key, randomness and errors of the two encryptions combine.
Behind(c, n) ==
  LET f == Sub(c.v, Mul(sk, c.u))
  IN  \A i \in Positions : Center(f[i]) \in -(n * FreshNoise) .. n * (FreshNoise + PRIMEP - 1)
NoiseBounded == (c1 # None => Behind(c1, adds + 1)) /\ (c2 # None => Behind(c2, 1))

\* The inductive invariant: nothing is made before the keys are; the public key
\* hides the secret one behind a short error; a partial decryption is that of the
\* ciphertext as it stands, with its own share and a small noise.
KeysFirst == pk = None => s = None /\ c1 = None /\ c2 = None

KeyPair ==
  pk # None => \E key, e \in Ternary :
    sk = Reduce(key) /\ pk = [a |-> pk.a, b |-> Add(Mul(pk.a, sk), Scale(PRIMEP, e))]

PartsAnswer ==
  \A j \in DOMAIN t :
    /\ s # None /\ c1 # None
    /\ \E E \in [Positions -> 0 .. BoundD - 1] : t[j] = Add(Mul(s[j], c1.u), Scale(PRIMEP, E))

BgvInv == BgvTypeOK /\ KeysFirst /\ KeyPair /\ PartsAnswer /\ NoiseBounded

\* Every encryption, addition, partial decryption and combination is a step of
\* additive encryption on the decrypted values: a fresh ciphertext decrypts to the
\* message it was made from, additions add plaintexts modulo p, and what the
\* parties combine is what the key would decrypt.
Plaintext(c) == IF c = None THEN None ELSE Decrypt(c, sk)
PlainAdd(x, y) == [i \in Positions |-> (x[i] + y[i]) % PRIMEP]
Scheme == INSTANCE AdditiveEncryption WITH
  Absent <- None, Holders <- Parties,
  first <- Plaintext(c1), second <- Plaintext(c2),
  helped <- DOMAIN t, out <- m
ImplementsScheme == Scheme!AbstractSpec
=============================================================================
