------------------------------ MODULE SlotRing ------------------------------
(***************************************************************************)
(* params::poly_q in the NTT domain: one residue per modulus of the RNS    *)
(* basis and NTT position, here a function from slots to residues.  The    *)
(* kernels of ops.hpp (addmod, submod, mulmod) are modelled by the residue *)
(* they compute; poly_inverse and is_zero/equal quantify over every slot.  *)
(***************************************************************************)
EXTENDS Integers

CONSTANT Primes   \* the prime of each slot: a function from slots

Slots == DOMAIN Primes

ASSUME PrimesAssumption ==
  \A s \in Slots : /\ Primes[s] \in Nat /\ Primes[s] >= 2
                   /\ \A d \in 2 .. Primes[s] - 1 : Primes[s] % d # 0

Residues(s) == 0 .. Primes[s] - 1

Poly == {f \in [Slots -> UNION {Residues(s) : s \in Slots}] : \A s \in Slots : f[s] \in Residues(s)}

\* addmod: one addition and one conditional subtraction.
AddMod(x, y, p) == LET z == x + y IN IF z >= p THEN z - p ELSE z

\* submod: x + (p - y), reduced like addmod.
SubMod(x, y, p) == AddMod(x, p - y, p)

PolyZero == [s \in Slots |-> 0]
PolyOne == [s \in Slots |-> 1]
PolyAdd(a, b) == [s \in Slots |-> AddMod(a[s], b[s], Primes[s])]
PolySub(a, b) == [s \in Slots |-> SubMod(a[s], b[s], Primes[s])]
PolyMul(a, b) == [s \in Slots |-> (a[s] * b[s]) % Primes[s]]

\* poly_inverse succeeds when no residue is zero, and inverts each of them.
PolyUnit(a) == \A s \in Slots : a[s] # 0
PolyInverse(a) ==
  [s \in Slots |-> CHOOSE b \in 1 .. Primes[s] - 1 : (a[s] * b) % Primes[s] = 1]
=============================================================================
