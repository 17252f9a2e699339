----------------------------- MODULE MCPismall -----------------------------
(***************************************************************************)
(* Four relations over the smallest two primes with the roots of unity the *)
(* program needs for eight columns, 17 and 113, for both of which 3 is a   *)
(* non-residue as it is for the program's.                                 *)
(***************************************************************************)
EXTENDS Pismall

MCA == [row \in RowIx |-> [k \in Comps |-> [l \in Coeffs |-> 5 + 300 * k + 9 * l]]]

\* Witnesses from four values; targets off by what e adds to them.
Wit(a) == [i \in Nodes |-> [k \in Comps |-> [l \in Coeffs |-> IF (k + l) % 2 = 0 THEN a[i + 1] ELSE a[4 - i]]]]
Claim(w, e) ==
  [s |-> w,
   t |-> [i \in Nodes |-> [row \in RowIx |-> [l \in Coeffs |->
            Add(Apply(w[i])[row][l], e[i + 1])]]]]

Ternary == Wit(<<1, 0, Q - 1, 1>>)
None == <<0, 0, 0, 0>>

\* Two errors that cancel at the challenge 2: a false statement that is accepted.
Cancel == <<Sub(0, BasisAt(1, <<2, 0>>)[1]), BasisAt(0, <<2, 0>>)[1], 0, 0>>

\* A witness whose cubics show in every column but the first.
Unseen ==
  [i \in Nodes |-> [k \in Comps |-> [l \in Coeffs |->
     IF i = 0 /\ k = 0 THEN IF l = 0 THEN 462 ELSE 4 ELSE 0]]]

\* Three witnesses are not ternary, one of them modulo 113 only.
MCStatements ==
  {Claim(Ternary, None), Claim(Wit(<<Q - 1, Q - 1, 0, 0>>), None),
   Claim(Wit(<<1, 2, 0, 0>>), None), Claim(Wit(<<1, 18, 0, Q - 1>>), None), Claim(Unseen, None),
   Claim(Ternary, <<0, 0, 1, 0>>), Claim(Ternary, <<P0, 0, 0, 0>>), Claim(Ternary, Cancel)}

Draw(z, n) == (z * (7 * n + 11) * (n + 3)) % Q
MCMasks ==
  {[s0 |-> [k \in Comps |-> [l \in Coeffs |-> Draw(z, k + 1 + 5 * l)]],
    r0 |-> [n \in Opens |-> Draw(z, n + 10)],
    r |-> [i \in Nodes |-> [j \in Powers |-> [n \in Opens |-> Draw(z, 20 + 6 * i + 2 * j + n)]]],
    rh |-> [n \in Opens |-> Draw(z, n + 50)],
    h |-> [k \in Comps |-> [half \in 0 .. 1 |-> [l \in Coeffs |-> Draw(z, 60 + 2 * k + half + 9 * l)]]]]
   : z \in {0, 91}}

\* Challenges: in Z_q and outside, a node, a node modulo one prime only.
Points == {<<2, 0>>, <<4, 9>>, <<3, P0>>, <<Root, 0>>, <<Crt(Root % P0, 5), 0>>, <<1, P1>>}
MCChallenges ==
  {[x |-> x, beta0 |-> <<3, 1>>, beta |-> [e \in Pairs |-> <<Draw(5, e[1] + 4 * e[2]), 6 + e[1]>>]]
   : x \in Points}

MCColumnSets == {<<0, 0>>, <<1, 6>>, <<7, 2>>}
MCColumns == {[n \in Opens |-> c[n + 1]] : c \in MCColumnSets}
=============================================================================
