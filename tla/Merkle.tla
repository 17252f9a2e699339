------------------------------- MODULE Merkle -------------------------------
(***************************************************************************)
(* The column commitment of pismall.cpp: a binary tree over the hashes of  *)
(* the AEX_COLS columns, its levels concatenated from the leaves up in one *)
(* array, the path of sibling hashes of a leaf, and its verification.  The *)
(* hash is ideal: a digest is the input it was computed from.              *)
(***************************************************************************)
EXTENDS Integers

CONSTANT AEX_COLS

\* n >>= 1, lvl times.
Halved(n, lvl) == LET h[k \in 0 .. lvl] == IF k = 0 THEN n ELSE h[k - 1] \div 2 IN h[lvl]

\* Nodes of a level, and the position of its first node in the array.
Width(lvl) == Halved(AEX_COLS, lvl)
Offset(lvl) ==
  LET off[k \in 0 .. lvl] == IF k = 0 THEN 0 ELSE off[k - 1] + Width(k - 1)
  IN  off[lvl]

\* The loops end with the level of one node; every level before it has pairs only.
IsTop(k) == Width(k) = 1 /\ \A lvl \in 0 .. k - 1 : Width(lvl) % 2 = 0

\* AEX_COLS is a power of two.
ASSUME ColsAssumption == AEX_COLS \in Nat /\ \E k \in 0 .. AEX_COLS : IsTop(k)

Columns == 0 .. AEX_COLS - 1
Depth == CHOOSE k \in 0 .. AEX_COLS : IsTop(k)
aex_tree_nodes == Offset(Depth) + 1

aex_hash_column(col) == <<"column", col>>
aex_node(l, r) == <<"node", l, r>>

\* The hashes of level k from those of the level below.
Parents(below, k) == [i \in 0 .. Width(k) - 1 |-> aex_node(below[2 * i], below[2 * i + 1])]

\* The hashes of a level.
LevelHashes(columns, lvl) ==
  LET hash[k \in 0 .. lvl] ==
        IF k = 0 THEN [i \in Columns |-> aex_hash_column(columns[i])] ELSE Parents(hash[k - 1], k)
  IN  hash[lvl]

\* The level that position x of the array belongs to.
LevelOf(x) == CHOOSE lvl \in 0 .. Depth : x - Offset(lvl) \in 0 .. Width(lvl) - 1

aex_tree_build(columns) ==
  [x \in 0 .. aex_tree_nodes - 1 |-> LevelHashes(columns, LevelOf(x))[x - Offset(LevelOf(x))]]

aex_tree_root(node) == node[aex_tree_nodes - 1]

\* Sibling of node i of its level.
Sibling(i) == IF i % 2 = 1 THEN i - 1 ELSE i + 1

aex_path(node, c) ==
  [lvl \in 0 .. Depth - 1 |-> node[Offset(lvl) + Sibling(Halved(c, lvl))]]

\* Fault: every level looks at the lowest bit of the leaf's own index.
JoinLowestBit(acc, sib, c, lvl) == IF c % 2 = 1 THEN aex_node(sib, acc) ELSE aex_node(acc, sib)

\* One level of the recomputation: the node's own side decides the order.
Join(acc, sib, c, lvl) ==
  IF Halved(c, lvl) % 2 = 1 THEN aex_node(sib, acc) ELSE aex_node(acc, sib)

\* acc after lvl passes of the loop.
Recomputed(col, path, c, lvl) ==
  LET acc[k \in 0 .. lvl] ==
        IF k = 0 THEN aex_hash_column(col) ELSE Join(acc[k - 1], path[k - 1], c, k - 1)
  IN  acc[lvl]

aex_path_verify(col, path, c, root) == Recomputed(col, path, c, Depth) = root
=============================================================================
