------------------------------ MODULE BdlopKey ------------------------------
(***************************************************************************)
(* The linear algebra of the commitment scheme of bdlop.cpp: vectors of    *)
(* WIDTH ring elements, and the rows of a commitment key applied to them.  *)
(* HEIGHT is 1 in common.h, so the first block of the key is one row whose *)
(* leading entry is 1 and not stored.                                      *)
(***************************************************************************)
EXTENDS RqRing

CONSTANTS WIDTH,   \* columns of the key, length of a randomness vector
          SIZE     \* rows of the second block, largest number of messages

HEIGHT == 1

ASSUME KeyShape == SIZE \in Nat \ {0} /\ WIDTH \in Nat /\ WIDTH >= HEIGHT + SIZE

Cols == 0 .. WIDTH - 1
Rows == 0 .. SIZE - 1
Vec == [Cols -> R]

VecAdd(v, w) == [j \in Cols |-> Plus(v[j], w[j])]
VecScale(b, v) == [j \in Cols |-> Times(b, v[j])]

\* A1 * v: v[0] plus the stored entries times the rest.
RowOne(A1, v) ==
  Plus(v[0], Sum([j \in 0 .. WIDTH - HEIGHT - 1 |-> Times(A1[j], v[j + HEIGHT])],
                 WIDTH - HEIGHT))

\* One row of the second block times v.
RowTwo(row, v) == Sum([j \in Cols |-> Times(row[j], v[j])], WIDTH)
=============================================================================
