---------------------------- MODULE SimulInverse ----------------------------
(***************************************************************************)
(* simul_inverse of shuffle.cpp: MSGS inversions for the price of one.     *)
(* The prefix products go into inv, their last one is inverted in place,   *)
(* and a backward pass turns each prefix product into the inverse of its   *)
(* message.  The output array holds prefix products and inverses at the    *)
(* same time, and every iteration reads the entry the next one overwrites. *)
(***************************************************************************)
EXTENDS RqRing

CONSTANT MSGS

ASSUME MsgsAssumption == MSGS \in Nat \ {0}

Index == 0 .. MSGS - 1

VARIABLES
  m,        \* the messages to invert
  inv,      \* out parameter: prefix products, then inverses
  inv_tmp,  \* the copy of the messages the backward pass reads
  w,        \* inverse of the product of the messages not yet done
  i,        \* loop counter
  phase

inverseVars == <<m, inv, inv_tmp, w, i, phase>>

InverseInit ==
  /\ m \in [Index -> R]
  /\ inv = [j \in Index |-> IF j = 0 THEN m[0] ELSE Zero]
  /\ inv_tmp = [j \in Index |-> IF j = 0 THEN m[0] ELSE Zero]
  /\ w = Zero
  /\ i = 1
  /\ phase = "forward"

\* One iteration of the first loop.
Multiply ==
  /\ phase = "forward"
  /\ i < MSGS
  /\ inv_tmp' = [inv_tmp EXCEPT ![i] = m[i]]
  /\ inv' = [inv EXCEPT ![i] = Times(inv[i - 1], m[i])]
  /\ i' = i + 1
  /\ UNCHANGED <<m, w, phase>>

\* Fault: the result of poly_inverse is not looked at.
InvertUnchecked ==
  /\ phase = "forward"
  /\ i >= MSGS
  /\ LET p == inv[MSGS - 1] IN w' = IF Unit(p) THEN Inv(p) ELSE p
  /\ phase' = "backward"
  /\ i' = MSGS - 1
  /\ UNCHANGED <<m, inv, inv_tmp>>

\* w = inv[MSGS - 1]; poly_inverse(w, w); assert(ok == 1).
InvertProduct ==
  /\ phase = "forward"
  /\ i >= MSGS
  /\ LET p == inv[MSGS - 1]
     IN  \/ /\ Unit(p)
            /\ w' = Inv(p)
            /\ phase' = "backward"
         \/ /\ ~Unit(p)
            /\ w' = p
            /\ phase' = "abort"
  /\ i' = MSGS - 1
  /\ UNCHANGED <<m, inv, inv_tmp>>

\* Fault: w is updated before the entry is written.
DivideSwapped ==
  /\ phase = "backward"
  /\ i > 0
  /\ w' = Times(w, inv_tmp[i])
  /\ inv' = [inv EXCEPT ![i] = Times(w', inv[i - 1])]
  /\ i' = i - 1
  /\ UNCHANGED <<m, inv_tmp, phase>>

\* Fault: the counter is not decremented.
DivideForever ==
  /\ phase = "backward"
  /\ i > 0
  /\ inv' = [inv EXCEPT ![i] = Times(w, inv[i - 1])]
  /\ w' = Times(w, inv_tmp[i])
  /\ UNCHANGED <<m, inv_tmp, i, phase>>

\* One iteration of the second loop.
Divide ==
  /\ phase = "backward"
  /\ i > 0
  /\ inv' = [inv EXCEPT ![i] = Times(w, inv[i - 1])]
  /\ w' = Times(w, inv_tmp[i])
  /\ i' = i - 1
  /\ UNCHANGED <<m, inv_tmp, phase>>

\* inv[0] = w.
Finish ==
  /\ phase = "backward"
  /\ i = 0
  /\ inv' = [inv EXCEPT ![0] = w]
  /\ phase' = "done"
  /\ UNCHANGED <<m, inv_tmp, w, i>>

Returned == phase \in {"done", "abort"} /\ UNCHANGED inverseVars

InverseNext == Multiply \/ InvertProduct \/ Divide \/ Finish \/ Returned

InverseSpec == InverseInit /\ [][InverseNext]_inverseVars /\ WF_inverseVars(Multiply \/ InvertProduct \/ Divide \/ Finish)
-----------------------------------------------------------------------------
\* Both arrays are total, and the counter stays within them on the way up and on
\* the way down, where the code counts with an unsigned size_t.
InverseTypeOK ==
  /\ m \in [Index -> R] /\ inv \in [Index -> R] /\ inv_tmp \in [Index -> R]
  /\ w \in R
  /\ i \in 0 .. MSGS
  /\ phase \in {"forward", "backward", "done", "abort"}

\* On return every inv[j] is the inverse of m[j], for every j at once.
InversesCorrect ==
  phase = "done" => \A j \in Index : Times(inv[j], m[j]) = One

\* The assertion on poly_inverse's result fires exactly when some message is a
\* zero divisor: one bad residue of one message, and never otherwise.
AbortsIffZeroDivisor ==
  /\ phase = "abort" => \E j \in Index : ~Unit(m[j])
  /\ phase = "done" => \A j \in Index : Unit(m[j])

\* The call returns or fails its assertion: the forward pass, the inversion and
\* the backward pass all come to an end.
Returns == <>(phase \in {"done", "abort"})

\* Entries below k still hold the prefix products m[0] * ... * m[j].
PrefixProducts(k) ==
  /\ inv[0] = m[0]
  /\ \A j \in 1 .. k - 1 : inv[j] = Times(inv[j - 1], m[j])

\* The inductive invariant: what the array holds on either side of the counter.
Forward ==
  phase \in {"forward", "abort"} =>
    LET k == IF phase = "forward" THEN i ELSE MSGS
    IN  /\ k \in 1 .. MSGS
        /\ PrefixProducts(k)
        /\ \A j \in 0 .. k - 1 : inv_tmp[j] = m[j]
        /\ (\A j \in 0 .. k - 1 : Unit(m[j])) => Unit(inv[k - 1])
        /\ phase = "abort" => ~Unit(inv[MSGS - 1])

Backward ==
  phase = "backward" =>
    /\ i \in Index
    /\ PrefixProducts(i + 1)
    /\ inv_tmp = m
    /\ Times(w, inv[i]) = One
    /\ \A j \in i + 1 .. MSGS - 1 : Times(inv[j], m[j]) = One

InverseInv == InverseTypeOK /\ Forward /\ Backward /\ InversesCorrect
=============================================================================
