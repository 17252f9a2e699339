------------------------------ MODULE HwtDist ------------------------------
(***************************************************************************)
(* nfl::hwt_dist of NFLlib/include/nfl/core.hpp, twice, as                 *)
(* bdlop_sample_chal uses it: a reservoir of Hwt positions, words from the *)
(* generator accepted or rejected, one sign per position written under     *)
(* every modulus, and the difference of two such polynomials.              *)
(*                                                                         *)
(* "ways" is a history variable: how many sequences of accepted words lead *)
(* to each reservoir.  It makes the distribution a part of the state.      *)
(***************************************************************************)
EXTENDS SlotRing, Sequences, FiniteSets, FiniteSetsExt

CONSTANTS
  Hwt,       \* mode.hwt, NONZERO in common.h
  Degree,    \* coefficients of a polynomial
  WordMax    \* largest value of a random word

ASSUME HwtAssumption ==
  /\ Hwt \in Nat \ {0} /\ Degree \in Nat /\ Hwt <= Degree
  /\ WordMax \in Nat /\ WordMax >= Degree
  /\ \E nmoduli \in {1, 2, 3} : Slots = (1 .. nmoduli) \X (0 .. Degree - 1)

Positions == 0 .. Degree - 1
Words == 0 .. WordMax
Reservoirs == [0 .. Hwt - 1 -> Positions]

VARIABLES
  hitted,   \* the reservoir
  k,        \* position considered next
  left,     \* unread words in the buffer rnd
  ways,     \* history: number of word sequences behind each reservoir
  polys,    \* the polynomials finished so far, c0 and c1
  f,        \* their difference
  pc

vars == <<hitted, k, left, ways, polys, f, pc>>

First == [j \in 0 .. Hwt - 1 |-> j]
Start == [h \in Reservoirs |-> IF h = First THEN 1 ELSE 0]

\* Rejection sampling: the words that are taken for position n.
Accepted(n) == {w \in Words : w <= (WordMax \div n) * n}

\* The reservoir after word w was taken for position n.
Place(h, n, w) == IF w % n < Hwt THEN [h EXCEPT ![w % n] = n] ELSE h

\* All accepted words of position n, applied to all reservoirs.
Spread(n) ==
  [h2 \in Reservoirs |->
     MapThenSumSet(
       LAMBDA h : ways[h] * Cardinality({w \in Accepted(n) : Place(h, n, w) = h2}),
       {h \in Reservoirs : ways[h] > 0})]

Hit == {hitted[j] : j \in DOMAIN hitted}

\* Rank of a position after std::sort.
Rank(p) == Cardinality({q \in Hit : q < p})

\* Fault: the words are not read from the start again for the next modulus.
SignWordShifted(rnd, cm, p) == rnd[(Rank(p) + cm) % Hwt]

SignWord(rnd, cm, p) == rnd[Rank(p)]

\* Bit 1 of the word: set for 1, clear for -1, that is the modulus minus 1.
Signed(w, p) == IF (w \div 2) % 2 = 1 THEN 1 ELSE p - 1
-----------------------------------------------------------------------------
Init ==
  /\ hitted = First
  /\ k = Hwt
  /\ left = 0
  /\ ways = Start
  /\ polys = << >>
  /\ f = PolyZero
  /\ pc = "scan"

\* Fault: a position that is not put into the reservoir is considered again.
DrawAgain(w) ==
  /\ pc = "scan"
  /\ k < Degree
  /\ left' = (IF left = 0 THEN Hwt ELSE left) - 1
  /\ IF w \in Accepted(k)
       THEN IF w % k < Hwt
              THEN hitted' = Place(hitted, k, w) /\ ways' = Spread(k) /\ k' = k + 1
              ELSE UNCHANGED <<hitted, ways, k>>
       ELSE UNCHANGED <<hitted, ways, k>>
  /\ UNCHANGED <<polys, f, pc>>

\* One word: a new buffer if the old one is used up, then rejected or placed.
Draw(w) ==
  /\ pc = "scan"
  /\ k < Degree
  /\ left' = (IF left = 0 THEN Hwt ELSE left) - 1
  /\ IF w \in Accepted(k)
       THEN hitted' = Place(hitted, k, w) /\ ways' = Spread(k) /\ k' = k + 1
       ELSE UNCHANGED <<hitted, ways, k>>
  /\ UNCHANGED <<polys, f, pc>>

\* Sort, clear the polynomial, draw one word per position, write the signs; for
\* the first polynomial the second call of hwt_dist follows.
Write(rnd) ==
  LET c == [x \in Slots |-> IF x[2] \in Hit THEN Signed(SignWord(rnd, x[1], x[2]), Primes[x])
                            ELSE 0]
  IN  /\ pc = "scan"
      /\ k = Degree
      /\ polys' = Append(polys, c)
      /\ IF Len(polys) = 0
           THEN hitted' = First /\ k' = Hwt /\ ways' = Start /\ left' = 0 /\ pc' = pc
           ELSE UNCHANGED <<hitted, k, ways, left>> /\ pc' = "subtract"
      /\ UNCHANGED f

\* f = c0 - c1.
Subtract ==
  /\ pc = "subtract"
  /\ f' = PolySub(polys[1], polys[2])
  /\ pc' = "done"
  /\ UNCHANGED <<hitted, k, left, ways, polys>>

Stopped == pc = "done" /\ UNCHANGED vars

Next ==
  \/ \E w \in Words : Draw(w)
  \/ \E rnd \in [0 .. Hwt - 1 -> Words] : Write(rnd)
  \/ Subtract
  \/ Stopped

\* The words of the generator are independent, and at least half of them are
\* accepted: an endless run of rejections has probability 0.
Fairness ==
  /\ WF_vars(\E w \in Accepted(k) : Draw(w))
  /\ WF_vars((\E rnd \in [0 .. Hwt - 1 -> Words] : Write(rnd)) \/ Subtract)

Spec == Init /\ [][Next]_vars /\ Fairness
-----------------------------------------------------------------------------
\* The reservoir always holds positions below the one considered, the buffer is
\* never read past its end, and polynomials are reduced under every modulus.
TypeOK ==
  /\ hitted \in Reservoirs /\ k \in Hwt .. Degree
  /\ \A j \in DOMAIN hitted : hitted[j] < k
  /\ left \in 0 .. Hwt - 1
  /\ \A h \in Reservoirs : ways[h] \in Nat
  /\ Len(polys) <= 2 /\ \A j \in 1 .. Len(polys) : polys[j] \in Poly
  /\ f \in Poly
  /\ pc \in {"scan", "subtract", "done"}

\* c represents the integer polynomial g under every modulus.
Represents(c, g) == \A x \in Slots : c[x] = g[x[2]] % Primes[x]

L1(g) == MapThenSumSet(LAMBDA p : IF g[p] < 0 THEN -g[p] ELSE g[p], Positions)

\* Whatever the words were, each polynomial has exactly Hwt coefficients 1 or -1,
\* the same ones under every modulus, though signs are written modulus by modulus.
ExactWeight ==
  \A j \in 1 .. Len(polys) :
    \E g \in [Positions -> -1 .. 1] : Represents(polys[j], g) /\ L1(g) = Hwt

\* "Reservoir Sampling: uniformly select hwt coefficients" (core.hpp:363): at
\* the end all sets of Hwt positions have the same number of word sequences.
WaysTo(S) ==
  MapThenSumSet(LAMBDA h : ways[h], {h \in Reservoirs : {h[j] : j \in DOMAIN h} = S})
SubsetsEquallyLikely ==
  pc = "scan" /\ k = Degree =>
    \A S, T \in kSubset(Hwt, Positions) : WaysTo(S) = WaysTo(T)
=============================================================================
