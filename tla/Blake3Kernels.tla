---------------------------- MODULE Blake3Kernels ---------------------------
(***************************************************************************)
(* The compression and the many-input kernels of BLAKE3, one set for each  *)
(* instruction set: what they compute is the same, the order in which they *)
(* load, permute and mix is not.                                           *)
(*                                                                         *)
(* A mixing step is an event: the four cells of the 4x4 state it reads and *)
(* writes, the message word it adds and which half of G it is.  Events on  *)
(* disjoint cells commute, so two kernels compute the same function when   *)
(* every cell sees the same events in the same order (Trace).              *)
(*                                                                         *)
(* Vectors are sequences of lanes, lane 0 first; a shuffle is written with *)
(* its sources in lane order, the reverse of _MM_SHUFFLE.  A 32-bit word   *)
(* of the block counter is a number below WORD.                            *)
(***************************************************************************)
EXTENDS Integers, Sequences, SequencesExt

CONSTANT WORD  \* stands for 2^32

ASSUME WordAssumption == WORD \in Nat /\ WORD >= 16 /\ WORD % 2 = 0

Cells == 0..15

MSG_SCHEDULE ==
  << <<0, 1, 2, 3, 4, 5, 6, 7, 8, 9, 10, 11, 12, 13, 14, 15>>,
     <<2, 6, 3, 10, 7, 0, 4, 13, 1, 11, 12, 5, 9, 14, 15, 8>>,
     <<3, 4, 10, 12, 13, 2, 7, 14, 6, 5, 9, 0, 11, 15, 8, 1>>,
     <<10, 7, 12, 9, 14, 3, 13, 15, 4, 0, 11, 2, 5, 8, 1, 6>>,
     <<12, 13, 9, 11, 15, 10, 14, 8, 7, 2, 5, 3, 0, 1, 6, 4>>,
     <<9, 14, 11, 5, 8, 12, 15, 1, 13, 3, 0, 10, 2, 6, 4, 7>>,
     <<11, 15, 5, 0, 1, 9, 8, 6, 14, 10, 2, 12, 3, 4, 7, 13>> >>

Columns == << <<0, 4, 8, 12>>, <<1, 5, 9, 13>>, <<2, 6, 10, 14>>, <<3, 7, 11, 15>> >>
Diagonals == << <<0, 5, 10, 15>>, <<1, 6, 11, 12>>, <<2, 7, 8, 13>>, <<3, 4, 9, 14>> >>

Half(cells, word, rotations) == [cells |-> cells, word |-> word, rotations |-> rotations]
First == <<16, 12>>
Second == <<8, 7>>

\* The events of a cell, in their order.
Trace(events) ==
  [c \in Cells |-> SelectSeq(events, LAMBDA e : \E i \in 1..4 : e.cells[i] = c)]

-----------------------------------------------------------------------------
(* One block at a time.                                                    *)

g(cells, x, y) == <<Half(cells, x, First), Half(cells, y, Second)>>

round_fn(s) ==
  FlattenSeq([i \in 1..4 |-> g(Columns[i], s[2 * i - 1], s[2 * i])])
    \o FlattenSeq([i \in 1..4 |-> g(Diagonals[i], s[2 * i + 7], s[2 * i + 8])])

PortableEvents == FlattenSeq([r \in 1..7 |-> round_fn(MSG_SCHEDULE[r])])

shuffle(a, p) == [i \in 1..4 |-> a[p[i] + 1]]
shuffle2(a, b, p) == <<a[p[1] + 1], a[p[2] + 1], b[p[3] + 1], b[p[4] + 1]>>
blend(a, b, fromB) == [i \in 1..4 |-> IF i - 1 \in fromB THEN b[i] ELSE a[i]]

\* unpacklo and unpackhi work inside each 128-bit group of four lanes.
Group(i) == 4 * ((i - 1) \div 4)
unpack32(a, b, hi) ==
  [i \in DOMAIN a |-> LET p == (i - 1) % 4
                          k == Group(i) + hi + (p \div 2) + 1
                      IN IF p % 2 = 0 THEN a[k] ELSE b[k]]
unpack64(a, b, hi) ==
  [i \in DOMAIN a |-> LET p == (i - 1) % 4
                          k == Group(i) + hi + (p % 2) + 1
                      IN IF p < 2 THEN a[k] ELSE b[k]]
Lo == 0
Hi == 2

\* The message vectors of round 1 from the block, and of a later round from
\* those of the round before.
FirstWords(m) ==
  <<shuffle2(m[1], m[2], <<0, 2, 0, 2>>), shuffle2(m[1], m[2], <<1, 3, 1, 3>>),
    shuffle(shuffle2(m[3], m[4], <<0, 2, 0, 2>>), <<3, 0, 1, 2>>),
    shuffle(shuffle2(m[3], m[4], <<1, 3, 1, 3>>), <<3, 0, 1, 2>>)>>

NextWords(m) ==
  <<shuffle(shuffle2(m[1], m[2], <<2, 1, 1, 3>>), <<1, 2, 3, 0>>),
    blend(shuffle(m[1], <<3, 3, 0, 0>>), shuffle2(m[3], m[4], <<2, 2, 3, 3>>), {1, 3}),
    shuffle(blend(unpack64(m[4], m[2], Lo), m[3], {3}), <<0, 2, 3, 1>>),
    shuffle(unpack32(m[3], unpack32(m[2], m[4], Hi), Lo), <<2, 3, 1, 0>>)>>

RoundWords[r \in 1..7] ==
  IF r = 1 THEN FirstWords([v \in 1..4 |-> [l \in 1..4 |-> 4 * (v - 1) + l - 1]])
           ELSE NextWords(RoundWords[r - 1])

diagonalize(rows) ==
  <<shuffle(rows[1], <<3, 0, 1, 2>>), rows[2],
    shuffle(rows[3], <<1, 2, 3, 0>>), shuffle(rows[4], <<2, 3, 0, 1>>)>>

undiagonalize(rows) ==
  <<shuffle(rows[1], <<1, 2, 3, 0>>), rows[2],
    shuffle(rows[3], <<3, 0, 1, 2>>), shuffle(rows[4], <<2, 3, 0, 1>>)>>

Mix(rows, words, rotations) ==
  [l \in 1..4 |-> Half([k \in 1..4 |-> rows[k][l]], words[l], rotations)]

RowRound(rows, t) ==
  Mix(rows, t[1], First) \o Mix(rows, t[2], Second)
    \o Mix(diagonalize(rows), t[3], First) \o Mix(diagonalize(rows), t[4], Second)

Rows[r \in 1..7] ==
  IF r = 1 THEN [k \in 1..4 |-> [l \in 1..4 |-> 4 * (k - 1) + l - 1]]
           ELSE undiagonalize(diagonalize(Rows[r - 1]))

RowEvents == FlattenSeq([r \in 1..7 |-> RowRound(Rows[r], RoundWords[r])])

\* The SSE2, SSE4.1 and AVX-512 sources spell the same rounds out.
CompressSse2 == RowEvents
CompressSse41 == RowEvents
CompressAvx512 == RowEvents

-----------------------------------------------------------------------------
(* Many inputs at a time: lane i of every vector belongs to input i.       *)

\* Four half steps side by side, one word each, then the other half.
Pass(cells, s, first, rotations) ==
  [i \in 1..4 |-> Half(cells[i], s[first + 2 * (i - 1) + 1], rotations)]

LaneRound(s) ==
  Pass(Columns, s, 0, First) \o Pass(Columns, s, 1, Second)
    \o Pass(Diagonals, s, 8, First) \o Pass(Diagonals, s, 9, Second)

LaneEvents == FlattenSeq([r \in 1..7 |-> LaneRound(MSG_SCHEDULE[r])])

RoundsSse2 == LaneEvents
RoundsSse41 == LaneEvents
RoundsAvx2 == LaneEvents
Rounds4Avx512 == LaneEvents
Rounds8Avx512 == LaneEvents
Rounds16Avx512 == LaneEvents
RoundsNeon == LaneEvents

Transpose4(v) ==
  LET ab(h) == unpack32(v[1], v[2], h)
      cd(h) == unpack32(v[3], v[4], h)
  IN <<unpack64(ab(Lo), cd(Lo), Lo), unpack64(ab(Lo), cd(Lo), Hi),
       unpack64(ab(Hi), cd(Hi), Lo), unpack64(ab(Hi), cd(Hi), Hi)>>

\* trn pairs the lanes of two vectors, even lanes first.
TransposeNeon(v) ==
  LET trn(a, b, odd) == <<a[1 + odd], b[1 + odd], a[3 + odd], b[3 + odd]>>
      combine(from, odd) == SubSeq(trn(v[1], v[2], odd), from, from + 1)
                              \o SubSeq(trn(v[3], v[4], odd), from, from + 1)
  IN <<combine(1, 0), combine(1, 1), combine(3, 0), combine(3, 1)>>

\* The vectors of four inputs, four lanes at a time: quad q, row k.
Quad(v, q, k) ==
  LET s == 4 * (q - 1)
      h == IF k <= 2 THEN Lo ELSE Hi
  IN unpack64(unpack32(v[s + 1], v[s + 2], h), unpack32(v[s + 3], v[s + 4], h),
              IF k % 2 = 1 THEN Lo ELSE Hi)

Transpose8(v) ==
  [i \in 1..8 |->
    LET half == (i - 1) \div 4
        k == ((i - 1) % 4) + 1
        part(a) == SubSeq(a, 4 * half + 1, 4 * half + 4)
    IN part(Quad(v, 1, k)) \o part(Quad(v, 2, k))]

TransposeAvx2(v) == Transpose8(v)
Transpose8Avx512(v) == Transpose8(v)

\* shuffle_i32x4: the even (or odd) 128-bit groups of a, then those of b.
unpack128(a, b, odd) ==
  LET group(x, i) == SubSeq(x, 4 * i + 1, 4 * i + 4)
  IN group(a, odd) \o group(a, odd + 2) \o group(b, odd) \o group(b, odd + 2)

Transpose16(v) ==
  LET Octet(first, i) == unpack128(Quad(v, first, ((i - 1) % 4) + 1),
                                   Quad(v, first + 1, ((i - 1) % 4) + 1),
                                   (i - 1) \div 4)
  IN [i \in 1..16 |-> LET j == ((i - 1) % 8) + 1
                      IN unpack128(Octet(1, j), Octet(3, j), (i - 1) \div 8)]

\* The words of one block of every input become vectors, and the state
\* vectors become chaining values again: both by blocks of `width` vectors.
MessageVectors(transpose(_), width) ==
  FlattenSeq([b \in 1..(16 \div width) |->
    transpose([i \in 1..width |->
      [l \in 1..width |-> [input |-> i, word |-> width * (b - 1) + l - 1]]])])

-----------------------------------------------------------------------------
(* The block counters of the lanes.                                        *)

Low(counter) == counter % WORD
High(counter) == (counter \div WORD) % WORD

Flip(x) == (x + WORD \div 2) % WORD
Signed(x) == IF x < WORD \div 2 THEN x ELSE x - WORD
Delta(lane, increment) == IF increment THEN lane ELSE 0

\* Mutant: the comparison is signed, but the bits are not flipped.
SignedCarryUnflipped(counter, lane, increment) ==
  LET d == Delta(lane, increment)
      l == (Low(counter) + d) % WORD
  IN <<l, (High(counter) + (IF Signed(d) > Signed(l) THEN 1 ELSE 0)) % WORD>>

\* The carry is found by a signed comparison of both sides with their top
\* bit flipped.
SignedCarry(counter, lane, increment) ==
  LET d == Delta(lane, increment)
      l == (Low(counter) + d) % WORD
      carry == IF Signed(Flip(d)) > Signed(Flip(l)) THEN 1 ELSE 0
  IN <<l, (High(counter) + carry) % WORD>>

UnsignedCarry(counter, lane, increment) ==
  LET d == Delta(lane, increment)
      l == (Low(counter) + d) % WORD
  IN <<l, (High(counter) + (IF l < d THEN 1 ELSE 0)) % WORD>>

WideSum(counter, lane, increment) ==
  <<Low(counter + Delta(lane, increment)), High(counter + Delta(lane, increment))>>

CountersSse2(counter, lane, inc) == SignedCarry(counter, lane, inc)
CountersSse41(counter, lane, inc) == SignedCarry(counter, lane, inc)
CountersAvx2(counter, lane, inc) == SignedCarry(counter, lane, inc)
Counters4Avx512(counter, lane, inc) == WideSum(counter, lane, inc)
Counters8Avx512(counter, lane, inc) == WideSum(counter, lane, inc)
Counters16Avx512(counter, lane, inc) == UnsignedCarry(counter, lane, inc)
CountersNeon(counter, lane, inc) == WideSum(counter, lane, inc)

-----------------------------------------------------------------------------
(* hash_many of every instruction set: as many inputs as its widest kernel *)
(* takes, then the next, and single blocks at the end.                     *)

Kernels == {"portable", "sse2", "sse41", "avx2", "avx512", "neon"}

HashManySse2 == <<4>>
HashManySse41 == <<4>>
HashManyAvx2 == <<8>> \o HashManySse41
HashManyAvx512 == <<16, 8, 4>>
HashManyNeon == <<4>>

Widths(kernel) ==
  CASE kernel = "portable" -> <<>>
    [] kernel = "sse2" -> HashManySse2
    [] kernel = "sse41" -> HashManySse41
    [] kernel = "avx2" -> HashManyAvx2
    [] kernel = "avx512" -> HashManyAvx512
    [] kernel = "neon" -> HashManyNeon

LaneCounter(kernel, width, counter, lane, inc) ==
  CASE width = 1 -> <<Low(counter), High(counter)>>
    [] width > 1 /\ kernel = "sse2" -> CountersSse2(counter, lane, inc)
    [] width > 1 /\ kernel = "sse41" -> CountersSse41(counter, lane, inc)
    [] width = 8 /\ kernel = "avx2" -> CountersAvx2(counter, lane, inc)
    [] width = 4 /\ kernel = "avx2" -> CountersSse41(counter, lane, inc)
    [] width = 16 /\ kernel = "avx512" -> Counters16Avx512(counter, lane, inc)
    [] width = 8 /\ kernel = "avx512" -> Counters8Avx512(counter, lane, inc)
    [] width = 4 /\ kernel = "avx512" -> Counters4Avx512(counter, lane, inc)
    [] width > 1 /\ kernel = "neon" -> CountersNeon(counter, lane, inc)

\* Inputs that the first k loops take, every one as many groups of its width
\* as are left for it.
Taken(widths, n, k) ==
  LET taken[j \in 0..k] ==
        IF j = 0 THEN 0
        ELSE taken[j - 1] + widths[j] * ((n - taken[j - 1]) \div widths[j])
  IN taken[k]

\* The counter words of n inputs that start at counter.  An increment moves
\* the counter behind every group.
ManyCounters(kernel, widths, counter, inc, n) ==
  LET loops == Append(widths, 1)
  IN [i \in 1..n |->
       LET k == CHOOSE j \in DOMAIN loops : Taken(loops, n, j - 1) < i /\ i <= Taken(loops, n, j)
           lane == (i - 1 - Taken(loops, n, k - 1)) % loops[k]
       IN LaneCounter(kernel, loops[k], counter + Delta(i - 1 - lane, inc), lane, inc)]

-----------------------------------------------------------------------------
(* What every kernel has to agree with.                                    *)

BlockEvents(kernel) ==
  CASE kernel \in {"portable", "neon"} -> PortableEvents
    [] kernel = "sse2" -> CompressSse2
    [] kernel \in {"sse41", "avx2"} -> CompressSse41
    [] kernel = "avx512" -> CompressAvx512

WideEvents(kernel) ==
  CASE kernel = "portable" -> {}
    [] kernel = "sse2" -> {RoundsSse2}
    [] kernel = "sse41" -> {RoundsSse41}
    [] kernel = "avx2" -> {RoundsAvx2, RoundsSse41}
    [] kernel = "avx512" -> {Rounds4Avx512, Rounds8Avx512, Rounds16Avx512}
    [] kernel = "neon" -> {RoundsNeon}

LaneWords(kernel, width) ==
  CASE width = 4 /\ kernel # "neon" -> MessageVectors(Transpose4, 4)
    [] width = 4 /\ kernel = "neon" -> MessageVectors(TransposeNeon, 4)
    [] width = 8 /\ kernel = "avx2" -> MessageVectors(TransposeAvx2, 8)
    [] width = 8 /\ kernel = "avx512" -> MessageVectors(Transpose8Avx512, 8)
    [] width = 16 -> MessageVectors(Transpose16, 16)

MixesAsPortable(kernel) ==
  \A events \in {BlockEvents(kernel)} \cup WideEvents(kernel) :
    Trace(events) = Trace(PortableEvents)

TransposesWords(kernel) ==
  \A k \in DOMAIN Widths(kernel) :
    LET width == Widths(kernel)[k] IN
      LaneWords(kernel, width) =
        [w \in 1..16 |-> [i \in 1..width |-> [input |-> i, word |-> w - 1]]]

CountsEveryInput(kernel) ==
  \A counter \in 0..(3 * WORD), inc \in BOOLEAN, n \in 0..17 :
    ManyCounters(kernel, Widths(kernel), counter, inc, n) =
      [i \in 1..n |-> LET c == counter + (IF inc THEN i - 1 ELSE 0)
                      IN <<c % WORD, (c \div WORD) % WORD>>]

Agrees == [kernel \in Kernels |->
  MixesAsPortable(kernel) /\ TransposesWords(kernel) /\ CountsEveryInput(kernel)]
=============================================================================
