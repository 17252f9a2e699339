------------------------------- MODULE Blake3 -------------------------------
(***************************************************************************)
(* The incremental BLAKE3 hasher: init in its three modes, update with any *)
(* split of the input, finalize at any offset, reset, on any processor.    *)
(*                                                                         *)
(* Bytes of the message are named by their position; a chaining value is   *)
(* the term that names the compression it came from, so that two outputs   *)
(* are equal only when they hash the same bytes in the same way.  A block  *)
(* holds BLOCK_LEN symbols and OUT_LEN is half of it: a parent's block is  *)
(* its two children.  One call is one action: the hasher is used by one    *)
(* thread.                                                                 *)
(***************************************************************************)
EXTENDS Blake3Kernels, FiniteSetsExt

CONSTANTS
  BLOCK_LEN,   \* bytes of a block
  CHUNK_LEN,   \* bytes of a chunk, a power of two
  MAX_DEPTH,   \* entries of the stack, less one
  SIZE_BITS,   \* bits of a size_t
  MaxLen,      \* bound on the length of a message
  Sizes,       \* lengths of the pieces update is called with
  Reads,       \* <<seek, out_len>> of the calls of finalize_seek
  Modes,       \* <<"hash">>, <<"keyed">> and <<"derive", length of the context>>
  Cpus         \* processors: what cpuid and xgetbv report

\* 2^i.
Power[i \in Nat] == IF i = 0 THEN 1 ELSE 2 * Power[i - 1]
Bits == 0..(SIZE_BITS - 1)

ASSUME LengthsAssumption ==
  /\ BLOCK_LEN = 2  \* two chaining values fill a block
  /\ SIZE_BITS \in Nat /\ \E i \in Bits \ {0} : CHUNK_LEN = Power[i]
  /\ MAX_DEPTH \in Nat
  /\ MaxLen \in Nat /\ MaxLen < Power[SIZE_BITS] /\ MaxLen <= CHUNK_LEN * Power[MAX_DEPTH]
  /\ Sizes \subseteq 0..MaxLen
  /\ Reads \subseteq Nat \X Nat
  /\ Modes \subseteq {<<"hash">>, <<"keyed">>} \cup ({"derive"} \X (0..MaxLen))
  /\ \A c \in Cpus : c.arch \in {"x86", "portable", "neon"}

VARIABLES
  cpu,       \* the processor this process runs on
  mode,      \* how the hasher was initialised
  hasher,    \* blake3_hasher
  absorbed,  \* bytes given to update since the last init or reset
  read       \* the last call of finalize_seek and its result

blake3Vars == <<cpu, mode, hasher, absorbed, read>>

-----------------------------------------------------------------------------
(* Dispatch.                                                               *)

\* get_cpu_features: a vector extension counts only when the system saves
\* its registers.
Features(c) ==
  LET ymm == "osxsave" \in c.leaf1 /\ {"sse", "avx"} \subseteq c.xcr0
      zmm == ymm /\ c.max_id >= 7 /\ {"opmask", "zmm_hi256", "hi16_zmm"} \subseteq c.xcr0
  IN {"sse2"} \cup (c.leaf1 \cap {"ssse3", "sse41"})
       \cup (IF ymm THEN c.leaf1 \cap {"avx"} ELSE {})
       \cup (IF ymm /\ c.max_id >= 7 THEN c.leaf7 \cap {"avx2"} ELSE {})
       \cup (IF zmm THEN c.leaf7 \cap {"avx512f", "avx512vl"} ELSE {})

\* The kernels of hash_many and of single compressions.
HashManyKernel(c) ==
  IF c.arch # "x86" THEN c.arch
  ELSE IF {"avx512f", "avx512vl"} \subseteq Features(c) THEN "avx512"
  ELSE IF "avx2" \in Features(c) THEN "avx2"
  ELSE IF "sse41" \in Features(c) THEN "sse41" ELSE "sse2"

CompressKernel(c) ==
  IF c.arch # "x86" THEN "portable"
  ELSE IF "avx512vl" \in Features(c) THEN "avx512"
  ELSE IF "sse41" \in Features(c) THEN "sse41" ELSE "sse2"

simd_degree(c) ==
  CASE HashManyKernel(c) = "avx512" -> 16
    [] HashManyKernel(c) = "avx2" -> 8
    [] HashManyKernel(c) \in {"sse41", "sse2", "neon"} -> 4
    [] HashManyKernel(c) = "portable" -> 1

-----------------------------------------------------------------------------
(* Words and lengths.                                                      *)

Ones[x \in Nat] == IF x = 0 THEN 0 ELSE (x % 2) + Ones[x \div 2]
popcnt(x) == Ones[x]

Powers == {Power[i] : i \in Bits}

\* 1 for 0, since the argument is made odd first.
round_down_to_power_of_2(x) == Max({p \in Powers : p <= x} \cup {1})

left_len(n) == round_down_to_power_of_2((n - 1) \div CHUNK_LEN) * CHUNK_LEN

-----------------------------------------------------------------------------
(* Compressions.                                                           *)

Byte(i) == <<"byte", i>>
ZeroBlock == [i \in 1..BLOCK_LEN |-> <<"zero">>]
IV == <<"iv">>
Counter(n) == <<Low(n), High(n)>>

Compress(cv, block, len, counter, flags) == <<"cv", cv, block, len, counter, flags>>

\* One half of the 64 bytes compress_xof writes is OUT_LEN bytes.
CompressXof(cv, block, len, counter, flags) ==
  [i \in 1..BLOCK_LEN |-> <<"xof", cv, block, len, counter, flags, i>>]

ChainingValue(o) == Compress(o.cv, o.block, o.len, Counter(o.counter), o.flags)

\* hash_one on `blocks`, with the counter words its lane was given.
HashOne(blocks, key, counter, flags, start, end) ==
  LET cv[i \in 0..Len(blocks)] ==
        IF i = 0 THEN key
        ELSE Compress(cv[i - 1], blocks[i], BLOCK_LEN, counter,
                      flags \cup (IF i = 1 THEN start ELSE {})
                            \cup (IF i = Len(blocks) THEN end ELSE {}))
  IN cv[Len(blocks)]

hash_many(inputs, key, counter, inc, flags, start, end) ==
  LET kernel == HashManyKernel(cpu)
      words == ManyCounters(kernel, Widths(kernel), counter, inc, Len(inputs))
  IN [i \in DOMAIN inputs |-> HashOne(inputs[i], key, words[i], flags, start, end)]

-----------------------------------------------------------------------------
(* The state of a chunk.                                                   *)

ChunkInit(key, flags, counter) ==
  [cv |-> key, counter |-> counter, buf |-> ZeroBlock, buf_len |-> 0,
   blocks |-> 0, flags |-> flags]

ChunkLen(c) == BLOCK_LEN * c.blocks + c.buf_len

StartFlag(c) == IF c.blocks = 0 THEN {"CHUNK_START"} ELSE {}

FillBuf(c, input) ==
  LET take == Min({BLOCK_LEN - c.buf_len, Len(input)})
  IN [c EXCEPT !.buf = [i \in 1..BLOCK_LEN |->
                          IF i \in (c.buf_len + 1)..(c.buf_len + take)
                          THEN input[i - c.buf_len] ELSE @[i]],
               !.buf_len = @ + take]

CompressBlock(c, block) ==
  [c EXCEPT !.cv = Compress(@, block, BLOCK_LEN, Counter(c.counter),
                            c.flags \cup StartFlag(c)),
            !.blocks = @ + 1]

CompressBufStale(c) ==  \* Fault: the buffer is not cleared
  [CompressBlock(c, c.buf) EXCEPT !.buf_len = 0]
CompressBuf(c) ==
  [CompressBlock(c, c.buf) EXCEPT !.buf = ZeroBlock, !.buf_len = 0]

\* Every whole block that is followed by more input is compressed at once.
FeedBlocks(c, input) ==
  LET whole == IF input = <<>> THEN 0 ELSE (Len(input) - 1) \div BLOCK_LEN
      fed[k \in 0..whole] ==
        IF k = 0 THEN c
        ELSE CompressBlock(fed[k - 1], SubSeq(input, BLOCK_LEN * (k - 1) + 1, BLOCK_LEN * k))
  IN FillBuf(fed[whole], SubSeq(input, BLOCK_LEN * whole + 1, Len(input)))

ChunkUpdate(c, input) ==
  LET take == Min({BLOCK_LEN - c.buf_len, Len(input)})
      rest == SubSeq(input, take + 1, Len(input))
  IN IF c.buf_len = 0 THEN FeedBlocks(c, input)
     ELSE FeedBlocks(IF rest # <<>> THEN CompressBuf(FillBuf(c, input))
                     ELSE FillBuf(c, input), rest)

ChunkOutput(c) ==
  [cv |-> c.cv, block |-> c.buf, len |-> c.buf_len, counter |-> c.counter,
   flags |-> c.flags \cup StartFlag(c) \cup {"CHUNK_END"}]

ParentOutput(children, key, flags) ==
  [cv |-> key, block |-> children, len |-> BLOCK_LEN, counter |-> 0,
   flags |-> flags \cup {"PARENT"}]

-----------------------------------------------------------------------------
(* Subtrees.                                                               *)

compress_chunks_parallel(input, key, counter, flags) ==
  LET n == Len(input) \div CHUNK_LEN
      blocks(c) == [b \in 1..(CHUNK_LEN \div BLOCK_LEN) |->
                     SubSeq(input, CHUNK_LEN * (c - 1) + BLOCK_LEN * (b - 1) + 1,
                                   CHUNK_LEN * (c - 1) + BLOCK_LEN * b)]
      rest == SubSeq(input, CHUNK_LEN * n + 1, Len(input))
  IN hash_many([c \in 1..n |-> blocks(c)], key, counter, TRUE, flags,
               {"CHUNK_START"}, {"CHUNK_END"})
     \o (IF rest = <<>> THEN <<>>
         ELSE <<ChainingValue(ChunkOutput(
                  ChunkUpdate(ChunkInit(key, flags, counter + n), rest)))>>)

compress_parents_parallel(cvs, key, flags) ==
  LET n == Len(cvs) \div 2
  IN hash_many([p \in 1..n |-> << <<cvs[2 * p - 1], cvs[2 * p]>> >>], key, 0, FALSE,
               flags \cup {"PARENT"}, {}, {})
     \o SubSeq(cvs, 2 * n + 1, Len(cvs))

\* One layer of parents, except over two chunks: their parent may be the
\* root, so that they are returned as they are.
JoinLayersFlat(left, right, key, flags) == left \o right  \* Fault: no parents
JoinLayers(left, right, key, flags) ==
  IF Len(left) = 1 THEN SubSeq(left \o right, 1, 2)
  ELSE compress_parents_parallel(left \o right, key, flags)

\* wide[n][from] compresses the n bytes behind from.
compress_subtree_wide(input, key, counter, flags) ==
  LET wide[n \in 0..Len(input)] ==
        [from \in 0..Len(input) |->
          IF n <= simd_degree(cpu) * CHUNK_LEN
          THEN compress_chunks_parallel(SubSeq(input, from + 1, from + n), key,
                                        counter + from \div CHUNK_LEN, flags)
          ELSE LET left == left_len(n)
               IN JoinLayers(wide[left][from], wide[n - left][from + left], key, flags)]
  IN wide[Len(input)][0]

\* Layers of parents until two are left, which takes less than Len(cvs) of them.
Condense(cvs, key, flags) ==
  LET layer[k \in 0..Len(cvs)] ==
        IF k = 0 THEN cvs
        ELSE LET below == layer[k - 1]
             IN IF Len(below) > 2 THEN compress_parents_parallel(below, key, flags) ELSE below
  IN SubSeq(layer[Len(cvs)], 1, 2)

compress_subtree_to_parent_node(input, key, counter, flags) ==
  Condense(compress_subtree_wide(input, key, counter, flags), key, flags)

-----------------------------------------------------------------------------
(* The hasher.                                                             *)

HasherInit(key, flags) ==
  [key |-> key, chunk |-> ChunkInit(key, flags, 0), cv_stack |-> <<>>]

\* Lazy merging: entries are merged when the next one arrives.
MergeTop(h) ==
  LET n == Len(h.cv_stack)
      parent == ChainingValue(
                  ParentOutput(SubSeq(h.cv_stack, n - 1, n), h.key, h.chunk.flags))
  IN [h EXCEPT !.cv_stack = Append(SubSeq(@, 1, n - 2), parent)]

\* merged[k] after k passes of the loop, each of which takes one entry away.
merge_cv_stack(h, chunks) ==
  LET excess == Max({Len(h.cv_stack) - popcnt(chunks), 0})
      merged[k \in 0..excess] == IF k = 0 THEN h ELSE MergeTop(merged[k - 1])
  IN merged[excess]

push_cv(h, cv, counter) ==
  [merge_cv_stack(h, counter) EXCEPT !.cv_stack = Append(@, cv)]

\* The largest power of two that fits the input and divides what came before.
SubtreeLenUnaligned(h, n) == round_down_to_power_of_2(n)  \* Fault: any that fits
SubtreeLen(h, n) ==
  Max({s \in Powers :
        s <= round_down_to_power_of_2(n) /\ (h.chunk.counter * CHUNK_LEN) % s = 0})

PushSubtree(h, input) ==
  LET n == h.chunk.counter
      chunks == Len(input) \div CHUNK_LEN
      c == ChunkUpdate(ChunkInit(h.key, h.chunk.flags, n), input)
      pair == compress_subtree_to_parent_node(input, h.key, n, h.chunk.flags)
      pushed == IF Len(input) <= CHUNK_LEN
                THEN push_cv(h, ChainingValue(ChunkOutput(c)), n)
                ELSE push_cv(push_cv(h, pair[1], n), pair[2], n + chunks \div 2)
  IN [pushed EXCEPT !.chunk.counter = @ + chunks]

\* One pass: a subtree goes onto the stack while more than a chunk is left.
\* `last` is the hasher, and the bytes the passes before took.
AbsorbPass(last, input) ==
  LET left == Len(input) - last.taken
      to == last.taken + SubtreeLen(last.hasher, left)
  IN IF left > CHUNK_LEN
     THEN [hasher |-> PushSubtree(last.hasher, SubSeq(input, last.taken + 1, to)),
           taken |-> to]
     ELSE last

\* What is left, at most a chunk, stays open; the stack behind it is merged.
OpenChunk(h, rest) ==
  IF rest = <<>> THEN h
  ELSE merge_cv_stack([h EXCEPT !.chunk = ChunkUpdate(@, rest)], h.chunk.counter)
OpenRest(end, input) == OpenChunk(end.hasher, SubSeq(input, end.taken + 1, Len(input)))

\* after[k] is the state after at most k passes.
AbsorbSubtrees(h, input) ==
  LET after[k \in 0..Len(input)] ==
        IF k = 0 THEN [hasher |-> h, taken |-> 0] ELSE AbsorbPass(after[k - 1], input)
  IN OpenRest(after[Len(input)], input)

\* A chunk that is full is closed only when more input follows.
CloseChunk(h) ==
  [push_cv(h, ChainingValue(ChunkOutput(h.chunk)), h.chunk.counter)
     EXCEPT !.chunk = ChunkInit(h.key, @.flags, @.counter + 1)]

hasher_update(h, input) ==
  LET take == Min({CHUNK_LEN - ChunkLen(h.chunk), Len(input)})
      rest == SubSeq(input, take + 1, Len(input))
      filled == [h EXCEPT !.chunk = ChunkUpdate(@, SubSeq(input, 1, take))]
  IN IF input = <<>> THEN h
     ELSE IF ChunkLen(h.chunk) = 0 THEN AbsorbSubtrees(h, input)
     ELSE IF rest = <<>> THEN filled
     ELSE AbsorbSubtrees(CloseChunk(filled), rest)

-----------------------------------------------------------------------------
(* Output.                                                                 *)

\* The blocks of the output are compressions of the root with their number.
\* out[k] after k passes of the loop.
RootBytes(o, block, offset, n) ==
  LET wide(k) == CompressXof(o.cv, o.block, o.len, Counter(block + k), o.flags \cup {"ROOT"})
      out[k \in 0..n] ==
        IF k = 0 THEN <<>>
        ELSE LET from == IF k = 1 THEN offset ELSE 0
                 take == Min({n - Len(out[k - 1]), BLOCK_LEN - from})
             IN out[k - 1] \o SubSeq(wide(k - 1), from + 1, from + take)
  IN out[n]

output_root_bytesWhole(o, seek, n) ==  \* Fault: the offset in the first block is lost
  RootBytes(o, seek \div BLOCK_LEN, 0, n)
output_root_bytes(o, seek, n) == RootBytes(o, seek \div BLOCK_LEN, seek % BLOCK_LEN, n)

\* The root: the current chunk, or the fold of the stack over the chunk or
\* over the pair on top.
RootOutput(h) ==
  LET n == Len(h.cv_stack)
      open == ChunkLen(h.chunk) > 0
      remaining == IF open THEN n ELSE n - 2
      start == IF open THEN ChunkOutput(h.chunk)
               ELSE ParentOutput(SubSeq(h.cv_stack, n - 1, n), h.key, h.chunk.flags)
      root[k \in 0..remaining] ==
        IF k = 0 THEN start
        ELSE ParentOutput(<<h.cv_stack[remaining - k + 1], ChainingValue(root[k - 1])>>,
                          h.key, h.chunk.flags)
  IN IF n = 0 THEN ChunkOutput(h.chunk) ELSE root[remaining]

finalize_seek(h, seek, n) == IF n = 0 THEN <<>> ELSE output_root_bytes(RootOutput(h), seek, n)

-----------------------------------------------------------------------------

Piece(from, n) == [i \in 1..n |-> Byte(from + i - 1)]

ContextKey(n) ==
  finalize_seek(hasher_update(HasherInit(IV, {"DERIVE_KEY_CONTEXT"}), Piece(0, n)),
                0, BLOCK_LEN \div 2)[1]

\* The key words and flags of hasher_init, _init_keyed and _init_derive_key.
KeyOf(m) == CASE m[1] = "hash" -> IV
              [] m[1] = "keyed" -> <<"key">>
              [] m[1] = "derive" -> ContextKey(m[2])
FlagsOf(m) == CASE m[1] = "hash" -> {}
                [] m[1] = "keyed" -> {"KEYED_HASH"}
                [] m[1] = "derive" -> {"DERIVE_KEY_MATERIAL"}

NoRead == [seek |-> 0, bytes |-> <<>>]

Blake3Init ==
  /\ cpu \in Cpus
  /\ mode \in Modes
  /\ hasher = HasherInit(KeyOf(mode), FlagsOf(mode))
  /\ absorbed = 0
  /\ read = NoRead

Update ==
  \E n \in Sizes :
    /\ absorbed + n <= MaxLen
    /\ hasher' = hasher_update(hasher, Piece(absorbed, n))
    /\ absorbed' = absorbed + n
    /\ read' = NoRead
    /\ UNCHANGED <<cpu, mode>>

\* finalize does not change the hasher: more input may follow.
Finalize ==
  \E r \in Reads :
    /\ read' = [seek |-> r[1], bytes |-> finalize_seek(hasher, r[1], r[2])]
    /\ UNCHANGED <<cpu, mode, hasher, absorbed>>

Reset ==
  /\ hasher' = [hasher EXCEPT !.chunk = ChunkInit(hasher.key, @.flags, 0), !.cv_stack = <<>>]
  /\ absorbed' = 0
  /\ read' = NoRead
  /\ UNCHANGED <<cpu, mode>>

Blake3Next == Update \/ Finalize \/ Reset

Blake3Spec == Blake3Init /\ [][Blake3Next]_blake3Vars

-----------------------------------------------------------------------------
(* Properties.  The reference hashes a whole message at once: a chunk is a *)
(* chain of its blocks, and a longer message is the parent of its left     *)
(* part, the largest power of two of chunks that leaves something for the  *)
(* right one, and of its right part.                                       *)

RefCv(o) ==
  <<"cv", o.cv, o.block, o.len, <<o.counter % WORD, (o.counter \div WORD) % WORD>>, o.flags>>

\* The chain through the whole blocks of the chunk that starts at from.
RefChain(from, key, flags) ==
  LET chain[b \in 0..(CHUNK_LEN \div BLOCK_LEN)] ==
        IF b = 0 THEN key
        ELSE RefCv([cv |-> chain[b - 1], block |-> Piece(from + BLOCK_LEN * (b - 1), BLOCK_LEN),
                    len |-> BLOCK_LEN, counter |-> from \div CHUNK_LEN,
                    flags |-> flags \cup (IF b = 1 THEN {"CHUNK_START"} ELSE {})])
  IN chain

RefChunk(from, to, key, flags) ==
  LET b == IF to = from THEN 0 ELSE (to - from - 1) \div BLOCK_LEN
      last == from + BLOCK_LEN * b
  IN [cv |-> RefChain(from, key, flags)[b],
      block |-> [i \in 1..BLOCK_LEN |-> IF last + i <= to THEN Byte(last + i - 1) ELSE <<"zero">>],
      len |-> to - last, counter |-> from \div CHUNK_LEN,
      flags |-> flags \cup (IF b = 0 THEN {"CHUNK_START"} ELSE {}) \cup {"CHUNK_END"}]

\* What is left of the largest power of two of chunks with bytes behind it.
RefLeft(n) == Max({c \in {CHUNK_LEN * p : p \in Powers} : c < n} \cup {0})

\* ref[n][a] is the output of the n bytes behind a.
RefOutput(from, to, key, flags) ==
  LET ref[n \in Nat] ==
        [a \in Nat |->
          IF n <= CHUNK_LEN THEN RefChunk(a, a + n, key, flags)
          ELSE LET left == RefLeft(n)
               IN [cv |-> key, block |-> <<RefCv(ref[left][a]), RefCv(ref[n - left][a + left])>>,
                   len |-> BLOCK_LEN, counter |-> 0, flags |-> flags \cup {"PARENT"}]]
  IN ref[to - from][from]

\* Symbol j of the output of a root.
RefByte(o, j) ==
  LET block == j \div BLOCK_LEN
  IN <<"xof", o.cv, o.block, o.len, <<block % WORD, (block \div WORD) % WORD>>,
       o.flags \cup {"ROOT"}, (j % BLOCK_LEN) + 1>>

RefKey(m) == CASE m[1] = "hash" -> <<"iv">>
               [] m[1] = "keyed" -> <<"key">>
               [] m[1] = "derive" ->
                    RefByte(RefOutput(0, m[2], <<"iv">>, {"DERIVE_KEY_CONTEXT"}), 0)

Reference ==
  [m \in Modes |-> [n \in 0..MaxLen |-> RefOutput(0, n, RefKey(m), FlagsOf(m))]]

\* The chaining value of the subtree of 2^l chunks behind chunk a.
Node(l, a, key, flags) ==
  RefCv(RefOutput(CHUNK_LEN * a, CHUNK_LEN * (a + Power[l]), key, flags))

\* Complete subtrees for q * 2^l chunks: one for every 1-bit of q, from the top.
Subtrees(key, flags) ==
  LET trees[q \in Nat] ==
        [l \in Nat |->
          IF q = 0 THEN <<>>
          ELSE IF q % 2 = 0 THEN trees[q \div 2][l + 1]
          ELSE Append(trees[q \div 2][l + 1], Node(l, (q - 1) * Power[l], key, flags))]
  IN trees

Flags == {"CHUNK_START", "CHUNK_END", "PARENT", "KEYED_HASH", "DERIVE_KEY_CONTEXT",
          "DERIVE_KEY_MATERIAL"}

\* The hasher's counters stay within their arrays and fields.
Blake3TypeOK ==
  /\ cpu \in Cpus /\ mode \in Modes /\ absorbed \in 0..MaxLen
  /\ hasher.chunk.counter \in 0..(MaxLen \div CHUNK_LEN)
  /\ hasher.chunk.buf_len \in 0..BLOCK_LEN
  /\ hasher.chunk.blocks \in 0..(CHUNK_LEN \div BLOCK_LEN - 1)
  /\ hasher.chunk.flags \subseteq Flags
  /\ Len(hasher.cv_stack) \in 0..(MAX_DEPTH + 1)

\* However the message was cut into calls of update, on every processor and
\* in every mode, the hash is that of the whole message: nothing is merged
\* that could have been the root, no counter, flag or byte is off.
HashIsReference == RootOutput(hasher) = Reference[mode][absorbed]

\* finalize_seek returns the bytes of one output stream, whatever the offset
\* and the length asked for.
ReadsAreSlices ==
  \A i \in DOMAIN read.bytes :
    read.bytes[i] = RefByte(Reference[mode][absorbed], read.seek + i - 1)

\* The stack is the binary representation of the chunks before the current
\* one: a complete subtree for every 1-bit, larger below smaller.  While no
\* byte follows them, the two halves of the last subtree are kept apart,
\* since their parent may be the root.
StackOrdered ==
  LET n == hasher.chunk.counter
      key == RefKey(mode)
      flags == FlagsOf(mode)
      complete(m) == Subtrees(key, flags)[m][0]
  IN IF ChunkLen(hasher.chunk) > 0 \/ n = 0 THEN hasher.cv_stack = complete(n)
     ELSE \E l \in Bits :
            LET m == n - 2 * Power[l]
            IN /\ m >= 0 /\ m % (2 * Power[l]) = 0
               /\ hasher.cv_stack = complete(m) \o <<Node(l, m, key, flags),
                                                     Node(l, m + Power[l], key, flags)>>

\* A subtree comes back as at least two and at most as many chaining values
\* as the processor hashes at once, which is what the arrays on the call
\* stack have room for.
WideFits ==
  (\E k \in 1..MAX_DEPTH : absorbed = CHUNK_LEN * Power[k]) =>
    Len(compress_subtree_wide(Piece(0, absorbed), hasher.key, 0, hasher.chunk.flags))
      \in 2..Max({2, simd_degree(cpu)})

\* The kernels the processor selects compute what the portable code does:
\* the same words mixed in the same order, every input in its own lane, and
\* every lane counting across the boundary of the low counter word.
KernelsAgree == Agrees[HashManyKernel(cpu)] /\ Agrees[CompressKernel(cpu)]
=============================================================================
