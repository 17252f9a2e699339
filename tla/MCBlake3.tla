----------------------------- MODULE MCBlake3 ------------------------------
(***************************************************************************)
(* Blake3 with blocks of two bytes and chunks of two blocks, up to         *)
(* seventeen chunks: more than the widest kernel takes at once.            *)
(***************************************************************************)
EXTENDS Blake3

ModeSet == {<<"hash">>, <<"keyed">>, <<"derive", 9>>}
ReadSet == {<<0, 1>>, <<1, 4>>, <<2, 0>>, <<3, 2>>}

x86(leaf1, leaf7, xcr0) ==
  [arch |-> "x86", max_id |-> 7, leaf1 |-> leaf1, leaf7 |-> leaf7, xcr0 |-> xcr0]

Avx == {"osxsave", "ssse3", "sse41", "avx"}
Wide == {"avx2", "avx512f", "avx512vl"}
Zmm == {"sse", "avx", "opmask", "zmm_hi256", "hi16_zmm"}

CpuSet ==
  {[arch |-> "portable"], [arch |-> "neon"],
   x86({}, {}, {}),                      \* SSE2 only
   x86(Avx, Wide, {"sse"}),              \* the system saves no vector registers
   x86(Avx, Wide, {"sse", "avx"}),       \* it saves those of AVX2
   x86(Avx, Wide \ {"avx512f"}, Zmm),
   x86(Avx, Wide, Zmm)}
=============================================================================
