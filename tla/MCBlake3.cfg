CONSTANTS
  WORD = 16
  BLOCK_LEN = 2
  CHUNK_LEN = 4
  MAX_DEPTH = 5
  SIZE_BITS = 8
  MaxLen = 69
  Sizes = {1, 3, 4, 7, 8, 16, 33, 64, 69}
  Reads <- ReadSet
  Modes <- ModeSet
  Cpus <- CpuSet

SPECIFICATION Blake3Spec

INVARIANTS
  HashIsReference
  ReadsAreSlices
  StackOrdered
  WideFits
  KernelsAgree
