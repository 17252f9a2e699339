SPECIFICATION InverseSpec
CONSTANTS
  MSGS = 4
  Primes <- MCPrimes
  R <- Poly
  Zero <- PolyZero
  One <- PolyOne
  Plus <- PolyAdd
  Minus <- PolySub
  Times <- PolyMul
  Unit <- PolyUnit
  Inv <- PolyInverse
INVARIANTS InversesCorrect AbortsIffZeroDivisor
PROPERTY Returns
