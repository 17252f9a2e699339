SPECIFICATION BdlopSpec
CONSTANTS
  WIDTH = 4
  SIZE = 2
  MaxOps = 2
  Short <- MCShort
  Factors <- MCFactors
  Messages <- MCMessages
  Tails <- MCTails
  Fits <- MCFits
  Primes <- MCPrimes
  R <- Poly
  Zero <- PolyZero
  One <- PolyOne
  Plus <- PolyAdd
  Minus <- PolySub
  Times <- PolyMul
  Unit <- PolyUnit
  Inv <- PolyInverse
INVARIANTS OpensExactly
