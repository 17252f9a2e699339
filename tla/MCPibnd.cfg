SPECIFICATION Spec
CONSTANTS
  ROWS = 1
  V = 2
  TAU = 2
  NTI = 2
  Keys <- MCKeys
  Witnesses <- MCWitnesses
  Statements <- MCStatements
  Gauss <- MCGauss
  Ternary <- MCTernary
  InvNtt <- MCInvNtt
  Fits <- MCFits
  Leftovers <- MCLeftovers
  Primes <- MCPrimes
  R <- Poly
  Zero <- PolyZero
  One <- PolyOne
  Plus <- PolyAdd
  Minus <- PolySub
  Times <- PolyMul
  Unit <- PolyUnit
  Inv <- PolyInverse
INVARIANTS VerdictIsRelation
PROPERTY Terminates
