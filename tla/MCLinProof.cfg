SPECIFICATION Spec
CONSTANTS
  Vectors <- MCVectors
  AddVec <- MCAddVec
  ScaleVec <- MCScaleVec
  Keys <- MCKeys
  FirstRow <- MCFirstRow
  SecondRow <- MCSecondRow
  Short <- MCShort
  Gauss <- MCGauss
  Fits <- MCFits
  Challenges <- MCChallenges
  Scalars <- MCScalars
  Primes <- MCPrimes
  R <- Poly
  Zero <- PolyZero
  One <- PolyOne
  Plus <- PolyAdd
  Minus <- PolySub
  Times <- PolyMul
  Unit <- PolyUnit
  Inv <- PolyInverse
INVARIANTS VerdictIsRelation
PROPERTY Terminates
