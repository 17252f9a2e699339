SPECIFICATION Spec
CONSTANTS
  CtrMod = 6
  MaxRejects = 1
  Statements <- MCStatements
  LinChallenges <- MCChallenges
  Primes <- MCPrimes
  R <- Poly
  Zero <- PolyZero
  One <- PolyOne
  Plus <- PolyAdd
  Minus <- PolySub
  Times <- PolyMul
  Unit <- PolyUnit
  Inv <- PolyInverse
INVARIANTS SecretsPrivate SecretsFresh ChallengesAgree VerdictIsProductEquality QuotientsMasked
