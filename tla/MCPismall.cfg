SPECIFICATION Spec
CONSTANTS
  P0 = 17
  P1 = 113
  WordSize = 256
  AEX_COLS = 8
  TAU = 4
  V = 2
  N = 2
  ROWS = 1
  ETA = 2
  MaxChecks = 2
  A <- MCA
  Statements <- MCStatements
  Masks <- MCMasks
  Challenges <- MCChallenges
  ColumnSets <- MCColumns
INVARIANTS LagrangeIsBasis VerdictIsRelation OpensOnlyItself UnsetNeverRead AliasesHarmless
