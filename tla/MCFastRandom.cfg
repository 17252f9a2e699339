SPECIFICATION Spec
CONSTANTS
  CtrMod = 5
  Digests = {h1, h2}
  DrawLens <- MCDrawLens
  ChalDraws = 2
  ChalLen = 20
  MaxSeeds = 3
  MaxBlocks = 5
INVARIANTS TypeOK SecretsFromSystem
PROPERTY ImplementsSource
