SPECIFICATION SamplersSpec
CONSTANTS
  Hwt = 2
  Degree = 4
  WordMax = 7
  Primes <- MCPrimes
  P = 1
  L = 1
  LowBytes = 2
  HighBytes = 1
  Grid = 2
  Reach = 5
  Deviates <- MCDeviates
  Sigmas = {"in_range", "beyond"}
  Centers <- MCCenters
  CenterProb <- MCCenterProb
  Exp <- MCExp
  ByteMax = 7
  rho = 3
  UniformInputs <- MCUniformInputs
  Word = 1024
  NormSigmas = {0, 1, 2, 3}
INVARIANTS ExactWeight SamplesGaussian NothingReused OutcomesCounted NormIsLeast
PROPERTY EveryCallReturns
