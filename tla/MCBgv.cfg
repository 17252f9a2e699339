SPECIFICATION BgvSpec
CONSTANTS
  Degree = 2
  Modulus = 49
  PRIMEP = 2
  PARTIES = 2
  BoundD = 2
  MaxAdds = 1
  Ternary <- MCTernary
  Uniform <- MCUniform
  Messages <- MCMessages
INVARIANTS NoiseBounded
PROPERTY ImplementsScheme
