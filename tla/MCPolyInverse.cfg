SPECIFICATION PolySpec
CONSTANTS
  W = 512
  MaxDegree = 8
  Basis <- MCBasis
  Moduli <- MCModuli
  Inputs <- MCInputs
INVARIANTS ReturnsInverse CoefficientsFit WordsFit KernelsExact InverseIsInverse
PROPERTY Finishes
