CONSTANTS
  k1 = k1
  k2 = k2
  Keys = {k1, k2}
  Schemes <- MCSchemes
  Material <- MCMaterial
  Inputs <- MCInputs
  CoinTables <- MCCoinTables
  KemQ = 193
  KemDu = 3
  KemDv = 2
  FrodoN = 2
  FrodoNbar = 2
  FrodoLogQ = 5
  FrodoBits = 1
  FrodoWord = 8
  NtruN = 5
  HpsLogQ = 5
  HrssLogQ = 6
  PrimeP = 5
  PrimeQ = 79
  PrimeW = 2
SPECIFICATION Spec
INVARIANTS SecretsBindCiphertexts RoundingLeavesRoom CodingsAndStepsAreExact
PROPERTY ImplementsIdealKem
CHECK_DEADLOCK FALSE
