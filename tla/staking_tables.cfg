SPECIFICATION Spec
CONSTANTS
  Users = {ann, bob}
  ann = ann
  bob = bob
  MaxProductId = 1
  Catalogue <- Limited
  Quantities = {7}
  Yields = {3}
  LedPrices = {}
  Day = 1
  YieldUnit = 10
  LemUnit = 10
  Funds = 21
  Reserve = 60
  HalfLife = 20
  Rate = 20
  LEM_MAX = 0
  U32 = 100000
  MaxTime = 2
SYMMETRY UserSymmetry
INVARIANTS
  TypeOK
  ProductsMatchStakings
  DepositsKeepTheirTerms
  LimitsRespected
  
