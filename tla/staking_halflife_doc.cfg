SPECIFICATION Spec
CONSTANTS
  Users = {ann}
  ann = ann
  MaxProductId = 0
  Catalogue <- Crossing
  Quantities = {10}
  Yields = {}
  LedPrices = {0, 1}
  Day = 1
  YieldUnit = 10
  LemUnit = 10
  Funds = 10
  Reserve = 30
  HalfLife = 4
  Rate = 20
  LEM_MAX = 1000
  U32 = 100000
  MaxTime = 8
PROPERTIES
  LemAtTheRate
