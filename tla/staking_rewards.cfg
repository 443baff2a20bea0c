SPECIFICATION Spec
CONSTANTS
  Users = {ann}
  ann = ann
  MaxProductId = 1
  Catalogue <- Rewarding
  Quantities = {10}
  Yields = {}
  LedPrices = {0, 1}
  Day = 1
  YieldUnit = 10
  LemUnit = 10
  Funds = 20
  Reserve = 30
  HalfLife = 20
  Rate = 20
  LEM_MAX = 1000
  U32 = 100000
  MaxTime = 3
PROPERTIES
  UnstakeReturnsPrincipal
  LemAtTheRate
