SPECIFICATION Spec
CONSTANTS
  Users = {ann}
  ann = ann
  MaxProductId = 0
  Catalogue <- Adjustable
  Quantities = {7, 10}
  Yields = {1, 3}
  LedPrices = {0, 1}
  Day = 1
  YieldUnit = 10
  LemUnit = 10
  Funds = 20
  Reserve = 30
  HalfLife = 20
  Rate = 20
  LEM_MAX = 0
  U32 = 100000
  MaxTime = 4
PROPERTIES
  UnstakeReturnsPrincipal
