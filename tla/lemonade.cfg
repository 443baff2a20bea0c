SPECIFICATION LemonadeSpec
CONSTANTS
  Users = {ann, bob}
  ann = ann
  bob = bob
  MaxProductId = 0
  Catalogue <- Predict
  Quantities = {7}
  Yields = {}
  LedPrices = {}
  Day = 1
  YieldUnit = 10
  LemUnit = 10
  Funds = 14
  Reserve = 10
  HalfLife = 20
  Rate = 20
  LEM_MAX = 0
  U32 = 100000
  MaxTime = 2
  MaxBetId = 0
  Schedules <- OneGame
  Prices = {1}
  U64 = 100000
  Memos <- SomeMemos
SYMMETRY UserSymmetry
PROPERTIES
  
  LedLostOnlyInBets
