SPECIFICATION Spec
CONSTANTS
  Users = {ann, bob}
  ann = ann
  bob = bob
  MaxBetId = 0
  Quantities = {10}
  Schedules <- OneRound
  MaxTime = 2
  Prices = {0, 1}
  Funds = 10
  Reserve = 0
  U64 = 2000000000
PROPERTIES
  RemovedGamesHaveNoBettors
