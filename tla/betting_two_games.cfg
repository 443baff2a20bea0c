SPECIFICATION FairSpec
CONSTANTS
  Users = {ann, bob}
  ann = ann
  bob = bob
  MaxBetId = 1
  Quantities = {10}
  Schedules <- ShortAndLong
  MaxTime = 1
  Prices = {0, 1}
  Funds = 20
  Reserve = 0
  U64 = 2000000000

  
PROPERTIES
  
  EveryBetSettled
