SPECIFICATION Spec
CONSTANTS
  Users = {ann, bob, cyd}
  ann = ann
  bob = bob
  cyd = cyd
  MaxBetId = 0
  Quantities = {7, 13, 30}
  Schedules <- OneRound
  MaxTime = 2
  Prices = {0, 1}
  Funds = 30
  Reserve = 3
  U64 = 2000000000
SYMMETRY UserSymmetry
INVARIANTS
  TypeOK
  AmountsMatchBetters
  OnePosition
  ClaimNeverBlocked
PROPERTIES
  WinnersGetAdvertisedDividend
