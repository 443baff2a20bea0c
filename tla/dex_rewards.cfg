SPECIFICATION Spec
CONSTANTS
  Users = {ann, bob}
  ann = ann
  bob = bob
  Tokens = {"LED", "LEM"}
  LpSymbols = {"LEDLEM"}
  Traders = {ann}
  Freezable = {}
  Pairs <- OnePair
  MaxFee = 1
  LpAmounts = {2}
  IsDexOpen = TRUE
  Deposits = {4}
  Swaps = {4}
  Limits = {0}
  FeeNum = 1
  FeeDen = 2
  CreationFee = 4
  DexLemReward = 3
  PoolShares <- WholeOrHalf
  RewardInterval = 1
  INIT_MAX = 100
  MAX = 6
  Funds <- TinyFunds
  HalfLife = 1
  Rate = 10
  LEM_MAX = 10
  U32 = 100000
  MaxTime = 1
INVARIANTS
  SupplyIsHeld
PROPERTIES
  SurplusPaysRewardsOnly
