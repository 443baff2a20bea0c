SPECIFICATION Spec
CONSTANTS
  Users = {ann}
  ann = ann
  Tokens = {"LED", "LEM"}
  LpSymbols = {"LEDLEM", "LEMLED"}
  Traders = {ann}
  Freezable = {ann}
  Pairs <- BothPairs
  MaxFee = 10
  LpAmounts = {2}
  IsDexOpen = TRUE
  Deposits = {4}
  Swaps <- SwapAmounts
  Limits = {0, 2, 8}
  FeeNum = 1
  FeeDen = 4
  CreationFee = 4
  DexLemReward = 0
  PoolShares = {}
  RewardInterval = 1
  INIT_MAX = 100
  MAX = 8
  Funds <- SmallFunds
  HalfLife = 1
  Rate = 10
  LEM_MAX = 0
  U32 = 100000
  MaxTime = 0
INVARIANTS
  DexTypeOK
  
  PoolsNeverEmpty
PROPERTIES
  SharesNeverDiluted
  SurplusPaysRewardsOnly
