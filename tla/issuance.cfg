SPECIFICATION IssuanceFairSpec
CONSTANTS
  HalfLife = 5
  Rate = 20
  LEM_MAX = 150
  U32 = 1000000
  MaxTime = 20
INVARIANTS
  IssuanceTypeOK
  NeverAheadOfSchedule
  SupplyCapped
  EraOfLastFill
  HalfStaysForRewards
PROPERTIES
  EveryIssueIsExact
  
