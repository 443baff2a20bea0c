SPECIFICATION IssuanceSpec
CONSTANTS
  HalfLife = 5
  Rate = 20
  LEM_MAX = 500
  U32 = 64
  MaxTime = 20
PROPERTIES
  FirstEraIssueIsExact
