CONSTANTS
  TokenLength = 4
  Lines = 3
  Case <- MCCase
  Int64Max = 127
  kMaxBulkSize = 7
  kMaxArrayLength = 6
  kMaxNestingDepth = 3
SPECIFICATION Spec
CHECK_DEADLOCK FALSE
INVARIANTS AgreesWithReference EstimateExact
PROPERTIES VerdictStable ReadyAtLastByte
