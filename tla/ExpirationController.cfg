CONSTANTS
  Key = {k1, k2}
  Value = {v}
  KeySize <- MCKeySize
  ValueSize <- MCValueSize
  MaxMemoryBytes = 4
  TicksPerSecond = 1
  TimeHalf = 16
  Null = Null
  Seconds = {0, 1, 4}
  ActiveUntil = 3
  Horizon = 7
  MaxRemovals = 2
SPECIFICATION Spec
INVARIANTS NoEmptyPass BoundedLateness
PROPERTIES ExpiredKeysGo CleanerYields
