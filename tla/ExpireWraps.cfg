CONSTANTS
  Key = {k1, k2, k3}
  small = small
  big = big
  huge = huge
  Value = {small, big, huge}
  KeySize <- MCKeySize
  ValueSize <- MCValueSize
  MaxMemoryBytes = 6
  TicksPerSecond = 2
  TimeHalf = 16
  Null = Null
  Seconds = {0, 1, 15}
  Horizon = 3
  MaxRemovals = 2
SPECIFICATION Spec
PROPERTIES SecondsFromNow
