CONSTANTS
  k0 = k0
  k1 = k1
  k2 = k2
  v = v
  w = w
  a = a
  b = b
  Key = {k0, k1, k2}
  Value = {v, w}
  KeySize <- MCKeySize
  ValueSize <- MCValueSize
  MaxMemoryBytes = 3
  TicksPerSecond = 1
  TimeHalf = 16
  Null = Null
  Session = {a, b}
  home <- NoHome
  ShardCount = 2
  ShardOf <- MCShardOf
  Command <- OneKeyCommands
  Horizon = 1
  MaxInserts = 2
SPECIFICATION Spec
CHECK_DEADLOCK FALSE
PROPERTIES ConditionalSets ErrorsChangeNothing
