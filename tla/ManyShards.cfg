CONSTANTS
  k0 = k0
  k1 = k1
  k2 = k2
  v = v
  w = w
  a = a
  b = b
  Key = {k0, k1, k2}
  Value = {v}
  KeySize <- MCKeySize
  ValueSize <- MCValueSize
  MaxMemoryBytes = 3
  TicksPerSecond = 1
  TimeHalf = 16
  Null = Null
  Session = {a, b}
  home <- MCHome
  ShardCount = 2
  ShardOf <- MCShardOf
  Command <- ManyShardCommands
  Horizon = 0
  MaxInserts = 3
SPECIFICATION Spec
CHECK_DEADLOCK FALSE
INVARIANTS TypeOK KeysRouted KeysConserved DelEffective InfoBracketed
PROPERTIES EveryCommandAnswered
