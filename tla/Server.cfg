CONSTANTS
  Absent = Absent
  None = None
  Int32Max = 5000
  UInt16Size = 4
  File <- MCFile
  Connection = {c1, c2}
  CounterSize = 8
  MaxTurns = 4
SPECIFICATION Spec
CHECK_DEADLOCK FALSE
INVARIANTS TypeOK JoinedBeforeDestroyed Balanced
PROPERTIES ShardsSerial ConfigSane ShutdownCompletes
