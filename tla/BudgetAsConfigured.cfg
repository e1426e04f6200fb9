CONSTANTS
  Absent = Absent
  None = None
  Int32Max = 5000
  UInt16Size = 4
  File <- BigBudget
  Connection = {c1}
  CounterSize = 8
  MaxTurns = 1
SPECIFICATION Spec
CHECK_DEADLOCK FALSE
PROPERTIES BudgetAsConfigured
