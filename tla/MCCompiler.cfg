SPECIFICATION Spec
CONSTANTS
  Programs <- MCPrograms
  Align = 3
  Helpers = 1
  Base = 100
  Values <- MCValues
  Intrinsics <- MCIntrinsics
  EnableSysreqD = TRUE
  MaxDepth = 3
  None = None
INVARIANTS TypeOK TableOrdered LabelsBound SleepReturns
PROPERTIES GoesSameWay
