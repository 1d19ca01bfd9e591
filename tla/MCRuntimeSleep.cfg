SPECIFICATION Spec
SYMMETRY Symmetry
CONSTANTS
  STP = 7
  HLW = 0
  MaxHeap = 1
  MaxExecs = 2
  MaxParams = 0
  Functions = {f}
  Sites = {s1, s2}
  Values = {Garbage}
  HaltErrors = {"EXIT", "SLEEP"}
  SleepEnabled = TRUE
  SleepAfterExec = FALSE
  CallReturn = CallReturn
  HostReg = HostReg
  Null = Null
  Garbage = Garbage
INVARIANTS
  TypeOK
  NativeStackOK
  HostRegistersKept
  StackLayoutOK
PROPERTIES
  SuspendedDiscipline
  SuspendedStackIntact
  SleepCapturesScript
  StackBalance
  CallsNest
