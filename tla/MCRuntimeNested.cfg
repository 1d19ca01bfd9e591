SPECIFICATION Spec
SYMMETRY Symmetry
CONSTANTS
  STP = 9
  HLW = 0
  MaxHeap = 0
  MaxExecs = 2
  MaxParams = 1
  Functions = {f}
  Sites = {s1, s2}
  Values = {v}
  HaltErrors = {"EXIT"}
  SleepEnabled = FALSE
  SleepAfterExec = FALSE
  CallReturn = CallReturn
  HostReg = HostReg
  Null = Null
  Garbage = Garbage
INVARIANTS
  TypeOK
  NativeStackOK
  HostRegistersKept
  StackLayoutOK
PROPERTIES
  ResetWordsRestored
  SuspendedDiscipline
  SuspendedStackIntact
  StackBalance
  FrameRestored
