SPECIFICATION Spec
SYMMETRY Symmetry
CONSTANTS
  STP = 5
  HLW = 0
  MaxHeap = 0
  MaxExecs = 1
  MaxParams = 0
  Functions = {f}
  Sites = {s1, s2}
  Values = {v}
  HaltErrors = {"EXIT"}
  SleepEnabled = FALSE
  SleepAfterExec = FALSE
  CallReturn = CallReturn
  HostReg = HostReg
  Null = Null
  Garbage = Garbage
PROPERTIES
  HaltResetsStack
