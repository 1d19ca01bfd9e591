SPECIFICATION Spec
SYMMETRY Symmetry
CONSTANTS
  STP = 8
  HLW = 0
  MaxHeap = 0
  MaxExecs = 2
  MaxParams = 0
  Functions = {f}
  Sites = {s1, s2}
  Values = {v}
  HaltErrors = {"EXIT", "SLEEP"}
  SleepEnabled = TRUE
  SleepAfterExec = TRUE
  CallReturn = CallReturn
  HostReg = HostReg
  Null = Null
  Garbage = Garbage
PROPERTIES
  SleepCapturesScript
