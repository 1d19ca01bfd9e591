SPECIFICATION FairSpec
CONSTANTS
  Amxs = {a1, a2}
  Hookers = {"crashdetect"}
  NumOpcodes = 4
  Programs <- MCPrograms
  Untranslated = {0}
  Label <- MCLabel
  MaxLoads = 2
  Null = Null
  Delays <- MCDelays
  FirstDelay = 1
  MaxTimers = 4
INVARIANTS
  TypeOK
  HooksSeeCalls
  DecodedRight
  HandlersOfScripts
PROPERTIES
  ContinuesSleeper
  SleepersWake
