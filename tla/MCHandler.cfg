SPECIFICATION FairSpec
CONSTANTS
  Amxs = {a1, a2}
  Publics = {"main"}
  Errors = {"NONE", "EXIT"}
  MaxCalls = 3
  MaxLoads = 2
  None = None
INVARIANTS
  TypeOK
  CodeAlive
  CodeOwned
  OneCompilation
  CompileProtocol
  JitVarSet
PROPERTIES
  DecisionStable
  Transparent
  CompilationEnds
