CONSTANTS
  Name = {"x", "b", "n"}
  Bindable = {"x", "b"}
  SortOf <- MCSortOf
  NoVar <- MCNoVar
  ITEVar <- MCITEVar
  Precision = {0, 2}
  DefaultPrecision = 2
  MaxVars = 2
  MaxNesting = 2
  MaxBindings = 2
  LetOrigins = {"DEFAULT"}
  MaxSet = 0
SPECIFICATION Spec
INVARIANTS ContextOK ModelComplete LexicalScoping FalseIsFinal Precedence
PROPERTIES ModelIsolated ThrowsCleanly
CHECK_DEADLOCK FALSE
