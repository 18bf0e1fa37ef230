CONSTANTS
  Name = {"x", "b", "n"}
  Bindable = {"x", "b"}
  SortOf <- MCSortOf
  NoVar <- MCNoVar
  ITEVar <- MCITEVar
  Precision = {2}
  DefaultPrecision = 2
  MaxVars = 2
  MaxNesting = 0
  MaxBindings = 0
  LetOrigins = {"DEFAULT"}
  MaxSet = 0
SPECIFICATION Spec
INVARIANT FalseIsKept
CHECK_DEADLOCK FALSE
