CONSTANTS
  Point     <- MCPoint
  TheoryVar = {"r", "s", "t", "e", "n"}
  Op        <- MCOp
  Diff      <- MCDiff
  Delta     = 2
  Slack     = 1
  BoolVar   = {"q"}
  CnfVar    = {}
  Col       <- MCCol
  Form      <- MCForm
  NonLinear = {"n"}
  Infinity  = 9
  SatNumber <- MCSatNumber
  Clauses   <- MCClauses
  BoxesOf   <- MCBoxes
  Objs      <- MCObjs
  MaxRows   = 2
SPECIFICATION Spec
INVARIANTS LPTypeOK LPIsAsked
\* picosat ends the process when it is called with an open clause
CHECK_DEADLOCK FALSE
