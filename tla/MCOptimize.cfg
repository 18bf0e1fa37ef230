CONSTANTS
  Point       <- MCPoint
  TheoryVar   <- MCTheoryVar
  Op          <- MCOp
  Diff        <- MCDiff
  Delta       = 2
  Slack       = 1
  BoolVar     = {"q"}
  CnfVar      = {}
  Formulas    <- MCFormulas
  Boxes       <- MCBoxes
  Objectives  <- MCObjectives
  Infinity    <- MCInfinity
  SimpleBound = {"e"}
  WithFirst   <- MCWithFirst
SPECIFICATION OptSpec
INVARIANTS OptTypeOK InfeasibleSound UnboundedSound UpperBoundValid
PROPERTIES FindsCandidate
