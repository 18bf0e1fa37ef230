CONSTANTS
  Point     <- MCPoint
  TheoryVar <- MCTheoryVar
  Op        <- MCOp
  Diff      <- MCDiff
  Delta     = 2
  Slack     = 1
  BoolVar   = {"q"}
  CnfVar    = {"t"}
  Formulas  <- MCFormulas
  Boxes     <- MCBoxes
SPECIFICATION Spec
INVARIANTS TypeOK UnsatSound SatSound LearnedSound
PROPERTIES Progress UnsatIsFinal Terminates ImplementsContract
