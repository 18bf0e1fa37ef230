SPECIFICATION Spec
CONSTANTS
  Dim <- MCDim
  IntDim <- MCIntDim
  Unit = 2
  YDomain <- MCYDomain
  Epsilon = 1
  Precision = 2
  Problems <- MCProblems
  Jobs <- MCJobs
INVARIANTS ContractorsSound NoSolutionLost BoxesCounted ExplanationSound DeltaSat
PROPERTIES Terminates
CHECK_DEADLOCK FALSE
