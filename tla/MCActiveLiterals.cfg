CONSTANTS
  NumVars  = 4
  Clauses  <- MCClauses
  Rejected <- MCRejected
  MaxStore = 10
SPECIFICATION Spec
INVARIANTS StoreOK NeverUncovered KeptAreNeeded
PROPERTIES ScanYieldsResult
CHECK_DEADLOCK FALSE
