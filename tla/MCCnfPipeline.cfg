SPECIFICATION Spec
CHECK_DEADLOCK FALSE
CONSTANTS
  ValuesOf <- MCValuesOf
  SampleOf <- MCSampleOf
  Pool <- MCPool
  Later <- MCLater
  MaxFormulas = 2
  Delta = 1
INVARIANTS ClausesInForm OneVariablePerPredicate SameSolutions StrengthenRestricts
