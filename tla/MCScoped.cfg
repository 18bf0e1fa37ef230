CONSTANTS
  Key = {"k", "l"}
  Val = {"u", "v"}
  NoValue = "none"
  Member = "in"
  MaxActions = 4
SPECIFICATION Spec
INVARIANTS ScopesOK
PROPERTIES ImplementsSnapshots PopEnds
