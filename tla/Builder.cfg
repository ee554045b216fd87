SPECIFICATION FairSpec
CONSTANTS
  Dockers = {"d1"}
  Nixes = {"n1"}
INVARIANTS NothingIsLeft
PROPERTIES BuiltIsComplete Ends
CHECK_DEADLOCK FALSE
