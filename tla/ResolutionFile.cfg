SPECIFICATION Spec
CONSTANTS
  w1 = w1  w2 = w2  v1 = v1
  None = None
  Writers = {w1, w2}
  Readers = {v1}
  Digests = {"d1"}
  Removal = TRUE
INVARIANTS TornHasACause
PROPERTIES FailuresAreShared
