SPECIFICATION Spec
CONSTANTS
  p1 = p1  p2 = p2  p3 = p3  k1 = k1  k2 = k2
  Nobody = Nobody  NoKey = NoKey
  Procs = {p1, p2}
  Keys = {k1}
  NParts = 2
  Lockers = {p1, p2}
  Maintenance = TRUE
  RaceErrno = "ENOTEMPTY"
INVARIANTS Unmixed LockIsOwned NoCollision
PROPERTIES NeverOverwritten
