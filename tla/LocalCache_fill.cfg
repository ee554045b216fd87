SPECIFICATION FairSpec
CONSTANTS
  p1 = p1  p2 = p2  p3 = p3  k1 = k1  k2 = k2
  Nobody = Nobody  NoKey = NoKey
  Procs = {p1, p2, p3}
  Keys = {k1}
  NParts = 2
  Lockers = {p1, p2}
  Maintenance = FALSE
  RaceErrno = "ENOTEMPTY"
INVARIANTS SingleFlight WorkOnlyIfAbsent
PROPERTIES ServedIsWhole Promise FilledKeyReturns
