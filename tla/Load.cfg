SPECIFICATION FairSpec
CONSTANTS
  r1 = r1  r2 = r2
  None = None
  Callers = {"c1", "c2"}
  Order <- TwoRegistries
  Primary = r2
  Releases = {"d1", "d2"}
  MaxCalls <- TwoAndOne
INVARIANTS CompileOnlyAfterMiss FailClosed DevIsCurrent WalkIsExhaustive WarmServes OfflineIsSilent
PROPERTIES Contract Terminates
CHECK_DEADLOCK FALSE
