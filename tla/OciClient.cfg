SPECIFICATION FairSpec
CONSTANTS
  a1 = a1  a2 = a2
  None = None
  Artifacts = {a1, a2}
  MaxOps = 2
INVARIANTS PulledIsOneArtifact NotFoundIsAbsent TokenIsRenewed
PROPERTIES PushedIsWhole Ends
CHECK_DEADLOCK FALSE
