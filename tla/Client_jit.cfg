SPECIFICATION Spec
CONSTANTS
  None = None
  Threads = {t1, t2}
  Versions <- TheVersions
  Worlds <- TheWorlds
  Requests <- TheRequests
  Keys <- TheKeys
  Builds <- TheBuilds
  KeyOf <- TheKeyOf
  Deliver <- TheDeliver
  Shared <- TheShared
  Checks <- TheChecks
  Opens <- TheOpens
  MaxCalls <- OneCallEach
  MaxSafe = 4
  WorldAt <- TheWorldAtValue
  ArgsAt <- TheArgsAtValue
  SpecAt <- TheSpecAtValue
  ArgsSchema <- TheSchemaValue
  ArgsPaths <- ThePathsValue
INVARIANT JitIsAccepted
CHECK_DEADLOCK FALSE
