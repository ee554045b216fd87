------------------------------ MODULE MCClient ------------------------------
(* The instance of Client for TLC.                                         *)
EXTENDS ClientWorlds, Client

OneCallEach == [t \in Threads |-> 1]

\* TLC evaluates a definition without parameters once, but not the one that a
\* cfg gives to a constant: hence one more name.
TheWorldAtValue == TheWorldAt
TheArgsAtValue == TheArgsAt
TheSpecAtValue == TheSpecAt
TheSchemaValue == TheSchema
ThePathsValue == ThePaths
TheKeys == DOMAIN TheSpecAt
TheBuilds == {"aot", "jit"} \X TheKeys
TheKeyOf == RequestKey
TheDeliver == DeliverBuild
TheShared == SharedBuild
TheChecks == RuntimeChecks
TheOpens == LoaderOpens
=============================================================================
