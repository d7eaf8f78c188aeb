SPECIFICATION Spec
CONSTANTS
  Vu = {v1, v2, v3}
  InitialWorkers = 1
  MaxWorkers = 2
  Items <- ThreeItems
  MaxJumps = 2
  MaxIterations = 2
  Script = {s1, s2}
  RunId = {i1}
  Poller = {p1}
  Replier = {r1, r2}
  MaxCalls = 1
  NoScript = noScript
INVARIANTS ServicesTypeOK SizedToPeak FlagsAreOwners WalkIsHonest NoLostWakeup DeliveredOnce
PROPERTIES PoolProgress WalkEnds ScriptEnds
CHECK_DEADLOCK FALSE
