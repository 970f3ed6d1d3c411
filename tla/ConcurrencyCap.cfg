SPECIFICATION FairSpec
CONSTANTS
  Requests = {r1, r2, r3}
  Providers = {"anthropic", "codex"}
  Cap = 1
INVARIANTS
  PermitsAccounted
  NoIdlePermit
PROPERTIES
  KeepsPromise
  QueueIsLeft
  EveryRequestEnds
CHECK_DEADLOCK FALSE
