CONSTANTS
  Executors = {e1, e2}
  Start = e1
  Inputs = {i1}
  Sends = {m1}
  Requests = {r1, r2}
  None = None
  Unqueued = Unqueued
  Shared = shared
  r1 = r1
  r2 = r2
  MaxSteps = 4
  MaxResponses = 2
  MaxFailures = 1
  MaxRestores = 2
SPECIFICATION FairSpec
INVARIANTS CheckpointIsACut ParentIsThePast HandledOnce ResponseReachesPoster
PROPERTIES ResponseCompletes
CHECK_DEADLOCK FALSE
CONSTRAINTS InTurn Bounds
