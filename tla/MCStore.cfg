CONSTANTS
  Checkpoints = {c1, c2, c3}
  None = None
  Faults = {"write", "append", "short", "sync", "truncate", "remove"}
  MaxFaults = 3
  MaxCrashes = 2
SPECIFICATION Spec
INVARIANTS CommittedSurvives IndexedIsReadable InOrder
PROPERTY IsALog
SYMMETRY Symmetry
CHECK_DEADLOCK FALSE
