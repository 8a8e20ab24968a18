SPECIFICATION MCSpec
CONSTANTS
  Work = {w1, w2}
  Watchers = {r1, r2}
  Stoppers = {s1}
  Restorers = {k1}
  MayFail = TRUE
  MaxInputs = 2
  MaxTurns = 1
CHECK_DEADLOCK FALSE
SYMMETRY ClientSymmetry
INVARIANTS
  HaltAcknowledgesInput
  NoLostWakeup
  NoStrandedWatcher
  DeathIsReported
PROPERTIES
  WatchReturnsOnlyWhenSettled
