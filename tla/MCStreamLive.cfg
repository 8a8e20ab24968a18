SPECIFICATION MCFairSpec
CONSTANTS
  Work = {w1}
  Watchers = {r1}
  Stoppers = {s1}
  Restorers = {k1}
  MayFail = TRUE
  MaxInputs = 1
  MaxTurns = 0
CHECK_DEADLOCK FALSE
PROPERTIES
  WatchReturns
  WorkIsHandled
  CancelReturns
