CONSTANTS
  Executors = {e1, e2}
  SharedScopes = {shared}
  Keys = {k1, k2}
  Values = {v1}
  None = None
  Unqueued = Unqueued
  MaxSaved = 1
SPECIFICATION Spec
SYMMETRY ExecutorSymmetry
CONSTRAINT TwoKeysOrPrivate
INVARIANTS KeysAreReadable
PROPERTIES ContestedIsFinal KeepsPromise
