CONSTANTS
  Runs = {t1, t2}
  Hosts = {h1, h2}
  Children = {c1, c2}
  None = None
  Address = Address
  OneIdentity = TRUE
  HasResettable = TRUE
SPECIFICATION Spec
INVARIANTS OneRun BoundIsNotRun CleanUnlessRaced
CHECK_DEADLOCK FALSE
SYMMETRY Symmetry
