CONSTANTS
  Sources = {a, b, c}
  MaxSends = 2
  MaxSaved = 2
  MaxFailures = 2
SPECIFICATION Spec
INVARIANTS RoundIsComplete DeliveredInOrder
SYMMETRY Symmetry
CHECK_DEADLOCK FALSE
