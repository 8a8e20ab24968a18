CONSTANTS
  N = 3
  Host = host
  None = none
  MaxRequests = 2
  Setups <- MCWrapped
SPECIFICATION Spec
INVARIANT TurnIsHeld
CHECK_DEADLOCK FALSE
