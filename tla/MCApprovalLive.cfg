CONSTANTS
  a = a
  b = b
  c = c
  free = free
  gated = gated
  ruled = ruled
  safe = safe
  Calls = {a, b, free}
  Tools = {gated, ruled, safe}
  ToolOf <- MCToolOf
  Guarded = {gated, ruled}
  AutoRule = {}
  MaxErrors = 1
  MaxRounds = 1
  MaxFailures = 1
  MaxInjected = 0
SPECIFICATION FairSpec
PROPERTIES EveryCallAnswered
