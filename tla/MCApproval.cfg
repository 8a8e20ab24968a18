CONSTANTS
  a = a
  b = b
  c = c
  free = free
  gated = gated
  ruled = ruled
  safe = safe
  Calls = {a, b, c, free}
  Tools = {gated, ruled, safe}
  ToolOf <- MCToolOf
  Guarded = {gated, ruled}
  AutoRule = {c}
  MaxErrors = 0
  MaxRounds = 1
  MaxFailures = 1
  MaxInjected = 3
SPECIFICATION Spec
INVARIANTS ConsentedOnly OneOutcome NothingForgotten BooksAgree InjectedOnce
PROPERTIES RuleHolds
SYMMETRY Symmetry
CONSTRAINT FewCalls
