CONSTANTS
  N = 3
  Host = host
  None = none
  MaxRequests = 2
  Setups <- MCSetups
SPECIFICATION FairSpec
INVARIANTS OneTurn HeardInOrder TranscriptIsWhole WaitsOnlyForAnswers TurnsGoRound
PROPERTIES ChatEnds IsAConversation
CHECK_DEADLOCK FALSE
