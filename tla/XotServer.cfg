SPECIFICATION ServerSpec
CONSTANTS
  Stream = "near"
  Locked = TRUE
CHECK_DEADLOCK FALSE
INVARIANTS RelayTypeOK NothingLeftBehind
PROPERTIES RelayUnwinds AbandonedRelayEnds ClearIsAnswered PacketsStayWhole
