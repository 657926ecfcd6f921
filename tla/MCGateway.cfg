SPECIFICATION Spec
CONSTANTS
  Configured = {"openai", "anthropic"}
  Requests <- MCRequests
  NoRoute = NoRoute
  ExtraRules = {}
  MaxRules = 7
  Calls = {c1, c2}
  Bodies = {"plain", "sensitive"}
  ProviderCodes = {200, 403}
  Nobody = Nobody
  NoAnswer = NoAnswer
  Unread = Unread
INVARIANT Inv
INVARIANT RowsTellTheTruth
INVARIANT RowBeforeReply
INVARIANT CountersKeepTheirBounds
SYMMETRY MCSymmetry
CHECK_DEADLOCK FALSE
