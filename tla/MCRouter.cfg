SPECIFICATION RouterSpec
CONSTANTS
  Configured <- MCConfigured
  Requests <- MCRequests
  ExtraRules <- MCExtraRules
  NoRoute = NoRoute
  MaxRules = 9
INVARIANT RouterInv
PROPERTY ReroutedForAReason
