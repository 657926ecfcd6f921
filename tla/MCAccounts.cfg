SPECIFICATION Spec
CONSTANTS
  Calls = {c1, c2}
  Emails = {"admin@localhost", "ana@acme"}
  Names = {"Default Organization", "Acme", "ACME!"}
  BaseSlug <- MCBaseSlug
  Admin = "admin@localhost"
  Default = "Default Organization"
  SecretSet = FALSE
  MaxRestarts = 1
  Nothing = Nothing
INVARIANT Inv
INVARIANT NoOrphanOrganization
INVARIANT AnswerTellsTheTruth
INVARIANT TokenOpensItsAccount
PROPERTY EveryRegistrationEnds
CHECK_DEADLOCK FALSE
