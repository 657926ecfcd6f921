SPECIFICATION Spec
CONSTANTS
  Calls = {c1, c2}
  Ana = "ana"
  Newcomers = {"ben"}
  Passwords = {"first", "second"}
  First = "first"
  PoolSize = 2
  Earlier = Earlier
INVARIANT Inv
INVARIANT PasswordKept
INVARIANT UsedResetRefused
INVARIANT InactiveStaysOut
INVARIANT TokensHaveAccounts
PROPERTY EveryCallEnds
CHECK_DEADLOCK FALSE
