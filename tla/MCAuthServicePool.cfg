SPECIFICATION Spec
CONSTANTS
  Calls = {c1, c2}
  Ana = "ana"
  Newcomers = {"ben"}
  Passwords = {"first", "second"}
  First = "first"
  PoolSize = 2
  Earlier = Earlier
PROPERTY EveryTransactionEnds
CHECK_DEADLOCK FALSE
