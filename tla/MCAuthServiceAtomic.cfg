SPECIFICATION Spec
CONSTANTS
  Calls = {c1}
  Ana = "ana"
  Newcomers = {"ben"}
  Passwords = {"first", "second"}
  First = "first"
  PoolSize = 2
  Earlier = Earlier
INVARIANT AtomicRegistration
CHECK_DEADLOCK FALSE
