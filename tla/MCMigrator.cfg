SPECIFICATION Spec
CONSTANTS
  Processes = {p1, p2}
  Kinds <- AllKinds
  MaxStarts = 3
  MaxRollbacks = 2
INVARIANT Inv
INVARIANT RecordsTrue
INVARIANT AppliedPrefix
INVARIANT StartsMigrate
PROPERTY DefaultDataOnce
PROPERTY EveryCallEnds
CHECK_DEADLOCK FALSE
