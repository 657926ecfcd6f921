SPECIFICATION Spec
CONSTANTS
  r1 = r1
  r2 = r2
  v1 = v1
  v2 = v2
  Requests = {r1}
  Viewers = {v1, v2}
  Organizations = {"acme", "other"}
  OrgOf <- OneEach
  Limit = 1
INVARIANT RateIsOwn
CHECK_DEADLOCK FALSE
