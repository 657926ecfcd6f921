SPECIFICATION Spec
CONSTANTS
  r1 = r1
  r2 = r2
  v1 = v1
  v2 = v2
  Requests = {r1, r2}
  Viewers = {v1}
  Organizations = {"acme", "other"}
  OrgOf <- MCOrgOf
  Limit = 1
SYMMETRY Alike
CONSTRAINT SomeoneAsks
INVARIANT PagesShowAll
CHECK_DEADLOCK FALSE
