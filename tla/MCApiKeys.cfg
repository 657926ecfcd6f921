SPECIFICATION Spec
CONSTANTS
  ana = ana  ben = ben  eve = eve
  Users <- MCUsers
  OrgOf <- MCOrgOf
  Keys = {k1}
  TestKeys = {demo}
  Calls = {c1, c2, c3}
  MaxTime = 2
  Never = Never
  Nothing = Nothing
INVARIANT Inv
INVARIANT DeadKeyRefused
PROPERTY OnlyByItsTenant
PROPERTY RefinesAccess
SYMMETRY MCSymmetry
CHECK_DEADLOCK FALSE
