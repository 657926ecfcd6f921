SPECIFICATION Spec
CONSTANTS
  ana = ana  ben = ben  eve = eve
  Users <- MCUsers
  OrgOf <- MCOrgOf
  Keys = {k1}
  TestKeys = {demo}
  Calls = {c1, c2, c3}
  MaxTime = 1
  Never = Never
  Nothing = Nothing
PROPERTY DeletedForGood
CHECK_DEADLOCK FALSE
