CONSTANTS
  a1 = a1
  a2 = a2
  c1 = c1
  c2 = c2
  c3 = c3
  n1 = n1
  n2 = n2
  Users = {u1, u2}
  Admins = {a1, a2}
  Creator = u1
  Invited = u2
  InviteRole = "member"
  MaxCalls = 4
  GrantSets = {{}, {"org:admin"}, {"issue:write"}, {"release:write", "project:keys:write"}}
  Holders = {h1, h2, h3}
  NoHolder = none
  TTL = 3
SPECIFICATION MCSpec
INVARIANTS
  ControlTypes
  
  RevocationTakesHold
  StatusAsAskedUnlessCrossed
  BackedUntilLate
  OwnerRetainedUnlessUncounted
  TeamWithinOrgUnlessCrossed
  

  
