CONSTANTS
  Users = {u1, u2}
  Admins = {a1, a2}
  Creator = u1
  Invited = u2
  InviteRole = "member"
  MaxCalls = 3
SPECIFICATION Spec
INVARIANT OwnerRetained
