CONSTANTS
  Clients = {c1, c2}
  MaxEvents = 6
  Limit = 2
  TrimInterval = 2
  Poison = {1}
  MaxFaults = 2
SPECIFICATION Spec
INVARIANT RequeuedNotSkipped
