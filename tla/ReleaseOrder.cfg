CONSTANTS
  e1 = e1  e2 = e2  none = none
  Noted = {}
  Events = {e1, e2}
  NoEvent = none
  ReleaseOf <- MCReleaseOf
  Created = {"r2"}
  DayTicks = 2
  MaxSteps = 3
  Values = {0, 1, 2, 3}
  Settings <- MCSettings
  MAMaxSteps = 4
  Uploads = {1, 2, 3}
  NCMaxFaults = 2
  Order <- MCOrder
  Files = {"file"}
  Sweepers = {"scheduler", "api"}
  Scheduler = "scheduler"
  NoRecord = none
  Boundary = 1
  RTMaxSteps = 0
SPECIFICATION IssuesSpec
INVARIANT OrderAsObserved
