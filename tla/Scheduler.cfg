CONSTANTS
  Nodes = {n1, n2}
  Gone = gone
  TTL = 3
  BusyTicks = 3
  Broken = {"uptime"}
  MaxFaults = 1
SPECIFICATION FairSpec
INVARIANT RoundsExclusive
PROPERTIES LeaseSpec DutiesRecur
