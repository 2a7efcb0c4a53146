CONSTANTS
  w1 = w1
  w2 = w2
  c1 = c1
  c2 = c2
  Clients = {c1, c2}
  Workers = {w1, w2}
  NoWorker = none
  Requests <- MCRequests
  Events <- MCEvents
  MaxRuns = 2
  LeaseTicks = 1
  MaxFaults = 2
  Appliers = {a1}
  Controllers = {w1, w2}
  NoController = none
  MaxRow = 1
  Batch = 1
  Families = 2
  MaxRebuilds = 1
  RBMaxFaults = 1
SPECIFICATION MCSpec
INVARIANTS
  ActiveRunsDisjoint
  RefusalExplained
  ProcessedCountsEvents
  CompletedCoversUnlessMatured
  BridgeRestored
PROPERTIES
  FinishedStays
  RunsEnd
