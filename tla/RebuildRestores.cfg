CONSTANTS
  Appliers = {a1}
  Controllers = {r1, r2}
  NoController = none
  MaxRow = 2
  Batch = 1
  Families = 1
  MaxRebuilds = 2
  RBMaxFaults = 0
SPECIFICATION RBSpec
INVARIANT RebuildRestores
