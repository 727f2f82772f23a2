\* Two ranks, one failing launch or container, two DELETE or restart requests.
SPECIFICATION Spec
CONSTANTS
  Nodes = {n1, n2}
  HeadNode = n1
  Patient = TRUE
  MaxOps = 2
  MaxFaults = 1
  MaxDrops = 0
INVARIANTS
  TeardownComplete
  RowGoneMeansDown
  DeleteCarriedThrough
CHECK_DEADLOCK FALSE
