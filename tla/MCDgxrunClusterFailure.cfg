\* Three ranks, one of which fails, and one socket that drops and comes back.
SPECIFICATION FairSpec
CONSTANTS
  Nodes = {n1, n2, n3}
  HeadNode = n1
  Patient = TRUE
  MaxOps = 0
  MaxFaults = 1
  MaxDrops = 1
PROPERTY
  FailureTearsDown
CHECK_DEADLOCK FALSE
