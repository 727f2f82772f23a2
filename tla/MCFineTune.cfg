\* One worker, one fault: an agent restart, a lost socket or a removal that fails.
SPECIFICATION FairSpec
CONSTANTS
  Workers = {w1}
  Patient = TRUE
  MaxFaults = 1
  MaxRenames = 1
  MaxCmds = 1
  MaxMsgs = 1
INVARIANTS
  OverMeansDown
  StagesInOrder
  ServedHasRows
PROPERTIES
  EveryStageEnds
  DeleteStops
CHECK_DEADLOCK FALSE
