\* Two requests, a restart, lost socket or failed call, and a load or eviction.
SPECIFICATION FairSpec
CONSTANTS
  Deps = {"a"}
  Models = {"m"}
  ModelOf <- OneModel
  MaxCmds = 2
  MaxFaults = 1
  MaxMoves = 1
INVARIANTS
  NoGhost
  GoneIsForgotten
  NoFalseEviction
PROPERTIES
  RowFollowsMemory
  RestoreHeals
  DeleteEnds
CHECK_DEADLOCK FALSE
