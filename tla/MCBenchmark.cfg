\* One restart or lost socket, one late answer, one answer taken for another.
SPECIFICATION FairSpec
CONSTANTS
  Kinds = {"plain", "proxied"}
  Newlines = {}
  MaxBytes <- MCMaxBytes
  MaxFaults = 1
  MaxMixups = 1
INVARIANTS
  CompletedIsReal
  NoFalseFailure
  LogExact
PROPERTIES
  EveryRunEnds
  CancelStops
CHECK_DEADLOCK FALSE
