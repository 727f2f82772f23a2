\* One row, two jobs at a time, two requests, one fault.
SPECIFICATION Spec
CONSTANTS
  r1 = r1
  j1 = j1
  j2 = j2
  NoRow = NoRow
  Rows <- MCRows
  Jobs <- MCJobs
  MaxRequests = 2
  MaxFaults = 1
  Overrides <- MCOverrides
SYMMETRY Symmetry
CONSTRAINTS NotMixed NoPowerBesideTheirs
INVARIANTS PowerHonest ProvisioningIsLive
PROPERTY OllamaOwnership
CHECK_DEADLOCK FALSE
