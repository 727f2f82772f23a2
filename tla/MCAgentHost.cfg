\* Two updaters, one reinstallation, one lost socket, one reboot.
SPECIFICATION Spec
CONSTANTS
  Updaters = {u1, u2}
  Shipped <- MCShipped
  Bundles <- MCBundles
  KillModes = {"control-group", "process"}
  MaxInstalls = 2
  MaxFaults = 1
CONSTRAINT NotMixed
SYMMETRY UpdaterSymmetry
INVARIANTS
  IdentityKept
  AuditHonest
PROPERTY
  OutcomeTrue
CHECK_DEADLOCK FALSE
