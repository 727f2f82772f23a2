\* docker rm and docker stop may fail, docker inspect may not answer, the agent
\* may reconnect; a worker's rank.
SPECIFICATION Spec
CONSTANTS
  Deploys = {d1, d2}
  Undeploys = {u1, u2}
  IsHead = FALSE
  Overlap = FALSE
  Inconclusive = TRUE
  DockerFails = TRUE
  MaxReconnects = 1
  MaxAgentCrashes = 0
SYMMETRY CommandSymmetry
INVARIANTS
  StopForgets
  EvidenceKept
CHECK_DEADLOCK FALSE
