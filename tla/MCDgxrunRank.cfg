\* A patient operator (cmd:deploy waits for earlier launches and stops) and a
\* docker daemon that does what it is told; inspects may not answer and the agent
\* may restart. No symmetry: the run checks liveness.
SPECIFICATION FairSpec
CONSTANTS
  Deploys = {d1, d2}
  Undeploys = {u1}
  IsHead = TRUE
  Overlap = FALSE
  Inconclusive = TRUE
  DockerFails = FALSE
  MaxReconnects = 0
  MaxAgentCrashes = 1
INVARIANTS
  StopWins
  NoOrphan
PROPERTIES
  PromiseKept
  UndeployConverges
CHECK_DEADLOCK FALSE
