\* Two requests at a time on an eval node and a GPU node, three in all.
SPECIFICATION Spec
CONSTANTS
  Nodes = {1, 2}
  Total <- Memory
  Role <- Roles
  Arch <- Archs
  RecipeArch = "any"
  Ranks = 1
  Shares = {8, 17}
  Deps = {"a", "b"}
  Slots = {s1, s2}
  Posts <- Bodies
  Restarts <- Again
  Foreigners <- Training
  MaxRequests = 3
  MaxEvents = 1
SYMMETRY SlotSymmetry
INVARIANTS
  AdmittedFits
  ReclaimEarned
  AutoPickAgrees
CHECK_DEADLOCK FALSE
