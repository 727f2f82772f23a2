---------------------------- MODULE MCAdmission ----------------------------
(* Admission on an eval node and a GPU node with ten units of memory.        *)
EXTENDS Admission, TLC

Memory == [n \in Nodes |-> 10]

Roles == [n \in Nodes |-> IF n = 1 THEN "eval" ELSE "gpu"]

Archs == [n \in Nodes |-> "arm64"]

Post(runtime, target, ask, name) ==
  [runtime |-> runtime, target |-> target, node |-> 2, ask |-> ask, name |-> name]

Bodies == {Post("vllm", "auto", 0, "x"), Post("ollama", "auto", 0, "")}

Restart(ask, other) == [ask |-> ask, other |-> other, name |-> "absent"]

Again == {Restart(0, FALSE), Restart(13, TRUE)}

Training == {<<2, 4>>}

SlotSymmetry == Permutations(Slots)
=============================================================================
