------------------------------ MODULE MCOllama ------------------------------
(* One deployment beside others of the node that serve the same model.       *)
EXTENDS Ollama

OneModel == [d \in Deps |-> "m"]
=============================================================================
