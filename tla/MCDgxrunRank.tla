---------------------------- MODULE MCDgxrunRank ----------------------------
(* DgxrunRank on small instances: the deploy and undeploy messages are       *)
(* interchangeable, so safety runs may permute them.                         *)
EXTENDS DgxrunRank, TLC

CommandSymmetry == Permutations(Deploys) \cup Permutations(Undeploys)
=============================================================================
