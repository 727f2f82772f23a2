-------------------------- MODULE MCDgxrunCluster --------------------------
(* DgxrunCluster on clusters of two and three nodes.                         *)
EXTENDS DgxrunCluster

=============================================================================
