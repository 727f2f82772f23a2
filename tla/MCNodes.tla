------------------------------- MODULE MCNodes -------------------------------
(* Nodes with one row of the machine and two jobs at a time.                  *)
EXTENDS Nodes, TLC

CONSTANTS r1, j1, j2

MCRows == {r1}
MCJobs == {j1, j2}

\* One without a line the probe looks for, and one it mistakes for its own.
MCOverrides == {{"other"}, {"models", "other"}}

\* The search does not go on from states where two Ollama scripts overlapped.
NotMixed == ~mixed

\* Power is explored on a machine without somebody else's Ollama: to a script that
\* meets one, a machine going down is one more way to be cut short.
NoPowerBesideTheirs == oll.unit = "theirs" => cmd = "none" /\ doom = "none"

Symmetry == Permutations(MCJobs)
==============================================================================
