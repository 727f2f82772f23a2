---------------------------- MODULE MCAgentHost ----------------------------
(* AgentHost with the bundles that tell its checks apart.                    *)
EXTENDS AgentHost, TLC

MCShipped == {[ver |-> 1, works |-> TRUE]}

\* The wanted version, working and broken, and a bundle of the older version.
MCBundles == {[ver |-> 2, works |-> TRUE], [ver |-> 2, works |-> FALSE],
              [ver |-> 1, works |-> TRUE]}

\* Every property excepts what follows such an overlap: it is not explored.
NotMixed == ~mixed

UpdaterSymmetry == Permutations(Updaters)

=============================================================================
