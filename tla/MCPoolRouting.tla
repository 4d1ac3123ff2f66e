--------------------------- MODULE MCPoolRouting ---------------------------
(* PoolRouting for TLC.                                                    *)
EXTENDS PoolRouting, TLC

Symmetry == Permutations(Pools) \cup Permutations(Probes)
            \cup Permutations(Queries) \cup Permutations(Runtimes)
=============================================================================
