-------------------------- MODULE MCRunningQueries --------------------------
(***************************************************************************)
(* TLC instances of RunningQueries.                                        *)
(***************************************************************************)
EXTENDS RunningQueries, TLC

\* Execution ids are interchangeable, and so are registrations and callers.
Symmetry == Permutations(ExecutionIds) \cup Permutations(Registrations)
            \cup Permutations(Callers)
=============================================================================
