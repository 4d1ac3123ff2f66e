-------------------------- MODULE MCTwoPhaseCommit --------------------------
(***************************************************************************)
(* TLC instances of TwoPhaseCommit: the .cfg files give the constants.     *)
(***************************************************************************)
EXTENDS TwoPhaseCommit
=============================================================================
