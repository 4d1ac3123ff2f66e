--------------------------- MODULE MCStateMachine ---------------------------
(***************************************************************************)
(* TLC instances of StateMachine: the .cfg files give the constants.       *)
(***************************************************************************)
EXTENDS StateMachine
=============================================================================
