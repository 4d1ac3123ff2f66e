-------------------------- MODULE MCTaskSupervisor --------------------------
(***************************************************************************)
(* TLC instances of TaskSupervisor: the .cfg gives the constants.          *)
(***************************************************************************)
EXTENDS TaskSupervisor
=============================================================================
