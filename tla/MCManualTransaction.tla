------------------------- MODULE MCManualTransaction ------------------------
(***************************************************************************)
(* TLC instances of ManualTransaction.  The calls are not declared to be   *)
(* symmetric, since the runs check liveness too.                           *)
(***************************************************************************)
EXTENDS ManualTransaction
=============================================================================
