-------------------------- MODULE StateTransitions --------------------------
(***************************************************************************)
(* The states of a persisted state machine entry and the moves it may make *)
(* (StateTransition and ALLOWED_TRANSITIONS of state_persistence.rs).      *)
(***************************************************************************)

StateNames == {"created", "running", "paused", "osc_syncing", "completed",
               "failed", "cancelled", "rolling_back", "fully_rolled_back",
               "partially_rolled_back", "recovery_required"}

ALLOWED_TRANSITIONS ==
    [created |-> {"running", "cancelled"},
     running |-> {"paused", "osc_syncing", "completed", "failed"},
     paused |-> {"running", "cancelled"},
     osc_syncing |-> {"completed", "failed"},
     completed |-> {"rolling_back", "fully_rolled_back"},
     failed |-> {"running", "cancelled", "rolling_back", "recovery_required"},
     cancelled |-> {},
     rolling_back |-> {"fully_rolled_back", "partially_rolled_back", "recovery_required"},
     fully_rolled_back |-> {},
     partially_rolled_back |-> {"recovery_required"},
     recovery_required |-> {}]

is_valid_transition(from, to) == to \in ALLOWED_TRANSITIONS[from]
=============================================================================
