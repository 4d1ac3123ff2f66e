------------------------- MODULE LinearStateMachine -------------------------
(***************************************************************************)
(* What StateMachine promises its users: one entry, created anew and       *)
(* deleted at will, that otherwise moves only along ALLOWED_TRANSITIONS,   *)
(* one atomic move at a time, however many clients move it concurrently.   *)
(***************************************************************************)
EXTENDS StateTransitions

CONSTANT Absent         \* there is no entry

VARIABLE current        \* current_state of the entry, or Absent

Init == current = Absent
Create == current' = "created"
Delete == current' = Absent
Move == /\ current # Absent
        /\ current' \in StateNames
        /\ is_valid_transition(current, current')
Spec == Init /\ [][Create \/ Delete \/ Move]_current
=============================================================================
