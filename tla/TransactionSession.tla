------------------------ MODULE TransactionSession --------------------------
(***************************************************************************)
(* What a manual transaction session promises its user: one transaction,   *)
(* begun once, that one party takes and ends once.  It is committed only   *)
(* by its user's own commit; the idle timeout and a failed statement roll  *)
(* it back; and it is left open only after a mishap, a COMMIT or ROLLBACK  *)
(* that returned an error or a future that was dropped.                    *)
(***************************************************************************)

VARIABLES
    phase,              \* of the session and its transaction
    owner,              \* who took the session to end it
    mishap              \* has an operation failed, or a future been dropped?

vars == <<phase, owner, mishap>>

Init ==
    /\ phase = "none"
    /\ owner = "nobody"
    /\ mishap = FALSE

Open ==
    /\ phase = "none"
    /\ phase' = "active"
    /\ UNCHANGED <<owner, mishap>>

Take(who, end) ==
    /\ phase = "active"
    /\ end = "committing" => who = "user"
    /\ phase' = end
    /\ owner' = who
    /\ UNCHANGED mishap

\* An operation that returns an error may have taken place.
End ==
    /\ \/ phase = "committing" /\ phase' = "committed"
       \/ phase = "rolling_back" /\ phase' = "rolled_back"
    /\ mishap' \in {mishap, TRUE}
    /\ UNCHANGED owner

Mishap ==
    /\ mishap' = TRUE
    /\ \/ UNCHANGED phase
       \/ phase \in {"committing", "rolling_back"} /\ phase' = "abandoned"
    /\ UNCHANGED owner

Next ==
    \/ Open
    \/ \E who \in {"user", "idle", "failure"}, end \in {"committing", "rolling_back"} :
          Take(who, end)
    \/ End
    \/ Mishap

Spec == Init /\ [][Next]_vars
=============================================================================
