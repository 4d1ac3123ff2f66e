------------------------- MODULE ManualTransaction --------------------------
(***************************************************************************)
(* One manual transaction session of dbx-core (query.rs): its entry in     *)
(* transaction_sessions, the connection that holds the open transaction,   *)
(* the calls that use or end it, the keep-alive guards and the idle        *)
(* watchers.                                                               *)
(*                                                                         *)
(* A step is one critical section of the map's lock or one operation on    *)
(* the connection, which a call performs under the connection's mutex.     *)
(*                                                                         *)
(* Time is what the code compares: age is 0, 1 or 2 when less than, exactly*)
(* or more than the idle timeout has passed since last_activity.  A        *)
(* watcher sleeps for the timeout: one that was spawned since the last     *)
(* activity ("fresh") cannot wake before age 1, an older one ("stale") can *)
(* wake at any time.                                                       *)
(***************************************************************************)
EXTENDS Naturals, FiniteSets

CONSTANTS
    Calls,              \* calls of execute, stream, commit and rollback, each made once
    Keepers,            \* keep-alive guards, each made once
    Begin,              \* names the watcher that begin spawns
    MaxFaults,          \* bound on COMMITs and ROLLBACKs that fail
    MaxDrops            \* bound on executing futures that are dropped

Spawners == Calls \cup Keepers \cup {Begin}

ASSUME SpawnersAssumption ==
    Calls \cap Keepers = {} /\ Begin \notin Calls \cup Keepers
ASSUME BoundsAssumption == MaxFaults \in Nat /\ MaxDrops \in Nat

VARIABLES
    in_map,             \* is the session in transaction_sessions?
    busy,               \* its busy flag
    age,                \* age of its last_activity
    txn,                \* the transaction on its connection
    pc,                 \* where a call is
    result,             \* what a call returned
    keep,               \* a keep-alive guard and its task
    watch,              \* the idle watcher a spawner started
    removed_by,         \* what took the session out of the map (history)
    outside,            \* calls that sent SQL with no transaction open (history)
    faults, drops       \* failures so far (history)

vars == <<in_map, busy, age, txn, pc, result, keep, watch, removed_by, outside,
          faults, drops>>

PCs == {"idle", "claimed", "locking", "running", "failing", "closing",
        "rolling_back", "commit", "rollback", "expired", "done"}
Results == {"none", "ok", "error", "rolled_back"}

Init ==
    /\ in_map = FALSE
    /\ busy = FALSE
    /\ age = 0
    /\ txn = "none"
    /\ pc = [c \in Calls |-> "idle"]
    /\ result = [c \in Calls |-> "none"]
    /\ keep = [k \in Keepers |-> "none"]
    /\ watch = [w \in Spawners |-> "none"]
    /\ removed_by = "nobody"
    /\ outside = {}
    /\ faults = 0
    /\ drops = 0

-----------------------------------------------------------------------------
Goto(c, p) == pc' = [pc EXCEPT ![c] = p] /\ UNCHANGED result

Return(c, r) ==
    /\ pc' = [pc EXCEPT ![c] = "done"]
    /\ result' = [result EXCEPT ![c] = r]

\* sessions.remove(txn_session_id), which finds the session.
TakeSession(who) ==
    /\ in_map
    /\ in_map' = FALSE
    /\ removed_by' = who

\* last_activity = now: whoever slept before wakes too early.
Aged == [w \in Spawners |-> IF watch[w] = "fresh" THEN "stale" ELSE watch[w]]
Touch == age' = 0 /\ watch' = Aged
TouchAndSpawn(w) == age' = 0 /\ watch' = [Aged EXCEPT ![w] = "fresh"]

\* The calls that hold the mutex of the connection over several steps.
LockFree == \A c \in Calls : pc[c] \notin {"running", "failing", "rolling_back"}

\* ROLLBACK or COMMIT on the connection (external).  One that returns an error
\* may have taken place all the same.
EndTransaction(good, how) ==
    /\ good \/ faults < MaxFaults
    /\ IF txn = "open" THEN txn' \in {how} \cup (IF good THEN {} ELSE {"open"})
                       ELSE UNCHANGED txn
    /\ faults' = IF good THEN faults ELSE faults + 1

begin ==
    /\ txn = "none"
    /\ txn' = "open"
    /\ in_map' = TRUE
    /\ watch' = [watch EXCEPT ![Begin] = "fresh"]
    /\ UNCHANGED <<busy, age, pc, result, keep, removed_by, outside, faults, drops>>

-----------------------------------------------------------------------------
(* execute_in_manual_transaction and stream_rows_in_manual_transaction     *)

\* A call that returns before it changes anything: no such session, a busy one,
\* an empty script, one the connection may not run.
Refuse(c) ==
    /\ txn # "none" /\ pc[c] = "idle"
    /\ Return(c, "error")
    /\ UNCHANGED <<in_map, busy, age, txn, keep, watch, removed_by, outside,
                   faults, drops>>

Claim_EvenIfBusy(c) ==
    /\ pc[c] = "idle" /\ in_map /\ age < 2
    /\ busy' = TRUE
    /\ Touch
    /\ Goto(c, "claimed")
    /\ UNCHANGED <<in_map, txn, keep, removed_by, outside, faults, drops>>

Claim(c) ==
    /\ pc[c] = "idle" /\ in_map /\ ~busy /\ age < 2
    /\ busy' = TRUE
    /\ Touch
    /\ Goto(c, "claimed")
    /\ UNCHANGED <<in_map, txn, keep, removed_by, outside, faults, drops>>

\* The session is over its idle timeout: the call ends it.
Expire(c) ==
    /\ pc[c] = "idle" /\ ~busy /\ age = 2
    /\ TakeSession("idle")
    /\ Goto(c, "expired")
    /\ UNCHANGED <<busy, age, txn, keep, watch, outside, faults, drops>>

\* The session is looked up again for its connection.
Fetch(c) ==
    /\ pc[c] = "claimed"
    /\ IF in_map THEN Goto(c, "locking") ELSE Return(c, "error")
    /\ UNCHANGED <<in_map, busy, age, txn, keep, watch, removed_by, outside,
                   faults, drops>>

Lock(c) ==
    /\ pc[c] = "locking" /\ LockFree
    /\ Goto(c, "running")
    /\ UNCHANGED <<in_map, busy, age, txn, keep, watch, removed_by, outside,
                   faults, drops>>

\* The statements run, up to the end or to the first that fails.
RunStatements(c, good) ==
    /\ pc[c] = "running"
    /\ outside' = IF txn = "open" THEN outside ELSE outside \cup {c}
    /\ Goto(c, IF good THEN "closing" ELSE "failing")
    /\ UNCHANGED <<in_map, busy, age, txn, keep, watch, removed_by, faults, drops>>

\* A statement has failed: who takes the session out of the map rolls back.
Fail_LeavesTransaction(c) ==
    /\ pc[c] = "failing" /\ in_map
    /\ TakeSession("failure")
    /\ Return(c, "rolled_back")
    /\ UNCHANGED <<busy, age, txn, keep, watch, outside, faults, drops>>

Fail(c) ==
    /\ pc[c] = "failing" /\ in_map
    /\ TakeSession("failure")
    /\ Goto(c, "rolling_back")
    /\ UNCHANGED <<busy, age, txn, keep, watch, outside, faults, drops>>

FailTaken_RollsBackToo(c) ==
    /\ pc[c] = "failing" /\ ~in_map
    /\ Goto(c, "rolling_back")
    /\ UNCHANGED <<in_map, busy, age, txn, keep, watch, removed_by, outside,
                   faults, drops>>

FailTaken(c) ==
    /\ pc[c] = "failing" /\ ~in_map
    /\ Return(c, "rolled_back")
    /\ UNCHANGED <<in_map, busy, age, txn, keep, watch, removed_by, outside,
                   faults, drops>>

RollBackHeld(c, good) ==
    /\ pc[c] = "rolling_back"
    /\ EndTransaction(good, "rolled_back")
    /\ Return(c, "rolled_back")
    /\ UNCHANGED <<in_map, busy, age, keep, watch, removed_by, outside, drops>>

\* All statements have run: the session is idle again, if it is still there,
\* and watched.
Finish_Unwatched(c) ==
    /\ pc[c] = "closing"
    /\ Return(c, "ok")
    /\ IF in_map THEN busy' = FALSE /\ Touch
                 ELSE UNCHANGED <<busy, age, watch>>
    /\ UNCHANGED <<in_map, txn, keep, removed_by, outside, faults, drops>>

Finish(c) ==
    /\ pc[c] = "closing"
    /\ Return(c, "ok")
    /\ IF in_map THEN busy' = FALSE /\ TouchAndSpawn(c)
                 ELSE UNCHANGED <<busy, age, watch>>
    /\ UNCHANGED <<in_map, txn, keep, removed_by, outside, faults, drops>>

\* await_export_operation drops the future of an execute call when the export
\* is cancelled; the mutex is released, the map stays as it is.
Drop(c) ==
    /\ pc[c] \in {"claimed", "locking", "running", "failing", "rolling_back", "closing"}
    /\ drops < MaxDrops
    /\ drops' = drops + 1
    /\ Return(c, "error")
    /\ UNCHANGED <<in_map, busy, age, txn, keep, watch, removed_by, outside, faults>>

-----------------------------------------------------------------------------
(* commit_manual_transaction and rollback_manual_transaction               *)

Take(c, op) ==
    /\ pc[c] = "idle"
    /\ TakeSession("user")
    /\ Goto(c, op)
    /\ UNCHANGED <<busy, age, txn, keep, watch, outside, faults, drops>>

CommitTaken(c, good) ==
    /\ pc[c] = "commit" /\ LockFree
    /\ EndTransaction(good, "committed")
    /\ Return(c, IF good THEN "ok" ELSE "error")
    /\ UNCHANGED <<in_map, busy, age, keep, watch, removed_by, outside, drops>>

\* Also the end of an execute call that found the session expired.
RollBackTaken(c, good) ==
    /\ pc[c] \in {"rollback", "expired"} /\ LockFree
    /\ EndTransaction(good, "rolled_back")
    /\ Return(c, IF good /\ pc[c] = "rollback" THEN "ok" ELSE "error")
    /\ UNCHANGED <<in_map, busy, age, keep, watch, removed_by, outside, drops>>

-----------------------------------------------------------------------------
(* Keep-alive guards and idle watchers                                     *)

Keep(k) ==
    /\ keep[k] = "none" /\ in_map
    /\ keep' = [keep EXCEPT ![k] = "alive"]
    /\ IF busy THEN UNCHANGED <<age, watch>> ELSE Touch
    /\ UNCHANGED <<in_map, busy, txn, pc, result, removed_by, outside, faults, drops>>

\* The task of a guard: every 30 seconds, until the session is gone.
Refresh(k) ==
    /\ keep[k] = "alive"
    /\ IF in_map /\ ~busy THEN Touch ELSE UNCHANGED <<age, watch>>
    /\ keep' = IF in_map THEN keep ELSE [keep EXCEPT ![k] = "over"]
    /\ UNCHANGED <<in_map, busy, txn, pc, result, removed_by, outside, faults, drops>>

DropKeep(k) ==
    /\ keep[k] \in {"alive", "over"}
    /\ keep' = [keep EXCEPT ![k] = "dropped"]
    /\ watch' = [watch EXCEPT ![k] = "fresh"]
    /\ UNCHANGED <<in_map, busy, age, txn, pc, result, removed_by, outside,
                   faults, drops>>

\* A watcher wakes and takes the session if it is idle for the timeout.
Awake(w) == watch[w] = "stale" \/ (watch[w] = "fresh" /\ age >= 1)

IsIdle_BusyToo == in_map /\ age >= 1

IsIdle == in_map /\ ~busy /\ age >= 1

WatcherTakes(w) ==
    /\ Awake(w) /\ IsIdle
    /\ TakeSession("idle")
    /\ watch' = [watch EXCEPT ![w] = "rolling_back"]
    /\ UNCHANGED <<busy, age, txn, pc, result, keep, outside, faults, drops>>

WatcherLeaves(w) ==
    /\ Awake(w) /\ ~IsIdle
    /\ watch' = [watch EXCEPT ![w] = "done"]
    /\ UNCHANGED <<in_map, busy, age, txn, pc, result, keep, removed_by, outside,
                   faults, drops>>

WatcherRollsBack_Commits(w, good) ==
    /\ watch[w] = "rolling_back" /\ LockFree
    /\ EndTransaction(good, "committed")
    /\ watch' = [watch EXCEPT ![w] = "done"]
    /\ UNCHANGED <<in_map, busy, age, pc, result, keep, removed_by, outside, drops>>

WatcherRollsBack(w, good) ==
    /\ watch[w] = "rolling_back" /\ LockFree
    /\ EndTransaction(good, "rolled_back")
    /\ watch' = [watch EXCEPT ![w] = "done"]
    /\ UNCHANGED <<in_map, busy, age, pc, result, keep, removed_by, outside, drops>>

Tick ==
    /\ in_map /\ age < 2
    /\ age' = age + 1
    /\ UNCHANGED <<in_map, busy, txn, pc, result, keep, watch, removed_by, outside,
                   faults, drops>>

-----------------------------------------------------------------------------
\* A call that was made goes on.
CallStep(c) ==
    \/ Fetch(c) \/ Lock(c) \/ Fail(c) \/ FailTaken(c) \/ Finish(c)
    \/ \E good \in BOOLEAN :
          \/ RunStatements(c, good) \/ RollBackHeld(c, good)
          \/ CommitTaken(c, good) \/ RollBackTaken(c, good)

WatcherStep(w) ==
    \/ WatcherTakes(w) \/ WatcherLeaves(w)
    \/ \E good \in BOOLEAN : WatcherRollsBack(w, good)

Next ==
    \/ begin
    \/ Tick
    \/ \E c \in Calls :
          \/ Refuse(c) \/ Claim(c) \/ Expire(c) \/ Drop(c) \/ CallStep(c)
          \/ \E op \in {"commit", "rollback"} : Take(c, op)
    \/ \E k \in Keepers : Keep(k) \/ Refresh(k) \/ DropKeep(k)
    \/ \E w \in Spawners : WatcherStep(w)

Spec == Init /\ [][Next]_vars

\* Databases answer, time passes and sleepers wake: while some call or watcher
\* can go on, one does.  Nobody has to make a call, or to drop a guard.
Fairness ==
    /\ WF_vars(Tick)
    /\ WF_vars(\/ \E c \in Calls : CallStep(c)
               \/ \E w \in Spawners : WatcherStep(w))

FairSpec == Spec /\ Fairness

-----------------------------------------------------------------------------
(* Properties                                                              *)

\* Types; a session that has begun is in the map until somebody takes it.
TypeOK ==
    /\ in_map \in BOOLEAN
    /\ busy \in BOOLEAN
    /\ age \in 0..2
    /\ txn \in {"none", "open", "committed", "rolled_back"}
    /\ pc \in [Calls -> PCs]
    /\ result \in [Calls -> Results]
    /\ keep \in [Keepers -> {"none", "alive", "over", "dropped"}]
    /\ watch \in [Spawners -> {"none", "fresh", "stale", "rolling_back", "done"}]
    /\ removed_by \in {"nobody", "user", "idle", "failure"}
    /\ removed_by = "nobody" <=> in_map \/ txn = "none"
    /\ outside \subseteq Calls
    /\ faults \in 0..MaxFaults
    /\ drops \in 0..MaxDrops

Ends(c) == pc[c] \in {"commit", "rollback", "expired", "rolling_back"}
Executes(c) == pc[c] \in {"claimed", "locking", "running", "failing", "closing"}

\* Who ends the transaction: a call or a watcher that took the session.
Enders == {c \in Calls : Ends(c)} \cup {w \in Spawners : watch[w] = "rolling_back"}

\* However many watchers, guards and calls race, only one of them ends the
\* transaction: a session in the map is being ended by nobody, and one that was
\* taken by at most one (as a call, or as a watcher).
OneEnds ==
    /\ in_map => Enders = {}
    /\ \A c, d \in Calls : Ends(c) /\ Ends(d) => c = d
    /\ \A v, w \in Spawners :
          watch[v] = "rolling_back" /\ watch[w] = "rolling_back" => v = w
    /\ ~ \E c \in Calls, w \in Spawners : Ends(c) /\ watch[w] = "rolling_back"

\* Scripts of two calls never mix on the connection, and a session in the map
\* says that it is busy while one runs.
OneExecutes ==
    /\ \A c, d \in Calls : Executes(c) /\ Executes(d) => c = d
    /\ in_map /\ (\E c \in Calls : Executes(c)) => busy

\* An open transaction that left the map is still being ended by somebody, as
\* long as no COMMIT or ROLLBACK failed and no future was dropped.
NoOrphan ==
    txn = "open" /\ ~in_map /\ faults = 0 /\ drops = 0 => Enders # {}

\* Neither the idle timeout nor a failure takes the transaction away from under
\* a script: SQL runs outside it only after the user's own commit or rollback.
OutsideOnlyByUser ==
    outside # {} => removed_by = "user"

KeptAlive == \E k \in Keepers : keep[k] = "alive"

\* A transaction that nobody keeps alive ends, by its user or by the timeout,
\* however scripts, guards and watchers come and go, as long as no COMMIT or
\* ROLLBACK failed and no future was dropped.
IdleIsRolledBack ==
    txn = "open" ~> \/ txn # "open" \/ KeptAlive
                    \/ faults > 0 \/ drops > 0

\* What the comment on spawn_txn_idle_watcher says: the session is rolled back
\* after its timeout, with no exception for a future that was dropped.
InactiveIsRolledBack ==
    txn = "open" ~> txn # "open" \/ KeptAlive

\* A call that tells its user "The manual transaction was rolled back" is right,
\* as long as no ROLLBACK failed, unless the user's own commit or rollback took
\* the session while the statements ran: that one then ends it its own way.
FailedIsRolledBack ==
    \A c \in Calls : result[c] = "rolled_back" =>
        txn = "rolled_back" \/ removed_by = "user" \/ faults > 0

\* The calls, guards and watchers together are one TransactionSession, whoever
\* of them gets to take it out of the map and however it ends: it is taken
\* once, committed only by its user's commit, and abandoned only after a mishap.
Phase ==
    IF txn # "open" THEN txn
    ELSE IF in_map THEN "active"
    ELSE IF \E c \in Calls : pc[c] = "commit" THEN "committing"
    ELSE IF Enders # {} THEN "rolling_back"
    ELSE "abandoned"
Session == INSTANCE TransactionSession
           WITH phase <- Phase, owner <- removed_by,
                mishap <- faults > 0 \/ drops > 0
SessionSpec == Session!Spec
=============================================================================
