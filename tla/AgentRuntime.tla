---------------------------- MODULE AgentRuntime ----------------------------
(***************************************************************************)
(* The agent processes that several database sessions share: the cell in   *)
(* AgentManager.connection_runtimes under one runtime key, the runtime     *)
(* (child process, response reader, reaper, session count) that a cell     *)
(* holds, and the clients that open a session on it, call it over one      *)
(* JSON-RPC stream and close or drop it (agent_runtime.rs,                 *)
(* db/agent_driver.rs).                                                    *)
(*                                                                         *)
(* A step is one critical section of the connection_runtimes lock, one     *)
(* access to an atomic or to the pending map, or one call that cannot be   *)
(* divided by an await; kill() is one step.                                *)
(***************************************************************************)
EXTENDS Naturals, FiniteSets

CONSTANTS
    Clients,    \* callers of spawn_shared_connection_client, one session each
    Cells,      \* OnceCells made for the runtime key, each with its runtime
    MaxFaults,  \* bound: processes that end, babble or are killed unasked
    MaxAbandoned, \* bound: requests in a `pending` map whose caller has gone
    Null        \* None

ASSUME ClientsAssumption == IsFiniteSet(Clients)
ASSUME MaxFaultsAssumption == MaxFaults \in Nat
ASSUME MaxAbandonedAssumption == MaxAbandoned \in Nat
ASSUME NullAssumption == Null \notin Cells

VARIABLES
    connection_runtimes, \* the cell in the map under the runtime key, or Null
    runtime,             \* what a cell holds
    child,               \* the agent process of a cell's runtime
    failed,              \* the `failed` flag of the runtime
    active_sessions,     \* its session count
    pending,             \* clients whose request is in its `pending` map
    abandoned,           \* how many requests are there whose future was dropped
    reader,              \* its response reader thread
    noise,               \* did the reader stop at garbage on a live process' stdout?
    reaper_started,      \* the flags of the reaper
    child_reaped,
    grace,               \* idle-grace timers that sleep
    idle_kill,           \* idle-grace timers that saw no session and go on to kill()
    pc,                  \* where a client is
    cell,                \* the cell it cloned, or Null
    method,              \* the RPC it is making
    reply,               \* what its response channel holds
    session,             \* is its reservation counted? (later: agent_session_id)
    stopper,             \* where stop_daemon_by_key is
    stopping,            \* the runtime that it took out of the map, or Null
    faults               \* faults so far (bookkeeping of the bound)

mapVars == <<connection_runtimes, runtime>>
procVars == <<child, reader, noise, reaper_started, child_reaped>>
timerVars == <<grace, idle_kill>>
clientVars == <<pc, cell, method, reply, session>>
restVars == <<stopper, stopping, faults>>
vars == <<connection_runtimes, runtime, child, failed, active_sessions, pending,
          abandoned, reader, noise, reaper_started, child_reaped, grace,
          idle_kill, pc, cell, method, reply, session, stopper, stopping,
          faults>>

ClientStates == {"idle", "cell", "starting", "call", "insert", "write", "wait",
                 "cancel", "live", "forget", "report", "done"}

Init ==
    /\ connection_runtimes = Null
    /\ runtime = [r \in Cells |-> "unused"]
    /\ child = [r \in Cells |-> "none"]
    /\ failed = [r \in Cells |-> FALSE]
    /\ active_sessions = [r \in Cells |-> 0]
    /\ pending = [r \in Cells |-> {}]
    /\ abandoned = [r \in Cells |-> 0]
    /\ reader = [r \in Cells |-> "none"]
    /\ noise = [r \in Cells |-> FALSE]
    /\ reaper_started = [r \in Cells |-> FALSE]
    /\ child_reaped = [r \in Cells |-> FALSE]
    /\ grace = [r \in Cells |-> 0]
    /\ idle_kill = [r \in Cells |-> 0]
    /\ pc = [c \in Clients |-> "idle"]
    /\ cell = [c \in Clients |-> Null]
    /\ method = [c \in Clients |-> "none"]
    /\ reply = [c \in Clients |-> "none"]
    /\ session = [c \in Clients |-> FALSE]
    /\ stopper = "idle"
    /\ stopping = Null
    /\ faults = 0

\* Every step that a healthy system need not take counts against the bound.
Fault ==
    /\ faults < MaxFaults
    /\ faults' = faults + 1

Goto(c, s) == pc' = [pc EXCEPT ![c] = s]

-----------------------------------------------------------------------------
(* spawn_shared_connection_client: get a cell, fill it, reserve            *)

\* Under the map's lock: a cell whose runtime has failed is replaced.
CellIsUsable ==
    /\ connection_runtimes # Null
    /\ ~(runtime[connection_runtimes] = "set" /\ failed[connection_runtimes])

GetCell(c) ==
    /\ pc[c] = "idle"
    /\ \/ /\ CellIsUsable
          /\ cell' = [cell EXCEPT ![c] = connection_runtimes]
          /\ UNCHANGED mapVars
       \/ /\ ~CellIsUsable
          /\ \E r \in Cells :
                /\ runtime[r] = "unused"
                /\ runtime' = [runtime EXCEPT ![r] = "empty"]
                /\ connection_runtimes' = r
                /\ cell' = [cell EXCEPT ![c] = r]
    /\ Goto(c, "cell")
    /\ UNCHANGED <<failed, active_sessions, pending, abandoned, procVars,
                   timerVars, method, reply, session, restVars>>

\* get_or_try_init: one caller starts the process, the others wait for it.
StartRuntime(c) ==
    /\ pc[c] = "cell" /\ runtime[cell[c]] = "empty"
    /\ runtime' = [runtime EXCEPT ![cell[c]] = "starting"]
    /\ Goto(c, "starting")
    /\ UNCHANGED <<connection_runtimes, failed, active_sessions, pending,
                   abandoned, procVars, timerVars, cell, method, reply,
                   session, restVars>>

RuntimeStarts(c) ==
    /\ pc[c] = "starting"
    /\ runtime' = [runtime EXCEPT ![cell[c]] = "set"]
    /\ child' = [child EXCEPT ![cell[c]] = "running"]
    /\ reader' = [reader EXCEPT ![cell[c]] = "reading"]
    /\ Goto(c, "cell")
    /\ UNCHANGED <<connection_runtimes, failed, active_sessions, pending,
                   abandoned, noise, reaper_started, child_reaped, timerVars,
                   cell, method, reply, session, restVars>>

\* spawn() returns an error: the cell stays empty and the error is returned.
RuntimeDoesNotStart(c) ==
    /\ pc[c] = "starting"
    /\ runtime' = [runtime EXCEPT ![cell[c]] = "empty"]
    /\ cell' = [cell EXCEPT ![c] = Null]
    /\ Goto(c, "done")
    /\ UNCHANGED <<connection_runtimes, failed, active_sessions, pending,
                   abandoned, procVars, timerVars, method, reply, session,
                   restVars>>

\* reserve_runtime_locked, under the map's lock: the cell must still be the
\* one in the map and the runtime must work, or the client starts again.
CanReserve_AnyCell(c) == ~failed[cell[c]]

CanReserve(c) == connection_runtimes = cell[c] /\ ~failed[cell[c]]

Reserve(c) ==
    /\ pc[c] = "cell" /\ runtime[cell[c]] = "set"
    /\ \/ /\ CanReserve(c)
          /\ active_sessions' = [active_sessions EXCEPT ![cell[c]] = @ + 1]
          /\ session' = [session EXCEPT ![c] = TRUE]
          /\ method' = [method EXCEPT ![c] = "open"]
          /\ Goto(c, "call")
          /\ UNCHANGED cell
       \/ /\ ~CanReserve(c)
          /\ cell' = [cell EXCEPT ![c] = Null]
          /\ Goto(c, "idle")
          /\ UNCHANGED <<active_sessions, session, method>>
    /\ UNCHANGED <<mapVars, failed, pending, abandoned, procVars, timerVars,
                   reply, restVars>>

-----------------------------------------------------------------------------
(* The session of a client                                                 *)

\* decrement_session_count: whoever ends the last session starts a timer.
DecrementSessionCount(r) ==
    /\ active_sessions' = [active_sessions EXCEPT ![r] = IF @ = 0 THEN 0 ELSE @ - 1]
    /\ grace' = IF active_sessions[r] > 1 THEN grace
                ELSE [grace EXCEPT ![r] = @ + 1]

EndSession(c) ==
    /\ DecrementSessionCount(cell[c])
    /\ session' = [session EXCEPT ![c] = FALSE]

\* What the caller of an RPC does with its answer before it awaits again.  A
\* failed open gives the reservation back (forget_unused_runtime_after_
\* failed_open); a successful close forgets agent_session_id, so that Drop
\* does not end the session a second time; after a failed close and after a
\* query the client keeps its session.
Return_CloseKeepsSessionId(c, answer) ==
    /\ \/ /\ method[c] = "open" /\ answer = "error"
          /\ EndSession(c)
          /\ Goto(c, IF active_sessions[cell[c]] > 1 THEN "report" ELSE "forget")
       \/ /\ method[c] = "close" /\ answer = "ok"
          /\ DecrementSessionCount(cell[c])
          /\ Goto(c, "live")
          /\ UNCHANGED session
       \/ /\ <<method[c], answer>> \notin {<<"open", "error">>, <<"close", "ok">>}
          /\ Goto(c, "live")
          /\ UNCHANGED <<active_sessions, grace, session>>
    /\ method' = [method EXCEPT ![c] = "none"]
    /\ reply' = [reply EXCEPT ![c] = "none"]

Return(c, answer) ==
    /\ \/ /\ method[c] = "open" /\ answer = "error"
          /\ EndSession(c)
          /\ Goto(c, IF active_sessions[cell[c]] > 1 THEN "report" ELSE "forget")
       \/ /\ method[c] = "close" /\ answer = "ok"
          /\ EndSession(c)
          /\ Goto(c, "done")
       \/ /\ <<method[c], answer>> \notin {<<"open", "error">>, <<"close", "ok">>}
          /\ Goto(c, "live")
          /\ UNCHANGED <<active_sessions, grace, session>>
    /\ method' = [method EXCEPT ![c] = "none"]
    /\ reply' = [reply EXCEPT ![c] = "none"]

\* remove_unused_runtime_if_current, under the map's lock
CanForget(c) == active_sessions[cell[c]] = 0 /\ connection_runtimes = cell[c]

Forget(c) ==
    /\ pc[c] = "forget"
    /\ connection_runtimes' = IF CanForget(c) THEN Null ELSE connection_runtimes
    /\ Goto(c, "report")
    /\ UNCHANGED <<runtime, failed, active_sessions, pending, abandoned,
                   procVars, timerVars, cell, method, reply, session, restVars>>

\* A query, or disconnect(), on an open session
Call(c, m) ==
    /\ pc[c] = "live"
    /\ method' = [method EXCEPT ![c] = m]
    /\ Goto(c, "call")
    /\ UNCHANGED <<mapVars, failed, active_sessions, pending, abandoned,
                   procVars, timerVars, cell, reply, session, restVars>>

\* Drop of an AgentDriverClient that still has its agent_session_id
DropClient(c) ==
    /\ pc[c] = "live"
    /\ EndSession(c)
    /\ Goto(c, "done")
    /\ UNCHANGED <<mapVars, failed, pending, abandoned, procVars, idle_kill,
                   cell, method, reply, restVars>>

-----------------------------------------------------------------------------
(* AgentRuntimeClient::call_typed                                          *)

\* The request fails at once on a runtime that has failed.
CallChecks(c) ==
    /\ pc[c] = "call"
    /\ \/ /\ failed[cell[c]]
          /\ Return(c, "error")
       \/ /\ ~failed[cell[c]]
          /\ Goto(c, "insert")
          /\ UNCHANGED <<active_sessions, grace, method, session, reply>>
    /\ UNCHANGED <<mapVars, failed, pending, abandoned, procVars, idle_kill,
                   cell, restVars>>

CallInserts(c) ==
    /\ pc[c] = "insert"
    /\ pending' = [pending EXCEPT ![cell[c]] = @ \cup {c}]
    /\ Goto(c, "write")
    /\ UNCHANGED <<mapVars, failed, active_sessions, abandoned, procVars,
                   timerVars, cell, method, reply, session, restVars>>

Withdraw(c) == pending' = [pending EXCEPT ![cell[c]] = @ \ {c}]

\* Writing to the child's stdin: a killed process may still take the line,
\* one that is gone does not, and the request is withdrawn.
CallWrites(c) ==
    /\ pc[c] = "write"
    /\ \/ /\ child[cell[c]] \in {"running", "killed"}
          /\ Goto(c, "wait")
          /\ UNCHANGED <<pending, active_sessions, grace, method, session, reply>>
       \/ /\ child[cell[c]] \in {"killed", "exited"}
          /\ Withdraw(c)
          /\ Return(c, "error")
    /\ UNCHANGED <<mapVars, failed, abandoned, procVars, idle_kill, cell, restVars>>

CallReceives(c) ==
    /\ pc[c] = "wait" /\ reply[c] # "none"
    /\ Return(c, reply[c])
    /\ UNCHANGED <<mapVars, failed, pending, abandoned, procVars, idle_kill,
                   cell, restVars>>

\* The timeout of an open or a close, or the cancellation of a query, which
\* has no timeout.  The session's request is then cancelled with an RPC of
\* its own, and the response is dropped.
CallGivesUp(c) ==
    /\ pc[c] = "wait" /\ (method[c] = "query" \/ reply[c] = "none")
    /\ Goto(c, "cancel")
    /\ UNCHANGED <<mapVars, failed, active_sessions, pending, abandoned,
                   procVars, timerVars, cell, method, reply, session, restVars>>

CallCancelled(c) ==
    /\ pc[c] = "cancel"
    /\ Withdraw(c)
    /\ Return(c, "error")
    /\ UNCHANGED <<mapVars, failed, abandoned, procVars, idle_kill, cell, restVars>>

\* The future of a call on an open session is dropped at its await, by the
\* timeout around a ping or a close or by a cancelled export: the request is not
\* withdrawn.  The client lives, and its next request has an id of its own.
CallDropped(c) ==
    /\ pc[c] \in {"wait", "cancel"} /\ method[c] # "open"
    /\ abandoned[cell[c]] < MaxAbandoned
    /\ abandoned' = IF c \in pending[cell[c]]
                    THEN [abandoned EXCEPT ![cell[c]] = @ + 1] ELSE abandoned
    /\ Withdraw(c)
    /\ Goto(c, "live")
    /\ method' = [method EXCEPT ![c] = "none"]
    /\ reply' = [reply EXCEPT ![c] = "none"]
    /\ UNCHANGED <<mapVars, failed, active_sessions, procVars, timerVars, cell,
                   session, restVars>>

-----------------------------------------------------------------------------
(* The end of a runtime                                                    *)

\* fail_pending_requests: the map is emptied and every waiter gets an error.
FailPending_Known(r) ==
    /\ pending' = [pending EXCEPT ![r] = {}]
    /\ abandoned' = abandoned
    /\ reply' = [c \in Clients |-> IF c \in pending[r] THEN "error" ELSE reply[c]]

FailPending(r) ==
    /\ pending' = [pending EXCEPT ![r] = {}]
    /\ abandoned' = [abandoned EXCEPT ![r] = 0]
    /\ reply' = [c \in Clients |-> IF c \in pending[r] THEN "error" ELSE reply[c]]

TerminateChild(r) ==
    child' = [child EXCEPT ![r] = IF @ = "running" THEN "killed" ELSE @]

\* kill(): flag, SIGKILL, reaper thread, pending requests
Kill(r) ==
    /\ failed' = [failed EXCEPT ![r] = TRUE]
    /\ TerminateChild(r)
    /\ reaper_started' = [reaper_started EXCEPT ![r] = TRUE]
    /\ FailPending(r)
    /\ UNCHANGED <<reader, noise, child_reaped>>

\* The caller of a failed open returns, or replaces the runtime first if
\* the error asks for it (replace_runtime_after_open_failure).
ReturnOpenError(c) ==
    /\ pc[c] = "report"
    /\ Goto(c, "done")
    /\ UNCHANGED <<mapVars, failed, active_sessions, pending, abandoned,
                   procVars, timerVars, cell, method, reply, session, restVars>>

ReplaceAfterOpenError(c) ==
    /\ pc[c] = "report"
    /\ Fault
    /\ Kill(cell[c])
    /\ Goto(c, "done")
    /\ UNCHANGED <<mapVars, active_sessions, timerVars, cell, method, session,
                   stopper, stopping>>

\* PooledAgentClient::fail_stop, for a pool being detached: without the
\* client's lock, so also while a call is under way.
FailStop(c) ==
    /\ session[c] /\ method[c] # "open"
    /\ ~failed[cell[c]]
    /\ Fault
    /\ Kill(cell[c])
    /\ UNCHANGED <<mapVars, active_sessions, timerVars, pc, cell, method,
                   session, stopper, stopping>>

\* The timer of decrement_session_count
GraceChecks(r) ==
    /\ grace[r] > 0
    /\ grace' = [grace EXCEPT ![r] = @ - 1]
    /\ \/ /\ active_sessions[r] = 0
          /\ Fault
          /\ idle_kill' = [idle_kill EXCEPT ![r] = @ + 1]
       \/ /\ active_sessions[r] # 0
          /\ UNCHANGED <<idle_kill, faults>>
    /\ UNCHANGED <<mapVars, failed, active_sessions, pending, abandoned,
                   procVars, clientVars, stopper, stopping>>

GraceKills(r) ==
    /\ idle_kill[r] > 0
    /\ idle_kill' = [idle_kill EXCEPT ![r] = @ - 1]
    /\ Kill(r)
    /\ UNCHANGED <<mapVars, active_sessions, grace, pc, cell, method, session,
                   restVars>>

\* The agent process answers a request it was sent; the reader hands the
\* answer over.
Respond(r, c) ==
    /\ reader[r] = "reading"
    /\ c \in pending[r] /\ pc[c] \in {"wait", "cancel"}
    /\ pending' = [pending EXCEPT ![r] = @ \ {c}]
    /\ \E a \in {"ok", "error"} : reply' = [reply EXCEPT ![c] = a]
    /\ UNCHANGED <<mapVars, failed, active_sessions, abandoned, procVars,
                   timerVars, pc, cell, method, session, restVars>>

\* Nobody receives the answer to a request whose future was dropped.
RespondToNobody(r) ==
    /\ reader[r] = "reading" /\ abandoned[r] > 0
    /\ abandoned' = [abandoned EXCEPT ![r] = @ - 1]
    /\ UNCHANGED <<mapVars, failed, active_sessions, pending, procVars,
                   timerVars, clientVars, restVars>>

\* The process ends, killed or of its own accord.
ChildExits(r) ==
    /\ \/ child[r] = "running" /\ Fault
       \/ child[r] = "killed" /\ UNCHANGED faults
    /\ child' = [child EXCEPT ![r] = "exited"]
    /\ UNCHANGED <<mapVars, failed, active_sessions, pending, abandoned,
                   reader, noise, reaper_started, child_reaped, timerVars,
                   clientVars, stopper, stopping>>

\* The reader thread meets the end of stdout, or too much noise on it: it
\* sets the flag, fails the pending requests, then terminates the process.
ReaderFails(r) ==
    /\ reader[r] = "reading"
    /\ \/ child[r] = "exited" /\ UNCHANGED <<noise, faults>>
       \/ child[r] # "exited" /\ noise' = [noise EXCEPT ![r] = TRUE] /\ Fault
    /\ failed' = [failed EXCEPT ![r] = TRUE]
    /\ reader' = [reader EXCEPT ![r] = "failed"]
    /\ UNCHANGED <<mapVars, active_sessions, pending, abandoned, child,
                   reaper_started, child_reaped, timerVars, clientVars,
                   stopper, stopping>>

ReaderDrains_Nothing(r) ==
    /\ reader[r] = "failed"
    /\ reader' = [reader EXCEPT ![r] = "drained"]
    /\ UNCHANGED <<mapVars, failed, active_sessions, pending, abandoned, child,
                   noise, reaper_started, child_reaped, timerVars, clientVars,
                   restVars>>

ReaderDrains(r) ==
    /\ reader[r] = "failed"
    /\ FailPending(r)
    /\ reader' = [reader EXCEPT ![r] = "drained"]
    /\ UNCHANGED <<mapVars, failed, active_sessions, child, noise,
                   reaper_started, child_reaped, timerVars, pc, cell, method,
                   session, restVars>>

ReaderTerminates(r) ==
    /\ reader[r] = "drained"
    /\ TerminateChild(r)
    /\ reaper_started' = [reaper_started EXCEPT ![r] = TRUE]
    /\ reader' = [reader EXCEPT ![r] = "done"]
    /\ UNCHANGED <<mapVars, failed, active_sessions, pending, abandoned, noise,
                   child_reaped, timerVars, clientVars, restVars>>

\* The wait() of the reaper thread, or of kill_and_wait
Reap(r) ==
    /\ reaper_started[r] /\ ~child_reaped[r] /\ child[r] = "exited"
    /\ child_reaped' = [child_reaped EXCEPT ![r] = TRUE]
    /\ UNCHANGED <<mapVars, failed, active_sessions, pending, abandoned, child,
                   reader, noise, reaper_started, timerVars, clientVars,
                   restVars>>

-----------------------------------------------------------------------------
(* stop_daemon_by_key and kill_and_wait                                    *)

\* Under the map's lock; a cell that is still being filled is forgotten.
StopTakes ==
    /\ stopper = "idle"
    /\ connection_runtimes' = Null
    /\ IF connection_runtimes # Null /\ runtime[connection_runtimes] = "set"
         THEN stopper' = "mark" /\ stopping' = connection_runtimes
         ELSE stopper' = "done" /\ UNCHANGED stopping
    /\ UNCHANGED <<runtime, failed, active_sessions, pending, abandoned,
                   procVars, timerVars, clientVars, faults>>

StopMarks ==
    /\ stopper = "mark"
    /\ failed' = [failed EXCEPT ![stopping] = TRUE]
    /\ FailPending(stopping)
    /\ reaper_started' = [reaper_started EXCEPT ![stopping] = TRUE]
    /\ stopper' = IF reaper_started[stopping] THEN "await" ELSE "kill"
    /\ UNCHANGED <<mapVars, active_sessions, child, reader, noise, child_reaped,
                   timerVars, pc, cell, method, session, stopping, faults>>

StopKills_Nothing ==
    /\ stopper = "kill"
    /\ stopper' = "await"
    /\ UNCHANGED <<mapVars, failed, active_sessions, pending, abandoned,
                   procVars, timerVars, clientVars, stopping, faults>>

StopKills ==
    /\ stopper = "kill"
    /\ TerminateChild(stopping)
    /\ stopper' = "await"
    /\ UNCHANGED <<mapVars, failed, active_sessions, pending, abandoned,
                   reader, noise, reaper_started, child_reaped, timerVars,
                   clientVars, stopping, faults>>

StopReturns ==
    /\ stopper = "await" /\ child_reaped[stopping]
    /\ stopper' = "done"
    /\ UNCHANGED <<mapVars, failed, active_sessions, pending, abandoned,
                   procVars, timerVars, clientVars, stopping, faults>>

-----------------------------------------------------------------------------

OpenSteps(c) ==
    \/ GetCell(c) \/ StartRuntime(c) \/ RuntimeStarts(c)
    \/ RuntimeDoesNotStart(c) \/ Reserve(c) \/ Forget(c)
    \/ ReturnOpenError(c) \/ ReplaceAfterOpenError(c)

CallSteps(c) ==
    \/ CallChecks(c) \/ CallInserts(c) \/ CallWrites(c) \/ CallReceives(c)
    \/ CallCancelled(c)

UserSteps(c) ==
    \/ \E m \in {"query", "close"} : Call(c, m)
    \/ CallGivesUp(c) \/ CallDropped(c) \/ DropClient(c) \/ FailStop(c)

\* What the threads, the reaper and the system do to a runtime without a caller
RuntimeSteps(r) ==
    \/ ReaderDrains(r) \/ ReaderTerminates(r) \/ Reap(r)

StopSteps == StopMarks \/ StopKills \/ StopReturns

Next ==
    \/ \E c \in Clients : OpenSteps(c) \/ CallSteps(c) \/ UserSteps(c)
    \/ \E r \in Cells :
          \/ RuntimeSteps(r) \/ ReaderFails(r) \/ ChildExits(r)
          \/ GraceChecks(r) \/ GraceKills(r)
          \/ RespondToNobody(r)
          \/ \E c \in Clients : Respond(r, c)
    \/ StopTakes \/ StopSteps

Spec == Init /\ [][Next]_vars

\* A killed process ends; the reader, reaper and stopper threads and the task
\* of a call that can go on are scheduled.  No agent must answer, no user must
\* act and no timer must expire.
Fairness ==
    /\ WF_vars(\/ \E r \in Cells : \/ RuntimeSteps(r)
                                   \/ child[r] = "killed" /\ ChildExits(r)
                                   \/ child[r] = "exited" /\ ReaderFails(r)
               \/ StopSteps)
    /\ \A c \in Clients : WF_vars(CallSteps(c))

FairSpec == Spec /\ Fairness

-----------------------------------------------------------------------------
(* Properties                                                              *)

TypeOK ==
    /\ connection_runtimes \in Cells \cup {Null}
    /\ runtime \in [Cells -> {"unused", "empty", "starting", "set"}]
    /\ child \in [Cells -> {"none", "running", "killed", "exited"}]
    /\ failed \in [Cells -> BOOLEAN]
    /\ active_sessions \in [Cells -> Nat]
    /\ pending \in [Cells -> SUBSET Clients]
    /\ abandoned \in [Cells -> 0..MaxAbandoned]
    /\ reader \in [Cells -> {"none", "reading", "failed", "drained", "done"}]
    /\ noise \in [Cells -> BOOLEAN]
    /\ reaper_started \in [Cells -> BOOLEAN]
    /\ child_reaped \in [Cells -> BOOLEAN]
    /\ grace \in [Cells -> Nat]
    /\ idle_kill \in [Cells -> Nat]
    /\ pc \in [Clients -> ClientStates]
    /\ cell \in [Clients -> Cells \cup {Null}]
    /\ method \in [Clients -> {"none", "open", "query", "close"}]
    /\ reply \in [Clients -> {"none", "ok", "error"}]
    /\ session \in [Clients -> BOOLEAN]
    /\ stopper \in {"idle", "mark", "kill", "await", "done"}
    /\ stopping \in Cells \cup {Null}
    /\ faults \in 0..MaxFaults
    /\ \A c \in Clients : pc[c] \notin {"idle", "done"} => cell[c] \in Cells
    /\ stopper \in {"mark", "kill", "await"} => stopping \in Cells

SessionsOf(r) == {c \in Clients : session[c] /\ cell[c] = r}

\* active_sessions is the number of clients that reserved the runtime and have
\* neither failed to open, nor closed, nor been dropped: no path through open,
\* close, a failed close and Drop counts a session twice or not at all, so the
\* idle timer never takes a used runtime for an idle one when it looks.
SessionsCounted ==
    \A r \in Cells : active_sessions[r] = Cardinality(SessionsOf(r))

\* A working runtime that has sessions is the one in the map (unless
\* stop_daemon_by_key has just taken it out to kill it): the clean-up after a
\* failed open never hides a runtime that another client has reserved, so
\* later clients share it and no second process is started beside it.
UsedRuntimeIsShared ==
    \A r \in Cells :
        (runtime[r] = "set" /\ ~failed[r] /\ SessionsOf(r) # {})
            => \/ connection_runtimes = r
               \/ stopper = "mark" /\ stopping = r

\* A call that waits for a response is never left behind by the reader of a
\* process that ended: whatever the order of kill(), the end of stdout and
\* the call's check, insert and write, somebody still fails it.  (Noise on
\* the stdout of a live process is the exception: the reader drains `pending`
\* before it terminates the process, so a request written in between stays.)
NoCallLeftBehind ==
    \A c \in Clients :
        (pc[c] = "wait" /\ reply[c] = "none" /\ ~noise[cell[c]])
            => reader[cell[c]] \in {"reading", "failed"}

\* A request whose future was dropped is not withdrawn, but it does not outlive
\* the process: once the reader has drained `pending` at the end of stdout,
\* nothing is left there but requests whose write is about to fail, whatever
\* calls were checked, dropped or cancelled meanwhile (same exception).
NothingLeftInPending ==
    \A r \in Cells :
        (reader[r] \in {"drained", "done"} /\ ~noise[r])
            => abandoned[r] = 0 /\ \A c \in pending[r] : pc[c] = "write"

\* Whoever marks a runtime as failed leaves somebody who ends its process: the
\* reader that has yet to terminate it, or a reaper that waits for a process
\* that is terminated or that stop_daemon_by_key is about to terminate.  The
\* loser of the race for reaper_started may not leave the process running.
FailedHasReaper ==
    \A r \in Cells : failed[r] =>
        \/ reader[r] \in {"failed", "drained"}
        \/ /\ reaper_started[r]
           /\ \/ child[r] \in {"killed", "exited"}
              \/ stopper = "kill" /\ stopping = r

\* Every client that waits on a runtime that has failed gets its answer,
\* without a timeout (same exception).
FailedCallReturns ==
    \A c \in Clients :
        (pc[c] = "wait" /\ failed[cell[c]] /\ ~noise[cell[c]]) ~> (pc[c] # "wait")

\* A runtime that has failed, by whatever path, is killed and reaped: no
\* process and no zombie is left, whoever won the race for the reaper.
FailedIsReaped ==
    \A r \in Cells : failed[r] ~> child_reaped[r]
=============================================================================
