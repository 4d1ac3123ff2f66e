# A TLA+ model of dbx's concurrent core

dbx is a database client: a Rust core (`src/crates/dbx-core`) behind a desktop
shell (`src-tauri`, `apps/desktop`), a web server (`dbx-web`), an MCP server
(`dbx-mcp`) and a command line (`dbx-cli`). This directory models the parts of
the core whose correctness depends on the order in which tasks, callers,
crashes and lost answers happen. TLC checks the models on small instances
and TLAPS proves the most important properties for every instance.

`PROJECT.json` lists the components, the runs with their properties, a mutant
of the code for every property, the source lines behind every definition, the
hazards that the properties are for, the findings and the theorems. Paths below
are relative to `src/crates/dbx-core/src`.

## The system

### Inventory

| Component | State it keeps | Operations | What is hard about it | What makes it correct |
|---|---|---|---|---|
| Running query registry, `query_cancel.rs` | execution id -> running task (token, completion channel, interrupt, pool key), remembered completions | register, store an interrupt, set the pool key, finish, detach, cancel one, cancel all matches, cancel and wait | effects after the lock is released; ids that clients reuse; two critical sections in one call; timers | what runs can be cancelled, what is reported terminal has ended, interrupts run and are not leaked |
| Persisted state machine, `state_persistence.rs`, `storage.rs` | a versioned row per key that holds a versioned entry | create, load, transition (compare-and-swap with retries), delete | two clients between load and swap; two version counters | no lost update, only allowed moves, bounded retries |
| Two-phase commit, `two_phase_commit.rs` | a persisted log per transaction, a state machine entry, the participants' transactions | execute (prepare, commit with retries, roll back), recover | crash at any point, an answer lost after the effect, partial commit | the log tells the truth about the participants, decisions are logged first |
| Manual transactions, `query.rs` | session id -> connection, busy flag, last activity | begin, execute, stream, commit, rollback, keep alive, expire | a map lock and a connection mutex that are never held together on the way in; watchers that sleep; futures that are dropped | a transaction is ended once, by somebody, and never under a script |
| Connection pools, `connection.rs` | pool key -> pool, drains, keepalive tasks, idle times, client sessions | get or create, insert, detach, remove, reclaim and restore, probe, close, replace a runtime | check-then-insert across awaits; closes that are awaited outside the lock; pools that share a runtime | the table routes open pools on live runtimes, a pool is closed once, none in use is reclaimed |
| Schema-diff deploy, `query.rs` | the statements executed so far | run the plan, compensate after a failure | a failure half way, a failure of a compensation | what is reported agrees with the database |
| Task supervisor, `task_supervisor.rs` | key -> join handle | spawn, stop, shutdown | a task that ends removes its key, whoever has it by then; spawns during a shutdown; two deadlines | no task escapes shutdown, one-shots neither double nor block |
| Write-unlock windows, `write_unlock.rs` | key -> expiry | unlock, remaining, lock | read lock, then write lock | a window that was just opened stays |
| Session credentials, `session_credentials.rs` | credentials with generations | prompt, store, forget | an answer to an old prompt | an old answer never replaces a new secret |
| Agent runtimes, `agent_runtime.rs`, `db/agent_driver.rs`, `agent_manager.rs` | runtime key -> once-cell with a process, session count, pending requests, reader and reaper threads, idle timers | share or start, reserve, open, call, cancel, close, drop, kill, fail-stop, stop | a process that dies during a call; a runtime that is stopped or forgotten while a client reserves it; flags, maps and threads without a common lock | sessions are counted exactly, a used runtime is the shared one, every call on a dead process returns, every process is reaped |
| Workers and tunnels, `db/*_worker*.rs`, `db/*_tunnel.rs` | child processes, sockets | start, call, stop | shared by several connections, may die | reuse and teardown agree |
| Cloud sync, calibrator, storage, import and export, federated queries, brokers, AI loop, SQL generation and classification, drivers, plugins, shells, front end, external agents | see `PROJECT.json` | | mostly sequential, pure, or I/O | |

### How the parts interact

The shells call the core with an execution id they choose. A statement is
registered in the registry for as long as it runs; cancelling calls
(one id, a connection, a client session, an owner scope, or everything) find
it there, and the reclaim of idle pools asks `is_pool_active`. A manual
transaction holds a connection of its own outside the pool until it ends. A
database export begins such a transaction for a consistent snapshot, keeps it
alive with a guard and executes its queries in it. The two-phase commit
coordinator keeps its log, and an entry of the persisted state machine, in a
state backend; the local backend is the `state_store` table of the
application's SQLite file. Neither the coordinator nor the state machine has a
caller outside its own module and tests yet: the models show what a caller
could rely on.

Agent-driven databases go through a pool whose client holds a session on a
shared agent process. Closing, probing and reclaiming such a pool may fail in a
way that condemns the process, and then every pool on it leaves the routing
table. Probes, background closes and session cleanups are tasks of the task
supervisor, under keys made from the pool key. `AgentRuntime`, `PoolRouting`
and `TaskSupervisor` model these three layers, each with what it sees of its
neighbours: `PoolRouting` knows of a runtime whether routing killed it or it
ended otherwise (by itself, by its idle timer, by a stop), of the registry whether a pool counts as active, and of the supervisor the handle
under a key and that an abort takes effect at an await. The last is more than a
resemblance: `PoolRouting` is shown to implement `TaskSupervisor`, its probes
being tasks, so what holds of the supervisor's tasks holds of the probes.

## Modules

| Module | Models | Notes |
|---|---|---|
| `RunningQueries` | `query_cancel.rs` | the registry, the guards and the callers of cancel |
| `StateTransitions` | the transition table | shared by the next three |
| `LinearStateMachine` | what the state machine promises | abstract: one atomic entry that is created, moved and deleted |
| `StateMachine` | `StateMachine`, `LocalBackend`, the `state_store` statements | one key; implements `LinearStateMachine` |
| `TwoPhaseCommit` | `two_phase_commit.rs` | one transaction; uses `StateTransitions` for its entry |
| `TransactionSession` | what a manual transaction promises its user | abstract: begun once, taken by one party, ended once |
| `ManualTransaction` | manual transactions of `query.rs`, the dropped future of `database_export.rs` | one session; implements `TransactionSession` |
| `AgentRuntime` | `agent_runtime.rs`, the shared runtime of `db/agent_driver.rs` | one runtime key, its runtimes over time and the clients that share them |
| `PoolRouting` | the routing table of `connection.rs` | agent pools on shared runtimes; composes `is_pool_active` as it is used; implements `TaskSupervisor` for its probes |
| `TaskSupervisor` | `task_supervisor.rs`, `AppState::shutdown` | keys that replace, keys that are one-shot |
| `MC*` | model values and symmetry for TLC | no definition is replaced |
| `*Proofs` | theorems about the module | extend it and `TLAPS` |

Definitions whose name has a suffix after an underscore (`Claim_EvenIfBusy`)
are mutants: a plausible bug in the definition that follows. No specification
uses them.

### RunningQueries

A step is one critical section of the `inner` mutex, or one effect performed
after the mutex is released: cancelling a token, running an interrupt,
signalling `completion`. `register_task*` is `Register` plus the tail
`DisplacedCancel`, `DisplacedComplete`, `DisplacedInterrupt` when the id was
taken; `register_interrupt` is `StoreInterrupt` or `RunLateInterrupt`; the end
of a guard is `Finish` and `RemoveComplete`, or `Detach` and later `Reclaim`.
A caller runs `cancel` as `CancelTask`, `CancelFire`, `CancelComplete`,
`CancelReturn`; `cancel_and_wait` puts a subscription before and a wait behind
it; the `cancel_*` that match collect ids first and cancel one by one.
A registration id stands for the value of `fetch_add` and for the task made
with it; expiry of a remembered completion is a step that may happen at any
time, and so is a timeout. Diagnostics and labels derived from session ids are
left out.

### StateMachine

Each SQL statement is one step, since `with_conn` holds the only connection. A
client may stop for any time between its load and its swap. `row.version` is
the table's column, `row.value.version` the version inside the stored entry;
`CanSwap` compares the first with the second of the loaded entry, as the code
does. A delete starts the versions anew, so that a client which loaded the
entry before it may swap an entry it never saw. The history variable `stale`
holds the clients whose load is older than the last delete, and `overtaken` says
whether one of them has moved the present entry; no guard reads either.
`LinearStateMachine` is the promise: `current` is created, deleted, and moves
along `ALLOWED_TRANSITIONS`. The refinement maps the row to its entry's state,
and an overtaken entry, of which nothing is claimed, to `created` until it is
created again or deleted.
Encryption, the other backends (which refuse compare-and-swap) and timestamps
are left out.

### TwoPhaseCommit

`log` is the persisted status. A call of `execute` or `recover` is a sequence
of steps, one per save and per call of a participant; `Crash` ends it at any
point and stands for a process that stops as well as for a save that fails
(`?`). A participant is external: it prepares, commits or rolls back, may
refuse, and may answer with an error after the effect (`lost`). An id is
executed once: the coordinator leaves ids to its caller, and a second `execute`
would overwrite the log. `recover` is called when no other call is under way,
as on a restart.

### ManualTransaction

Two locks matter: the map of sessions, held for a moment, and the mutex of one
connection, held over a whole script. An execute call claims the session
(`Claim`: `busy = true`), looks it up again (`Fetch`), waits for the connection
(`Lock`), runs (`RunStatements`) and clears the flag (`Finish`, which spawns a
watcher), or after an error takes the session and rolls back (`Fail`,
`RollBackHeld`). The stream call has the same steps. Commit and rollback take
the session out of the map first (`Take`) and then wait for the connection.
`Expire` is the check for an idle session at the start of a call, with `>`
where the watcher has `>=`; `age` therefore tells less than, exactly, and more
than the timeout apart. A watcher spawned since the last activity is `fresh`
and sleeps until age 1; every older one is `stale` and may wake whenever.
`Drop` is a future that is dropped at an await (`await_export_operation`).
The connection is external: COMMIT and ROLLBACK end an open transaction; one
that returns an error may or may not have done so; a failed statement leaves
the transaction open, as MySQL does. How `begin` acquires a connection, and the end of
the process (which clears the map), are left out.

`TransactionSession` is what a user sees of all this. `Phase` maps the map of
sessions, the transaction and who holds the session to its phase: active,
being committed or rolled back by its one `owner` (the user, the idle timeout or
a failure), ended, or abandoned. Only the user's own commit commits, and only a
mishap (an error of COMMIT or ROLLBACK, a dropped future) leaves a transaction
open with nobody to end it.

### AgentRuntime

A cell is one `OnceCell` that was made for the runtime key, together with the
runtime that fills it: process, `failed`, `active_sessions`, `pending`, the
reader thread and the flags of the reaper. A client gets the cell (`GetCell`),
fills it or waits until it is filled (`StartRuntime`, `RuntimeStarts`,
`RuntimeDoesNotStart`), reserves the runtime under the map's lock (`Reserve`,
or it begins again) and opens its session with a call. A call checks `failed`,
inserts itself in `pending`, writes, and waits (`CallChecks`, `CallInserts`,
`CallWrites`, `CallReceives`), or gives up and cancels (`CallGivesUp`,
`CallCancelled`). A call on an open session may also be dropped at its await, by
the timeout around a ping or a close or by a cancelled export (`CallDropped`):
its request then stays in `pending` with nobody to receive the answer, which
`abandoned` counts, up to `MaxAbandoned` per runtime. The reader answers
(`Respond`, `RespondToNobody`) or, at the end of stdout or at
garbage on it, sets `failed`, drains `pending` and terminates the process, each
a step of its own (`ReaderFails`, `ReaderDrains`, `ReaderTerminates`). A failed
open gives the reservation back and may take the runtime out of the map
(`Forget`). The last session starts an idle timer (`GraceChecks`,
`GraceKills`). `FailStop`, `ReplaceAfterOpenError` and `stop_daemon_by_key`
(`StopTakes` to `StopReturns`) end a runtime. Process exits, garbage and
unasked kills are bounded by `MaxFaults`. Left out: daemons with one client
each, agents of protocol 1, the child of a start that timed out, openers
whose future is dropped, and the entry that the cancelling RPC has in `pending`
for itself.

### PoolRouting

`place` says in whose hands a pool is: opened and about to be published, routed,
detached and on its way to `finish_detach`, queued for or in
`close_pool_with_timeout`, taken by a reclaim, closed. An insert waits for a
drain (`InsertWaits`), publishes under the lock if the runtime is alive
(`Publish`, `PublishFails`), closes the pool it displaced and looks again
(`InsertRechecks`, `InsertUndoes`). A runtime is unavailable once routing has
killed it (`killed`), which takes its siblings out of the table under the same
lock, or once it ended otherwise (`exited`, `RuntimeEnds`): its process exits,
its idle timer fires, or the agent manager stops it, and nothing is unrouted. `DetachKey` is `detach_pool_by_key`,
`DetachIfCurrent` its variant by identity, which probes and failing queries
use; both take all siblings when the runtime is to be replaced, unless a manual
transaction shares it. A close reads who shares the runtime (`CloseReads`), is
awaited, and ends or fails (`CloseEnds`, `CloseFails`). The reclaim of an idle
base pool stops the probe and waits for it, checks activity, takes the pool if
nobody else holds it, and closes, replaces or restores it. A query clones a
pool before it registers as active, and may be unregistered (cancelled) while it
still holds the clone. `MaxEvents` bounds errors and requests that end a route.
Of a probe, `target` is the pool it was started for, which it remembers after
its end; `Supervisor` maps `keepalive` to the supervisor's map of handles and a
probe's place in its loop to the state of a task.
Left out: how a pool is opened, pools of other kinds (they have no siblings and
are not reclaimed this way), idle times, client-session bookkeeping, the drain
of everything at shutdown, inserts and closes whose future is dropped, and the
restore of a pool whose configuration is gone.

### TaskSupervisor

`tasks` is the map of handles; a task that ended keeps its handle there until
it is replaced, stopped, drained, or removes itself (one-shots). `spawn_replace`
and `spawn_once` are one critical section each; a one-shot waits for the signal
of its spawner (`Start`). An abort takes effect where a task waits (`Aborts`);
a task that is past its last await ends by itself. `shutdown` is five steps:
`ShutdownRefuses`, `ShutdownCancels`, `ShutdownDrains`, then a join
(`ShutdownJoins`) against its deadline (`ShutdownTimesOut`) and against the
equal deadline of `AppState::shutdown`, which drops the join
(`ShutdownDropped`). Bodies are external: one-shots have timeouts of their own,
loops watch the cancellation token. A panicking body is left out.

## Runs

Deadlock is not checked: each of these systems may stop when nobody calls.

| Run | Instance | Shows |
|---|---|---|
| `rq_race` | 2 ids, 2 registrations, 2 callers | `TerminalMeansFinished`, `CompletedMeansFinished`: terminal means the guard is gone, unless the id was registered again. `StoredInterruptReachable`, `LostInterruptNeedsReusedId`: an interrupt is not leaked, and lost only if the id is reused |
| `rq_scopes` | 2 ids, 2 scopes, a pool, 1 caller | `ReachableWhileRunning`: a running execution stays registered and counts for its pool, whatever stale guards, timers and scoped cancels do |
| `rq_live` | 1 id, 2 registrations, 1 caller | interrupts that were taken run, waiters return, ends are signalled, detached tasks are reclaimed |
| `sm_cas` | 2 clients, 3 retries, 7 calls, 1 delete | `NoLostUpdate`, and the refinement `LinearSpec`, except for a client that loaded before the last delete; `VersionsAgree`; every transition returns (`TransitionReturns`) |
| `tpc_faults` | 3 participants, 2 retries, 2 crashes, 2 lost answers | `CommittedMeansAllCommitted`, `WriteAhead`, `OutcomeIsRight`, `TerminalIsFinal`, and every call returns |
| `mt_race` | 3 calls, 1 guard, 1 fault, 1 drop | `OneEnds`: one call or watcher ends the transaction. `OneExecutes`: scripts do not mix. `NoOrphan`: an open transaction that left the map has somebody to end it. `OutsideOnlyByUser`: the timeout and failures never take it from under a script. `FailedIsRolledBack`: a call that reports a rollback is right, unless the user ended the session or the connection failed. `IdleIsRolledBack`: one that no guard keeps alive ends. `SessionSpec`: the whole implements `TransactionSession` |
| `mt_dropped` | 1 call, 1 drop | violation, see Findings |
| `ar_sessions` | 2 clients, 2 cells, 1 fault | `SessionsCounted`: no path of open, close, failed close and drop counts a session twice or not at all. `UsedRuntimeIsShared`: no clean-up hides a runtime that another client reserved. `NoCallLeftBehind`: no call waits for a reader that is gone. `NothingLeftInPending`: no request, not even that of a dropped future, outlives its process in `pending`. `FailedHasReaper`: whoever marks a runtime as failed leaves somebody who ends its process |
| `ar_live` | 2 clients, 1 cell, 1 fault | calls on a failed runtime return (`FailedCallReturns`), its process is reaped whoever killed it (`FailedIsReaped`), which is what a stop waits for |
| `pr_routes` | a base and a manual-transaction key, 2 pools, 1 runtime, 2 probes, 1 query, 2 events | `EveryPoolHasOneOwner`: the table, an insert, a reclaim or a closer has a pool, never two of them. `NoRouteToKilledRuntime`: no route leads to a runtime that routing has killed. `ReclaimSparesUsedPools`: not even a query that is not registered (any more) loses its pool to a reclaim. `ProbesSpareReplacements`: a stale probe leaves the replacement alone. `SupervisorSpec`: the probes are started, stopped and awaited as `TaskSupervisor` allows |
| `pr_manual` | the same instance | violation, see Findings |
| `ts_shutdown` | a replace key, a one-shot key, 4 tasks | `NoTaskEscapes`: a live task is in the map or held by the shutdown, or was aborted. `StopsReturn`, `TasksEnd`: stops return and every task ends after a shutdown, even one that was cut short |

**Bounds.** Two registrations of an id are the smallest case of a
displacement and of a reuse, and two callers the smallest race; a
registration interacts with the one it displaces and with those that displace
it, and the theorems cover any number. Three retries and seven calls let a client exhaust its
retries against another. Two crashes reach a crash of a recovery. With three
participants one can have committed, one failed and one wait. Three calls of a
session are a script, a second one that is refused or runs afterwards, and a
commit or rollback; begin, the scripts and the guard each start a watcher, so
that up to four overlap. Two clients and two cells are a client that loses its
runtime and one that shares or replaces it. Two pools of one key are a
pool and its replacement, of two keys a pool and its sibling; two events are an
error and the one that meets its consequences. One runtime keeps the run short
(two pass as well, with more than twice the states), and the properties are
proved for any number. Four tasks allow a replacement under either key after a stop
or an end, and a spawn that races the shutdown. `MaxEvents`, `MaxCalls`,
`MaxDeletes`, `MaxRetries`, `MaxCrashes`, `MaxLost`, `MaxFaults`,
`MaxAbandoned` and `MaxDrops` are constants; the theorems hold for every value of them.

**Symmetry** is used in the safety runs only, over sets of model values that
are compared for equality (execution ids, registrations, callers).

**Fairness.** In each fair specification, calls that were made go on: drivers
and databases answer, statements of SQLite return, spawned tasks are scheduled.
Nothing makes anybody call, finish a query, drop a guard or answer `recover`.
In `RunningQueries`, whose callers may call again and again, every call and
every timer is weakly fair by itself: it needs the mutex only for a moment and
stays enabled. In `ManualTransaction`, where a call may wait for a connection
that others hold in turn, the assumption is weaker: while some call or watcher
can go on, one does. It is enough because each of them takes finitely many
steps, and whoever waits, waits for one that can go on. Timers
(`Reclaim`, `Tick`, the wait of `cancel_and_wait`) go on because the runtime
fires them. In `AgentRuntime` the reader, reaper and stopper threads and the
calls that can go on do so and a killed process ends, but no agent answers and
no timeout fires: `FailedCallReturns` holds without them. In `TaskSupervisor`
an aborted task is dropped at its next await, one-shots end, and loops end once
the token is cancelled. `PoolRouting` states safety only: its closes and probes
end by timeouts, which say nothing about the order in which they do. A query that never ends is allowed: `WaiterReturns` then rests on
the timeout, and `IdleIsRolledBack` assumes that the database answers a script.

## Findings

1. `mt_dropped`: cancelling an export drops the future of an execute call;
   `busy` stays set, so no watcher and no call ever ends the transaction.
2. `pr_manual`: `close_pool_with_timeout` reads whether a manual transaction
   shares the runtime before it awaits the close. A transaction whose pool is
   published on the runtime meanwhile is not protected: when the close fails
   or times out, its runtime is killed.

Known limits, which the properties state as exceptions and the models reach:

- A tracked execution is reported terminal while its owner runs when its id is
  registered again, because that signals the displaced task's completion at
  once. `TerminalMeansFinished` shows this is the only way.
- After a delete and a create the row's version starts at 1 again, so a delayed
  swap succeeds and may move the new entry along an edge the table does not
  have. `NoLostUpdate` and `LinearSpec` except exactly the clients that loaded
  the entry before the last delete, and an entry that one of them has moved.
- `create_state` over an existing row counts the row's version on while the
  entry starts at 1: the versions part for good and every later transition
  exhausts its retries. `VersionsAgree` shows that this is the only way.
- A scoped cancel collects ids and then cancels by id: an id registered again in
  between, with another scope, is cancelled too.
- `recover` of a committing transaction rolls participants back without saving
  `rolling_back`; after a second crash it asks them to commit again, and relies
  on them to refuse.
- A crash between saving `rolling_back` and saving `mixed` makes recovery
  record `rolled_back` although a participant has committed. `OutcomeIsRight`
  speaks of runs without crashes and lost answers.
- A failed statement reports "The manual transaction was rolled back." while a
  commit that waits for the connection commits (on MySQL, which keeps a
  transaction open after a failed statement). `FailedIsRolledBack` excepts
  sessions that the user took.
- Garbage on the stdout of a live agent: the reader drains `pending` before it
  ends the process, so a request written in between waits for its own timeout
  (`noise` in `NoCallLeftBehind` and `FailedCallReturns`).
- A dropped call leaves its request in `pending` until the agent answers it or
  the runtime ends (`NothingLeftInPending`).
- A runtime that ended without routing knowing stays routed until a probe, a
  query or the second look of an insert meets it (`NoRouteToKilledRuntime`
  speaks of the kills that routing makes).
- `AppState::shutdown` gives tasks up when its own timer fires before the
  supervisor's (`dropped` in `NoTaskEscapes`); `TasksEnd` shows that they still
  end, because they were told to.
- `finish_detach` stops the probe under a key after the lock was released and
  may stop that of a newer pool; a probe that detaches its own pool aborts
  itself and may drop the pool without closing it, the one way a pool is left
  to nobody (`EveryPoolHasOneOwner`); the undo of an insert detaches by key.
  None of these breaks the routing table.

Two narrower races are exceptions the properties state rather than findings:
`cancel_and_wait` subscribes in one critical section and cancels by id in
another, so it can cancel one registration and wait for the other
(`TerminalMeansFinished` speaks of the one it waits for); and a user's commit or
rollback that gets the connection between an execute's lookup and its lock
leaves the script to run after the transaction (`OutsideOnlyByUser`: the
timeout and failures cannot do this).

## Proofs

All theorems are of the form `Spec => []P` (or `Spec => [][A]_v`, or a
refinement) and are proved from an inductive invariant `Inv` with one lemma per
action. The assumptions are those of the modules: the `None` value is not a
member of the sets, the bounds are natural numbers, the names of calls, guards
and the first watcher differ. TLC has checked every invariant first.

- `RunningQueriesProofs`: `Inv` adds to the properties that the map holds only
  owned, undisplaced tasks under their own id (`MapOK`), that unused
  registration ids left no trace (`FreshOK`), that completion is signalled only
  after the guard is gone (`CompletionOK`), that a caller's answer came from
  the completion it subscribed to (`ResultOK`), and what callers and slots hold
  (`CallerOK`, `SlotOK`). `TerminalMeansFinished` alone is not inductive: a
  caller reads the completion long after the step that signalled it, which is
  what `CompletionOK` and `ResultOK` carry. On top of `Inv`, `SignalIsOwed` and
  `ClosuresAreHeldOnce` prove the safety cores of two liveness properties: a task
  that left the map unsignalled, and an interrupt that was taken, are in the
  hands of a thread that is about to signal or run them. `InterruptRunsOnce` is
  an action property and follows: nobody runs a closure that has run.
- `StateMachineProofs`: `LoadedOK` says that a client at its swap may move the
  entry it holds and that, unless it is `stale`, the entry is not newer than the
  row and is the row's own if the versions are equal. It is the reason the swap
  is a linearization point, and with it `ImplementsLinear` proves that the
  protocol implements `LinearStateMachine`, deletes included.
- `TwoPhaseCommitProofs`: `LogOK` relates the log to where the call is,
  `LocalsOK` and `PreparedOK` say what the loops have done, and `ExactOK` says
  that without crashes and lost answers `commit_results` are exact, from
  which `FaultFreeOutcome` follows.
- `ManualTransactionProofs`: `MapOK` ties the map to the transaction and to
  those who end it, `NoStrayScript` says that a session taken by the timeout
  or a failure has no script left; `OutsideOnlyByUser` needs it, since the
  script that would run outside starts long before. `FailuresAreToldRight`
  adds what a call's result says about how the transaction ended.
  `ImplementsSession` proves the refinement of `TransactionSession`: `PhaseIs`
  computes the phase of each kind of state from `Inv`, and every action is
  classified as quiet, a take, an end or a dropped holder (`QuietStep`,
  `TakeStep`, `EndStep`, `DropStep`). `MapOK` is what makes a second take or a
  second end impossible.
- `AgentRuntimeProofs`: `SessionOK` says from where to where in its program a
  client counts as a session; with the theorems about cardinalities
  `CountIsExact` follows action by action. `CellOK` is what `get_or_try_init`
  guarantees (one starter, sessions only in a filled cell), `PendingOK` says
  that a request without an answer is in `pending`, and `ReaderOK` that without
  noise the reader stops only for a process that has ended: then a write fails,
  which is why the call that inserts after the drain does not wait for ever.
  `StartedOK` and `ReaperOK` carry `FailedIsEnded`: the flag `reaper_started` is
  set by whoever terminates the process, except by `kill_and_wait`, which sets it
  first and terminates next; a loser of that race may rely on the winner.
  `PendingEndsEmpty` rests on `ReaderOK` and on `PendingExact`: a request in
  `pending` that is not abandoned belongs to a call under way on this runtime
  without an answer (`ReplyOK` starts each call without one), so a call that is
  dropped after the drain leaves nothing, and one that inserts after the drain is
  about to fail its write.
- `PoolRoutingProofs`: `KeyOK`, `HandsOK` (a pool about to be published, or
  taken by a reclaim, is in nobody else's hands), `OpenedOK`, `RoutedOK` (the
  table and `place` agree) and `OwnersOK` (an insert that failed, and one that
  displaced a pool, has handed it to a closer). `PoolsHaveOneOwner` needs
  `HandsOK` because a pool goes back into the table after a failed reclaim.
  `ProbesAreHarmless` is an action property. `ImplementsSupervisor` proves the
  refinement of `TaskSupervisor`: `ProbeEffects` and `ReclaimEffects` reduce each
  action to what it does to the handles (`StopFacts`, `StartFacts`), and
  `ProbesOK` says that a live probe was aborted or is the one whose handle is
  under its pool's key. `NoProbeEscapes` is the supervisor's `NoTaskEscapes`, read through the mapping.
- `TaskSupervisorProofs`: `OneShotOK` says that a one-shot stays under its key
  until it removes itself, `AcceptingOK` and `DrainOK` that nothing is spawned
  after the drain. `HandlesAreCurrent` depends on nobody calling `stop` with a
  one-shot's key, which is how the core uses the supervisor.

Type correctness of every module, that no acknowledged commit is asked for again
(`CommitsOnce`), that one-shots are single (`OneShotsAreSingle`), and
`SignalIsOwed`, `ClosuresAreHeldOnce`, `InterruptRunsOnce`, `NoProbeEscapes` and
`HandlesAreCurrent` are proved and not checked by a run of their own.

Model-checked only: every liveness property, since the proof system has no rules
for fairness and `ENABLED`: `TakenInterruptRuns`, `WaiterReturns`,
`FinishedIsSignalled`, `DetachedReclaimed`, `TransitionReturns`, `CallReturns`,
`IdleIsRolledBack`, `FailedCallReturns`, `FailedIsReaped`, `StopsReturn`,
`TasksEnd`. For four of them the theorems above prove that what is owed is in the
hands of someone who can go on (`SignalIsOwed`, `ClosuresAreHeldOnce`,
`FailedIsEnded`, `NoCallIsLost`). The two violations are TLC's counterexamples.

## Not modelled

- Pure functions over wide data (schema diff, SQL generation and
  classification, value conversion, encryption): no state, and no small domain
  that would tell more than a unit test.
- Clients of external systems (drivers, brokers, registries, object stores,
  the Calcite agent): one request and one answer per call.
- Schema-diff deploy, write-unlock windows, session credentials, embedded
  database workers, tunnels, cloud sync, the state calibrator: within reach, see
  the plan. The first, the calibrator and cloud sync are sequential; the next
  two are maps behind one lock with a race each (`PROJECT.json`, hazards).
- User interfaces and the shells, which route calls; the calls they make are
  the inputs of the models.
- The external agents under `src/agents`: other processes, other languages.

## Plan

What is left, in this order:

1. `WriteUnlock` and `SessionCredentials`: small, and each with a race between a
   check and a removal.
2. `SchemaDiffDeploy` (`query.rs`): the plan, its compensations and what is
   reported after a partial failure; with an abstract all-or-reported
   specification.
3. The worker processes (`db/duckdb_worker_process.rs`, `db/sqlite_worker.rs`)
   and tunnels: reuse and teardown of what several connections share.
4. In `PoolRouting`: connection attempts, client sessions and the drain of all
   pools at shutdown; liveness of closes and drains.
5. More safety cores of the liveness properties: of `TasksEnd` (a live task
   after a shutdown was told to end) and of `IdleIsRolledBack` (an idle session
   has a watcher that will wake).
