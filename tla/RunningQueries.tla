--------------------------- MODULE RunningQueries ---------------------------
(***************************************************************************)
(* The registry of running executions of dbx-core (query_cancel.rs): the   *)
(* RegisteredQuery guards of the tasks that own an execution, and callers  *)
(* that cancel one execution, cancel every match, or cancel and wait.      *)
(*                                                                         *)
(* A step is one critical section of the `inner` mutex, or one of the      *)
(* effects the code performs after it has released that mutex (cancelling  *)
(* a token, running an interrupt, signalling `completion`).                *)
(***************************************************************************)
EXTENDS Naturals, FiniteSets

CONSTANTS
    ExecutionIds,       \* execution ids, chosen by clients: may be reused
    Registrations,      \* values fetch_add hands out; only compared for equality
    Scopes,             \* the metadata field a scoped cancel matches on
    PoolKeys,           \* connection pool keys
    Callers,            \* threads that call cancel*, one call at a time
    Null                \* None

ASSUME NullAssumption ==
    /\ Null \notin Registrations
    /\ Null \notin PoolKeys
    /\ Null \notin ExecutionIds

VARIABLES
    inner,              \* execution id -> registration of its RunningTask, or Null
    completed,          \* execution ids in the `completed` map, not yet expired
    execution_id,       \* the fields of a RunningTask ...
    remember_completion,
    scope,
    pool_key,
    token,              \*   is the CancellationToken cancelled?
    completion,         \*   the value of the watch channel
    interrupt,          \*   whose interrupt closure is stored in the task, or Null
    closure,            \* what became of the closure made by a registration's driver
    guard,              \* the RegisteredQuery guard of a registration
    displaced,          \* rest of the register call that replaced a registration
    pc,                 \* where a caller is in cancel / cancel_and_wait / cancel_matching
    queue,              \* the execution ids it has still to cancel
    target,             \* the id cancel_and_wait was called with, Null in the others
    watching,           \* the registration whose completion it subscribed to
    hit,                \* the registration its last cancel() found
    held,               \* the closure its last cancel() took out of the task
    result              \* what cancel_and_wait returned

tasks == <<execution_id, remember_completion, scope>>
regVars == <<inner, completed, tasks, pool_key, token, completion, interrupt,
             closure, guard, displaced>>
callerVars == <<pc, queue, target, watching, hit, held, result>>
vars == <<inner, completed, execution_id, remember_completion, scope, pool_key,
          token, completion, interrupt, closure, guard, displaced, pc, queue,
          target, watching, hit, held, result>>

OrNull(S) == S \cup {Null}

\* A closure is handed over at most once: it is stored in a task, taken out of
\* it to be run, run, or dropped with the task (or overwritten) without running.
ClosureStates == {"unready", "stored", "taken", "fired", "dropped"}
GuardStates == {"none", "live", "detached", "completing", "gone"}
DisplacedStates == {"no", "cancel", "complete", "interrupt", "done"}
CallerStates == {"idle", "cancelling", "firing", "completing", "waiting",
                 "checking", "returned"}
Results == [requested: BOOLEAN, terminal: BOOLEAN]
NoResult == [requested |-> FALSE, terminal |-> FALSE]

Init ==
    /\ inner = [e \in ExecutionIds |-> Null]
    /\ completed = {}
    /\ execution_id = [r \in Registrations |-> Null]
    /\ remember_completion = [r \in Registrations |-> FALSE]
    /\ scope = [r \in Registrations |-> Null]
    /\ pool_key = [r \in Registrations |-> Null]
    /\ token = [r \in Registrations |-> FALSE]
    /\ completion = [r \in Registrations |-> FALSE]
    /\ interrupt = [r \in Registrations |-> Null]
    /\ closure = [r \in Registrations |-> "unready"]
    /\ guard = [r \in Registrations |-> "none"]
    /\ displaced = [r \in Registrations |-> "no"]
    /\ pc = [c \in Callers |-> "idle"]
    /\ queue = [c \in Callers |-> {}]
    /\ target = [c \in Callers |-> Null]
    /\ watching = [c \in Callers |-> Null]
    /\ hit = [c \in Callers |-> Null]
    /\ held = [c \in Callers |-> Null]
    /\ result = [c \in Callers |-> NoResult]

-----------------------------------------------------------------------------
(* The task that owns an execution                                         *)

\* Mark the closure in slot i, if any, with state s.
Resolve(i, s) == IF i = Null THEN closure ELSE [closure EXCEPT ![i] = s]

\* The locked part of register_task*: the task is inserted, forgetting an
\* earlier completion of the same id.  A task that was there is displaced.
InsertTask(r, e, tracked, s) ==
    /\ guard[r] = "none"
    /\ inner' = [inner EXCEPT ![e] = r]
    /\ execution_id' = [execution_id EXCEPT ![r] = e]
    /\ remember_completion' = [remember_completion EXCEPT ![r] = tracked]
    /\ scope' = [scope EXCEPT ![r] = s]
    /\ guard' = [guard EXCEPT ![r] = "live"]
    /\ displaced' = IF inner[e] = Null THEN displaced
                    ELSE [displaced EXCEPT ![inner[e]] = "cancel"]
    /\ UNCHANGED <<pool_key, token, completion, interrupt, closure, callerVars>>

Register_KeepsCompleted(r, e, tracked, s) ==
    InsertTask(r, e, tracked, s) /\ UNCHANGED completed

Register(r, e, tracked, s) ==
    InsertTask(r, e, tracked, s) /\ completed' = completed \ {e}

\* The tail of the register call that displaced r, after the lock: cancel the
\* old token, signal the old completion, run the old interrupt.
DisplacedCancel(r) ==
    /\ displaced[r] = "cancel"
    /\ token' = [token EXCEPT ![r] = TRUE]
    /\ displaced' = [displaced EXCEPT ![r] = "complete"]
    /\ UNCHANGED <<inner, completed, tasks, pool_key, completion, interrupt,
                   closure, guard, callerVars>>

DisplacedComplete(r) ==
    /\ displaced[r] = "complete"
    /\ completion' = [completion EXCEPT ![r] = TRUE]
    /\ displaced' = [displaced EXCEPT ![r] = "interrupt"]
    /\ UNCHANGED <<inner, completed, tasks, pool_key, token, interrupt,
                   closure, guard, callerVars>>

DisplacedInterrupt(r) ==
    /\ displaced[r] = "interrupt"
    /\ closure' = Resolve(interrupt[r], "fired")
    /\ interrupt' = [interrupt EXCEPT ![r] = Null]
    /\ displaced' = [displaced EXCEPT ![r] = "done"]
    /\ UNCHANGED <<inner, completed, tasks, pool_key, token, completion, guard,
                   callerVars>>

\* The driver of r hands over its closure, under r's execution id: stored in
\* the task now registered under that id unless that is cancelled, run at
\* once otherwise.
CanStoreInterrupt_EvenIfCancelled(e) == inner[e] # Null

CanStoreInterrupt(e) == inner[e] # Null /\ ~token[inner[e]]

StoreInterrupt(r) ==
    /\ guard[r] = "live" /\ closure[r] = "unready"
    /\ CanStoreInterrupt(execution_id[r])
    /\ LET t == inner[execution_id[r]] IN
       /\ interrupt' = [interrupt EXCEPT ![t] = r]
       /\ closure' = [Resolve(interrupt[t], "dropped") EXCEPT ![r] = "stored"]
    /\ UNCHANGED <<inner, completed, tasks, pool_key, token, completion, guard,
                   displaced, callerVars>>

RunLateInterrupt_Forgotten(r) ==
    /\ guard[r] = "live" /\ closure[r] = "unready"
    /\ ~CanStoreInterrupt(execution_id[r])
    /\ closure' = [closure EXCEPT ![r] = "dropped"]
    /\ UNCHANGED <<inner, completed, tasks, pool_key, token, completion,
                   interrupt, guard, displaced, callerVars>>

RunLateInterrupt(r) ==
    /\ guard[r] = "live" /\ closure[r] = "unready"
    /\ ~CanStoreInterrupt(execution_id[r])
    /\ closure' = [closure EXCEPT ![r] = "fired"]
    /\ UNCHANGED <<inner, completed, tasks, pool_key, token, completion,
                   interrupt, guard, displaced, callerVars>>

SetPoolKey(r, k) ==
    /\ guard[r] = "live"
    /\ inner[execution_id[r]] # Null
    /\ pool_key' = [pool_key EXCEPT ![inner[execution_id[r]]] = k]
    /\ UNCHANGED <<inner, completed, tasks, token, completion, interrupt,
                   closure, guard, displaced, callerVars>>

\* remove(execution_id, registration_id): does nothing when the id has been
\* registered again or cancelled away.  The removed task's closure goes with it.
IsCurrent_AnyRegistration(r) == inner[execution_id[r]] # Null

IsCurrent(r) == inner[execution_id[r]] = r

Remove(r) ==
    IF IsCurrent(r)
    THEN /\ inner' = [inner EXCEPT ![execution_id[r]] = Null]
         /\ completed' = IF remember_completion[r]
                         THEN completed \cup {execution_id[r]} ELSE completed
         /\ closure' = Resolve(interrupt[r], "dropped")
         /\ interrupt' = [interrupt EXCEPT ![r] = Null]
         /\ guard' = [guard EXCEPT ![r] = "completing"]
    ELSE /\ guard' = [guard EXCEPT ![r] = "gone"]
         /\ UNCHANGED <<inner, completed, closure, interrupt>>

\* Drop for RegisteredQuery: the task returned, failed, unwound, or timed out
\* where no later cancel is possible.
Finish(r) ==
    /\ guard[r] = "live"
    /\ Remove(r)
    /\ UNCHANGED <<tasks, pool_key, token, completion, displaced, callerVars>>

\* finish_with_late_cancel on a timeout: the entry stays for the grace period.
Detach(r) ==
    /\ guard[r] = "live"
    /\ guard' = [guard EXCEPT ![r] = "detached"]
    /\ UNCHANGED <<inner, completed, tasks, pool_key, token, completion,
                   interrupt, closure, displaced, callerVars>>

\* The grace period of a detached registration is over.
Reclaim_LeavesEntry(r) ==
    /\ guard[r] = "detached"
    /\ guard' = [guard EXCEPT ![r] = "gone"]
    /\ UNCHANGED <<inner, completed, tasks, pool_key, token, completion,
                   interrupt, closure, displaced, callerVars>>

Reclaim(r) ==
    /\ guard[r] = "detached"
    /\ Remove(r)
    /\ UNCHANGED <<tasks, pool_key, token, completion, displaced, callerVars>>

RemoveComplete(r) ==
    /\ guard[r] = "completing"
    /\ completion' = [completion EXCEPT ![r] = TRUE]
    /\ guard' = [guard EXCEPT ![r] = "gone"]
    /\ UNCHANGED <<inner, completed, tasks, pool_key, token, interrupt,
                   closure, displaced, callerVars>>

\* DETACHED_REGISTRATION_GRACE_PERIOD has passed since the completion of e was
\* recorded: every reader of `completed` first retains the younger entries.
ExpireCompleted(e) ==
    /\ e \in completed
    /\ completed' = completed \ {e}
    /\ UNCHANGED <<inner, tasks, pool_key, token, completion, interrupt,
                   closure, guard, displaced, callerVars>>

-----------------------------------------------------------------------------
(* Callers                                                                 *)

\* A public cancel function starts: the ids to cancel, and for
\* cancel_and_wait the id and the registration it subscribed to.
Start(c, ids, e, r, next) ==
    /\ pc[c] = "idle"
    /\ pc' = [pc EXCEPT ![c] = next]
    /\ queue' = [queue EXCEPT ![c] = ids]
    /\ target' = [target EXCEPT ![c] = e]
    /\ watching' = [watching EXCEPT ![c] = r]
    /\ UNCHANGED <<regVars, hit, held, result>>

Cancel(c, e) == Start(c, {e}, Null, Null, "cancelling")

\* cancel_connection, cancel_client_session, cancel_owner_scope, cancel_all:
\* the matching ids are collected under the lock, then cancelled one by one.
CancelMatching(c, S) ==
    Start(c, {e \in ExecutionIds : inner[e] # Null /\ scope[inner[e]] \in S},
          Null, Null, "cancelling")

CancelAndWait(c, e) ==
    Start(c, {e}, e, inner[e],
          IF inner[e] = Null THEN "checking" ELSE "cancelling")

\* The locked part of cancel(): a tracked task stays registered, without its
\* interrupt, until its guard removes it; an untracked one is removed here.
CancelMissing(c, e) ==
    /\ pc[c] = "cancelling" /\ e \in queue[c]
    /\ inner[e] = Null
    /\ queue' = [queue EXCEPT ![c] = @ \ {e}]
    /\ pc' = [pc EXCEPT ![c] = IF target[c] = Null THEN "cancelling" ELSE "checking"]
    /\ UNCHANGED <<regVars, target, watching, hit, held, result>>

CancelTask(c, e) ==
    /\ pc[c] = "cancelling" /\ e \in queue[c]
    /\ inner[e] # Null
    /\ LET t == inner[e] IN
       /\ token' = [token EXCEPT ![t] = TRUE]
       /\ inner' = IF remember_completion[t] THEN inner ELSE [inner EXCEPT ![e] = Null]
       /\ closure' = Resolve(interrupt[t], "taken")
       /\ interrupt' = [interrupt EXCEPT ![t] = Null]
       /\ hit' = [hit EXCEPT ![c] = t]
       /\ held' = [held EXCEPT ![c] = interrupt[t]]
    /\ queue' = [queue EXCEPT ![c] = @ \ {e}]
    /\ pc' = [pc EXCEPT ![c] = "firing"]
    /\ UNCHANGED <<completed, tasks, pool_key, completion, guard, displaced,
                   target, watching, result>>

\* After the lock: run the interrupt, then signal the task's completion if
\* this call removed it.
CancelFire_Forgotten(c) ==
    /\ pc[c] = "firing"
    /\ held' = [held EXCEPT ![c] = Null]
    /\ pc' = [pc EXCEPT ![c] = "completing"]
    /\ UNCHANGED <<regVars, queue, target, watching, hit, result>>

CancelFire(c) ==
    /\ pc[c] = "firing"
    /\ closure' = Resolve(held[c], "fired")
    /\ held' = [held EXCEPT ![c] = Null]
    /\ pc' = [pc EXCEPT ![c] = "completing"]
    /\ UNCHANGED <<inner, completed, tasks, pool_key, token, completion,
                   interrupt, guard, displaced, queue, target, watching, hit, result>>

CancelComplete_Always(c) ==
    /\ pc[c] = "completing"
    /\ completion' = [completion EXCEPT ![hit[c]] = TRUE]
    /\ pc' = [pc EXCEPT ![c] = IF target[c] = Null THEN "cancelling" ELSE "waiting"]
    /\ UNCHANGED <<inner, completed, tasks, pool_key, token, interrupt, closure,
                   guard, displaced, queue, target, watching, hit, held, result>>

CancelComplete_Never(c) ==
    /\ pc[c] = "completing"
    /\ pc' = [pc EXCEPT ![c] = IF target[c] = Null THEN "cancelling" ELSE "waiting"]
    /\ UNCHANGED <<regVars, queue, target, watching, hit, held, result>>

CancelComplete(c) ==
    /\ pc[c] = "completing"
    /\ completion' = IF remember_completion[hit[c]] THEN completion
                     ELSE [completion EXCEPT ![hit[c]] = TRUE]
    /\ pc' = [pc EXCEPT ![c] = IF target[c] = Null THEN "cancelling" ELSE "waiting"]
    /\ UNCHANGED <<inner, completed, tasks, pool_key, token, interrupt, closure,
                   guard, displaced, queue, target, watching, hit, held, result>>

\* The thread is free for another call; its locals are gone.
Idle(c) ==
    /\ pc' = [pc EXCEPT ![c] = "idle"]
    /\ queue' = [queue EXCEPT ![c] = {}]
    /\ target' = [target EXCEPT ![c] = Null]
    /\ watching' = [watching EXCEPT ![c] = Null]
    /\ hit' = [hit EXCEPT ![c] = Null]
    /\ result' = [result EXCEPT ![c] = NoResult]
    /\ UNCHANGED <<regVars, held>>

\* cancel and cancel_matching return.
CancelReturn(c) == pc[c] = "cancelling" /\ queue[c] = {} /\ Idle(c)

WaitReturn(c, requested, terminal) ==
    /\ pc' = [pc EXCEPT ![c] = "returned"]
    /\ result' = [result EXCEPT ![c] = [requested |-> requested, terminal |-> terminal]]
    /\ UNCHANGED <<regVars, queue, target, watching, hit, held>>

\* The three ends of cancel_and_wait: completion seen, timeout (which polls the
\* channel first), and the answer for an id that was no longer registered.
WaitCompleted(c) ==
    /\ pc[c] = "waiting" /\ completion[watching[c]]
    /\ WaitReturn(c, TRUE, TRUE)

WaitTimeout_Unbounded(c) == FALSE /\ UNCHANGED vars

WaitTimeout(c) ==
    /\ pc[c] = "waiting" /\ ~completion[watching[c]]
    /\ WaitReturn(c, TRUE, FALSE)

CompletedExecutionIsTerminal(e) == inner[e] = Null /\ e \in completed

CheckCompleted(c) ==
    /\ pc[c] = "checking"
    /\ WaitReturn(c, FALSE, CompletedExecutionIsTerminal(target[c]))

\* The client has used the result of cancel_and_wait.
Forget(c) == pc[c] = "returned" /\ Idle(c)

-----------------------------------------------------------------------------
TaskStep(r) ==
    \/ \E e \in ExecutionIds, tracked \in BOOLEAN, s \in Scopes :
          Register(r, e, tracked, s)
    \/ DisplacedCancel(r) \/ DisplacedComplete(r) \/ DisplacedInterrupt(r)
    \/ StoreInterrupt(r) \/ RunLateInterrupt(r)
    \/ \E k \in PoolKeys : SetPoolKey(r, k)
    \/ Finish(r) \/ Detach(r) \/ Reclaim(r) \/ RemoveComplete(r)

CallerStep(c) ==
    \/ \E e \in ExecutionIds : Cancel(c, e) \/ CancelAndWait(c, e)
    \/ \E S \in SUBSET Scopes : CancelMatching(c, S)
    \/ \E e \in ExecutionIds : CancelMissing(c, e) \/ CancelTask(c, e)
    \/ CancelFire(c) \/ CancelComplete(c) \/ CancelReturn(c)
    \/ WaitCompleted(c) \/ WaitTimeout(c) \/ CheckCompleted(c) \/ Forget(c)

Next ==
    \/ \E r \in Registrations : TaskStep(r)
    \/ \E c \in Callers : CallerStep(c)
    \/ \E e \in ExecutionIds : ExpireCompleted(e)

\* Straight-line code after a lock, timers that fire (the wait's timeout, the
\* grace period of a detached registration).  Nothing makes a task finish,
\* hand over an interrupt, or a client call.
TailStep(r) ==
    DisplacedCancel(r) \/ DisplacedComplete(r) \/ DisplacedInterrupt(r)

CallStep(c) ==
    \/ \E e \in ExecutionIds : CancelMissing(c, e) \/ CancelTask(c, e)
    \/ CancelFire(c) \/ CancelComplete(c) \/ CancelReturn(c)
    \/ WaitCompleted(c) \/ WaitTimeout(c) \/ CheckCompleted(c)

Fairness ==
    /\ \A r \in Registrations :
          WF_vars(TailStep(r)) /\ WF_vars(Reclaim(r)) /\ WF_vars(RemoveComplete(r))
    /\ \A c \in Callers : WF_vars(CallStep(c))

Spec == Init /\ [][Next]_vars

FairSpec == Spec /\ Fairness

-----------------------------------------------------------------------------
(* Properties                                                              *)

\* Types; a caller past cancel() has a task in hand, and a waiting caller a
\* subscription (the two unwraps of cancel_and_wait).
TypeOK ==
    /\ inner \in [ExecutionIds -> OrNull(Registrations)]
    /\ completed \subseteq ExecutionIds
    /\ execution_id \in [Registrations -> OrNull(ExecutionIds)]
    /\ remember_completion \in [Registrations -> BOOLEAN]
    /\ scope \in [Registrations -> OrNull(Scopes)]
    /\ pool_key \in [Registrations -> OrNull(PoolKeys)]
    /\ token \in [Registrations -> BOOLEAN]
    /\ completion \in [Registrations -> BOOLEAN]
    /\ interrupt \in [Registrations -> OrNull(Registrations)]
    /\ closure \in [Registrations -> ClosureStates]
    /\ guard \in [Registrations -> GuardStates]
    /\ displaced \in [Registrations -> DisplacedStates]
    /\ pc \in [Callers -> CallerStates]
    /\ queue \in [Callers -> SUBSET ExecutionIds]
    /\ target \in [Callers -> OrNull(ExecutionIds)]
    /\ watching \in [Callers -> OrNull(Registrations)]
    /\ hit \in [Callers -> OrNull(Registrations)]
    /\ held \in [Callers -> OrNull(Registrations)]
    /\ result \in [Callers -> Results]
    /\ \A r \in Registrations : guard[r] # "none" => execution_id[r] \in ExecutionIds
    /\ \A c \in Callers :
          /\ pc[c] \in {"firing", "completing", "waiting"} => hit[c] \in Registrations
          /\ pc[c] = "waiting" => watching[c] \in Registrations
          /\ pc[c] = "checking" => target[c] \in ExecutionIds

Owned(r) == guard[r] \in {"live", "detached"}
IsPoolActive(k) == \E e \in ExecutionIds : inner[e] # Null /\ pool_key[inner[e]] = k

\* While a guard is live, or detached within its grace period, its execution
\* stays registered under its id and counts for its pool, whatever stale
\* guards and reclaim timers of the same id do: only a registration of the
\* same id or the cancel of an untracked task takes it out.
ReachableWhileRunning ==
    \A r \in Registrations :
        Owned(r) /\ displaced[r] = "no" /\ (remember_completion[r] \/ ~token[r])
        => /\ inner[execution_id[r]] = r
           /\ pool_key[r] # Null => IsPoolActive(pool_key[r])

\* cancel_and_wait reports a tracked execution it cancelled as terminal only
\* when that execution's guard is gone, or its id was registered again.
TerminalMeansFinished ==
    \A c \in Callers :
        LET r == watching[c] IN
        pc[c] = "returned" /\ result[c].requested /\ result[c].terminal
            /\ remember_completion[r] /\ displaced[r] = "no"
        => guard[r] = "gone"

\* An id that completed_execution_is_terminal would call terminal is not
\* registered, and no tracked execution under it is still running, unless
\* that one was displaced.
CompletedMeansFinished ==
    \A e \in completed :
        /\ inner[e] = Null
        /\ \A r \in Registrations :
              execution_id[r] = e /\ remember_completion[r] /\ displaced[r] = "no"
              => ~Owned(r)

\* A stored interrupt is never leaked: it sits in a registered task that was
\* not cancelled yet (so a later cancel still takes it), or in a displaced
\* task whose tail will run it.
StoredInterruptReachable ==
    \A o \in Registrations : closure[o] = "stored" =>
        \E r \in Registrations :
            /\ interrupt[r] = o
            /\ \/ inner[execution_id[r]] = r /\ ~token[r]
               \/ displaced[r] \in {"cancel", "complete", "interrupt"}

\* A running execution loses its interrupt without it being run only if
\* another registration used the same execution id.
LostInterruptNeedsReusedId ==
    \A o \in Registrations : guard[o] = "live" /\ closure[o] = "dropped" =>
        \E q \in Registrations \ {o} : execution_id[q] = execution_id[o]

\* An interrupt taken by a cancel is run.
TakenInterruptRuns ==
    \A o \in Registrations : closure[o] = "taken" ~> closure[o] = "fired"

\* cancel_and_wait always returns, also when the task never finishes.
WaiterReturns ==
    \A c \in Callers :
        pc[c] \in {"cancelling", "firing", "completing", "waiting", "checking"}
        ~> pc[c] \in {"idle", "returned"}

\* Once a guard is gone, its completion is signalled, by whichever of remove,
\* cancel and the displacing register took the task out of the map.
FinishedIsSignalled ==
    \A r \in Registrations : guard[r] \in {"completing", "gone"} ~> completion[r]

\* A detached registration does not stay in the map for ever.
DetachedReclaimed ==
    \A r \in Registrations : guard[r] = "detached" ~> \A e \in ExecutionIds : inner[e] # r
=============================================================================
