--------------------------- MODULE TaskSupervisor ---------------------------
(***************************************************************************)
(* The supervisor of background tasks (task_supervisor.rs) as dbx-core     *)
(* uses it: keepalive and pool-activity tasks replace one another under a  *)
(* key (ReplaceKeys), pool closes and session cleanups are one-shots       *)
(* (OnceKeys), keepalives are stopped, and AppState::shutdown              *)
(* (connection.rs) shuts the supervisor down within a deadline of its own. *)
(*                                                                         *)
(* A step is one critical section of the tasks mutex, one access to        *)
(* accepting or to the cancellation token outside it, or what a task does  *)
(* between two awaits.                                                     *)
(***************************************************************************)
CONSTANTS
    ReplaceKeys,  \* keys of spawn_replace, stop and stop_and_wait
    OnceKeys,     \* keys of spawn_once
    Tasks,        \* tasks that may be spawned, each at most once
    Null          \* None

TaskKeys == ReplaceKeys \cup OnceKeys

ASSUME KeysAssumption == ReplaceKeys \cap OnceKeys = {}
ASSUME NullAssumption == Null \notin TaskKeys /\ Null \notin Tasks

VARIABLES
    accepting,    \* are tasks accepted?
    cancelled,    \* was the cancellation token cancelled?
    tasks,        \* key -> the task whose handle is in the map, or Null
    task,         \* where a task is
    key,          \* the key it was spawned with, or Null
    aborted,      \* tasks that were abort()ed and have not ended yet
    awaited,      \* tasks that a stop_and_wait awaits
    shutdown,     \* where shutdown is
    handles       \* the handles it has drained

vars == <<accepting, cancelled, tasks, task, key, aborted, awaited, shutdown, handles>>

Init ==
    /\ accepting = TRUE
    /\ cancelled = FALSE
    /\ tasks = [k \in TaskKeys |-> Null]
    /\ task = [t \in Tasks |-> "unused"]
    /\ key = [t \in Tasks |-> Null]
    /\ aborted = {}
    /\ awaited = {}
    /\ shutdown = "no"
    /\ handles = {}

Alive(t) == task[t] \in {"starting", "running"}

-----------------------------------------------------------------------------
(* Spawning and stopping                                                   *)

Spawn(k, t, where) ==
    /\ task[t] = "unused"
    /\ task' = [task EXCEPT ![t] = where]
    /\ key' = [key EXCEPT ![t] = k]
    /\ tasks' = [tasks EXCEPT ![k] = t]

\* JoinHandle::abort of the handle under k, if any; nothing happens to a task
\* that has ended.
Abort(k) == aborted' = aborted \cup {t \in Tasks : t = tasks[k] /\ task[t] # "ended"}

spawn_replace_Unchecked(k, t) ==
    /\ Spawn(k, t, "running")
    /\ Abort(k)
    /\ UNCHANGED <<accepting, cancelled, awaited, shutdown, handles>>

spawn_replace(k, t) ==
    /\ accepting
    /\ Spawn(k, t, "running")
    /\ Abort(k)
    /\ UNCHANGED <<accepting, cancelled, awaited, shutdown, handles>>

\* The task waits for its start signal until its handle is in the map.
spawn_once(k, t) ==
    /\ accepting
    /\ tasks[k] = Null
    /\ Spawn(k, t, "starting")
    /\ UNCHANGED <<accepting, cancelled, aborted, awaited, shutdown, handles>>

\* The spawner, which has released the mutex, sends the signal.
Start(t) ==
    /\ task[t] = "starting"
    /\ task' = [task EXCEPT ![t] = "running"]
    /\ UNCHANGED <<accepting, cancelled, tasks, key, aborted, awaited, shutdown, handles>>

stop(k) ==
    /\ tasks[k] # Null
    /\ tasks' = [tasks EXCEPT ![k] = Null]
    /\ Abort(k)
    /\ UNCHANGED <<accepting, cancelled, task, key, awaited, shutdown, handles>>

stop_and_wait_NoAbort(k) ==
    /\ tasks[k] # Null
    /\ tasks' = [tasks EXCEPT ![k] = Null]
    /\ awaited' = awaited \cup {tasks[k]}
    /\ UNCHANGED <<accepting, cancelled, task, key, aborted, shutdown, handles>>

stop_and_wait(k) ==
    /\ tasks[k] # Null
    /\ tasks' = [tasks EXCEPT ![k] = Null]
    /\ Abort(k)
    /\ awaited' = awaited \cup {tasks[k]}
    /\ UNCHANGED <<accepting, cancelled, task, key, shutdown, handles>>

\* The await of the handle returns when the task is gone.
StopReturns(t) ==
    /\ t \in awaited
    /\ task[t] = "ended"
    /\ awaited' = awaited \ {t}
    /\ UNCHANGED <<accepting, cancelled, tasks, task, key, aborted, shutdown, handles>>

-----------------------------------------------------------------------------
(* The tasks                                                               *)

\* The future is done.  An abort takes effect only where a task waits, so an
\* aborted task may still come here.
BodyEnds(t) ==
    /\ task[t] = "running"
    /\ task' = [task EXCEPT ![t] = IF key[t] \in OnceKeys THEN "removing" ELSE "ended"]
    /\ aborted' = IF key[t] \in OnceKeys THEN aborted ELSE aborted \ {t}
    /\ UNCHANGED <<accepting, cancelled, tasks, key, awaited, shutdown, handles>>

\* An aborted task is dropped where it waits.
Aborts(t) ==
    /\ t \in aborted
    /\ Alive(t)
    /\ task' = [task EXCEPT ![t] = "ended"]
    /\ aborted' = aborted \ {t}
    /\ UNCHANGED <<accepting, cancelled, tasks, key, awaited, shutdown, handles>>

\* A one-shot takes what is under its key out of the map and is done.
remove_completed(t) ==
    /\ task[t] = "removing"
    /\ tasks' = [tasks EXCEPT ![key[t]] = Null]
    /\ task' = [task EXCEPT ![t] = "ended"]
    /\ aborted' = aborted \ {t}
    /\ UNCHANGED <<accepting, cancelled, key, awaited, shutdown, handles>>

-----------------------------------------------------------------------------
(* Shutting down                                                           *)

ShutdownRefuses ==
    /\ shutdown = "no"
    /\ accepting' = FALSE
    /\ shutdown' = "cancel"
    /\ UNCHANGED <<cancelled, tasks, task, key, aborted, awaited, handles>>

ShutdownCancels_Nothing ==
    /\ shutdown = "cancel"
    /\ shutdown' = "drain"
    /\ UNCHANGED <<accepting, cancelled, tasks, task, key, aborted, awaited, handles>>

ShutdownCancels ==
    /\ shutdown = "cancel"
    /\ cancelled' = TRUE
    /\ shutdown' = "drain"
    /\ UNCHANGED <<accepting, tasks, task, key, aborted, awaited, handles>>

ShutdownDrains ==
    /\ shutdown = "drain"
    /\ handles' = {tasks[k] : k \in TaskKeys} \ {Null}
    /\ tasks' = [k \in TaskKeys |-> Null]
    /\ shutdown' = "wait"
    /\ UNCHANGED <<accepting, cancelled, task, key, aborted, awaited>>

ShutdownJoins ==
    /\ shutdown = "wait"
    /\ \A t \in handles : task[t] = "ended"
    /\ shutdown' = "returned"
    /\ UNCHANGED <<accepting, cancelled, tasks, task, key, aborted, awaited, handles>>

\* The supervisor's deadline passes first: what is left is aborted.
ShutdownTimesOut ==
    /\ shutdown = "wait"
    /\ aborted' = aborted \cup {t \in handles : task[t] # "ended"}
    /\ shutdown' = "returned"
    /\ UNCHANGED <<accepting, cancelled, tasks, task, key, awaited, handles>>

\* AppState::shutdown waits no longer than the same deadline, of a timer that
\* was set just before: if it passes first the join is dropped, and with it
\* the handles, which detaches their tasks.
ShutdownDropped ==
    /\ shutdown = "wait"
    /\ shutdown' = "dropped"
    /\ handles' = {}
    /\ UNCHANGED <<accepting, cancelled, tasks, task, key, aborted, awaited>>

-----------------------------------------------------------------------------
TaskStep(t) == Start(t) \/ BodyEnds(t) \/ Aborts(t) \/ remove_completed(t)

ShutdownStep ==
    ShutdownCancels \/ ShutdownDrains \/ ShutdownJoins \/ ShutdownTimesOut \/ ShutdownDropped

Next ==
    \/ \E t \in Tasks :
          \/ \E k \in ReplaceKeys : spawn_replace(k, t)
          \/ \E k \in OnceKeys : spawn_once(k, t)
          \/ TaskStep(t)
          \/ StopReturns(t)
    \/ \E k \in ReplaceKeys : stop(k) \/ stop_and_wait(k)
    \/ ShutdownRefuses
    \/ ShutdownStep

Spec == Init /\ [][Next]_vars

\* The bodies of one-shots have timeouts; a keepalive, which otherwise loops
\* for ever, ends when it sees the cancellation.
BodyReturns(t) == (key[t] \in OnceKeys \/ cancelled) /\ BodyEnds(t)

\* The runtime runs the tasks, and a shutdown goes on.
FairSpec ==
    /\ Spec
    /\ \A t \in Tasks :
          /\ WF_vars(Start(t)) /\ WF_vars(remove_completed(t))
          /\ WF_vars(Aborts(t)) /\ WF_vars(BodyReturns(t)) /\ WF_vars(StopReturns(t))
    /\ WF_vars(ShutdownStep)

-----------------------------------------------------------------------------
(* Properties                                                              *)

Drained == shutdown \in {"wait", "returned", "dropped"}

\* Types; only one-shots start late and remove themselves.
TypeOK ==
    /\ accepting \in BOOLEAN /\ cancelled \in BOOLEAN
    /\ tasks \in [TaskKeys -> Tasks \cup {Null}]
    /\ task \in [Tasks -> {"unused", "starting", "running", "removing", "ended"}]
    /\ key \in [Tasks -> TaskKeys \cup {Null}]
    /\ \A t \in Tasks : task[t] \in {"starting", "removing"} => key[t] \in OnceKeys
    /\ aborted \in SUBSET {t \in Tasks : task[t] \notin {"unused", "ended"}}
    /\ awaited \in SUBSET Tasks
    /\ shutdown \in {"no", "cancel", "drain", "wait", "returned", "dropped"}
    /\ handles \in SUBSET Tasks

\* No task is out of control: whatever the order of spawns, replacements,
\* stops and the steps of shutdown, a live task is under its key in the map
\* until shutdown has drained it, or shutdown holds its handle, or it was
\* aborted.  (spawn checks accepting under the mutex that the drain takes.)
\* Only AppState::shutdown's own timeout gives tasks up.
NoTaskEscapes ==
    \A t \in Tasks : Alive(t) =>
        \/ t \in aborted \cup handles
        \/ ~Drained /\ tasks[key[t]] = t
        \/ shutdown = "dropped"

\* A finished one-shot does not block its key: a handle in the map is that of
\* a task of that key which has yet to remove itself.  remove_completed
\* removes by key, so it must never meet another task's handle.
OneShotHandleIsCurrent ==
    \A k \in OnceKeys : tasks[k] # Null =>
        key[tasks[k]] = k /\ task[tasks[k]] \in {"starting", "running", "removing"}

\* Duplicate requests for a one-shot do not accumulate.
OneShotsDoNotAccumulate ==
    \A t, u \in Tasks :
        key[t] \in OnceKeys /\ key[t] = key[u] /\ t # u =>
            task[t] = "ended" \/ task[u] = "ended"

\* Whoever waits for a stopped keepalive goes on.
StopsReturn == \A t \in Tasks : t \in awaited ~> t \notin awaited

\* After a shutdown, even one that was cut short, every task ends.
TasksEnd == Drained ~> \A t \in Tasks : task[t] \in {"unused", "ended"}
=============================================================================
