----------------------------- MODULE PoolRouting -----------------------------
(***************************************************************************)
(* The routing table of connection pools (AppState.connections), what      *)
(* publishes, replaces, detaches, reclaims and closes a pool, the probe    *)
(* (keepalive task) of a route and the shared agent runtimes behind the    *)
(* pools (connection.rs).  The pools are agent pools: they share runtimes  *)
(* and are the kind for which identity, siblings and reclaim matter.       *)
(*                                                                         *)
(* A step is one critical section of the connections lock, one call into   *)
(* the task supervisor, or the part of a task between two awaits.          *)
(***************************************************************************)
EXTENDS Naturals, FiniteSets

CONSTANTS
    Keys,        \* pool keys
    ManualKeys,  \* those with ":session:manual-txn-": no probe, no reclaim
    Pools,       \* pools that may be opened, each at most once
    Runtimes,    \* shared agent runtimes
    Probes,      \* keepalive tasks that may be started
    Queries,     \* holders of a clone of a pool
    MaxEvents,   \* bound: errors, and requests that end a route
    Null         \* None

ASSUME ManualKeysAssumption == ManualKeys \subseteq Keys
ASSUME MaxEventsAssumption == MaxEvents \in Nat
ASSUME NullAssumption ==
    /\ Null \notin Keys /\ Null \notin Pools
    /\ Null \notin Runtimes /\ Null \notin Probes

VARIABLES
    connections,  \* key -> pool, or Null
    place,        \* where a pool is
    key,          \* the key it was opened for
    runtime,      \* the runtime of its agent session
    killed,       \* runtimes that routing has fail_stop()ped
    exited,       \* runtimes that ended otherwise
    inserting,    \* where insert_connection_pool_inner of a pool is
    previous,     \* the pool that the insert displaced, or Null
    protects,     \* protects_manual_txn in close_pool_with_timeout of a pool
    keepalive,    \* the supervisor's handle "keepalive:<key>", or Null
    probe,        \* where a keepalive task is
    target,       \* the pool it pings; of a task that has ended, the last (history)
    replaces,     \* did its ping ask for a new runtime?
    aborted,      \* keepalive tasks that were abort()ed
    query,        \* where a query is
    held,         \* the pool of which a query holds a clone, or Null
    reclaim,      \* where reclaim_idle_base_pool_for_session is
    reclaim_key,  \* the key that it drains, or Null
    reclaimed,    \* the probe it waits for, later the pool it took out or restarts
    removing,     \* keys for which remove_pool_by_key is under way
    events        \* events so far (bookkeeping of the bound)

insertVars == <<inserting, previous>>
probeVars == <<keepalive, probe, target, replaces, aborted>>
queryVars == <<query, held>>
reclaimVars == <<reclaim, reclaim_key, reclaimed>>
userVars == <<removing, events>>
vars == <<connections, place, key, runtime, killed, exited, inserting, previous,
          protects, keepalive, probe, target, replaces, aborted, query, held, reclaim,
          reclaim_key, reclaimed, removing, events>>

Init ==
    /\ connections = [k \in Keys |-> Null]
    /\ place = [p \in Pools |-> "unused"]
    /\ key = [p \in Pools |-> Null]
    /\ runtime = [p \in Pools |-> Null]
    /\ killed = {}
    /\ exited = {}
    /\ inserting = [p \in Pools |-> "no"]
    /\ previous = [p \in Pools |-> Null]
    /\ protects = [p \in Pools |-> FALSE]
    /\ keepalive = [k \in Keys |-> Null]
    /\ probe = [t \in Probes |-> "unused"]
    /\ target = [t \in Probes |-> Null]
    /\ replaces = [t \in Probes |-> FALSE]
    /\ aborted = {}
    /\ query = [q \in Queries |-> "idle"]
    /\ held = [q \in Queries |-> Null]
    /\ reclaim = "idle"
    /\ reclaim_key = Null
    /\ reclaimed = Null
    /\ removing = {}
    /\ events = 0

\* Every error and every request that ends a route counts against the bound.
Event ==
    /\ events < MaxEvents
    /\ events' = events + 1

-----------------------------------------------------------------------------
(* The routing table                                                       *)

\* Keys whose pool shares runtime r
RuntimeKeys(r) == {k \in Keys : connections[k] # Null /\ runtime[connections[k]] = r}

ProtectsManualTxn(r) == RuntimeKeys(r) \cap ManualKeys # {}

\* The pools under the keys ks leave the table for the place s.
Unroute(ks, s) ==
    /\ connections' = [k \in Keys |-> IF k \in ks THEN Null ELSE connections[k]]
    /\ place' = [p \in Pools |->
                    IF \E k \in ks : connections[k] = p THEN s ELSE place[p]]

\* detach_pool_by_key for a routed key
DetachKey(k, replace) ==
    LET r == runtime[connections[k]] IN
    IF replace /\ ~ProtectsManualTxn(r)
      THEN Unroute(RuntimeKeys(r), "detached") /\ killed' = killed \cup {r}
      ELSE Unroute({k}, "detached") /\ UNCHANGED killed

\* detach_agent_pool_if_current: the route of another pool under the same key
\* goes only with its runtime.
DetachIfCurrent_ByKey(p, replace, s) ==
    LET r == runtime[p] IN
    IF replace /\ ~ProtectsManualTxn(r) /\ key[p] \notin ManualKeys
      THEN Unroute(RuntimeKeys(r), s) /\ killed' = killed \cup {r}
      ELSE Unroute({key[p]}, s) /\ UNCHANGED killed

DetachIfCurrent(p, replace, s) ==
    LET r == runtime[p] IN
    IF replace /\ ~ProtectsManualTxn(r) /\ key[p] \notin ManualKeys
      THEN Unroute(RuntimeKeys(r), s) /\ killed' = killed \cup {r}
      ELSE Unroute({k \in {key[p]} : connections[k] = p}, s) /\ UNCHANGED killed

-----------------------------------------------------------------------------
(* Keepalive tasks                                                         *)

\* TaskSupervisor::stop
Abort(k) ==
    aborted' = aborted \cup {t \in Probes : t = keepalive[k] /\ probe[t] # "ended"}

StopKeepalive_Detaches(k) ==
    /\ keepalive' = [keepalive EXCEPT ![k] = Null]
    /\ UNCHANGED aborted

StopKeepalive(k) ==
    /\ keepalive' = [keepalive EXCEPT ![k] = Null]
    /\ Abort(k)

\* start_keepalive_task through spawn_replace
StartKeepalive(k, p) ==
    \E t \in Probes :
        /\ probe[t] = "unused"
        /\ probe' = [probe EXCEPT ![t] = "sleep"]
        /\ target' = [target EXCEPT ![t] = p]
        /\ keepalive' = [keepalive EXCEPT ![k] = t]
        /\ Abort(k)
        /\ UNCHANGED replaces

\* RunningQueries::is_pool_active, by pool key
PoolActive(k) == \E q \in Queries : query[q] = "active" /\ key[held[q]] = k

ProbePings(t) ==
    /\ probe[t] = "sleep" /\ t \notin aborted
    /\ ~PoolActive(key[target[t]])
    /\ probe' = [probe EXCEPT ![t] = "ping"]
    /\ UNCHANGED <<connections, place, key, runtime, killed, exited,
                   insertVars, protects, keepalive, target, replaces, aborted,
                   queryVars, reclaimVars, userVars>>

ProbeSucceeds(t) ==
    /\ probe[t] = "ping" /\ t \notin aborted
    /\ probe' = [probe EXCEPT ![t] = "sleep"]
    /\ UNCHANGED <<connections, place, key, runtime, killed, exited,
                   insertVars, protects, keepalive, target, replaces, aborted,
                   queryVars, reclaimVars, userVars>>

\* The ping fails (or times out).  An abort takes effect only where the task
\* waits, so it may still go on to detach.
ProbeFails(t, replace) ==
    /\ probe[t] = "ping"
    /\ probe' = [probe EXCEPT ![t] = "detach"]
    /\ replaces' = [replaces EXCEPT ![t] = replace]
    /\ Event
    /\ UNCHANGED <<connections, place, key, runtime, killed, exited,
                   insertVars, protects, keepalive, target, aborted, queryVars,
                   reclaimVars, removing>>

\* The task is gone and with it its clone of the pool.
EndProbe(t) ==
    /\ probe' = [probe EXCEPT ![t] = "ended"]
    /\ replaces' = [replaces EXCEPT ![t] = FALSE]
    /\ aborted' = aborted \ {t}
    /\ UNCHANGED target

ProbeDetaches(t) ==
    /\ probe[t] = "detach"
    /\ DetachIfCurrent(target[t], replaces[t], "probed")
    /\ EndProbe(t)
    /\ UNCHANGED <<key, runtime, exited, insertVars, protects, keepalive,
                   queryVars, reclaimVars, userVars>>

ProbeEnds(t) ==
    /\ t \in aborted
    /\ EndProbe(t)
    /\ UNCHANGED <<connections, place, key, runtime, killed, exited,
                   insertVars, protects, keepalive, queryVars, reclaimVars,
                   userVars>>

-----------------------------------------------------------------------------
(* Closing a pool that has left the table                                  *)

\* finish_detach, after the connections lock was released: the probe under
\* the key is stopped, whichever pool it is for by now, and the pool goes to a
\* background task.  A probe that detached its own pool aborts itself here,
\* and if it then has to wait for the activity lock the pool is only dropped.
FinishDetach(p) ==
    /\ \/ place[p] = "detached" /\ place' = [place EXCEPT ![p] = "queued"]
       \/ place[p] = "probed"
          /\ \E s \in {"queued", "dropped"} : place' = [place EXCEPT ![p] = s]
    /\ StopKeepalive(key[p])
    /\ UNCHANGED <<connections, key, runtime, killed, exited, insertVars,
                   protects, probe, target, replaces, queryVars, reclaimVars,
                   userVars>>

\* close_pool_with_timeout reads who shares the runtime, then closes.
CloseReads(p) ==
    /\ place[p] = "queued"
    /\ place' = [place EXCEPT ![p] = "closing"]
    /\ protects' = [protects EXCEPT ![p] = ProtectsManualTxn(runtime[p])]
    /\ UNCHANGED <<connections, key, runtime, killed, exited, insertVars,
                   probeVars, queryVars, reclaimVars, userVars>>

\* It ends well, or badly and the runtime is left running.
CloseEnds(p) ==
    /\ place[p] = "closing"
    /\ place' = [place EXCEPT ![p] = "closed"]
    /\ protects' = [protects EXCEPT ![p] = FALSE]
    /\ UNCHANGED <<connections, key, runtime, killed, exited, insertVars,
                   probeVars, queryVars, reclaimVars, userVars>>

\* replace_runtime_after_close_failure
ReplaceRuntime(p, s) ==
    /\ connections' = [k \in Keys |-> IF k \in RuntimeKeys(runtime[p]) THEN Null
                                      ELSE connections[k]]
    /\ place' = [o \in Pools |->
                    IF o = p THEN s
                    ELSE IF \E k \in RuntimeKeys(runtime[p]) : connections[k] = o
                    THEN "detached" ELSE place[o]]
    /\ killed' = killed \cup {runtime[p]}

\* The close times out or its error asks for a new runtime.
CloseFails(p) ==
    /\ place[p] = "closing" /\ ~protects[p]
    /\ ReplaceRuntime(p, "closed")
    /\ Event
    /\ UNCHANGED <<key, runtime, exited, insertVars, protects, probeVars,
                   queryVars, reclaimVars, removing>>

-----------------------------------------------------------------------------
(* insert_connection_pool                                                  *)

\* get_or_create_pool: nobody has, or is giving back, a pool for the key.
Open(p, k, r) ==
    /\ place[p] = "unused" /\ r \notin killed \cup exited
    /\ connections[k] = Null /\ reclaim_key # k
    /\ place' = [place EXCEPT ![p] = "opened"]
    /\ key' = [key EXCEPT ![p] = k]
    /\ runtime' = [runtime EXCEPT ![p] = r]
    /\ inserting' = [inserting EXCEPT ![p] = "wait"]
    /\ UNCHANGED <<connections, killed, exited, previous, protects, probeVars,
                   queryVars, reclaimVars, userVars>>

InsertWaits(p) ==
    /\ inserting[p] = "wait" /\ reclaim_key # key[p]
    /\ inserting' = [inserting EXCEPT ![p] = "publish"]
    /\ UNCHANGED <<connections, place, key, runtime, killed, exited, previous,
                   protects, probeVars, queryVars, reclaimVars, userVars>>

\* Under the connections lock
Available_Always(p) == TRUE

Available(p) == runtime[p] \notin killed \cup exited

Publish_DropsPrevious(p) ==
    LET k == key[p] IN
    /\ inserting[p] = "publish"
    /\ Available(p)
    /\ IF k \in ManualKeys
         THEN StopKeepalive(k) /\ UNCHANGED <<probe, target, replaces>>
         ELSE StartKeepalive(k, p)
    /\ connections' = [connections EXCEPT ![k] = p]
    /\ place' = [place EXCEPT ![p] = "routed"]
    /\ inserting' = [inserting EXCEPT ![p] = "recheck"]
    /\ UNCHANGED <<key, runtime, killed, exited, previous, protects, queryVars,
                   reclaimVars, userVars>>

Publish(p) ==
    LET k == key[p] IN
    /\ inserting[p] = "publish"
    /\ Available(p)
    /\ IF k \in ManualKeys
         THEN StopKeepalive(k) /\ UNCHANGED <<probe, target, replaces>>
         ELSE StartKeepalive(k, p)
    /\ connections' = [connections EXCEPT ![k] = p]
    /\ previous' = [previous EXCEPT ![p] = connections[k]]
    /\ place' = [o \in Pools |-> IF o = p THEN "routed"
                                ELSE IF o = connections[k] THEN "queued"
                                ELSE place[o]]
    /\ inserting' = [inserting EXCEPT ![p] = "recheck"]
    /\ UNCHANGED <<key, runtime, killed, exited, protects, queryVars,
                   reclaimVars, userVars>>

PublishFails(p) ==
    /\ inserting[p] = "publish"
    /\ ~Available(p)
    /\ ReplaceRuntime(p, "queued")
    /\ inserting' = [inserting EXCEPT ![p] = "failed"]
    /\ UNCHANGED <<key, runtime, exited, previous, protects, probeVars,
                   queryVars, reclaimVars, userVars>>

InsertFailed(p) ==
    /\ inserting[p] = "failed" /\ place[p] = "closed"
    /\ inserting' = [inserting EXCEPT ![p] = "no"]
    /\ UNCHANGED <<connections, place, key, runtime, killed, exited, previous,
                   protects, probeVars, queryVars, reclaimVars, userVars>>

\* The displaced pool is closed first; then the route must still work.
InsertRechecks(p) ==
    LET o == connections[key[p]] IN
    /\ inserting[p] = "recheck"
    /\ previous[p] # Null => place[previous[p]] = "closed"
    /\ inserting' = [inserting EXCEPT ![p] =
                        IF o # Null /\ Available(o) THEN "no" ELSE "undo"]
    /\ previous' = [previous EXCEPT ![p] = Null]
    /\ UNCHANGED <<connections, place, key, runtime, killed, exited, protects,
                   probeVars, queryVars, reclaimVars, userVars>>

InsertUndoes(p) ==
    /\ inserting[p] = "undo"
    /\ inserting' = [inserting EXCEPT ![p] = "no"]
    /\ IF connections[key[p]] = Null THEN UNCHANGED <<connections, place, killed>>
       ELSE DetachKey(key[p], TRUE)
    /\ UNCHANGED <<key, runtime, exited, previous, protects, probeVars,
                   queryVars, reclaimVars, userVars>>

-----------------------------------------------------------------------------
(* Users of the routes                                                     *)

\* A query clones the pool of a route, then registers as running on its key.
QueryClones(q, k) ==
    /\ query[q] = "idle" /\ connections[k] # Null
    /\ held' = [held EXCEPT ![q] = connections[k]]
    /\ query' = [query EXCEPT ![q] = "holds"]
    /\ UNCHANGED <<connections, place, key, runtime, killed, exited,
                   insertVars, protects, probeVars, reclaimVars, userVars>>

QueryRegisters(q) ==
    /\ query[q] = "holds"
    /\ query' = [query EXCEPT ![q] = "active"]
    /\ UNCHANGED <<connections, place, key, runtime, killed, exited,
                   insertVars, protects, probeVars, held, reclaimVars, userVars>>

\* Cancelling an untracked query removes it from the registry at once, while
\* it still holds its clone.
QueryCancelled(q) ==
    /\ query[q] = "active"
    /\ query' = [query EXCEPT ![q] = "cancelled"]
    /\ UNCHANGED <<connections, place, key, runtime, killed, exited,
                   insertVars, protects, probeVars, held, reclaimVars, userVars>>

QueryEnds(q) ==
    /\ query[q] \in {"holds", "active", "cancelled"}
    /\ query' = [query EXCEPT ![q] = "idle"]
    /\ held' = [held EXCEPT ![q] = Null]
    /\ UNCHANGED <<connections, place, key, runtime, killed, exited,
                   insertVars, protects, probeVars, reclaimVars, userVars>>

\* The holder of a clone (a query, a health check) meets an error and
\* detaches its pool.
QueryDetaches(q, replace) ==
    /\ query[q] \in {"holds", "active"}
    /\ DetachIfCurrent(held[q], replace, "detached")
    /\ query' = [query EXCEPT ![q] = "cancelled"]
    /\ Event
    /\ UNCHANGED <<key, runtime, exited, insertVars, protects, probeVars, held,
                   reclaimVars, removing>>

\* detach_pool_by_key, for whatever pool is under the key
UserDetaches(k, replace) ==
    /\ connections[k] # Null
    /\ DetachKey(k, replace)
    /\ Event
    /\ UNCHANGED <<key, runtime, exited, insertVars, protects, probeVars,
                   queryVars, reclaimVars, removing>>

\* replace_runtime_after_open_failure: opening a session on a runtime failed.
OpenFails(r) ==
    /\ r \notin killed
    /\ Unroute(RuntimeKeys(r), "detached")
    /\ killed' = killed \cup {r}
    /\ Event
    /\ UNCHANGED <<key, runtime, exited, insertVars, protects, probeVars,
                   queryVars, reclaimVars, removing>>

\* A runtime ends without routing: its process exits, its idle timer fires, or
\* stop_daemon_by_key takes it.  Its routes stay until somebody meets an error.
RuntimeEnds(r) ==
    /\ r \notin killed \cup exited
    /\ exited' = exited \cup {r}
    /\ Event
    /\ UNCHANGED <<connections, place, key, runtime, killed, insertVars,
                   protects, probeVars, queryVars, reclaimVars, removing>>

\* remove_pool_by_key: the probe is stopped before the route goes.
UserStopsProbe(k) ==
    /\ k \notin removing
    /\ StopKeepalive(k)
    /\ removing' = removing \cup {k}
    /\ Event
    /\ UNCHANGED <<connections, place, key, runtime, killed, exited,
                   insertVars, protects, probe, target, replaces, queryVars,
                   reclaimVars>>

UserRemoves(k) ==
    /\ k \in removing
    /\ removing' = removing \ {k}
    /\ Unroute({k}, "queued")
    /\ UNCHANGED <<key, runtime, killed, exited, insertVars, protects,
                   probeVars, queryVars, reclaimVars, events>>

-----------------------------------------------------------------------------
(* reclaim_idle_base_pool_for_session                                      *)

\* A candidate whose drain nobody else holds; its probe is stopped.
ReclaimBegins(k) ==
    /\ reclaim = "idle"
    /\ k \notin ManualKeys /\ connections[k] # Null /\ ~PoolActive(k)
    /\ reclaim' = "stopping"
    /\ reclaim_key' = k
    /\ reclaimed' = keepalive[k]
    /\ StopKeepalive(k)
    /\ UNCHANGED <<connections, place, key, runtime, killed, exited,
                   insertVars, protects, probe, target, replaces, queryVars,
                   userVars>>

\* stop_and_wait returns; a query may have begun meanwhile.
ReclaimChecks ==
    /\ reclaim = "stopping"
    /\ reclaimed # Null => probe[reclaimed] = "ended"
    /\ reclaimed' = Null
    /\ reclaim' = IF PoolActive(reclaim_key) THEN "restart" ELSE "take"
    /\ UNCHANGED <<connections, place, key, runtime, killed, exited,
                   insertVars, protects, probeVars, queryVars, reclaim_key,
                   userVars>>

\* Arc::strong_count(client) == 1, under the connections lock
Holders(p) == {q \in Queries : held[q] = p}
Probing(p) == {t \in Probes : target[t] = p /\ probe[t] \in {"sleep", "ping", "detach"}}

ExclusivelyIdle_NotActive(p) == ~PoolActive(key[p])

ExclusivelyIdle(p) == Holders(p) = {} /\ Probing(p) = {}

ReclaimTakes ==
    /\ reclaim = "take"
    /\ LET p == connections[reclaim_key] IN
       \/ /\ p # Null /\ ExclusivelyIdle(p)
          /\ Unroute({reclaim_key}, "reclaimed")
          /\ reclaim' = "close"
          /\ reclaimed' = p
       \/ /\ p = Null \/ ~ExclusivelyIdle(p)
          /\ reclaim' = "restart"
          /\ UNCHANGED <<connections, place, reclaimed>>
    /\ UNCHANGED <<key, runtime, killed, exited, insertVars, protects,
                   probeVars, queryVars, reclaim_key, userVars>>

\* PoolDrainGuard::drop
EndDrain ==
    /\ reclaim' = "idle"
    /\ reclaim_key' = Null
    /\ reclaimed' = Null

\* restart_agent_keepalive reads the route, then starts a probe for it.
RestartReads ==
    /\ reclaim = "restart"
    /\ IF connections[reclaim_key] = Null THEN EndDrain
       ELSE /\ reclaim' = "spawn"
            /\ reclaimed' = connections[reclaim_key]
            /\ UNCHANGED reclaim_key
    /\ UNCHANGED <<connections, place, key, runtime, killed, exited,
                   insertVars, protects, probeVars, queryVars, userVars>>

RestartSpawns ==
    /\ reclaim = "spawn"
    /\ StartKeepalive(reclaim_key, reclaimed)
    /\ EndDrain
    /\ UNCHANGED <<connections, place, key, runtime, killed, exited,
                   insertVars, protects, queryVars, userVars>>

\* close_reclaimed_agent_pool and what follows it
ReclaimCloses ==
    /\ reclaim = "close"
    /\ place' = [place EXCEPT ![reclaimed] = "closed"]
    /\ EndDrain
    /\ UNCHANGED <<connections, key, runtime, killed, exited, insertVars,
                   protects, probeVars, queryVars, userVars>>

ReclaimReplaces ==
    /\ reclaim = "close"
    /\ ReplaceRuntime(reclaimed, "closed")
    /\ EndDrain
    /\ Event
    /\ UNCHANGED <<key, runtime, exited, insertVars, protects, probeVars,
                   queryVars, removing>>

\* The pool is inserted again, without waiting for the drain.
ReclaimRestores ==
    /\ reclaim = "close"
    /\ inserting' = [inserting EXCEPT ![reclaimed] = "publish"]
    /\ place' = [place EXCEPT ![reclaimed] = "opened"]
    /\ reclaim' = "restoring"
    /\ Event
    /\ UNCHANGED <<connections, key, runtime, killed, exited, previous,
                   protects, probeVars, queryVars, reclaim_key, reclaimed,
                   removing>>

ReclaimRestored ==
    /\ reclaim = "restoring" /\ inserting[reclaimed] = "no"
    /\ EndDrain
    /\ UNCHANGED <<connections, place, key, runtime, killed, exited,
                   insertVars, protects, probeVars, queryVars, userVars>>

-----------------------------------------------------------------------------

InsertSteps(p) ==
    \/ InsertWaits(p) \/ Publish(p) \/ PublishFails(p) \/ InsertFailed(p)
    \/ InsertRechecks(p) \/ InsertUndoes(p)

CloseSteps(p) == FinishDetach(p) \/ CloseReads(p) \/ CloseEnds(p) \/ CloseFails(p)

ReclaimSteps ==
    \/ ReclaimChecks \/ ReclaimTakes \/ RestartReads \/ RestartSpawns
    \/ ReclaimCloses \/ ReclaimReplaces \/ ReclaimRestores \/ ReclaimRestored

ProbeSteps(t) ==
    \/ ProbePings(t) \/ ProbeSucceeds(t) \/ ProbeDetaches(t) \/ ProbeEnds(t)
    \/ \E replace \in BOOLEAN : ProbeFails(t, replace)

QuerySteps(q) ==
    \/ \E k \in Keys : QueryClones(q, k)
    \/ QueryRegisters(q) \/ QueryCancelled(q) \/ QueryEnds(q)
    \/ \E replace \in BOOLEAN : QueryDetaches(q, replace)

UserSteps(k) ==
    \/ \E p \in Pools, r \in Runtimes : Open(p, k, r)
    \/ \E replace \in BOOLEAN : UserDetaches(k, replace)
    \/ UserStopsProbe(k) \/ UserRemoves(k) \/ ReclaimBegins(k)

Next ==
    \/ \E p \in Pools : InsertSteps(p) \/ CloseSteps(p)
    \/ \E t \in Probes : ProbeSteps(t)
    \/ \E q \in Queries : QuerySteps(q)
    \/ \E k \in Keys : UserSteps(k)
    \/ \E r \in Runtimes : OpenFails(r) \/ RuntimeEnds(r)
    \/ ReclaimSteps

Spec == Init /\ [][Next]_vars

-----------------------------------------------------------------------------
(* Properties                                                              *)

Places == {"unused", "opened", "routed", "detached", "probed", "queued",
           "closing", "reclaimed", "closed", "dropped"}

TypeOK ==
    /\ connections \in [Keys -> Pools \cup {Null}]
    /\ place \in [Pools -> Places]
    /\ key \in [Pools -> Keys \cup {Null}]
    /\ runtime \in [Pools -> Runtimes \cup {Null}]
    /\ killed \subseteq Runtimes
    /\ exited \subseteq Runtimes
    /\ inserting \in [Pools -> {"no", "wait", "publish", "recheck", "undo",
                              "failed"}]
    /\ previous \in [Pools -> Pools \cup {Null}]
    /\ protects \in [Pools -> BOOLEAN]
    /\ keepalive \in [Keys -> Probes \cup {Null}]
    /\ probe \in [Probes -> {"unused", "sleep", "ping", "detach", "ended"}]
    /\ target \in [Probes -> Pools \cup {Null}]
    /\ replaces \in [Probes -> BOOLEAN]
    /\ aborted \subseteq Probes
    /\ query \in [Queries -> {"idle", "holds", "active", "cancelled"}]
    /\ held \in [Queries -> Pools \cup {Null}]
    /\ reclaim \in {"idle", "stopping", "take", "restart", "spawn", "close", "restoring"}
    /\ reclaim_key \in Keys \cup {Null}
    /\ reclaimed \in Pools \cup Probes \cup {Null}
    /\ removing \subseteq Keys
    /\ events \in 0..MaxEvents
    /\ \A p \in Pools : place[p] # "unused" => key[p] \in Keys /\ runtime[p] \in Runtimes
    /\ \A t \in Probes : probe[t] \in {"sleep", "ping", "detach"} => target[t] \in Pools
    /\ \A q \in Queries : query[q] # "idle" => held[q] \in Pools
    /\ reclaim # "idle" => reclaim_key \in Keys
    /\ reclaim \in {"spawn", "close", "restoring"} => reclaimed \in Pools

\* Every open pool has exactly one owner, whatever order inserts, probes,
\* reclaim, restore and detaches come in: the table, under the pool's own key
\* and no other; or the insert that is about to publish it; or the reclaim that
\* took it out; or else the path it was handed to for closing.  So no pool is
\* routed that somebody closes, none falls between a displacing insert and the
\* closer it waits for, and none is published and closed at once.  Only a pool
\* that its own probe dropped (finish_detach) is closed by nobody.
EveryPoolHasOneOwner ==
    \A p \in Pools :
        /\ \A k \in Keys : connections[k] = p => key[p] = k
        /\ place[p] = "routed" <=> \E k \in Keys : connections[k] = p
        /\ place[p] = "opened" <=> inserting[p] \in {"wait", "publish"}
        /\ place[p] = "reclaimed" <=> reclaim = "close" /\ reclaimed = p
        /\ (inserting[p] = "failed" \/ \E o \in Pools : previous[o] = p)
               => place[p] \in {"queued", "closing", "closed"}

\* No route leads to a runtime that routing itself has killed: publishing checks
\* the runtime under the lock under which its siblings are detached.  (One
\* that ended by itself, or was stopped through the agent manager, stays routed
\* until a probe, a query or the insert's second look finds out.)
NoRouteToKilledRuntime ==
    \A k \in Keys : connections[k] # Null => runtime[connections[k]] \notin killed

\* A pool that reclaim_idle_base_pool_for_session has taken out to close it is
\* used by nobody, not even by a query that cloned the pool and has not
\* registered yet, or that was cancelled and is no longer registered.
ReclaimSparesUsedPools ==
    reclaim = "close" => Holders(reclaimed) = {}

\* A probe whose pool was replaced never takes the replacement out of the
\* table, unless it takes down the runtime of both.
ProbesSpareReplacements ==
    [][\A t \in Probes, k \in Keys :
          ~(/\ ProbeDetaches(t)
            /\ connections[k] \notin {target[t], Null} /\ connections'[k] = Null
            /\ runtime[connections[k]] \notin killed')]_vars

\* A keepalive task, its key and those awaited, as the supervisor sees them
ProbeTask == [t \in Probes |-> IF probe[t] \in {"unused", "ended"} THEN probe[t]
                               ELSE "running"]
ProbeKey == [t \in Probes |-> IF target[t] = Null THEN Null ELSE key[target[t]]]
AwaitedProbes == IF reclaim = "stopping" THEN {reclaimed} \ {Null} ELSE {}

\* What inserts, detaches and reclaim do with keepalive tasks is what the task
\* supervisor allows: a task runs under the key of its pool until it is replaced
\* or stopped, is aborted then, and reclaim waits for exactly the one it stopped.
Supervisor == INSTANCE TaskSupervisor
    WITH ReplaceKeys <- Keys, OnceKeys <- {}, Tasks <- Probes,
         accepting <- TRUE, cancelled <- FALSE, shutdown <- "no", handles <- {},
         tasks <- keepalive, task <- ProbeTask, key <- ProbeKey,
         awaited <- AwaitedProbes
SupervisorSpec == Supervisor!Spec

\* Closing a pool never kills the runtime of a routed manual transaction:
\* when the close fails, close_pool_with_timeout means to leave the runtime
\* running "so sibling sessions (e.g. manual transactions) stay alive".
ClosingSparesManualTransactions ==
    [][\A p \in Pools : CloseFails(p) => ~ProtectsManualTxn(runtime[p])]_vars
=============================================================================
