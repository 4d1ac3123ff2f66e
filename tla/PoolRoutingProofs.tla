-------------------------- MODULE PoolRoutingProofs --------------------------
(***************************************************************************)
(* Proofs about PoolRouting, for every set of keys, pools, runtimes,       *)
(* keepalive tasks and queries.                                            *)
(***************************************************************************)
EXTENDS PoolRouting, TLAPS

(***************************************************************************)
(* The parts of the inductive invariant that are not properties of their   *)
(* own.                                                                    *)
(***************************************************************************)

\* A pool is routed only under the key it was opened for.
KeyOK == \A k \in Keys : connections[k] # Null => key[connections[k]] = k

\* A pool that is about to be published, or that reclaim is closing, is in
\* nobody else's hands.
HandsOK ==
    /\ \A p \in Pools : 
          /\ inserting[p] \in {"wait", "publish"} => place[p] = "opened"
          /\ inserting[p] # "no" => place[p] # "unused"
    /\ reclaim = "close" => place[reclaimed] = "reclaimed"

\* The pools in the table are those that are routed.
RoutedOK == \A p \in Pools : place[p] = "routed" <=> \E k \in Keys : connections[k] = p

\* A pool out of the table has somebody who publishes or closes it.
OwnersOK ==
    \A p \in Pools :
        /\ place[p] = "opened" => inserting[p] \in {"wait", "publish"}
        /\ place[p] = "reclaimed" => reclaim = "close" /\ reclaimed = p
        /\ inserting[p] = "failed" => place[p] \in {"queued", "closing", "closed"}
        /\ \A o \in Pools :
              previous[o] = p => place[p] \in {"queued", "closing", "closed"}

\* Whatever holds a pool, holds one that was opened.
OpenedOK ==
    /\ \A t \in Probes :
          probe[t] \in {"sleep", "ping", "detach"} => place[target[t]] # "unused"
    /\ \A q \in Queries : query[q] # "idle" => place[held[q]] # "unused"
    /\ reclaim = "spawn" => place[reclaimed] # "unused"

Inv ==
    /\ TypeOK
    /\ KeyOK
    /\ HandsOK
    /\ OpenedOK
    /\ RoutedOK
    /\ OwnersOK
    /\ NoRouteToKilledRuntime
    /\ ReclaimSparesUsedPools

-----------------------------------------------------------------------------
(* What the detaches do                                                    *)

\* Taking the keys ks out of the table touches the pools under them only.
LEMMA UnrouteFacts ==
    ASSUME TypeOK, RoutedOK, KeyOK, NEW ks \in SUBSET Keys,
           NEW s \in Places \ {"unused", "routed"}, Unroute(ks, s)
    PROVE  /\ connections' \in [Keys -> Pools \cup {Null}]
           /\ place' \in [Pools -> Places]
           /\ \A o \in Pools :
                 place'[o] = place[o] \/ (place[o] = "routed" /\ place'[o] = s)
           /\ RoutedOK'
<1> USE NullAssumption
<1>1. /\ connections' \in [Keys -> Pools \cup {Null}]
      /\ \A k \in Keys : connections'[k] = IF k \in ks THEN Null ELSE connections[k]
  BY DEF Unroute, TypeOK
<1>2. /\ place' \in [Pools -> Places]
      /\ \A o \in Pools : place'[o] = IF \E k \in ks : connections[k] = o THEN s
                                      ELSE place[o]
  BY DEF Unroute, TypeOK
<1>3. \A o \in Pools : place'[o] = place[o] \/ (place[o] = "routed" /\ place'[o] = s)
  BY <1>2 DEF RoutedOK
<1>4. RoutedOK'
  <2> SUFFICES ASSUME NEW o \in Pools
               PROVE  place'[o] = "routed" <=> \E k \in Keys : connections'[k] = o
    BY DEF RoutedOK
  <2>1. CASE \E k \in ks : connections[k] = o
    BY <1>1, <1>2, <2>1 DEF KeyOK
  <2>2. CASE ~\E k \in ks : connections[k] = o
    BY <1>1, <1>2, <2>2 DEF RoutedOK
  <2> QED
    BY <2>1, <2>2
<1> QED
  BY <1>1, <1>2, <1>3, <1>4

\* detach_pool_by_key unroutes some keys, and kills a runtime or none.
LEMMA DetachKeyFacts ==
    ASSUME TypeOK, RoutedOK, NEW k \in Keys, connections[k] # Null,
           NEW replace \in BOOLEAN, DetachKey(k, replace)
    PROVE  /\ \E ks \in SUBSET Keys : Unroute(ks, "detached")
           /\ killed' \subseteq Runtimes
<1>1. connections[k] \in Pools /\ runtime[connections[k]] \in Runtimes
  BY DEF TypeOK, RoutedOK
<1>2. RuntimeKeys(runtime[connections[k]]) \in SUBSET Keys
  BY DEF RuntimeKeys
<1> QED
  BY <1>1, <1>2 DEF DetachKey, TypeOK

\* So does detach_agent_pool_if_current.
LEMMA DetachIfCurrentFacts ==
    ASSUME TypeOK, NEW p \in Pools, place[p] # "unused", NEW s,
           NEW replace \in BOOLEAN, DetachIfCurrent(p, replace, s)
    PROVE  /\ \E ks \in SUBSET Keys : Unroute(ks, s)
           /\ killed' \subseteq Runtimes
<1>1. runtime[p] \in Runtimes /\ key[p] \in Keys
  BY DEF TypeOK
<1>2. /\ RuntimeKeys(runtime[p]) \in SUBSET Keys
      /\ {k \in {key[p]} : connections[k] = p} \in SUBSET Keys
  BY <1>1 DEF RuntimeKeys
<1> QED
  BY <1>1, <1>2 DEF DetachIfCurrent, TypeOK

-----------------------------------------------------------------------------
(* Preservation of the invariant                                           *)

\* The initial state satisfies the invariant.
LEMMA InitInv == Init => Inv
<1> SUFFICES ASSUME Init PROVE Inv
  OBVIOUS
<1>1. TypeOK
  BY MaxEventsAssumption DEF Init, TypeOK, Places
<1>2. KeyOK /\ HandsOK /\ OpenedOK
  BY DEF Init, KeyOK, HandsOK, OpenedOK
<1>3. RoutedOK /\ OwnersOK /\ NoRouteToKilledRuntime /\ ReclaimSparesUsedPools
  BY NullAssumption DEF Init, RoutedOK, OwnersOK, NoRouteToKilledRuntime,
      ReclaimSparesUsedPools
<1> QED
  BY <1>1, <1>2, <1>3 DEF Inv

\* Every step keeps the types.
LEMMA TypePreserved ==
    ASSUME Inv,
           [Next]_vars
    PROVE  TypeOK'
<1> USE MaxEventsAssumption, NullAssumption
<1>1. ASSUME NEW t \in Probes, ProbePings(t) PROVE TypeOK'
  BY <1>1 DEF ProbePings, PoolActive, insertVars, queryVars, reclaimVars,
      userVars, Inv, TypeOK, Places, HandsOK, OpenedOK, RoutedOK
<1>2. ASSUME NEW t \in Probes, ProbeSucceeds(t) PROVE TypeOK'
  BY <1>2 DEF ProbeSucceeds, insertVars, queryVars, reclaimVars, userVars,
      Inv, TypeOK, Places, HandsOK, OpenedOK, RoutedOK
<1>3. ASSUME NEW t \in Probes, NEW replace \in BOOLEAN, ProbeFails(t, replace)
    PROVE TypeOK'
  BY <1>3 DEF ProbeFails, Event, insertVars, queryVars, reclaimVars, Inv,
      TypeOK, Places, HandsOK, OpenedOK, RoutedOK
<1>4. ASSUME NEW t \in Probes, ProbeDetaches(t) PROVE TypeOK'
  <2>1. /\ \E ks \in SUBSET Keys : Unroute(ks, "probed")
        /\ killed' \subseteq Runtimes
    BY <1>4, DetachIfCurrentFacts DEF ProbeDetaches, Inv, TypeOK, OpenedOK
  <2>2. /\ connections' \in [Keys -> Pools \cup {Null}]
        /\ place' \in [Pools -> Places]
        /\ \A o \in Pools :
              place'[o] = place[o] \/ (place[o] = "routed" /\ place'[o] = "probed")
        /\ RoutedOK'
    BY <2>1, UnrouteFacts DEF Inv, Places
  <2>3. key' \in [Pools -> Keys \cup {Null}] /\ runtime' \in [Pools -> Runtimes \cup {Null}]
    BY <1>4 DEF ProbeDetaches, EndProbe, insertVars, queryVars, reclaimVars,
        userVars, Inv, TypeOK
  <2>4. exited' \subseteq Runtimes /\ aborted' \subseteq Probes /\ removing' \subseteq Keys
    BY <1>4 DEF ProbeDetaches, EndProbe, insertVars, queryVars, reclaimVars,
        userVars, Inv, TypeOK
  <2>5. inserting' \in [Pools -> {"no", "wait", "publish", "recheck", "undo", "failed"}]
    BY <1>4 DEF ProbeDetaches, EndProbe, insertVars, queryVars, reclaimVars,
        userVars, Inv, TypeOK
  <2>6. previous' \in [Pools -> Pools \cup {Null}] /\ protects' \in [Pools -> BOOLEAN]
    BY <1>4 DEF ProbeDetaches, EndProbe, insertVars, queryVars, reclaimVars,
        userVars, Inv, TypeOK
  <2>7. keepalive' \in [Keys -> Probes \cup {Null}]
    BY <1>4 DEF ProbeDetaches, EndProbe, insertVars, queryVars, reclaimVars,
        userVars, Inv, TypeOK
  <2>8. probe' \in [Probes -> {"unused", "sleep", "ping", "detach", "ended"}]
    BY <1>4 DEF ProbeDetaches, EndProbe, insertVars, queryVars, reclaimVars,
        userVars, Inv, TypeOK
  <2>9. target' \in [Probes -> Pools \cup {Null}] /\ replaces' \in [Probes -> BOOLEAN]
    BY <1>4, <2>2 DEF ProbeDetaches, EndProbe, insertVars, queryVars,
        reclaimVars, userVars, Inv, TypeOK
  <2>10. query' \in [Queries -> {"idle", "holds", "active", "cancelled"}]
    BY <1>4 DEF ProbeDetaches, EndProbe, insertVars, queryVars, reclaimVars,
        userVars, Inv, TypeOK
  <2>11. held' \in [Queries -> Pools \cup {Null}]
    BY <1>4 DEF ProbeDetaches, EndProbe, insertVars, queryVars, reclaimVars,
        userVars, Inv, TypeOK
  <2>12. reclaim' \in {"idle", "stopping", "take", "restart", "spawn", "close", "restoring"}
    BY <1>4 DEF ProbeDetaches, EndProbe, insertVars, queryVars, reclaimVars,
        userVars, Inv, TypeOK
  <2>13. reclaim_key' \in Keys \cup {Null} /\ reclaimed' \in Pools \cup Probes \cup {Null}
    BY <1>4 DEF ProbeDetaches, EndProbe, insertVars, queryVars, reclaimVars,
        userVars, Inv, TypeOK
  <2>14. events' \in 0..MaxEvents
    BY <1>4 DEF ProbeDetaches, EndProbe, insertVars, queryVars, reclaimVars,
        userVars, Inv, TypeOK
  <2>15. \A o \in Pools : place'[o] # "unused" => key'[o] \in Keys /\ runtime'[o] \in Runtimes
    BY <1>4, <2>2 DEF ProbeDetaches, EndProbe, insertVars, queryVars,
        reclaimVars, userVars, Inv, TypeOK
  <2>16. \A u \in Probes : probe'[u] \in {"sleep", "ping", "detach"} => target'[u] \in Pools
    BY <1>4 DEF ProbeDetaches, EndProbe, insertVars, queryVars, reclaimVars,
        userVars, Inv, TypeOK
  <2>17. \A u \in Queries : query'[u] # "idle" => held'[u] \in Pools
    BY <1>4 DEF ProbeDetaches, EndProbe, insertVars, queryVars, reclaimVars,
        userVars, Inv, TypeOK
  <2>18. reclaim' # "idle" => reclaim_key' \in Keys
    BY <1>4 DEF ProbeDetaches, EndProbe, insertVars, queryVars, reclaimVars,
        userVars, Inv, TypeOK
  <2>19. reclaim' \in {"spawn", "close", "restoring"} => reclaimed' \in Pools
    BY <1>4 DEF ProbeDetaches, EndProbe, insertVars, queryVars, reclaimVars,
        userVars, Inv, TypeOK
  <2> QED
    BY <2>1, <2>2, <2>3, <2>4, <2>5, <2>6, <2>7, <2>8, <2>9, <2>10, <2>11,
        <2>12, <2>13, <2>14, <2>15, <2>16, <2>17, <2>18, <2>19, Zenon DEF
        TypeOK
<1>5. ASSUME NEW t \in Probes, ProbeEnds(t) PROVE TypeOK'
  BY <1>5 DEF ProbeEnds, EndProbe, insertVars, queryVars, reclaimVars,
      userVars, Inv, TypeOK, Places, HandsOK, OpenedOK, RoutedOK
<1>6. ASSUME NEW p \in Pools, FinishDetach(p) PROVE TypeOK'
  BY <1>6 DEF FinishDetach, StopKeepalive, insertVars, queryVars, reclaimVars,
      userVars, Abort, Inv, TypeOK, Places, HandsOK, OpenedOK, RoutedOK
<1>7. ASSUME NEW p \in Pools, CloseReads(p) PROVE TypeOK'
  BY <1>7 DEF CloseReads, ProtectsManualTxn, insertVars, probeVars, queryVars,
      reclaimVars, userVars, RuntimeKeys, Inv, TypeOK, Places, HandsOK,
      OpenedOK, RoutedOK
<1>8. ASSUME NEW p \in Pools, CloseEnds(p) PROVE TypeOK'
  BY <1>8 DEF CloseEnds, insertVars, probeVars, queryVars, reclaimVars,
      userVars, Inv, TypeOK, Places, HandsOK, OpenedOK, RoutedOK
<1>9. ASSUME NEW p \in Pools, CloseFails(p) PROVE TypeOK'
  <2>1. connections' \in [Keys -> Pools \cup {Null}] /\ place' \in [Pools -> Places]
    BY <1>9 DEF CloseFails, ReplaceRuntime, Event, insertVars, probeVars,
        queryVars, reclaimVars, RuntimeKeys, Inv, TypeOK, Places
  <2>2. key' \in [Pools -> Keys \cup {Null}] /\ runtime' \in [Pools -> Runtimes \cup {Null}]
    BY <1>9 DEF CloseFails, ReplaceRuntime, Event, insertVars, probeVars,
        queryVars, reclaimVars, RuntimeKeys, Inv, TypeOK
  <2>3. /\ killed' \subseteq Runtimes /\ exited' \subseteq Runtimes
        /\ aborted' \subseteq Probes /\ removing' \subseteq Keys
    BY <1>9 DEF CloseFails, ReplaceRuntime, Event, insertVars, probeVars,
        queryVars, reclaimVars, RuntimeKeys, Inv, TypeOK, HandsOK, RoutedOK
  <2>4. inserting' \in [Pools -> {"no", "wait", "publish", "recheck", "undo", "failed"}]
    BY <1>9 DEF CloseFails, ReplaceRuntime, Event, insertVars, probeVars,
        queryVars, reclaimVars, RuntimeKeys, Inv, TypeOK
  <2>5. previous' \in [Pools -> Pools \cup {Null}] /\ protects' \in [Pools -> BOOLEAN]
    BY <1>9 DEF CloseFails, ReplaceRuntime, Event, insertVars, probeVars,
        queryVars, reclaimVars, RuntimeKeys, Inv, TypeOK, HandsOK
  <2>6. keepalive' \in [Keys -> Probes \cup {Null}]
    BY <1>9 DEF CloseFails, ReplaceRuntime, Event, insertVars, probeVars,
        queryVars, reclaimVars, RuntimeKeys, Inv, TypeOK
  <2>7. probe' \in [Probes -> {"unused", "sleep", "ping", "detach", "ended"}]
    BY <1>9 DEF CloseFails, ReplaceRuntime, Event, insertVars, probeVars,
        queryVars, reclaimVars, RuntimeKeys, Inv, TypeOK
  <2>8. target' \in [Probes -> Pools \cup {Null}] /\ replaces' \in [Probes -> BOOLEAN]
    BY <1>9 DEF CloseFails, ReplaceRuntime, Event, insertVars, probeVars,
        queryVars, reclaimVars, RuntimeKeys, Inv, TypeOK
  <2>9. query' \in [Queries -> {"idle", "holds", "active", "cancelled"}]
    BY <1>9 DEF CloseFails, ReplaceRuntime, Event, insertVars, probeVars,
        queryVars, reclaimVars, RuntimeKeys, Inv, TypeOK
  <2>10. held' \in [Queries -> Pools \cup {Null}]
    BY <1>9 DEF CloseFails, ReplaceRuntime, Event, insertVars, probeVars,
        queryVars, reclaimVars, RuntimeKeys, Inv, TypeOK
  <2>11. reclaim' \in {"idle", "stopping", "take", "restart", "spawn", "close", "restoring"}
    BY <1>9 DEF CloseFails, ReplaceRuntime, Event, insertVars, probeVars,
        queryVars, reclaimVars, RuntimeKeys, Inv, TypeOK
  <2>12. reclaim_key' \in Keys \cup {Null} /\ reclaimed' \in Pools \cup Probes \cup {Null}
    BY <1>9 DEF CloseFails, ReplaceRuntime, Event, insertVars, probeVars,
        queryVars, reclaimVars, RuntimeKeys, Inv, TypeOK
  <2>13. events' \in 0..MaxEvents
    BY <1>9 DEF CloseFails, ReplaceRuntime, Event, insertVars, probeVars,
        queryVars, reclaimVars, RuntimeKeys, Inv, TypeOK
  <2>14. \A o \in Pools : place'[o] # "unused" => key'[o] \in Keys /\ runtime'[o] \in Runtimes
    BY <1>9 DEF CloseFails, ReplaceRuntime, Event, insertVars, probeVars,
        queryVars, reclaimVars, RuntimeKeys, Inv, TypeOK, HandsOK, OpenedOK,
        RoutedOK
  <2>15. \A u \in Probes : probe'[u] \in {"sleep", "ping", "detach"} => target'[u] \in Pools
    BY <1>9 DEF CloseFails, ReplaceRuntime, Event, insertVars, probeVars,
        queryVars, reclaimVars, RuntimeKeys, Inv, TypeOK
  <2>16. \A u \in Queries : query'[u] # "idle" => held'[u] \in Pools
    BY <1>9 DEF CloseFails, ReplaceRuntime, Event, insertVars, probeVars,
        queryVars, reclaimVars, RuntimeKeys, Inv, TypeOK
  <2>17. reclaim' # "idle" => reclaim_key' \in Keys
    BY <1>9 DEF CloseFails, ReplaceRuntime, Event, insertVars, probeVars,
        queryVars, reclaimVars, RuntimeKeys, Inv, TypeOK
  <2>18. reclaim' \in {"spawn", "close", "restoring"} => reclaimed' \in Pools
    BY <1>9 DEF CloseFails, ReplaceRuntime, Event, insertVars, probeVars,
        queryVars, reclaimVars, RuntimeKeys, Inv, TypeOK
  <2> QED
    BY <2>1, <2>2, <2>3, <2>4, <2>5, <2>6, <2>7, <2>8, <2>9, <2>10, <2>11,
        <2>12, <2>13, <2>14, <2>15, <2>16, <2>17, <2>18, Zenon DEF TypeOK
<1>10. ASSUME NEW p \in Pools, NEW k \in Keys, NEW r \in Runtimes, Open(p, k,
    r) PROVE TypeOK'
  BY <1>10 DEF Open, probeVars, queryVars, reclaimVars, userVars, Inv, TypeOK,
      Places, HandsOK, OpenedOK, RoutedOK
<1>11. ASSUME NEW p \in Pools, InsertWaits(p) PROVE TypeOK'
  BY <1>11 DEF InsertWaits, probeVars, queryVars, reclaimVars, userVars, Inv,
      TypeOK, Places, HandsOK, OpenedOK, RoutedOK
<1>12. ASSUME NEW p \in Pools, Publish(p) PROVE TypeOK'
  <2>1. connections' \in [Keys -> Pools \cup {Null}] /\ place' \in [Pools -> Places]
    BY <1>12 DEF Publish, StopKeepalive, StartKeepalive, Available, queryVars,
        reclaimVars, userVars, Abort, Inv, TypeOK, Places
  <2>2. key' \in [Pools -> Keys \cup {Null}] /\ runtime' \in [Pools -> Runtimes \cup {Null}]
    BY <1>12 DEF Publish, StopKeepalive, StartKeepalive, Available, queryVars,
        reclaimVars, userVars, Abort, Inv, TypeOK
  <2>3. /\ killed' \subseteq Runtimes /\ exited' \subseteq Runtimes
        /\ aborted' \subseteq Probes /\ removing' \subseteq Keys
    BY <1>12 DEF Publish, StopKeepalive, StartKeepalive, Available, queryVars,
        reclaimVars, userVars, Abort, Inv, TypeOK, HandsOK, RoutedOK
  <2>4. inserting' \in [Pools -> {"no", "wait", "publish", "recheck", "undo", "failed"}]
    BY <1>12 DEF Publish, StopKeepalive, StartKeepalive, Available, queryVars,
        reclaimVars, userVars, Abort, Inv, TypeOK
  <2>5. previous' \in [Pools -> Pools \cup {Null}] /\ protects' \in [Pools -> BOOLEAN]
    BY <1>12 DEF Publish, StopKeepalive, StartKeepalive, Available, queryVars,
        reclaimVars, userVars, Abort, Inv, TypeOK, HandsOK
  <2>6. keepalive' \in [Keys -> Probes \cup {Null}]
    BY <1>12 DEF Publish, StopKeepalive, StartKeepalive, Available, queryVars,
        reclaimVars, userVars, Abort, Inv, TypeOK
  <2>7. probe' \in [Probes -> {"unused", "sleep", "ping", "detach", "ended"}]
    BY <1>12 DEF Publish, StopKeepalive, StartKeepalive, Available, queryVars,
        reclaimVars, userVars, Abort, Inv, TypeOK
  <2>8. target' \in [Probes -> Pools \cup {Null}] /\ replaces' \in [Probes -> BOOLEAN]
    BY <1>12 DEF Publish, StopKeepalive, StartKeepalive, Available, queryVars,
        reclaimVars, userVars, Abort, Inv, TypeOK
  <2>9. query' \in [Queries -> {"idle", "holds", "active", "cancelled"}]
    BY <1>12 DEF Publish, StopKeepalive, StartKeepalive, Available, queryVars,
        reclaimVars, userVars, Abort, Inv, TypeOK
  <2>10. held' \in [Queries -> Pools \cup {Null}]
    BY <1>12 DEF Publish, StopKeepalive, StartKeepalive, Available, queryVars,
        reclaimVars, userVars, Abort, Inv, TypeOK
  <2>11. reclaim' \in {"idle", "stopping", "take", "restart", "spawn", "close", "restoring"}
    BY <1>12 DEF Publish, StopKeepalive, StartKeepalive, Available, queryVars,
        reclaimVars, userVars, Abort, Inv, TypeOK
  <2>12. reclaim_key' \in Keys \cup {Null} /\ reclaimed' \in Pools \cup Probes \cup {Null}
    BY <1>12 DEF Publish, StopKeepalive, StartKeepalive, Available, queryVars,
        reclaimVars, userVars, Abort, Inv, TypeOK
  <2>13. events' \in 0..MaxEvents
    BY <1>12 DEF Publish, StopKeepalive, StartKeepalive, Available, queryVars,
        reclaimVars, userVars, Abort, Inv, TypeOK
  <2>14. \A o \in Pools : place'[o] # "unused" => key'[o] \in Keys /\ runtime'[o] \in Runtimes
    BY <1>12 DEF Publish, StopKeepalive, StartKeepalive, Available, queryVars,
        reclaimVars, userVars, Abort, Inv, TypeOK, HandsOK, OpenedOK, RoutedOK
  <2>15. \A u \in Probes : probe'[u] \in {"sleep", "ping", "detach"} => target'[u] \in Pools
    BY <1>12 DEF Publish, StopKeepalive, StartKeepalive, Available, queryVars,
        reclaimVars, userVars, Abort, Inv, TypeOK
  <2>16. \A u \in Queries : query'[u] # "idle" => held'[u] \in Pools
    BY <1>12 DEF Publish, StopKeepalive, StartKeepalive, Available, queryVars,
        reclaimVars, userVars, Abort, Inv, TypeOK
  <2>17. reclaim' # "idle" => reclaim_key' \in Keys
    BY <1>12 DEF Publish, StopKeepalive, StartKeepalive, Available, queryVars,
        reclaimVars, userVars, Abort, Inv, TypeOK
  <2>18. reclaim' \in {"spawn", "close", "restoring"} => reclaimed' \in Pools
    BY <1>12 DEF Publish, StopKeepalive, StartKeepalive, Available, queryVars,
        reclaimVars, userVars, Abort, Inv, TypeOK
  <2> QED
    BY <2>1, <2>2, <2>3, <2>4, <2>5, <2>6, <2>7, <2>8, <2>9, <2>10, <2>11,
        <2>12, <2>13, <2>14, <2>15, <2>16, <2>17, <2>18, Zenon DEF TypeOK
<1>13. ASSUME NEW p \in Pools, PublishFails(p) PROVE TypeOK'
  <2>1. connections' \in [Keys -> Pools \cup {Null}] /\ place' \in [Pools -> Places]
    BY <1>13 DEF PublishFails, ReplaceRuntime, Available, probeVars,
        queryVars, reclaimVars, userVars, RuntimeKeys, Inv, TypeOK, Places
  <2>2. key' \in [Pools -> Keys \cup {Null}] /\ runtime' \in [Pools -> Runtimes \cup {Null}]
    BY <1>13 DEF PublishFails, ReplaceRuntime, Available, probeVars,
        queryVars, reclaimVars, userVars, RuntimeKeys, Inv, TypeOK
  <2>3. /\ killed' \subseteq Runtimes /\ exited' \subseteq Runtimes
        /\ aborted' \subseteq Probes /\ removing' \subseteq Keys
    BY <1>13 DEF PublishFails, ReplaceRuntime, Available, probeVars,
        queryVars, reclaimVars, userVars, RuntimeKeys, Inv, TypeOK, HandsOK,
        RoutedOK
  <2>4. inserting' \in [Pools -> {"no", "wait", "publish", "recheck", "undo", "failed"}]
    BY <1>13 DEF PublishFails, ReplaceRuntime, Available, probeVars,
        queryVars, reclaimVars, userVars, RuntimeKeys, Inv, TypeOK
  <2>5. previous' \in [Pools -> Pools \cup {Null}] /\ protects' \in [Pools -> BOOLEAN]
    BY <1>13 DEF PublishFails, ReplaceRuntime, Available, probeVars,
        queryVars, reclaimVars, userVars, RuntimeKeys, Inv, TypeOK, HandsOK
  <2>6. keepalive' \in [Keys -> Probes \cup {Null}]
    BY <1>13 DEF PublishFails, ReplaceRuntime, Available, probeVars,
        queryVars, reclaimVars, userVars, RuntimeKeys, Inv, TypeOK
  <2>7. probe' \in [Probes -> {"unused", "sleep", "ping", "detach", "ended"}]
    BY <1>13 DEF PublishFails, ReplaceRuntime, Available, probeVars,
        queryVars, reclaimVars, userVars, RuntimeKeys, Inv, TypeOK
  <2>8. target' \in [Probes -> Pools \cup {Null}] /\ replaces' \in [Probes -> BOOLEAN]
    BY <1>13 DEF PublishFails, ReplaceRuntime, Available, probeVars,
        queryVars, reclaimVars, userVars, RuntimeKeys, Inv, TypeOK
  <2>9. query' \in [Queries -> {"idle", "holds", "active", "cancelled"}]
    BY <1>13 DEF PublishFails, ReplaceRuntime, Available, probeVars,
        queryVars, reclaimVars, userVars, RuntimeKeys, Inv, TypeOK
  <2>10. held' \in [Queries -> Pools \cup {Null}]
    BY <1>13 DEF PublishFails, ReplaceRuntime, Available, probeVars,
        queryVars, reclaimVars, userVars, RuntimeKeys, Inv, TypeOK
  <2>11. reclaim' \in {"idle", "stopping", "take", "restart", "spawn", "close", "restoring"}
    BY <1>13 DEF PublishFails, ReplaceRuntime, Available, probeVars,
        queryVars, reclaimVars, userVars, RuntimeKeys, Inv, TypeOK
  <2>12. reclaim_key' \in Keys \cup {Null} /\ reclaimed' \in Pools \cup Probes \cup {Null}
    BY <1>13 DEF PublishFails, ReplaceRuntime, Available, probeVars,
        queryVars, reclaimVars, userVars, RuntimeKeys, Inv, TypeOK
  <2>13. events' \in 0..MaxEvents
    BY <1>13 DEF PublishFails, ReplaceRuntime, Available, probeVars,
        queryVars, reclaimVars, userVars, RuntimeKeys, Inv, TypeOK
  <2>14. \A o \in Pools : place'[o] # "unused" => key'[o] \in Keys /\ runtime'[o] \in Runtimes
    BY <1>13 DEF PublishFails, ReplaceRuntime, Available, probeVars,
        queryVars, reclaimVars, userVars, RuntimeKeys, Inv, TypeOK, HandsOK,
        OpenedOK, RoutedOK
  <2>15. \A u \in Probes : probe'[u] \in {"sleep", "ping", "detach"} => target'[u] \in Pools
    BY <1>13 DEF PublishFails, ReplaceRuntime, Available, probeVars,
        queryVars, reclaimVars, userVars, RuntimeKeys, Inv, TypeOK
  <2>16. \A u \in Queries : query'[u] # "idle" => held'[u] \in Pools
    BY <1>13 DEF PublishFails, ReplaceRuntime, Available, probeVars,
        queryVars, reclaimVars, userVars, RuntimeKeys, Inv, TypeOK
  <2>17. reclaim' # "idle" => reclaim_key' \in Keys
    BY <1>13 DEF PublishFails, ReplaceRuntime, Available, probeVars,
        queryVars, reclaimVars, userVars, RuntimeKeys, Inv, TypeOK
  <2>18. reclaim' \in {"spawn", "close", "restoring"} => reclaimed' \in Pools
    BY <1>13 DEF PublishFails, ReplaceRuntime, Available, probeVars,
        queryVars, reclaimVars, userVars, RuntimeKeys, Inv, TypeOK
  <2> QED
    BY <2>1, <2>2, <2>3, <2>4, <2>5, <2>6, <2>7, <2>8, <2>9, <2>10, <2>11,
        <2>12, <2>13, <2>14, <2>15, <2>16, <2>17, <2>18, Zenon DEF TypeOK
<1>14. ASSUME NEW p \in Pools, InsertFailed(p) PROVE TypeOK'
  BY <1>14 DEF InsertFailed, probeVars, queryVars, reclaimVars, userVars, Inv,
      TypeOK, Places, HandsOK, OpenedOK, RoutedOK
<1>15. ASSUME NEW p \in Pools, InsertRechecks(p) PROVE TypeOK'
  BY <1>15 DEF InsertRechecks, Available, probeVars, queryVars, reclaimVars,
      userVars, Inv, TypeOK, Places, HandsOK, OpenedOK, RoutedOK
<1>16. ASSUME NEW p \in Pools, InsertUndoes(p) PROVE TypeOK'
  <2>1. /\ \E ks \in SUBSET Keys : Unroute(ks, "detached")
        /\ killed' \subseteq Runtimes
    <3>1. CASE connections[key[p]] = Null
      <4>1. Unroute({}, "detached") /\ killed' = killed
        BY <1>16, <3>1 DEF InsertUndoes, Unroute, Inv, TypeOK
      <4> QED
        BY <4>1 DEF Inv, TypeOK
    <3>2. CASE connections[key[p]] # Null
      <4>1. key[p] \in Keys
        BY <1>16 DEF InsertUndoes, Inv, HandsOK, TypeOK
      <4> QED
        BY <1>16, <3>2, <4>1, DetachKeyFacts DEF InsertUndoes, Inv
    <3> QED
      BY <3>1, <3>2
  <2>2. /\ connections' \in [Keys -> Pools \cup {Null}]
        /\ place' \in [Pools -> Places]
        /\ \A o \in Pools :
              place'[o] = place[o] \/ (place[o] = "routed" /\ place'[o] = "detached")
        /\ RoutedOK'
    BY <2>1, UnrouteFacts DEF Inv, Places
  <2>3. key' \in [Pools -> Keys \cup {Null}] /\ runtime' \in [Pools -> Runtimes \cup {Null}]
    BY <1>16 DEF InsertUndoes, probeVars, queryVars, reclaimVars, userVars,
        Inv, TypeOK
  <2>4. exited' \subseteq Runtimes /\ aborted' \subseteq Probes /\ removing' \subseteq Keys
    BY <1>16 DEF InsertUndoes, probeVars, queryVars, reclaimVars, userVars,
        Inv, TypeOK
  <2>5. inserting' \in [Pools -> {"no", "wait", "publish", "recheck", "undo", "failed"}]
    BY <1>16 DEF InsertUndoes, probeVars, queryVars, reclaimVars, userVars,
        Inv, TypeOK
  <2>6. previous' \in [Pools -> Pools \cup {Null}] /\ protects' \in [Pools -> BOOLEAN]
    BY <1>16 DEF InsertUndoes, probeVars, queryVars, reclaimVars, userVars,
        Inv, TypeOK
  <2>7. keepalive' \in [Keys -> Probes \cup {Null}]
    BY <1>16 DEF InsertUndoes, probeVars, queryVars, reclaimVars, userVars,
        Inv, TypeOK
  <2>8. probe' \in [Probes -> {"unused", "sleep", "ping", "detach", "ended"}]
    BY <1>16 DEF InsertUndoes, probeVars, queryVars, reclaimVars, userVars,
        Inv, TypeOK
  <2>9. target' \in [Probes -> Pools \cup {Null}] /\ replaces' \in [Probes -> BOOLEAN]
    BY <1>16, <2>2 DEF InsertUndoes, probeVars, queryVars, reclaimVars,
        userVars, Inv, TypeOK
  <2>10. query' \in [Queries -> {"idle", "holds", "active", "cancelled"}]
    BY <1>16 DEF InsertUndoes, probeVars, queryVars, reclaimVars, userVars,
        Inv, TypeOK
  <2>11. held' \in [Queries -> Pools \cup {Null}]
    BY <1>16 DEF InsertUndoes, probeVars, queryVars, reclaimVars, userVars,
        Inv, TypeOK
  <2>12. reclaim' \in {"idle", "stopping", "take", "restart", "spawn", "close", "restoring"}
    BY <1>16 DEF InsertUndoes, probeVars, queryVars, reclaimVars, userVars,
        Inv, TypeOK
  <2>13. reclaim_key' \in Keys \cup {Null} /\ reclaimed' \in Pools \cup Probes \cup {Null}
    BY <1>16 DEF InsertUndoes, probeVars, queryVars, reclaimVars, userVars,
        Inv, TypeOK
  <2>14. events' \in 0..MaxEvents
    BY <1>16 DEF InsertUndoes, probeVars, queryVars, reclaimVars, userVars,
        Inv, TypeOK
  <2>15. \A o \in Pools : place'[o] # "unused" => key'[o] \in Keys /\ runtime'[o] \in Runtimes
    BY <1>16, <2>2 DEF InsertUndoes, probeVars, queryVars, reclaimVars,
        userVars, Inv, TypeOK
  <2>16. \A u \in Probes : probe'[u] \in {"sleep", "ping", "detach"} => target'[u] \in Pools
    BY <1>16 DEF InsertUndoes, probeVars, queryVars, reclaimVars, userVars,
        Inv, TypeOK
  <2>17. \A u \in Queries : query'[u] # "idle" => held'[u] \in Pools
    BY <1>16 DEF InsertUndoes, probeVars, queryVars, reclaimVars, userVars,
        Inv, TypeOK
  <2>18. reclaim' # "idle" => reclaim_key' \in Keys
    BY <1>16 DEF InsertUndoes, probeVars, queryVars, reclaimVars, userVars,
        Inv, TypeOK
  <2>19. reclaim' \in {"spawn", "close", "restoring"} => reclaimed' \in Pools
    BY <1>16 DEF InsertUndoes, probeVars, queryVars, reclaimVars, userVars,
        Inv, TypeOK
  <2> QED
    BY <2>1, <2>2, <2>3, <2>4, <2>5, <2>6, <2>7, <2>8, <2>9, <2>10, <2>11,
        <2>12, <2>13, <2>14, <2>15, <2>16, <2>17, <2>18, <2>19, Zenon DEF
        TypeOK
<1>17. ASSUME NEW q \in Queries, NEW k \in Keys, QueryClones(q, k) PROVE
    TypeOK'
  BY <1>17 DEF QueryClones, insertVars, probeVars, reclaimVars, userVars, Inv,
      TypeOK, Places, HandsOK, OpenedOK, RoutedOK
<1>18. ASSUME NEW q \in Queries, QueryRegisters(q) PROVE TypeOK'
  BY <1>18 DEF QueryRegisters, insertVars, probeVars, reclaimVars, userVars,
      Inv, TypeOK, Places, HandsOK, OpenedOK, RoutedOK
<1>19. ASSUME NEW q \in Queries, QueryCancelled(q) PROVE TypeOK'
  BY <1>19 DEF QueryCancelled, insertVars, probeVars, reclaimVars, userVars,
      Inv, TypeOK, Places, HandsOK, OpenedOK, RoutedOK
<1>20. ASSUME NEW q \in Queries, QueryEnds(q) PROVE TypeOK'
  BY <1>20 DEF QueryEnds, insertVars, probeVars, reclaimVars, userVars, Inv,
      TypeOK, Places, HandsOK, OpenedOK, RoutedOK
<1>21. ASSUME NEW q \in Queries, NEW replace \in BOOLEAN, QueryDetaches(q,
    replace) PROVE TypeOK'
  <2>1. /\ \E ks \in SUBSET Keys : Unroute(ks, "detached")
        /\ killed' \subseteq Runtimes
    BY <1>21, DetachIfCurrentFacts DEF QueryDetaches, Inv, TypeOK, OpenedOK
  <2>2. /\ connections' \in [Keys -> Pools \cup {Null}]
        /\ place' \in [Pools -> Places]
        /\ \A o \in Pools :
              place'[o] = place[o] \/ (place[o] = "routed" /\ place'[o] = "detached")
        /\ RoutedOK'
    BY <2>1, UnrouteFacts DEF Inv, Places
  <2>3. key' \in [Pools -> Keys \cup {Null}] /\ runtime' \in [Pools -> Runtimes \cup {Null}]
    BY <1>21 DEF QueryDetaches, Event, insertVars, probeVars, reclaimVars,
        Inv, TypeOK
  <2>4. exited' \subseteq Runtimes /\ aborted' \subseteq Probes /\ removing' \subseteq Keys
    BY <1>21 DEF QueryDetaches, Event, insertVars, probeVars, reclaimVars,
        Inv, TypeOK
  <2>5. inserting' \in [Pools -> {"no", "wait", "publish", "recheck", "undo", "failed"}]
    BY <1>21 DEF QueryDetaches, Event, insertVars, probeVars, reclaimVars,
        Inv, TypeOK
  <2>6. previous' \in [Pools -> Pools \cup {Null}] /\ protects' \in [Pools -> BOOLEAN]
    BY <1>21 DEF QueryDetaches, Event, insertVars, probeVars, reclaimVars,
        Inv, TypeOK
  <2>7. keepalive' \in [Keys -> Probes \cup {Null}]
    BY <1>21 DEF QueryDetaches, Event, insertVars, probeVars, reclaimVars,
        Inv, TypeOK
  <2>8. probe' \in [Probes -> {"unused", "sleep", "ping", "detach", "ended"}]
    BY <1>21 DEF QueryDetaches, Event, insertVars, probeVars, reclaimVars,
        Inv, TypeOK
  <2>9. target' \in [Probes -> Pools \cup {Null}] /\ replaces' \in [Probes -> BOOLEAN]
    BY <1>21, <2>2 DEF QueryDetaches, Event, insertVars, probeVars,
        reclaimVars, Inv, TypeOK
  <2>10. query' \in [Queries -> {"idle", "holds", "active", "cancelled"}]
    BY <1>21 DEF QueryDetaches, Event, insertVars, probeVars, reclaimVars,
        Inv, TypeOK
  <2>11. held' \in [Queries -> Pools \cup {Null}]
    BY <1>21 DEF QueryDetaches, Event, insertVars, probeVars, reclaimVars,
        Inv, TypeOK
  <2>12. reclaim' \in {"idle", "stopping", "take", "restart", "spawn", "close", "restoring"}
    BY <1>21 DEF QueryDetaches, Event, insertVars, probeVars, reclaimVars,
        Inv, TypeOK
  <2>13. reclaim_key' \in Keys \cup {Null} /\ reclaimed' \in Pools \cup Probes \cup {Null}
    BY <1>21 DEF QueryDetaches, Event, insertVars, probeVars, reclaimVars,
        Inv, TypeOK
  <2>14. events' \in 0..MaxEvents
    BY <1>21 DEF QueryDetaches, Event, insertVars, probeVars, reclaimVars,
        Inv, TypeOK
  <2>15. \A o \in Pools : place'[o] # "unused" => key'[o] \in Keys /\ runtime'[o] \in Runtimes
    BY <1>21, <2>2 DEF QueryDetaches, Event, insertVars, probeVars,
        reclaimVars, Inv, TypeOK
  <2>16. \A u \in Probes : probe'[u] \in {"sleep", "ping", "detach"} => target'[u] \in Pools
    BY <1>21 DEF QueryDetaches, Event, insertVars, probeVars, reclaimVars,
        Inv, TypeOK
  <2>17. \A u \in Queries : query'[u] # "idle" => held'[u] \in Pools
    BY <1>21 DEF QueryDetaches, Event, insertVars, probeVars, reclaimVars,
        Inv, TypeOK
  <2>18. reclaim' # "idle" => reclaim_key' \in Keys
    BY <1>21 DEF QueryDetaches, Event, insertVars, probeVars, reclaimVars,
        Inv, TypeOK
  <2>19. reclaim' \in {"spawn", "close", "restoring"} => reclaimed' \in Pools
    BY <1>21 DEF QueryDetaches, Event, insertVars, probeVars, reclaimVars,
        Inv, TypeOK
  <2> QED
    BY <2>1, <2>2, <2>3, <2>4, <2>5, <2>6, <2>7, <2>8, <2>9, <2>10, <2>11,
        <2>12, <2>13, <2>14, <2>15, <2>16, <2>17, <2>18, <2>19, Zenon DEF
        TypeOK
<1>22. ASSUME NEW k \in Keys, NEW replace \in BOOLEAN, UserDetaches(k,
    replace) PROVE TypeOK'
  <2>1. /\ \E ks \in SUBSET Keys : Unroute(ks, "detached")
        /\ killed' \subseteq Runtimes
    BY <1>22, DetachKeyFacts DEF UserDetaches, Inv, TypeOK, OpenedOK
  <2>2. /\ connections' \in [Keys -> Pools \cup {Null}]
        /\ place' \in [Pools -> Places]
        /\ \A o \in Pools :
              place'[o] = place[o] \/ (place[o] = "routed" /\ place'[o] = "detached")
        /\ RoutedOK'
    BY <2>1, UnrouteFacts DEF Inv, Places
  <2>3. key' \in [Pools -> Keys \cup {Null}] /\ runtime' \in [Pools -> Runtimes \cup {Null}]
    BY <1>22 DEF UserDetaches, Event, insertVars, probeVars, queryVars,
        reclaimVars, Inv, TypeOK
  <2>4. exited' \subseteq Runtimes /\ aborted' \subseteq Probes /\ removing' \subseteq Keys
    BY <1>22 DEF UserDetaches, Event, insertVars, probeVars, queryVars,
        reclaimVars, Inv, TypeOK
  <2>5. inserting' \in [Pools -> {"no", "wait", "publish", "recheck", "undo", "failed"}]
    BY <1>22 DEF UserDetaches, Event, insertVars, probeVars, queryVars,
        reclaimVars, Inv, TypeOK
  <2>6. previous' \in [Pools -> Pools \cup {Null}] /\ protects' \in [Pools -> BOOLEAN]
    BY <1>22 DEF UserDetaches, Event, insertVars, probeVars, queryVars,
        reclaimVars, Inv, TypeOK
  <2>7. keepalive' \in [Keys -> Probes \cup {Null}]
    BY <1>22 DEF UserDetaches, Event, insertVars, probeVars, queryVars,
        reclaimVars, Inv, TypeOK
  <2>8. probe' \in [Probes -> {"unused", "sleep", "ping", "detach", "ended"}]
    BY <1>22 DEF UserDetaches, Event, insertVars, probeVars, queryVars,
        reclaimVars, Inv, TypeOK
  <2>9. target' \in [Probes -> Pools \cup {Null}] /\ replaces' \in [Probes -> BOOLEAN]
    BY <1>22, <2>2 DEF UserDetaches, Event, insertVars, probeVars, queryVars,
        reclaimVars, Inv, TypeOK
  <2>10. query' \in [Queries -> {"idle", "holds", "active", "cancelled"}]
    BY <1>22 DEF UserDetaches, Event, insertVars, probeVars, queryVars,
        reclaimVars, Inv, TypeOK
  <2>11. held' \in [Queries -> Pools \cup {Null}]
    BY <1>22 DEF UserDetaches, Event, insertVars, probeVars, queryVars,
        reclaimVars, Inv, TypeOK
  <2>12. reclaim' \in {"idle", "stopping", "take", "restart", "spawn", "close", "restoring"}
    BY <1>22 DEF UserDetaches, Event, insertVars, probeVars, queryVars,
        reclaimVars, Inv, TypeOK
  <2>13. reclaim_key' \in Keys \cup {Null} /\ reclaimed' \in Pools \cup Probes \cup {Null}
    BY <1>22 DEF UserDetaches, Event, insertVars, probeVars, queryVars,
        reclaimVars, Inv, TypeOK
  <2>14. events' \in 0..MaxEvents
    BY <1>22 DEF UserDetaches, Event, insertVars, probeVars, queryVars,
        reclaimVars, Inv, TypeOK
  <2>15. \A o \in Pools : place'[o] # "unused" => key'[o] \in Keys /\ runtime'[o] \in Runtimes
    BY <1>22, <2>2 DEF UserDetaches, Event, insertVars, probeVars, queryVars,
        reclaimVars, Inv, TypeOK
  <2>16. \A u \in Probes : probe'[u] \in {"sleep", "ping", "detach"} => target'[u] \in Pools
    BY <1>22 DEF UserDetaches, Event, insertVars, probeVars, queryVars,
        reclaimVars, Inv, TypeOK
  <2>17. \A u \in Queries : query'[u] # "idle" => held'[u] \in Pools
    BY <1>22 DEF UserDetaches, Event, insertVars, probeVars, queryVars,
        reclaimVars, Inv, TypeOK
  <2>18. reclaim' # "idle" => reclaim_key' \in Keys
    BY <1>22 DEF UserDetaches, Event, insertVars, probeVars, queryVars,
        reclaimVars, Inv, TypeOK
  <2>19. reclaim' \in {"spawn", "close", "restoring"} => reclaimed' \in Pools
    BY <1>22 DEF UserDetaches, Event, insertVars, probeVars, queryVars,
        reclaimVars, Inv, TypeOK
  <2> QED
    BY <2>1, <2>2, <2>3, <2>4, <2>5, <2>6, <2>7, <2>8, <2>9, <2>10, <2>11,
        <2>12, <2>13, <2>14, <2>15, <2>16, <2>17, <2>18, <2>19, Zenon DEF
        TypeOK
<1>23. ASSUME NEW r \in Runtimes, OpenFails(r) PROVE TypeOK'
  <2>1. connections' \in [Keys -> Pools \cup {Null}] /\ place' \in [Pools -> Places]
    BY <1>23 DEF OpenFails, RuntimeKeys, Unroute, Event, insertVars,
        probeVars, queryVars, reclaimVars, Inv, TypeOK, Places
  <2>2. key' \in [Pools -> Keys \cup {Null}] /\ runtime' \in [Pools -> Runtimes \cup {Null}]
    BY <1>23 DEF OpenFails, RuntimeKeys, Unroute, Event, insertVars,
        probeVars, queryVars, reclaimVars, Inv, TypeOK
  <2>3. /\ killed' \subseteq Runtimes /\ exited' \subseteq Runtimes
        /\ aborted' \subseteq Probes /\ removing' \subseteq Keys
    BY <1>23 DEF OpenFails, RuntimeKeys, Unroute, Event, insertVars,
        probeVars, queryVars, reclaimVars, Inv, TypeOK, HandsOK, RoutedOK
  <2>4. inserting' \in [Pools -> {"no", "wait", "publish", "recheck", "undo", "failed"}]
    BY <1>23 DEF OpenFails, RuntimeKeys, Unroute, Event, insertVars,
        probeVars, queryVars, reclaimVars, Inv, TypeOK
  <2>5. previous' \in [Pools -> Pools \cup {Null}] /\ protects' \in [Pools -> BOOLEAN]
    BY <1>23 DEF OpenFails, RuntimeKeys, Unroute, Event, insertVars,
        probeVars, queryVars, reclaimVars, Inv, TypeOK, HandsOK
  <2>6. keepalive' \in [Keys -> Probes \cup {Null}]
    BY <1>23 DEF OpenFails, RuntimeKeys, Unroute, Event, insertVars,
        probeVars, queryVars, reclaimVars, Inv, TypeOK
  <2>7. probe' \in [Probes -> {"unused", "sleep", "ping", "detach", "ended"}]
    BY <1>23 DEF OpenFails, RuntimeKeys, Unroute, Event, insertVars,
        probeVars, queryVars, reclaimVars, Inv, TypeOK
  <2>8. target' \in [Probes -> Pools \cup {Null}] /\ replaces' \in [Probes -> BOOLEAN]
    BY <1>23 DEF OpenFails, RuntimeKeys, Unroute, Event, insertVars,
        probeVars, queryVars, reclaimVars, Inv, TypeOK
  <2>9. query' \in [Queries -> {"idle", "holds", "active", "cancelled"}]
    BY <1>23 DEF OpenFails, RuntimeKeys, Unroute, Event, insertVars,
        probeVars, queryVars, reclaimVars, Inv, TypeOK
  <2>10. held' \in [Queries -> Pools \cup {Null}]
    BY <1>23 DEF OpenFails, RuntimeKeys, Unroute, Event, insertVars,
        probeVars, queryVars, reclaimVars, Inv, TypeOK
  <2>11. reclaim' \in {"idle", "stopping", "take", "restart", "spawn", "close", "restoring"}
    BY <1>23 DEF OpenFails, RuntimeKeys, Unroute, Event, insertVars,
        probeVars, queryVars, reclaimVars, Inv, TypeOK
  <2>12. reclaim_key' \in Keys \cup {Null} /\ reclaimed' \in Pools \cup Probes \cup {Null}
    BY <1>23 DEF OpenFails, RuntimeKeys, Unroute, Event, insertVars,
        probeVars, queryVars, reclaimVars, Inv, TypeOK
  <2>13. events' \in 0..MaxEvents
    BY <1>23 DEF OpenFails, RuntimeKeys, Unroute, Event, insertVars,
        probeVars, queryVars, reclaimVars, Inv, TypeOK
  <2>14. \A o \in Pools : place'[o] # "unused" => key'[o] \in Keys /\ runtime'[o] \in Runtimes
    BY <1>23 DEF OpenFails, RuntimeKeys, Unroute, Event, insertVars,
        probeVars, queryVars, reclaimVars, Inv, TypeOK, HandsOK, OpenedOK,
        RoutedOK
  <2>15. \A u \in Probes : probe'[u] \in {"sleep", "ping", "detach"} => target'[u] \in Pools
    BY <1>23 DEF OpenFails, RuntimeKeys, Unroute, Event, insertVars,
        probeVars, queryVars, reclaimVars, Inv, TypeOK
  <2>16. \A u \in Queries : query'[u] # "idle" => held'[u] \in Pools
    BY <1>23 DEF OpenFails, RuntimeKeys, Unroute, Event, insertVars,
        probeVars, queryVars, reclaimVars, Inv, TypeOK
  <2>17. reclaim' # "idle" => reclaim_key' \in Keys
    BY <1>23 DEF OpenFails, RuntimeKeys, Unroute, Event, insertVars,
        probeVars, queryVars, reclaimVars, Inv, TypeOK
  <2>18. reclaim' \in {"spawn", "close", "restoring"} => reclaimed' \in Pools
    BY <1>23 DEF OpenFails, RuntimeKeys, Unroute, Event, insertVars,
        probeVars, queryVars, reclaimVars, Inv, TypeOK
  <2> QED
    BY <2>1, <2>2, <2>3, <2>4, <2>5, <2>6, <2>7, <2>8, <2>9, <2>10, <2>11,
        <2>12, <2>13, <2>14, <2>15, <2>16, <2>17, <2>18, Zenon DEF TypeOK
<1>24. ASSUME NEW r \in Runtimes, RuntimeEnds(r) PROVE TypeOK'
  BY <1>24 DEF RuntimeEnds, Event, insertVars, probeVars, queryVars,
      reclaimVars, Inv, TypeOK, Places, HandsOK, OpenedOK, RoutedOK
<1>25. ASSUME NEW k \in Keys, UserStopsProbe(k) PROVE TypeOK'
  BY <1>25 DEF UserStopsProbe, StopKeepalive, Event, insertVars, queryVars,
      reclaimVars, Abort, Inv, TypeOK, Places, HandsOK, OpenedOK, RoutedOK
<1>26. ASSUME NEW k \in Keys, UserRemoves(k) PROVE TypeOK'
  <2>1. connections' \in [Keys -> Pools \cup {Null}] /\ place' \in [Pools -> Places]
    BY <1>26 DEF UserRemoves, Unroute, insertVars, probeVars, queryVars,
        reclaimVars, Inv, TypeOK, Places
  <2>2. key' \in [Pools -> Keys \cup {Null}] /\ runtime' \in [Pools -> Runtimes \cup {Null}]
    BY <1>26 DEF UserRemoves, Unroute, insertVars, probeVars, queryVars,
        reclaimVars, Inv, TypeOK
  <2>3. /\ killed' \subseteq Runtimes /\ exited' \subseteq Runtimes
        /\ aborted' \subseteq Probes /\ removing' \subseteq Keys
    BY <1>26 DEF UserRemoves, Unroute, insertVars, probeVars, queryVars,
        reclaimVars, Inv, TypeOK, HandsOK, RoutedOK
  <2>4. inserting' \in [Pools -> {"no", "wait", "publish", "recheck", "undo", "failed"}]
    BY <1>26 DEF UserRemoves, Unroute, insertVars, probeVars, queryVars,
        reclaimVars, Inv, TypeOK
  <2>5. previous' \in [Pools -> Pools \cup {Null}] /\ protects' \in [Pools -> BOOLEAN]
    BY <1>26 DEF UserRemoves, Unroute, insertVars, probeVars, queryVars,
        reclaimVars, Inv, TypeOK, HandsOK
  <2>6. keepalive' \in [Keys -> Probes \cup {Null}]
    BY <1>26 DEF UserRemoves, Unroute, insertVars, probeVars, queryVars,
        reclaimVars, Inv, TypeOK
  <2>7. probe' \in [Probes -> {"unused", "sleep", "ping", "detach", "ended"}]
    BY <1>26 DEF UserRemoves, Unroute, insertVars, probeVars, queryVars,
        reclaimVars, Inv, TypeOK
  <2>8. target' \in [Probes -> Pools \cup {Null}] /\ replaces' \in [Probes -> BOOLEAN]
    BY <1>26 DEF UserRemoves, Unroute, insertVars, probeVars, queryVars,
        reclaimVars, Inv, TypeOK
  <2>9. query' \in [Queries -> {"idle", "holds", "active", "cancelled"}]
    BY <1>26 DEF UserRemoves, Unroute, insertVars, probeVars, queryVars,
        reclaimVars, Inv, TypeOK
  <2>10. held' \in [Queries -> Pools \cup {Null}]
    BY <1>26 DEF UserRemoves, Unroute, insertVars, probeVars, queryVars,
        reclaimVars, Inv, TypeOK
  <2>11. reclaim' \in {"idle", "stopping", "take", "restart", "spawn", "close", "restoring"}
    BY <1>26 DEF UserRemoves, Unroute, insertVars, probeVars, queryVars,
        reclaimVars, Inv, TypeOK
  <2>12. reclaim_key' \in Keys \cup {Null} /\ reclaimed' \in Pools \cup Probes \cup {Null}
    BY <1>26 DEF UserRemoves, Unroute, insertVars, probeVars, queryVars,
        reclaimVars, Inv, TypeOK
  <2>13. events' \in 0..MaxEvents
    BY <1>26 DEF UserRemoves, Unroute, insertVars, probeVars, queryVars,
        reclaimVars, Inv, TypeOK
  <2>14. \A o \in Pools : place'[o] # "unused" => key'[o] \in Keys /\ runtime'[o] \in Runtimes
    BY <1>26 DEF UserRemoves, Unroute, insertVars, probeVars, queryVars,
        reclaimVars, Inv, TypeOK, HandsOK, OpenedOK, RoutedOK
  <2>15. \A u \in Probes : probe'[u] \in {"sleep", "ping", "detach"} => target'[u] \in Pools
    BY <1>26 DEF UserRemoves, Unroute, insertVars, probeVars, queryVars,
        reclaimVars, Inv, TypeOK
  <2>16. \A u \in Queries : query'[u] # "idle" => held'[u] \in Pools
    BY <1>26 DEF UserRemoves, Unroute, insertVars, probeVars, queryVars,
        reclaimVars, Inv, TypeOK
  <2>17. reclaim' # "idle" => reclaim_key' \in Keys
    BY <1>26 DEF UserRemoves, Unroute, insertVars, probeVars, queryVars,
        reclaimVars, Inv, TypeOK
  <2>18. reclaim' \in {"spawn", "close", "restoring"} => reclaimed' \in Pools
    BY <1>26 DEF UserRemoves, Unroute, insertVars, probeVars, queryVars,
        reclaimVars, Inv, TypeOK
  <2> QED
    BY <2>1, <2>2, <2>3, <2>4, <2>5, <2>6, <2>7, <2>8, <2>9, <2>10, <2>11,
        <2>12, <2>13, <2>14, <2>15, <2>16, <2>17, <2>18, Zenon DEF TypeOK
<1>27. ASSUME NEW k \in Keys, ReclaimBegins(k) PROVE TypeOK'
  BY <1>27 DEF ReclaimBegins, StopKeepalive, PoolActive, insertVars,
      queryVars, userVars, Abort, Inv, TypeOK, Places, HandsOK, OpenedOK,
      RoutedOK
<1>28. CASE ReclaimChecks
  BY <1>28 DEF ReclaimChecks, PoolActive, insertVars, probeVars, queryVars,
      userVars, Inv, TypeOK, Places, HandsOK, OpenedOK, RoutedOK
<1>29. CASE ReclaimTakes
  <2>1. connections' \in [Keys -> Pools \cup {Null}] /\ place' \in [Pools -> Places]
    BY <1>29 DEF ReclaimTakes, Unroute, ExclusivelyIdle, insertVars,
        probeVars, queryVars, userVars, Holders, Probing, Inv, TypeOK, Places
  <2>2. key' \in [Pools -> Keys \cup {Null}] /\ runtime' \in [Pools -> Runtimes \cup {Null}]
    BY <1>29 DEF ReclaimTakes, Unroute, ExclusivelyIdle, insertVars,
        probeVars, queryVars, userVars, Holders, Probing, Inv, TypeOK
  <2>3. /\ killed' \subseteq Runtimes /\ exited' \subseteq Runtimes
        /\ aborted' \subseteq Probes /\ removing' \subseteq Keys
    BY <1>29 DEF ReclaimTakes, Unroute, ExclusivelyIdle, insertVars,
        probeVars, queryVars, userVars, Holders, Probing, Inv, TypeOK,
        HandsOK, RoutedOK
  <2>4. inserting' \in [Pools -> {"no", "wait", "publish", "recheck", "undo", "failed"}]
    BY <1>29 DEF ReclaimTakes, Unroute, ExclusivelyIdle, insertVars,
        probeVars, queryVars, userVars, Holders, Probing, Inv, TypeOK
  <2>5. previous' \in [Pools -> Pools \cup {Null}] /\ protects' \in [Pools -> BOOLEAN]
    BY <1>29 DEF ReclaimTakes, Unroute, ExclusivelyIdle, insertVars,
        probeVars, queryVars, userVars, Holders, Probing, Inv, TypeOK, HandsOK
  <2>6. keepalive' \in [Keys -> Probes \cup {Null}]
    BY <1>29 DEF ReclaimTakes, Unroute, ExclusivelyIdle, insertVars,
        probeVars, queryVars, userVars, Holders, Probing, Inv, TypeOK
  <2>7. probe' \in [Probes -> {"unused", "sleep", "ping", "detach", "ended"}]
    BY <1>29 DEF ReclaimTakes, Unroute, ExclusivelyIdle, insertVars,
        probeVars, queryVars, userVars, Holders, Probing, Inv, TypeOK
  <2>8. target' \in [Probes -> Pools \cup {Null}] /\ replaces' \in [Probes -> BOOLEAN]
    BY <1>29 DEF ReclaimTakes, Unroute, ExclusivelyIdle, insertVars,
        probeVars, queryVars, userVars, Holders, Probing, Inv, TypeOK
  <2>9. query' \in [Queries -> {"idle", "holds", "active", "cancelled"}]
    BY <1>29 DEF ReclaimTakes, Unroute, ExclusivelyIdle, insertVars,
        probeVars, queryVars, userVars, Holders, Probing, Inv, TypeOK
  <2>10. held' \in [Queries -> Pools \cup {Null}]
    BY <1>29 DEF ReclaimTakes, Unroute, ExclusivelyIdle, insertVars,
        probeVars, queryVars, userVars, Holders, Probing, Inv, TypeOK
  <2>11. reclaim' \in {"idle", "stopping", "take", "restart", "spawn", "close", "restoring"}
    BY <1>29 DEF ReclaimTakes, Unroute, ExclusivelyIdle, insertVars,
        probeVars, queryVars, userVars, Holders, Probing, Inv, TypeOK
  <2>12. reclaim_key' \in Keys \cup {Null} /\ reclaimed' \in Pools \cup Probes \cup {Null}
    BY <1>29 DEF ReclaimTakes, Unroute, ExclusivelyIdle, insertVars,
        probeVars, queryVars, userVars, Holders, Probing, Inv, TypeOK
  <2>13. events' \in 0..MaxEvents
    BY <1>29 DEF ReclaimTakes, Unroute, ExclusivelyIdle, insertVars,
        probeVars, queryVars, userVars, Holders, Probing, Inv, TypeOK
  <2>14. \A o \in Pools : place'[o] # "unused" => key'[o] \in Keys /\ runtime'[o] \in Runtimes
    BY <1>29 DEF ReclaimTakes, Unroute, ExclusivelyIdle, insertVars,
        probeVars, queryVars, userVars, Holders, Probing, Inv, TypeOK,
        HandsOK, OpenedOK, RoutedOK
  <2>15. \A u \in Probes : probe'[u] \in {"sleep", "ping", "detach"} => target'[u] \in Pools
    BY <1>29 DEF ReclaimTakes, Unroute, ExclusivelyIdle, insertVars,
        probeVars, queryVars, userVars, Holders, Probing, Inv, TypeOK
  <2>16. \A u \in Queries : query'[u] # "idle" => held'[u] \in Pools
    BY <1>29 DEF ReclaimTakes, Unroute, ExclusivelyIdle, insertVars,
        probeVars, queryVars, userVars, Holders, Probing, Inv, TypeOK
  <2>17. reclaim' # "idle" => reclaim_key' \in Keys
    BY <1>29 DEF ReclaimTakes, Unroute, ExclusivelyIdle, insertVars,
        probeVars, queryVars, userVars, Holders, Probing, Inv, TypeOK
  <2>18. reclaim' \in {"spawn", "close", "restoring"} => reclaimed' \in Pools
    BY <1>29 DEF ReclaimTakes, Unroute, ExclusivelyIdle, insertVars,
        probeVars, queryVars, userVars, Holders, Probing, Inv, TypeOK
  <2> QED
    BY <2>1, <2>2, <2>3, <2>4, <2>5, <2>6, <2>7, <2>8, <2>9, <2>10, <2>11,
        <2>12, <2>13, <2>14, <2>15, <2>16, <2>17, <2>18, Zenon DEF TypeOK
<1>30. CASE RestartReads
  BY <1>30 DEF RestartReads, EndDrain, insertVars, probeVars, queryVars,
      userVars, Inv, TypeOK, Places, HandsOK, OpenedOK, RoutedOK
<1>31. CASE RestartSpawns
  BY <1>31 DEF RestartSpawns, StartKeepalive, EndDrain, insertVars, queryVars,
      userVars, Abort, Inv, TypeOK, Places, HandsOK, OpenedOK, RoutedOK
<1>32. CASE ReclaimCloses
  BY <1>32 DEF ReclaimCloses, EndDrain, insertVars, probeVars, queryVars,
      userVars, Inv, TypeOK, Places, HandsOK, OpenedOK, RoutedOK
<1>33. CASE ReclaimReplaces
  <2>1. connections' \in [Keys -> Pools \cup {Null}] /\ place' \in [Pools -> Places]
    BY <1>33 DEF ReclaimReplaces, ReplaceRuntime, EndDrain, Event, insertVars,
        probeVars, queryVars, RuntimeKeys, Inv, TypeOK, Places
  <2>2. key' \in [Pools -> Keys \cup {Null}] /\ runtime' \in [Pools -> Runtimes \cup {Null}]
    BY <1>33 DEF ReclaimReplaces, ReplaceRuntime, EndDrain, Event, insertVars,
        probeVars, queryVars, RuntimeKeys, Inv, TypeOK
  <2>3. /\ killed' \subseteq Runtimes /\ exited' \subseteq Runtimes
        /\ aborted' \subseteq Probes /\ removing' \subseteq Keys
    BY <1>33 DEF ReclaimReplaces, ReplaceRuntime, EndDrain, Event, insertVars,
        probeVars, queryVars, RuntimeKeys, Inv, TypeOK, HandsOK, RoutedOK
  <2>4. inserting' \in [Pools -> {"no", "wait", "publish", "recheck", "undo", "failed"}]
    BY <1>33 DEF ReclaimReplaces, ReplaceRuntime, EndDrain, Event, insertVars,
        probeVars, queryVars, RuntimeKeys, Inv, TypeOK
  <2>5. previous' \in [Pools -> Pools \cup {Null}] /\ protects' \in [Pools -> BOOLEAN]
    BY <1>33 DEF ReclaimReplaces, ReplaceRuntime, EndDrain, Event, insertVars,
        probeVars, queryVars, RuntimeKeys, Inv, TypeOK, HandsOK
  <2>6. keepalive' \in [Keys -> Probes \cup {Null}]
    BY <1>33 DEF ReclaimReplaces, ReplaceRuntime, EndDrain, Event, insertVars,
        probeVars, queryVars, RuntimeKeys, Inv, TypeOK
  <2>7. probe' \in [Probes -> {"unused", "sleep", "ping", "detach", "ended"}]
    BY <1>33 DEF ReclaimReplaces, ReplaceRuntime, EndDrain, Event, insertVars,
        probeVars, queryVars, RuntimeKeys, Inv, TypeOK
  <2>8. target' \in [Probes -> Pools \cup {Null}] /\ replaces' \in [Probes -> BOOLEAN]
    BY <1>33 DEF ReclaimReplaces, ReplaceRuntime, EndDrain, Event, insertVars,
        probeVars, queryVars, RuntimeKeys, Inv, TypeOK
  <2>9. query' \in [Queries -> {"idle", "holds", "active", "cancelled"}]
    BY <1>33 DEF ReclaimReplaces, ReplaceRuntime, EndDrain, Event, insertVars,
        probeVars, queryVars, RuntimeKeys, Inv, TypeOK
  <2>10. held' \in [Queries -> Pools \cup {Null}]
    BY <1>33 DEF ReclaimReplaces, ReplaceRuntime, EndDrain, Event, insertVars,
        probeVars, queryVars, RuntimeKeys, Inv, TypeOK
  <2>11. reclaim' \in {"idle", "stopping", "take", "restart", "spawn", "close", "restoring"}
    BY <1>33 DEF ReclaimReplaces, ReplaceRuntime, EndDrain, Event, insertVars,
        probeVars, queryVars, RuntimeKeys, Inv, TypeOK
  <2>12. reclaim_key' \in Keys \cup {Null} /\ reclaimed' \in Pools \cup Probes \cup {Null}
    BY <1>33 DEF ReclaimReplaces, ReplaceRuntime, EndDrain, Event, insertVars,
        probeVars, queryVars, RuntimeKeys, Inv, TypeOK
  <2>13. events' \in 0..MaxEvents
    BY <1>33 DEF ReclaimReplaces, ReplaceRuntime, EndDrain, Event, insertVars,
        probeVars, queryVars, RuntimeKeys, Inv, TypeOK
  <2>14. \A o \in Pools : place'[o] # "unused" => key'[o] \in Keys /\ runtime'[o] \in Runtimes
    BY <1>33 DEF ReclaimReplaces, ReplaceRuntime, EndDrain, Event, insertVars,
        probeVars, queryVars, RuntimeKeys, Inv, TypeOK, HandsOK, OpenedOK,
        RoutedOK
  <2>15. \A u \in Probes : probe'[u] \in {"sleep", "ping", "detach"} => target'[u] \in Pools
    BY <1>33 DEF ReclaimReplaces, ReplaceRuntime, EndDrain, Event, insertVars,
        probeVars, queryVars, RuntimeKeys, Inv, TypeOK
  <2>16. \A u \in Queries : query'[u] # "idle" => held'[u] \in Pools
    BY <1>33 DEF ReclaimReplaces, ReplaceRuntime, EndDrain, Event, insertVars,
        probeVars, queryVars, RuntimeKeys, Inv, TypeOK
  <2>17. reclaim' # "idle" => reclaim_key' \in Keys
    BY <1>33 DEF ReclaimReplaces, ReplaceRuntime, EndDrain, Event, insertVars,
        probeVars, queryVars, RuntimeKeys, Inv, TypeOK
  <2>18. reclaim' \in {"spawn", "close", "restoring"} => reclaimed' \in Pools
    BY <1>33 DEF ReclaimReplaces, ReplaceRuntime, EndDrain, Event, insertVars,
        probeVars, queryVars, RuntimeKeys, Inv, TypeOK
  <2> QED
    BY <2>1, <2>2, <2>3, <2>4, <2>5, <2>6, <2>7, <2>8, <2>9, <2>10, <2>11,
        <2>12, <2>13, <2>14, <2>15, <2>16, <2>17, <2>18, Zenon DEF TypeOK
<1>34. CASE ReclaimRestores
  BY <1>34 DEF ReclaimRestores, Event, probeVars, queryVars, Inv, TypeOK,
      Places, HandsOK, OpenedOK, RoutedOK
<1>35. CASE ReclaimRestored
  BY <1>35 DEF ReclaimRestored, EndDrain, insertVars, probeVars, queryVars,
      userVars, Inv, TypeOK, Places, HandsOK, OpenedOK, RoutedOK
<1>36. CASE UNCHANGED vars
  BY <1>36 DEF vars, Inv, TypeOK, Places, HandsOK, OpenedOK, RoutedOK
<1>37. QED
  BY <1>1, <1>2, <1>3, <1>4, <1>5, <1>6, <1>7, <1>8, <1>9, <1>10, <1>11,
      <1>12, <1>13, <1>14, <1>15, <1>16, <1>17, <1>18, <1>19, <1>20, <1>21,
      <1>22, <1>23, <1>24, <1>25, <1>26, <1>27, <1>28, <1>29, <1>30, <1>31,
      <1>32, <1>33, <1>34, <1>35, <1>36 DEF Next, InsertSteps, CloseSteps,
      ReclaimSteps, ProbeSteps, QuerySteps, UserSteps

\* Every step keeps a pool under its own key.
LEMMA KeyPreserved ==
    ASSUME Inv,
           [Next]_vars
    PROVE  KeyOK'
<1> USE NullAssumption
<1>1. ASSUME NEW t \in Probes, ProbePings(t) PROVE KeyOK'
  BY <1>1 DEF ProbePings, PoolActive, insertVars, queryVars, reclaimVars,
      userVars, Inv, TypeOK, HandsOK, RoutedOK, KeyOK
<1>2. ASSUME NEW t \in Probes, ProbeSucceeds(t) PROVE KeyOK'
  BY <1>2 DEF ProbeSucceeds, insertVars, queryVars, reclaimVars, userVars,
      Inv, TypeOK, HandsOK, RoutedOK, KeyOK
<1>3. ASSUME NEW t \in Probes, NEW replace \in BOOLEAN, ProbeFails(t, replace)
    PROVE KeyOK'
  BY <1>3 DEF ProbeFails, Event, insertVars, queryVars, reclaimVars, Inv,
      TypeOK, HandsOK, RoutedOK, KeyOK
<1>4. ASSUME NEW t \in Probes, ProbeDetaches(t) PROVE KeyOK'
  BY <1>4 DEF ProbeDetaches, DetachIfCurrent, EndProbe, insertVars, queryVars,
      reclaimVars, userVars, RuntimeKeys, ProtectsManualTxn, Unroute, Inv,
      TypeOK, HandsOK, RoutedOK, KeyOK
<1>5. ASSUME NEW t \in Probes, ProbeEnds(t) PROVE KeyOK'
  BY <1>5 DEF ProbeEnds, EndProbe, insertVars, queryVars, reclaimVars,
      userVars, Inv, TypeOK, HandsOK, RoutedOK, KeyOK
<1>6. ASSUME NEW p \in Pools, FinishDetach(p) PROVE KeyOK'
  BY <1>6 DEF FinishDetach, StopKeepalive, insertVars, queryVars, reclaimVars,
      userVars, Abort, Inv, TypeOK, HandsOK, RoutedOK, KeyOK
<1>7. ASSUME NEW p \in Pools, CloseReads(p) PROVE KeyOK'
  BY <1>7 DEF CloseReads, ProtectsManualTxn, insertVars, probeVars, queryVars,
      reclaimVars, userVars, RuntimeKeys, Inv, TypeOK, HandsOK, RoutedOK,
      KeyOK
<1>8. ASSUME NEW p \in Pools, CloseEnds(p) PROVE KeyOK'
  BY <1>8 DEF CloseEnds, insertVars, probeVars, queryVars, reclaimVars,
      userVars, Inv, TypeOK, HandsOK, RoutedOK, KeyOK
<1>9. ASSUME NEW p \in Pools, CloseFails(p) PROVE KeyOK'
  BY <1>9 DEF CloseFails, ReplaceRuntime, Event, insertVars, probeVars,
      queryVars, reclaimVars, RuntimeKeys, Inv, TypeOK, HandsOK, RoutedOK,
      KeyOK
<1>10. ASSUME NEW p \in Pools, NEW k \in Keys, NEW r \in Runtimes, Open(p, k,
    r) PROVE KeyOK'
  BY <1>10 DEF Open, probeVars, queryVars, reclaimVars, userVars, Inv, TypeOK,
      HandsOK, RoutedOK, KeyOK
<1>11. ASSUME NEW p \in Pools, InsertWaits(p) PROVE KeyOK'
  BY <1>11 DEF InsertWaits, probeVars, queryVars, reclaimVars, userVars, Inv,
      TypeOK, HandsOK, RoutedOK, KeyOK
<1>12. ASSUME NEW p \in Pools, Publish(p) PROVE KeyOK'
  BY <1>12 DEF Publish, StopKeepalive, StartKeepalive, Available, queryVars,
      reclaimVars, userVars, Abort, Inv, TypeOK, HandsOK, RoutedOK, KeyOK
<1>13. ASSUME NEW p \in Pools, PublishFails(p) PROVE KeyOK'
  BY <1>13 DEF PublishFails, ReplaceRuntime, Available, probeVars, queryVars,
      reclaimVars, userVars, RuntimeKeys, Inv, TypeOK, HandsOK, RoutedOK,
      KeyOK
<1>14. ASSUME NEW p \in Pools, InsertFailed(p) PROVE KeyOK'
  BY <1>14 DEF InsertFailed, probeVars, queryVars, reclaimVars, userVars, Inv,
      TypeOK, HandsOK, RoutedOK, KeyOK
<1>15. ASSUME NEW p \in Pools, InsertRechecks(p) PROVE KeyOK'
  BY <1>15 DEF InsertRechecks, Available, probeVars, queryVars, reclaimVars,
      userVars, Inv, TypeOK, HandsOK, RoutedOK, KeyOK
<1>16. ASSUME NEW p \in Pools, InsertUndoes(p) PROVE KeyOK'
  BY <1>16 DEF InsertUndoes, DetachKey, probeVars, queryVars, reclaimVars,
      userVars, RuntimeKeys, ProtectsManualTxn, Unroute, Inv, TypeOK, HandsOK,
      RoutedOK, KeyOK
<1>17. ASSUME NEW q \in Queries, NEW k \in Keys, QueryClones(q, k) PROVE
    KeyOK'
  BY <1>17 DEF QueryClones, insertVars, probeVars, reclaimVars, userVars, Inv,
      TypeOK, HandsOK, RoutedOK, KeyOK
<1>18. ASSUME NEW q \in Queries, QueryRegisters(q) PROVE KeyOK'
  BY <1>18 DEF QueryRegisters, insertVars, probeVars, reclaimVars, userVars,
      Inv, TypeOK, HandsOK, RoutedOK, KeyOK
<1>19. ASSUME NEW q \in Queries, QueryCancelled(q) PROVE KeyOK'
  BY <1>19 DEF QueryCancelled, insertVars, probeVars, reclaimVars, userVars,
      Inv, TypeOK, HandsOK, RoutedOK, KeyOK
<1>20. ASSUME NEW q \in Queries, QueryEnds(q) PROVE KeyOK'
  BY <1>20 DEF QueryEnds, insertVars, probeVars, reclaimVars, userVars, Inv,
      TypeOK, HandsOK, RoutedOK, KeyOK
<1>21. ASSUME NEW q \in Queries, NEW replace \in BOOLEAN, QueryDetaches(q,
    replace) PROVE KeyOK'
  BY <1>21 DEF QueryDetaches, DetachIfCurrent, Event, insertVars, probeVars,
      reclaimVars, RuntimeKeys, ProtectsManualTxn, Unroute, Inv, TypeOK,
      HandsOK, RoutedOK, KeyOK
<1>22. ASSUME NEW k \in Keys, NEW replace \in BOOLEAN, UserDetaches(k,
    replace) PROVE KeyOK'
  BY <1>22 DEF UserDetaches, DetachKey, Event, insertVars, probeVars,
      queryVars, reclaimVars, RuntimeKeys, ProtectsManualTxn, Unroute, Inv,
      TypeOK, HandsOK, RoutedOK, KeyOK
<1>23. ASSUME NEW r \in Runtimes, OpenFails(r) PROVE KeyOK'
  BY <1>23 DEF OpenFails, RuntimeKeys, Unroute, Event, insertVars, probeVars,
      queryVars, reclaimVars, Inv, TypeOK, HandsOK, RoutedOK, KeyOK
<1>24. ASSUME NEW r \in Runtimes, RuntimeEnds(r) PROVE KeyOK'
  BY <1>24 DEF RuntimeEnds, Event, insertVars, probeVars, queryVars,
      reclaimVars, Inv, TypeOK, HandsOK, RoutedOK, KeyOK
<1>25. ASSUME NEW k \in Keys, UserStopsProbe(k) PROVE KeyOK'
  BY <1>25 DEF UserStopsProbe, StopKeepalive, Event, insertVars, queryVars,
      reclaimVars, Abort, Inv, TypeOK, HandsOK, RoutedOK, KeyOK
<1>26. ASSUME NEW k \in Keys, UserRemoves(k) PROVE KeyOK'
  BY <1>26 DEF UserRemoves, Unroute, insertVars, probeVars, queryVars,
      reclaimVars, Inv, TypeOK, HandsOK, RoutedOK, KeyOK
<1>27. ASSUME NEW k \in Keys, ReclaimBegins(k) PROVE KeyOK'
  BY <1>27 DEF ReclaimBegins, StopKeepalive, PoolActive, insertVars,
      queryVars, userVars, Abort, Inv, TypeOK, HandsOK, RoutedOK, KeyOK
<1>28. CASE ReclaimChecks
  BY <1>28 DEF ReclaimChecks, PoolActive, insertVars, probeVars, queryVars,
      userVars, Inv, TypeOK, HandsOK, RoutedOK, KeyOK
<1>29. CASE ReclaimTakes
  BY <1>29 DEF ReclaimTakes, Unroute, ExclusivelyIdle, insertVars, probeVars,
      queryVars, userVars, Holders, Probing, Inv, TypeOK, HandsOK, RoutedOK,
      KeyOK
<1>30. CASE RestartReads
  BY <1>30 DEF RestartReads, EndDrain, insertVars, probeVars, queryVars,
      userVars, Inv, TypeOK, HandsOK, RoutedOK, KeyOK
<1>31. CASE RestartSpawns
  BY <1>31 DEF RestartSpawns, StartKeepalive, EndDrain, insertVars, queryVars,
      userVars, Abort, Inv, TypeOK, HandsOK, RoutedOK, KeyOK
<1>32. CASE ReclaimCloses
  BY <1>32 DEF ReclaimCloses, EndDrain, insertVars, probeVars, queryVars,
      userVars, Inv, TypeOK, HandsOK, RoutedOK, KeyOK
<1>33. CASE ReclaimReplaces
  BY <1>33 DEF ReclaimReplaces, ReplaceRuntime, EndDrain, Event, insertVars,
      probeVars, queryVars, RuntimeKeys, Inv, TypeOK, HandsOK, RoutedOK, KeyOK
<1>34. CASE ReclaimRestores
  BY <1>34 DEF ReclaimRestores, Event, probeVars, queryVars, Inv, TypeOK,
      HandsOK, RoutedOK, KeyOK
<1>35. CASE ReclaimRestored
  BY <1>35 DEF ReclaimRestored, EndDrain, insertVars, probeVars, queryVars,
      userVars, Inv, TypeOK, HandsOK, RoutedOK, KeyOK
<1>36. CASE UNCHANGED vars
  BY <1>36 DEF vars, Inv, TypeOK, HandsOK, RoutedOK, KeyOK
<1>37. QED
  BY <1>1, <1>2, <1>3, <1>4, <1>5, <1>6, <1>7, <1>8, <1>9, <1>10, <1>11,
      <1>12, <1>13, <1>14, <1>15, <1>16, <1>17, <1>18, <1>19, <1>20, <1>21,
      <1>22, <1>23, <1>24, <1>25, <1>26, <1>27, <1>28, <1>29, <1>30, <1>31,
      <1>32, <1>33, <1>34, <1>35, <1>36 DEF Next, InsertSteps, CloseSteps,
      ReclaimSteps, ProbeSteps, QuerySteps, UserSteps

\* Every step leaves a pool in one pair of hands.
LEMMA HandsPreserved ==
    ASSUME Inv,
           [Next]_vars
    PROVE  HandsOK'
<1> USE NullAssumption
<1>1. ASSUME NEW t \in Probes, ProbePings(t) PROVE HandsOK'
  BY <1>1 DEF ProbePings, PoolActive, insertVars, queryVars, reclaimVars,
      userVars, Inv, TypeOK, RoutedOK, HandsOK
<1>2. ASSUME NEW t \in Probes, ProbeSucceeds(t) PROVE HandsOK'
  BY <1>2 DEF ProbeSucceeds, insertVars, queryVars, reclaimVars, userVars,
      Inv, TypeOK, RoutedOK, HandsOK
<1>3. ASSUME NEW t \in Probes, NEW replace \in BOOLEAN, ProbeFails(t, replace)
    PROVE HandsOK'
  BY <1>3 DEF ProbeFails, Event, insertVars, queryVars, reclaimVars, Inv,
      TypeOK, RoutedOK, HandsOK
<1>4. ASSUME NEW t \in Probes, ProbeDetaches(t) PROVE HandsOK'
  <2>1. /\ \E ks \in SUBSET Keys : Unroute(ks, "probed")
        /\ killed' \subseteq Runtimes
    BY <1>4, DetachIfCurrentFacts DEF ProbeDetaches, Inv, TypeOK, OpenedOK
  <2>2. /\ connections' \in [Keys -> Pools \cup {Null}]
        /\ place' \in [Pools -> Places]
        /\ \A o \in Pools :
              place'[o] = place[o] \/ (place[o] = "routed" /\ place'[o] = "probed")
        /\ RoutedOK'
    BY <2>1, UnrouteFacts DEF Inv, Places
  <2> QED
    BY <1>4, <2>2 DEF ProbeDetaches, EndProbe, insertVars, queryVars,
        reclaimVars, userVars, Inv, TypeOK, HandsOK
<1>5. ASSUME NEW t \in Probes, ProbeEnds(t) PROVE HandsOK'
  BY <1>5 DEF ProbeEnds, EndProbe, insertVars, queryVars, reclaimVars,
      userVars, Inv, TypeOK, RoutedOK, HandsOK
<1>6. ASSUME NEW p \in Pools, FinishDetach(p) PROVE HandsOK'
  BY <1>6 DEF FinishDetach, StopKeepalive, insertVars, queryVars, reclaimVars,
      userVars, Abort, Inv, TypeOK, RoutedOK, HandsOK
<1>7. ASSUME NEW p \in Pools, CloseReads(p) PROVE HandsOK'
  BY <1>7 DEF CloseReads, ProtectsManualTxn, insertVars, probeVars, queryVars,
      reclaimVars, userVars, RuntimeKeys, Inv, TypeOK, RoutedOK, HandsOK
<1>8. ASSUME NEW p \in Pools, CloseEnds(p) PROVE HandsOK'
  BY <1>8 DEF CloseEnds, insertVars, probeVars, queryVars, reclaimVars,
      userVars, Inv, TypeOK, RoutedOK, HandsOK
<1>9. ASSUME NEW p \in Pools, CloseFails(p) PROVE HandsOK'
  BY <1>9 DEF CloseFails, ReplaceRuntime, Event, insertVars, probeVars,
      queryVars, reclaimVars, RuntimeKeys, Inv, TypeOK, RoutedOK, HandsOK
<1>10. ASSUME NEW p \in Pools, NEW k \in Keys, NEW r \in Runtimes, Open(p, k,
    r) PROVE HandsOK'
  BY <1>10 DEF Open, probeVars, queryVars, reclaimVars, userVars, Inv, TypeOK,
      RoutedOK, HandsOK
<1>11. ASSUME NEW p \in Pools, InsertWaits(p) PROVE HandsOK'
  BY <1>11 DEF InsertWaits, probeVars, queryVars, reclaimVars, userVars, Inv,
      TypeOK, RoutedOK, HandsOK
<1>12. ASSUME NEW p \in Pools, Publish(p) PROVE HandsOK'
  BY <1>12 DEF Publish, StopKeepalive, StartKeepalive, Available, queryVars,
      reclaimVars, userVars, Abort, Inv, TypeOK, RoutedOK, HandsOK
<1>13. ASSUME NEW p \in Pools, PublishFails(p) PROVE HandsOK'
  BY <1>13 DEF PublishFails, ReplaceRuntime, Available, probeVars, queryVars,
      reclaimVars, userVars, RuntimeKeys, Inv, TypeOK, RoutedOK, HandsOK
<1>14. ASSUME NEW p \in Pools, InsertFailed(p) PROVE HandsOK'
  BY <1>14 DEF InsertFailed, probeVars, queryVars, reclaimVars, userVars, Inv,
      TypeOK, RoutedOK, HandsOK
<1>15. ASSUME NEW p \in Pools, InsertRechecks(p) PROVE HandsOK'
  BY <1>15 DEF InsertRechecks, Available, probeVars, queryVars, reclaimVars,
      userVars, Inv, TypeOK, RoutedOK, HandsOK
<1>16. ASSUME NEW p \in Pools, InsertUndoes(p) PROVE HandsOK'
  <2>1. /\ \E ks \in SUBSET Keys : Unroute(ks, "detached")
        /\ killed' \subseteq Runtimes
    <3>1. CASE connections[key[p]] = Null
      <4>1. Unroute({}, "detached") /\ killed' = killed
        BY <1>16, <3>1 DEF InsertUndoes, Unroute, Inv, TypeOK
      <4> QED
        BY <4>1 DEF Inv, TypeOK
    <3>2. CASE connections[key[p]] # Null
      <4>1. key[p] \in Keys
        BY <1>16 DEF InsertUndoes, Inv, HandsOK, TypeOK
      <4> QED
        BY <1>16, <3>2, <4>1, DetachKeyFacts DEF InsertUndoes, Inv
    <3> QED
      BY <3>1, <3>2
  <2>2. /\ connections' \in [Keys -> Pools \cup {Null}]
        /\ place' \in [Pools -> Places]
        /\ \A o \in Pools :
              place'[o] = place[o] \/ (place[o] = "routed" /\ place'[o] = "detached")
        /\ RoutedOK'
    BY <2>1, UnrouteFacts DEF Inv, Places
  <2> QED
    BY <1>16, <2>2 DEF InsertUndoes, probeVars, queryVars, reclaimVars,
        userVars, Inv, TypeOK, HandsOK
<1>17. ASSUME NEW q \in Queries, NEW k \in Keys, QueryClones(q, k) PROVE
    HandsOK'
  BY <1>17 DEF QueryClones, insertVars, probeVars, reclaimVars, userVars, Inv,
      TypeOK, RoutedOK, HandsOK
<1>18. ASSUME NEW q \in Queries, QueryRegisters(q) PROVE HandsOK'
  BY <1>18 DEF QueryRegisters, insertVars, probeVars, reclaimVars, userVars,
      Inv, TypeOK, RoutedOK, HandsOK
<1>19. ASSUME NEW q \in Queries, QueryCancelled(q) PROVE HandsOK'
  BY <1>19 DEF QueryCancelled, insertVars, probeVars, reclaimVars, userVars,
      Inv, TypeOK, RoutedOK, HandsOK
<1>20. ASSUME NEW q \in Queries, QueryEnds(q) PROVE HandsOK'
  BY <1>20 DEF QueryEnds, insertVars, probeVars, reclaimVars, userVars, Inv,
      TypeOK, RoutedOK, HandsOK
<1>21. ASSUME NEW q \in Queries, NEW replace \in BOOLEAN, QueryDetaches(q,
    replace) PROVE HandsOK'
  <2>1. /\ \E ks \in SUBSET Keys : Unroute(ks, "detached")
        /\ killed' \subseteq Runtimes
    BY <1>21, DetachIfCurrentFacts DEF QueryDetaches, Inv, TypeOK, OpenedOK
  <2>2. /\ connections' \in [Keys -> Pools \cup {Null}]
        /\ place' \in [Pools -> Places]
        /\ \A o \in Pools :
              place'[o] = place[o] \/ (place[o] = "routed" /\ place'[o] = "detached")
        /\ RoutedOK'
    BY <2>1, UnrouteFacts DEF Inv, Places
  <2> QED
    BY <1>21, <2>2 DEF QueryDetaches, Event, insertVars, probeVars,
        reclaimVars, Inv, TypeOK, HandsOK
<1>22. ASSUME NEW k \in Keys, NEW replace \in BOOLEAN, UserDetaches(k,
    replace) PROVE HandsOK'
  <2>1. /\ \E ks \in SUBSET Keys : Unroute(ks, "detached")
        /\ killed' \subseteq Runtimes
    BY <1>22, DetachKeyFacts DEF UserDetaches, Inv, TypeOK, OpenedOK
  <2>2. /\ connections' \in [Keys -> Pools \cup {Null}]
        /\ place' \in [Pools -> Places]
        /\ \A o \in Pools :
              place'[o] = place[o] \/ (place[o] = "routed" /\ place'[o] = "detached")
        /\ RoutedOK'
    BY <2>1, UnrouteFacts DEF Inv, Places
  <2> QED
    BY <1>22, <2>2 DEF UserDetaches, Event, insertVars, probeVars, queryVars,
        reclaimVars, Inv, TypeOK, HandsOK
<1>23. ASSUME NEW r \in Runtimes, OpenFails(r) PROVE HandsOK'
  BY <1>23 DEF OpenFails, RuntimeKeys, Unroute, Event, insertVars, probeVars,
      queryVars, reclaimVars, Inv, TypeOK, RoutedOK, HandsOK
<1>24. ASSUME NEW r \in Runtimes, RuntimeEnds(r) PROVE HandsOK'
  BY <1>24 DEF RuntimeEnds, Event, insertVars, probeVars, queryVars,
      reclaimVars, Inv, TypeOK, RoutedOK, HandsOK
<1>25. ASSUME NEW k \in Keys, UserStopsProbe(k) PROVE HandsOK'
  BY <1>25 DEF UserStopsProbe, StopKeepalive, Event, insertVars, queryVars,
      reclaimVars, Abort, Inv, TypeOK, RoutedOK, HandsOK
<1>26. ASSUME NEW k \in Keys, UserRemoves(k) PROVE HandsOK'
  BY <1>26 DEF UserRemoves, Unroute, insertVars, probeVars, queryVars,
      reclaimVars, Inv, TypeOK, RoutedOK, HandsOK
<1>27. ASSUME NEW k \in Keys, ReclaimBegins(k) PROVE HandsOK'
  BY <1>27 DEF ReclaimBegins, StopKeepalive, PoolActive, insertVars,
      queryVars, userVars, Abort, Inv, TypeOK, RoutedOK, HandsOK
<1>28. CASE ReclaimChecks
  BY <1>28 DEF ReclaimChecks, PoolActive, insertVars, probeVars, queryVars,
      userVars, Inv, TypeOK, RoutedOK, HandsOK
<1>29. CASE ReclaimTakes
  BY <1>29 DEF ReclaimTakes, Unroute, ExclusivelyIdle, insertVars, probeVars,
      queryVars, userVars, Holders, Probing, Inv, TypeOK, RoutedOK, HandsOK
<1>30. CASE RestartReads
  BY <1>30 DEF RestartReads, EndDrain, insertVars, probeVars, queryVars,
      userVars, Inv, TypeOK, RoutedOK, HandsOK
<1>31. CASE RestartSpawns
  BY <1>31 DEF RestartSpawns, StartKeepalive, EndDrain, insertVars, queryVars,
      userVars, Abort, Inv, TypeOK, RoutedOK, HandsOK
<1>32. CASE ReclaimCloses
  BY <1>32 DEF ReclaimCloses, EndDrain, insertVars, probeVars, queryVars,
      userVars, Inv, TypeOK, RoutedOK, HandsOK
<1>33. CASE ReclaimReplaces
  BY <1>33 DEF ReclaimReplaces, ReplaceRuntime, EndDrain, Event, insertVars,
      probeVars, queryVars, RuntimeKeys, Inv, TypeOK, RoutedOK, HandsOK
<1>34. CASE ReclaimRestores
  BY <1>34 DEF ReclaimRestores, Event, probeVars, queryVars, Inv, TypeOK,
      RoutedOK, HandsOK
<1>35. CASE ReclaimRestored
  BY <1>35 DEF ReclaimRestored, EndDrain, insertVars, probeVars, queryVars,
      userVars, Inv, TypeOK, RoutedOK, HandsOK
<1>36. CASE UNCHANGED vars
  BY <1>36 DEF vars, Inv, TypeOK, RoutedOK, HandsOK
<1>37. QED
  BY <1>1, <1>2, <1>3, <1>4, <1>5, <1>6, <1>7, <1>8, <1>9, <1>10, <1>11,
      <1>12, <1>13, <1>14, <1>15, <1>16, <1>17, <1>18, <1>19, <1>20, <1>21,
      <1>22, <1>23, <1>24, <1>25, <1>26, <1>27, <1>28, <1>29, <1>30, <1>31,
      <1>32, <1>33, <1>34, <1>35, <1>36 DEF Next, InsertSteps, CloseSteps,
      ReclaimSteps, ProbeSteps, QuerySteps, UserSteps

\* Every step keeps the pools that are held opened.
LEMMA OpenedPreserved ==
    ASSUME Inv,
           [Next]_vars
    PROVE  OpenedOK'
<1> USE NullAssumption
<1>1. ASSUME NEW t \in Probes, ProbePings(t) PROVE OpenedOK'
  BY <1>1 DEF ProbePings, PoolActive, insertVars, queryVars, reclaimVars,
      userVars, Inv, TypeOK, RoutedOK, HandsOK, OpenedOK
<1>2. ASSUME NEW t \in Probes, ProbeSucceeds(t) PROVE OpenedOK'
  BY <1>2 DEF ProbeSucceeds, insertVars, queryVars, reclaimVars, userVars,
      Inv, TypeOK, RoutedOK, HandsOK, OpenedOK
<1>3. ASSUME NEW t \in Probes, NEW replace \in BOOLEAN, ProbeFails(t, replace)
    PROVE OpenedOK'
  BY <1>3 DEF ProbeFails, Event, insertVars, queryVars, reclaimVars, Inv,
      TypeOK, RoutedOK, HandsOK, OpenedOK
<1>4. ASSUME NEW t \in Probes, ProbeDetaches(t) PROVE OpenedOK'
  <2>1. /\ \E ks \in SUBSET Keys : Unroute(ks, "probed")
        /\ killed' \subseteq Runtimes
    BY <1>4, DetachIfCurrentFacts DEF ProbeDetaches, Inv, TypeOK, OpenedOK
  <2>2. /\ connections' \in [Keys -> Pools \cup {Null}]
        /\ place' \in [Pools -> Places]
        /\ \A o \in Pools :
              place'[o] = place[o] \/ (place[o] = "routed" /\ place'[o] = "probed")
        /\ RoutedOK'
    BY <2>1, UnrouteFacts DEF Inv, Places
  <2> QED
    BY <1>4, <2>2 DEF ProbeDetaches, EndProbe, insertVars, queryVars,
        reclaimVars, userVars, Inv, TypeOK, OpenedOK
<1>5. ASSUME NEW t \in Probes, ProbeEnds(t) PROVE OpenedOK'
  BY <1>5 DEF ProbeEnds, EndProbe, insertVars, queryVars, reclaimVars,
      userVars, Inv, TypeOK, RoutedOK, HandsOK, OpenedOK
<1>6. ASSUME NEW p \in Pools, FinishDetach(p) PROVE OpenedOK'
  BY <1>6 DEF FinishDetach, StopKeepalive, insertVars, queryVars, reclaimVars,
      userVars, Abort, Inv, TypeOK, RoutedOK, HandsOK, OpenedOK
<1>7. ASSUME NEW p \in Pools, CloseReads(p) PROVE OpenedOK'
  BY <1>7 DEF CloseReads, ProtectsManualTxn, insertVars, probeVars, queryVars,
      reclaimVars, userVars, RuntimeKeys, Inv, TypeOK, RoutedOK, HandsOK,
      OpenedOK
<1>8. ASSUME NEW p \in Pools, CloseEnds(p) PROVE OpenedOK'
  BY <1>8 DEF CloseEnds, insertVars, probeVars, queryVars, reclaimVars,
      userVars, Inv, TypeOK, RoutedOK, HandsOK, OpenedOK
<1>9. ASSUME NEW p \in Pools, CloseFails(p) PROVE OpenedOK'
  BY <1>9 DEF CloseFails, ReplaceRuntime, Event, insertVars, probeVars,
      queryVars, reclaimVars, RuntimeKeys, Inv, TypeOK, RoutedOK, HandsOK,
      OpenedOK
<1>10. ASSUME NEW p \in Pools, NEW k \in Keys, NEW r \in Runtimes, Open(p, k,
    r) PROVE OpenedOK'
  BY <1>10 DEF Open, probeVars, queryVars, reclaimVars, userVars, Inv, TypeOK,
      RoutedOK, HandsOK, OpenedOK
<1>11. ASSUME NEW p \in Pools, InsertWaits(p) PROVE OpenedOK'
  BY <1>11 DEF InsertWaits, probeVars, queryVars, reclaimVars, userVars, Inv,
      TypeOK, RoutedOK, HandsOK, OpenedOK
<1>12. ASSUME NEW p \in Pools, Publish(p) PROVE OpenedOK'
  BY <1>12 DEF Publish, StopKeepalive, StartKeepalive, Available, queryVars,
      reclaimVars, userVars, Abort, Inv, TypeOK, RoutedOK, HandsOK, OpenedOK
<1>13. ASSUME NEW p \in Pools, PublishFails(p) PROVE OpenedOK'
  BY <1>13 DEF PublishFails, ReplaceRuntime, Available, probeVars, queryVars,
      reclaimVars, userVars, RuntimeKeys, Inv, TypeOK, RoutedOK, HandsOK,
      OpenedOK
<1>14. ASSUME NEW p \in Pools, InsertFailed(p) PROVE OpenedOK'
  BY <1>14 DEF InsertFailed, probeVars, queryVars, reclaimVars, userVars, Inv,
      TypeOK, RoutedOK, HandsOK, OpenedOK
<1>15. ASSUME NEW p \in Pools, InsertRechecks(p) PROVE OpenedOK'
  BY <1>15 DEF InsertRechecks, Available, probeVars, queryVars, reclaimVars,
      userVars, Inv, TypeOK, RoutedOK, HandsOK, OpenedOK
<1>16. ASSUME NEW p \in Pools, InsertUndoes(p) PROVE OpenedOK'
  <2>1. /\ \E ks \in SUBSET Keys : Unroute(ks, "detached")
        /\ killed' \subseteq Runtimes
    <3>1. CASE connections[key[p]] = Null
      <4>1. Unroute({}, "detached") /\ killed' = killed
        BY <1>16, <3>1 DEF InsertUndoes, Unroute, Inv, TypeOK
      <4> QED
        BY <4>1 DEF Inv, TypeOK
    <3>2. CASE connections[key[p]] # Null
      <4>1. key[p] \in Keys
        BY <1>16 DEF InsertUndoes, Inv, HandsOK, TypeOK
      <4> QED
        BY <1>16, <3>2, <4>1, DetachKeyFacts DEF InsertUndoes, Inv
    <3> QED
      BY <3>1, <3>2
  <2>2. /\ connections' \in [Keys -> Pools \cup {Null}]
        /\ place' \in [Pools -> Places]
        /\ \A o \in Pools :
              place'[o] = place[o] \/ (place[o] = "routed" /\ place'[o] = "detached")
        /\ RoutedOK'
    BY <2>1, UnrouteFacts DEF Inv, Places
  <2> QED
    BY <1>16, <2>2 DEF InsertUndoes, probeVars, queryVars, reclaimVars,
        userVars, Inv, TypeOK, OpenedOK
<1>17. ASSUME NEW q \in Queries, NEW k \in Keys, QueryClones(q, k) PROVE
    OpenedOK'
  BY <1>17 DEF QueryClones, insertVars, probeVars, reclaimVars, userVars, Inv,
      TypeOK, RoutedOK, HandsOK, OpenedOK
<1>18. ASSUME NEW q \in Queries, QueryRegisters(q) PROVE OpenedOK'
  BY <1>18 DEF QueryRegisters, insertVars, probeVars, reclaimVars, userVars,
      Inv, TypeOK, RoutedOK, HandsOK, OpenedOK
<1>19. ASSUME NEW q \in Queries, QueryCancelled(q) PROVE OpenedOK'
  BY <1>19 DEF QueryCancelled, insertVars, probeVars, reclaimVars, userVars,
      Inv, TypeOK, RoutedOK, HandsOK, OpenedOK
<1>20. ASSUME NEW q \in Queries, QueryEnds(q) PROVE OpenedOK'
  BY <1>20 DEF QueryEnds, insertVars, probeVars, reclaimVars, userVars, Inv,
      TypeOK, RoutedOK, HandsOK, OpenedOK
<1>21. ASSUME NEW q \in Queries, NEW replace \in BOOLEAN, QueryDetaches(q,
    replace) PROVE OpenedOK'
  <2>1. /\ \E ks \in SUBSET Keys : Unroute(ks, "detached")
        /\ killed' \subseteq Runtimes
    BY <1>21, DetachIfCurrentFacts DEF QueryDetaches, Inv, TypeOK, OpenedOK
  <2>2. /\ connections' \in [Keys -> Pools \cup {Null}]
        /\ place' \in [Pools -> Places]
        /\ \A o \in Pools :
              place'[o] = place[o] \/ (place[o] = "routed" /\ place'[o] = "detached")
        /\ RoutedOK'
    BY <2>1, UnrouteFacts DEF Inv, Places
  <2> QED
    BY <1>21, <2>2 DEF QueryDetaches, Event, insertVars, probeVars,
        reclaimVars, Inv, TypeOK, OpenedOK
<1>22. ASSUME NEW k \in Keys, NEW replace \in BOOLEAN, UserDetaches(k,
    replace) PROVE OpenedOK'
  <2>1. /\ \E ks \in SUBSET Keys : Unroute(ks, "detached")
        /\ killed' \subseteq Runtimes
    BY <1>22, DetachKeyFacts DEF UserDetaches, Inv, TypeOK, OpenedOK
  <2>2. /\ connections' \in [Keys -> Pools \cup {Null}]
        /\ place' \in [Pools -> Places]
        /\ \A o \in Pools :
              place'[o] = place[o] \/ (place[o] = "routed" /\ place'[o] = "detached")
        /\ RoutedOK'
    BY <2>1, UnrouteFacts DEF Inv, Places
  <2> QED
    BY <1>22, <2>2 DEF UserDetaches, Event, insertVars, probeVars, queryVars,
        reclaimVars, Inv, TypeOK, OpenedOK
<1>23. ASSUME NEW r \in Runtimes, OpenFails(r) PROVE OpenedOK'
  BY <1>23 DEF OpenFails, RuntimeKeys, Unroute, Event, insertVars, probeVars,
      queryVars, reclaimVars, Inv, TypeOK, RoutedOK, HandsOK, OpenedOK
<1>24. ASSUME NEW r \in Runtimes, RuntimeEnds(r) PROVE OpenedOK'
  BY <1>24 DEF RuntimeEnds, Event, insertVars, probeVars, queryVars,
      reclaimVars, Inv, TypeOK, RoutedOK, HandsOK, OpenedOK
<1>25. ASSUME NEW k \in Keys, UserStopsProbe(k) PROVE OpenedOK'
  BY <1>25 DEF UserStopsProbe, StopKeepalive, Event, insertVars, queryVars,
      reclaimVars, Abort, Inv, TypeOK, RoutedOK, HandsOK, OpenedOK
<1>26. ASSUME NEW k \in Keys, UserRemoves(k) PROVE OpenedOK'
  BY <1>26 DEF UserRemoves, Unroute, insertVars, probeVars, queryVars,
      reclaimVars, Inv, TypeOK, RoutedOK, HandsOK, OpenedOK
<1>27. ASSUME NEW k \in Keys, ReclaimBegins(k) PROVE OpenedOK'
  BY <1>27 DEF ReclaimBegins, StopKeepalive, PoolActive, insertVars,
      queryVars, userVars, Abort, Inv, TypeOK, RoutedOK, HandsOK, OpenedOK
<1>28. CASE ReclaimChecks
  BY <1>28 DEF ReclaimChecks, PoolActive, insertVars, probeVars, queryVars,
      userVars, Inv, TypeOK, RoutedOK, HandsOK, OpenedOK
<1>29. CASE ReclaimTakes
  BY <1>29 DEF ReclaimTakes, Unroute, ExclusivelyIdle, insertVars, probeVars,
      queryVars, userVars, Holders, Probing, Inv, TypeOK, RoutedOK, HandsOK,
      OpenedOK
<1>30. CASE RestartReads
  BY <1>30 DEF RestartReads, EndDrain, insertVars, probeVars, queryVars,
      userVars, Inv, TypeOK, RoutedOK, HandsOK, OpenedOK
<1>31. CASE RestartSpawns
  BY <1>31 DEF RestartSpawns, StartKeepalive, EndDrain, insertVars, queryVars,
      userVars, Abort, Inv, TypeOK, RoutedOK, HandsOK, OpenedOK
<1>32. CASE ReclaimCloses
  BY <1>32 DEF ReclaimCloses, EndDrain, insertVars, probeVars, queryVars,
      userVars, Inv, TypeOK, RoutedOK, HandsOK, OpenedOK
<1>33. CASE ReclaimReplaces
  BY <1>33 DEF ReclaimReplaces, ReplaceRuntime, EndDrain, Event, insertVars,
      probeVars, queryVars, RuntimeKeys, Inv, TypeOK, RoutedOK, HandsOK,
      OpenedOK
<1>34. CASE ReclaimRestores
  BY <1>34 DEF ReclaimRestores, Event, probeVars, queryVars, Inv, TypeOK,
      RoutedOK, HandsOK, OpenedOK
<1>35. CASE ReclaimRestored
  BY <1>35 DEF ReclaimRestored, EndDrain, insertVars, probeVars, queryVars,
      userVars, Inv, TypeOK, RoutedOK, HandsOK, OpenedOK
<1>36. CASE UNCHANGED vars
  BY <1>36 DEF vars, Inv, TypeOK, RoutedOK, HandsOK, OpenedOK
<1>37. QED
  BY <1>1, <1>2, <1>3, <1>4, <1>5, <1>6, <1>7, <1>8, <1>9, <1>10, <1>11,
      <1>12, <1>13, <1>14, <1>15, <1>16, <1>17, <1>18, <1>19, <1>20, <1>21,
      <1>22, <1>23, <1>24, <1>25, <1>26, <1>27, <1>28, <1>29, <1>30, <1>31,
      <1>32, <1>33, <1>34, <1>35, <1>36 DEF Next, InsertSteps, CloseSteps,
      ReclaimSteps, ProbeSteps, QuerySteps, UserSteps

\* Every step keeps the table and the open pools in agreement.
LEMMA RoutesPreserved ==
    ASSUME Inv,
           [Next]_vars
    PROVE  RoutedOK'
<1> USE NullAssumption
<1>1. ASSUME NEW t \in Probes, ProbePings(t) PROVE RoutedOK'
  BY <1>1 DEF ProbePings, PoolActive, insertVars, queryVars, reclaimVars,
      userVars, Inv, TypeOK, KeyOK, HandsOK, RoutedOK
<1>2. ASSUME NEW t \in Probes, ProbeSucceeds(t) PROVE RoutedOK'
  BY <1>2 DEF ProbeSucceeds, insertVars, queryVars, reclaimVars, userVars,
      Inv, TypeOK, KeyOK, HandsOK, RoutedOK
<1>3. ASSUME NEW t \in Probes, NEW replace \in BOOLEAN, ProbeFails(t, replace)
    PROVE RoutedOK'
  BY <1>3 DEF ProbeFails, Event, insertVars, queryVars, reclaimVars, Inv,
      TypeOK, KeyOK, HandsOK, RoutedOK
<1>4. ASSUME NEW t \in Probes, ProbeDetaches(t) PROVE RoutedOK'
  <2>1. /\ \E ks \in SUBSET Keys : Unroute(ks, "probed")
        /\ killed' \subseteq Runtimes
    BY <1>4, DetachIfCurrentFacts DEF ProbeDetaches, Inv, TypeOK, OpenedOK
  <2>2. /\ connections' \in [Keys -> Pools \cup {Null}]
        /\ place' \in [Pools -> Places]
        /\ \A o \in Pools :
              place'[o] = place[o] \/ (place[o] = "routed" /\ place'[o] = "probed")
        /\ RoutedOK'
    BY <2>1, UnrouteFacts DEF Inv, Places
  <2> QED
    BY <2>2
<1>5. ASSUME NEW t \in Probes, ProbeEnds(t) PROVE RoutedOK'
  BY <1>5 DEF ProbeEnds, EndProbe, insertVars, queryVars, reclaimVars,
      userVars, Inv, TypeOK, KeyOK, HandsOK, RoutedOK
<1>6. ASSUME NEW p \in Pools, FinishDetach(p) PROVE RoutedOK'
  BY <1>6 DEF FinishDetach, StopKeepalive, insertVars, queryVars, reclaimVars,
      userVars, Abort, Inv, TypeOK, KeyOK, HandsOK, RoutedOK
<1>7. ASSUME NEW p \in Pools, CloseReads(p) PROVE RoutedOK'
  BY <1>7 DEF CloseReads, ProtectsManualTxn, insertVars, probeVars, queryVars,
      reclaimVars, userVars, RuntimeKeys, Inv, TypeOK, KeyOK, HandsOK,
      RoutedOK
<1>8. ASSUME NEW p \in Pools, CloseEnds(p) PROVE RoutedOK'
  BY <1>8 DEF CloseEnds, insertVars, probeVars, queryVars, reclaimVars,
      userVars, Inv, TypeOK, KeyOK, HandsOK, RoutedOK
<1>9. ASSUME NEW p \in Pools, CloseFails(p) PROVE RoutedOK'
  BY <1>9 DEF CloseFails, ReplaceRuntime, Event, insertVars, probeVars,
      queryVars, reclaimVars, RuntimeKeys, Inv, TypeOK, KeyOK, HandsOK,
      RoutedOK
<1>10. ASSUME NEW p \in Pools, NEW k \in Keys, NEW r \in Runtimes, Open(p, k,
    r) PROVE RoutedOK'
  BY <1>10 DEF Open, probeVars, queryVars, reclaimVars, userVars, Inv, TypeOK,
      KeyOK, HandsOK, RoutedOK
<1>11. ASSUME NEW p \in Pools, InsertWaits(p) PROVE RoutedOK'
  BY <1>11 DEF InsertWaits, probeVars, queryVars, reclaimVars, userVars, Inv,
      TypeOK, KeyOK, HandsOK, RoutedOK
<1>12. ASSUME NEW p \in Pools, Publish(p) PROVE RoutedOK'
  BY <1>12 DEF Publish, StopKeepalive, StartKeepalive, Available, queryVars,
      reclaimVars, userVars, Abort, Inv, TypeOK, KeyOK, HandsOK, RoutedOK
<1>13. ASSUME NEW p \in Pools, PublishFails(p) PROVE RoutedOK'
  BY <1>13 DEF PublishFails, ReplaceRuntime, Available, probeVars, queryVars,
      reclaimVars, userVars, RuntimeKeys, Inv, TypeOK, KeyOK, HandsOK,
      RoutedOK
<1>14. ASSUME NEW p \in Pools, InsertFailed(p) PROVE RoutedOK'
  BY <1>14 DEF InsertFailed, probeVars, queryVars, reclaimVars, userVars, Inv,
      TypeOK, KeyOK, HandsOK, RoutedOK
<1>15. ASSUME NEW p \in Pools, InsertRechecks(p) PROVE RoutedOK'
  BY <1>15 DEF InsertRechecks, Available, probeVars, queryVars, reclaimVars,
      userVars, Inv, TypeOK, KeyOK, HandsOK, RoutedOK
<1>16. ASSUME NEW p \in Pools, InsertUndoes(p) PROVE RoutedOK'
  <2>1. /\ \E ks \in SUBSET Keys : Unroute(ks, "detached")
        /\ killed' \subseteq Runtimes
    <3>1. CASE connections[key[p]] = Null
      <4>1. Unroute({}, "detached") /\ killed' = killed
        BY <1>16, <3>1 DEF InsertUndoes, Unroute, Inv, TypeOK
      <4> QED
        BY <4>1 DEF Inv, TypeOK
    <3>2. CASE connections[key[p]] # Null
      <4>1. key[p] \in Keys
        BY <1>16 DEF InsertUndoes, Inv, HandsOK, TypeOK
      <4> QED
        BY <1>16, <3>2, <4>1, DetachKeyFacts DEF InsertUndoes, Inv
    <3> QED
      BY <3>1, <3>2
  <2>2. /\ connections' \in [Keys -> Pools \cup {Null}]
        /\ place' \in [Pools -> Places]
        /\ \A o \in Pools :
              place'[o] = place[o] \/ (place[o] = "routed" /\ place'[o] = "detached")
        /\ RoutedOK'
    BY <2>1, UnrouteFacts DEF Inv, Places
  <2> QED
    BY <2>2
<1>17. ASSUME NEW q \in Queries, NEW k \in Keys, QueryClones(q, k) PROVE
    RoutedOK'
  BY <1>17 DEF QueryClones, insertVars, probeVars, reclaimVars, userVars, Inv,
      TypeOK, KeyOK, HandsOK, RoutedOK
<1>18. ASSUME NEW q \in Queries, QueryRegisters(q) PROVE RoutedOK'
  BY <1>18 DEF QueryRegisters, insertVars, probeVars, reclaimVars, userVars,
      Inv, TypeOK, KeyOK, HandsOK, RoutedOK
<1>19. ASSUME NEW q \in Queries, QueryCancelled(q) PROVE RoutedOK'
  BY <1>19 DEF QueryCancelled, insertVars, probeVars, reclaimVars, userVars,
      Inv, TypeOK, KeyOK, HandsOK, RoutedOK
<1>20. ASSUME NEW q \in Queries, QueryEnds(q) PROVE RoutedOK'
  BY <1>20 DEF QueryEnds, insertVars, probeVars, reclaimVars, userVars, Inv,
      TypeOK, KeyOK, HandsOK, RoutedOK
<1>21. ASSUME NEW q \in Queries, NEW replace \in BOOLEAN, QueryDetaches(q,
    replace) PROVE RoutedOK'
  <2>1. /\ \E ks \in SUBSET Keys : Unroute(ks, "detached")
        /\ killed' \subseteq Runtimes
    BY <1>21, DetachIfCurrentFacts DEF QueryDetaches, Inv, TypeOK, OpenedOK
  <2>2. /\ connections' \in [Keys -> Pools \cup {Null}]
        /\ place' \in [Pools -> Places]
        /\ \A o \in Pools :
              place'[o] = place[o] \/ (place[o] = "routed" /\ place'[o] = "detached")
        /\ RoutedOK'
    BY <2>1, UnrouteFacts DEF Inv, Places
  <2> QED
    BY <2>2
<1>22. ASSUME NEW k \in Keys, NEW replace \in BOOLEAN, UserDetaches(k,
    replace) PROVE RoutedOK'
  <2>1. /\ \E ks \in SUBSET Keys : Unroute(ks, "detached")
        /\ killed' \subseteq Runtimes
    BY <1>22, DetachKeyFacts DEF UserDetaches, Inv, TypeOK, OpenedOK
  <2>2. /\ connections' \in [Keys -> Pools \cup {Null}]
        /\ place' \in [Pools -> Places]
        /\ \A o \in Pools :
              place'[o] = place[o] \/ (place[o] = "routed" /\ place'[o] = "detached")
        /\ RoutedOK'
    BY <2>1, UnrouteFacts DEF Inv, Places
  <2> QED
    BY <2>2
<1>23. ASSUME NEW r \in Runtimes, OpenFails(r) PROVE RoutedOK'
  BY <1>23 DEF OpenFails, RuntimeKeys, Unroute, Event, insertVars, probeVars,
      queryVars, reclaimVars, Inv, TypeOK, KeyOK, HandsOK, RoutedOK
<1>24. ASSUME NEW r \in Runtimes, RuntimeEnds(r) PROVE RoutedOK'
  BY <1>24 DEF RuntimeEnds, Event, insertVars, probeVars, queryVars,
      reclaimVars, Inv, TypeOK, KeyOK, HandsOK, RoutedOK
<1>25. ASSUME NEW k \in Keys, UserStopsProbe(k) PROVE RoutedOK'
  BY <1>25 DEF UserStopsProbe, StopKeepalive, Event, insertVars, queryVars,
      reclaimVars, Abort, Inv, TypeOK, KeyOK, HandsOK, RoutedOK
<1>26. ASSUME NEW k \in Keys, UserRemoves(k) PROVE RoutedOK'
  BY <1>26 DEF UserRemoves, Unroute, insertVars, probeVars, queryVars,
      reclaimVars, Inv, TypeOK, KeyOK, HandsOK, RoutedOK
<1>27. ASSUME NEW k \in Keys, ReclaimBegins(k) PROVE RoutedOK'
  BY <1>27 DEF ReclaimBegins, StopKeepalive, PoolActive, insertVars,
      queryVars, userVars, Abort, Inv, TypeOK, KeyOK, HandsOK, RoutedOK
<1>28. CASE ReclaimChecks
  BY <1>28 DEF ReclaimChecks, PoolActive, insertVars, probeVars, queryVars,
      userVars, Inv, TypeOK, KeyOK, HandsOK, RoutedOK
<1>29. CASE ReclaimTakes
  BY <1>29 DEF ReclaimTakes, Unroute, ExclusivelyIdle, insertVars, probeVars,
      queryVars, userVars, Holders, Probing, Inv, TypeOK, KeyOK, HandsOK,
      RoutedOK
<1>30. CASE RestartReads
  BY <1>30 DEF RestartReads, EndDrain, insertVars, probeVars, queryVars,
      userVars, Inv, TypeOK, KeyOK, HandsOK, RoutedOK
<1>31. CASE RestartSpawns
  BY <1>31 DEF RestartSpawns, StartKeepalive, EndDrain, insertVars, queryVars,
      userVars, Abort, Inv, TypeOK, KeyOK, HandsOK, RoutedOK
<1>32. CASE ReclaimCloses
  BY <1>32 DEF ReclaimCloses, EndDrain, insertVars, probeVars, queryVars,
      userVars, Inv, TypeOK, KeyOK, HandsOK, RoutedOK
<1>33. CASE ReclaimReplaces
  BY <1>33 DEF ReclaimReplaces, ReplaceRuntime, EndDrain, Event, insertVars,
      probeVars, queryVars, RuntimeKeys, Inv, TypeOK, KeyOK, HandsOK, RoutedOK
<1>34. CASE ReclaimRestores
  BY <1>34 DEF ReclaimRestores, Event, probeVars, queryVars, Inv, TypeOK,
      KeyOK, HandsOK, RoutedOK
<1>35. CASE ReclaimRestored
  BY <1>35 DEF ReclaimRestored, EndDrain, insertVars, probeVars, queryVars,
      userVars, Inv, TypeOK, KeyOK, HandsOK, RoutedOK
<1>36. CASE UNCHANGED vars
  BY <1>36 DEF vars, Inv, TypeOK, KeyOK, HandsOK, RoutedOK
<1>37. QED
  BY <1>1, <1>2, <1>3, <1>4, <1>5, <1>6, <1>7, <1>8, <1>9, <1>10, <1>11,
      <1>12, <1>13, <1>14, <1>15, <1>16, <1>17, <1>18, <1>19, <1>20, <1>21,
      <1>22, <1>23, <1>24, <1>25, <1>26, <1>27, <1>28, <1>29, <1>30, <1>31,
      <1>32, <1>33, <1>34, <1>35, <1>36 DEF Next, InsertSteps, CloseSteps,
      ReclaimSteps, ProbeSteps, QuerySteps, UserSteps

\* Every step leaves a pool with somebody who publishes or closes it.
LEMMA OwnersPreserved ==
    ASSUME Inv,
           [Next]_vars
    PROVE  OwnersOK'
<1> USE NullAssumption
<1>1. ASSUME NEW t \in Probes, ProbePings(t) PROVE OwnersOK'
  BY <1>1 DEF ProbePings, PoolActive, insertVars, queryVars, reclaimVars,
      userVars, Inv, TypeOK, KeyOK, HandsOK, RoutedOK, OwnersOK
<1>2. ASSUME NEW t \in Probes, ProbeSucceeds(t) PROVE OwnersOK'
  BY <1>2 DEF ProbeSucceeds, insertVars, queryVars, reclaimVars, userVars,
      Inv, TypeOK, KeyOK, HandsOK, RoutedOK, OwnersOK
<1>3. ASSUME NEW t \in Probes, NEW replace \in BOOLEAN, ProbeFails(t, replace)
    PROVE OwnersOK'
  BY <1>3 DEF ProbeFails, Event, insertVars, queryVars, reclaimVars, Inv,
      TypeOK, KeyOK, HandsOK, RoutedOK, OwnersOK
<1>4. ASSUME NEW t \in Probes, ProbeDetaches(t) PROVE OwnersOK'
  <2>1. /\ \E ks \in SUBSET Keys : Unroute(ks, "probed")
        /\ killed' \subseteq Runtimes
    BY <1>4, DetachIfCurrentFacts DEF ProbeDetaches, Inv, TypeOK, OpenedOK
  <2>2. /\ connections' \in [Keys -> Pools \cup {Null}]
        /\ place' \in [Pools -> Places]
        /\ \A o \in Pools :
              place'[o] = place[o] \/ (place[o] = "routed" /\ place'[o] = "probed")
        /\ RoutedOK'
    BY <2>1, UnrouteFacts DEF Inv, Places
  <2> QED
    BY <1>4, <2>2 DEF ProbeDetaches, EndProbe, insertVars, queryVars,
        reclaimVars, userVars, Inv, TypeOK, HandsOK, OwnersOK
<1>5. ASSUME NEW t \in Probes, ProbeEnds(t) PROVE OwnersOK'
  BY <1>5 DEF ProbeEnds, EndProbe, insertVars, queryVars, reclaimVars,
      userVars, Inv, TypeOK, KeyOK, HandsOK, RoutedOK, OwnersOK
<1>6. ASSUME NEW p \in Pools, FinishDetach(p) PROVE OwnersOK'
  BY <1>6 DEF FinishDetach, StopKeepalive, insertVars, queryVars, reclaimVars,
      userVars, Abort, Inv, TypeOK, KeyOK, HandsOK, RoutedOK, OwnersOK
<1>7. ASSUME NEW p \in Pools, CloseReads(p) PROVE OwnersOK'
  BY <1>7 DEF CloseReads, ProtectsManualTxn, insertVars, probeVars, queryVars,
      reclaimVars, userVars, RuntimeKeys, Inv, TypeOK, KeyOK, HandsOK,
      RoutedOK, OwnersOK
<1>8. ASSUME NEW p \in Pools, CloseEnds(p) PROVE OwnersOK'
  BY <1>8 DEF CloseEnds, insertVars, probeVars, queryVars, reclaimVars,
      userVars, Inv, TypeOK, KeyOK, HandsOK, RoutedOK, OwnersOK
<1>9. ASSUME NEW p \in Pools, CloseFails(p) PROVE OwnersOK'
  BY <1>9 DEF CloseFails, ReplaceRuntime, Event, insertVars, probeVars,
      queryVars, reclaimVars, RuntimeKeys, Inv, TypeOK, KeyOK, HandsOK,
      RoutedOK, OwnersOK
<1>10. ASSUME NEW p \in Pools, NEW k \in Keys, NEW r \in Runtimes, Open(p, k,
    r) PROVE OwnersOK'
  BY <1>10 DEF Open, probeVars, queryVars, reclaimVars, userVars, Inv, TypeOK,
      KeyOK, HandsOK, RoutedOK, OwnersOK
<1>11. ASSUME NEW p \in Pools, InsertWaits(p) PROVE OwnersOK'
  BY <1>11 DEF InsertWaits, probeVars, queryVars, reclaimVars, userVars, Inv,
      TypeOK, KeyOK, HandsOK, RoutedOK, OwnersOK
<1>12. ASSUME NEW p \in Pools, Publish(p) PROVE OwnersOK'
  BY <1>12 DEF Publish, StopKeepalive, StartKeepalive, Available, queryVars,
      reclaimVars, userVars, Abort, Inv, TypeOK, KeyOK, HandsOK, RoutedOK,
      OwnersOK
<1>13. ASSUME NEW p \in Pools, PublishFails(p) PROVE OwnersOK'
  BY <1>13 DEF PublishFails, ReplaceRuntime, Available, probeVars, queryVars,
      reclaimVars, userVars, RuntimeKeys, Inv, TypeOK, KeyOK, HandsOK,
      RoutedOK, OwnersOK
<1>14. ASSUME NEW p \in Pools, InsertFailed(p) PROVE OwnersOK'
  BY <1>14 DEF InsertFailed, probeVars, queryVars, reclaimVars, userVars, Inv,
      TypeOK, KeyOK, HandsOK, RoutedOK, OwnersOK
<1>15. ASSUME NEW p \in Pools, InsertRechecks(p) PROVE OwnersOK'
  BY <1>15 DEF InsertRechecks, Available, probeVars, queryVars, reclaimVars,
      userVars, Inv, TypeOK, KeyOK, HandsOK, RoutedOK, OwnersOK
<1>16. ASSUME NEW p \in Pools, InsertUndoes(p) PROVE OwnersOK'
  <2>1. /\ \E ks \in SUBSET Keys : Unroute(ks, "detached")
        /\ killed' \subseteq Runtimes
    <3>1. CASE connections[key[p]] = Null
      <4>1. Unroute({}, "detached") /\ killed' = killed
        BY <1>16, <3>1 DEF InsertUndoes, Unroute, Inv, TypeOK
      <4> QED
        BY <4>1 DEF Inv, TypeOK
    <3>2. CASE connections[key[p]] # Null
      <4>1. key[p] \in Keys
        BY <1>16 DEF InsertUndoes, Inv, HandsOK, TypeOK
      <4> QED
        BY <1>16, <3>2, <4>1, DetachKeyFacts DEF InsertUndoes, Inv
    <3> QED
      BY <3>1, <3>2
  <2>2. /\ connections' \in [Keys -> Pools \cup {Null}]
        /\ place' \in [Pools -> Places]
        /\ \A o \in Pools :
              place'[o] = place[o] \/ (place[o] = "routed" /\ place'[o] = "detached")
        /\ RoutedOK'
    BY <2>1, UnrouteFacts DEF Inv, Places
  <2> QED
    BY <1>16, <2>2 DEF InsertUndoes, probeVars, queryVars, reclaimVars,
        userVars, Inv, TypeOK, HandsOK, OwnersOK
<1>17. ASSUME NEW q \in Queries, NEW k \in Keys, QueryClones(q, k) PROVE
    OwnersOK'
  BY <1>17 DEF QueryClones, insertVars, probeVars, reclaimVars, userVars, Inv,
      TypeOK, KeyOK, HandsOK, RoutedOK, OwnersOK
<1>18. ASSUME NEW q \in Queries, QueryRegisters(q) PROVE OwnersOK'
  BY <1>18 DEF QueryRegisters, insertVars, probeVars, reclaimVars, userVars,
      Inv, TypeOK, KeyOK, HandsOK, RoutedOK, OwnersOK
<1>19. ASSUME NEW q \in Queries, QueryCancelled(q) PROVE OwnersOK'
  BY <1>19 DEF QueryCancelled, insertVars, probeVars, reclaimVars, userVars,
      Inv, TypeOK, KeyOK, HandsOK, RoutedOK, OwnersOK
<1>20. ASSUME NEW q \in Queries, QueryEnds(q) PROVE OwnersOK'
  BY <1>20 DEF QueryEnds, insertVars, probeVars, reclaimVars, userVars, Inv,
      TypeOK, KeyOK, HandsOK, RoutedOK, OwnersOK
<1>21. ASSUME NEW q \in Queries, NEW replace \in BOOLEAN, QueryDetaches(q,
    replace) PROVE OwnersOK'
  <2>1. /\ \E ks \in SUBSET Keys : Unroute(ks, "detached")
        /\ killed' \subseteq Runtimes
    BY <1>21, DetachIfCurrentFacts DEF QueryDetaches, Inv, TypeOK, OpenedOK
  <2>2. /\ connections' \in [Keys -> Pools \cup {Null}]
        /\ place' \in [Pools -> Places]
        /\ \A o \in Pools :
              place'[o] = place[o] \/ (place[o] = "routed" /\ place'[o] = "detached")
        /\ RoutedOK'
    BY <2>1, UnrouteFacts DEF Inv, Places
  <2> QED
    BY <1>21, <2>2 DEF QueryDetaches, Event, insertVars, probeVars,
        reclaimVars, Inv, TypeOK, HandsOK, OwnersOK
<1>22. ASSUME NEW k \in Keys, NEW replace \in BOOLEAN, UserDetaches(k,
    replace) PROVE OwnersOK'
  <2>1. /\ \E ks \in SUBSET Keys : Unroute(ks, "detached")
        /\ killed' \subseteq Runtimes
    BY <1>22, DetachKeyFacts DEF UserDetaches, Inv, TypeOK, OpenedOK
  <2>2. /\ connections' \in [Keys -> Pools \cup {Null}]
        /\ place' \in [Pools -> Places]
        /\ \A o \in Pools :
              place'[o] = place[o] \/ (place[o] = "routed" /\ place'[o] = "detached")
        /\ RoutedOK'
    BY <2>1, UnrouteFacts DEF Inv, Places
  <2> QED
    BY <1>22, <2>2 DEF UserDetaches, Event, insertVars, probeVars, queryVars,
        reclaimVars, Inv, TypeOK, HandsOK, OwnersOK
<1>23. ASSUME NEW r \in Runtimes, OpenFails(r) PROVE OwnersOK'
  BY <1>23 DEF OpenFails, RuntimeKeys, Unroute, Event, insertVars, probeVars,
      queryVars, reclaimVars, Inv, TypeOK, KeyOK, HandsOK, RoutedOK, OwnersOK
<1>24. ASSUME NEW r \in Runtimes, RuntimeEnds(r) PROVE OwnersOK'
  BY <1>24 DEF RuntimeEnds, Event, insertVars, probeVars, queryVars,
      reclaimVars, Inv, TypeOK, KeyOK, HandsOK, RoutedOK, OwnersOK
<1>25. ASSUME NEW k \in Keys, UserStopsProbe(k) PROVE OwnersOK'
  BY <1>25 DEF UserStopsProbe, StopKeepalive, Event, insertVars, queryVars,
      reclaimVars, Abort, Inv, TypeOK, KeyOK, HandsOK, RoutedOK, OwnersOK
<1>26. ASSUME NEW k \in Keys, UserRemoves(k) PROVE OwnersOK'
  BY <1>26 DEF UserRemoves, Unroute, insertVars, probeVars, queryVars,
      reclaimVars, Inv, TypeOK, KeyOK, HandsOK, RoutedOK, OwnersOK
<1>27. ASSUME NEW k \in Keys, ReclaimBegins(k) PROVE OwnersOK'
  BY <1>27 DEF ReclaimBegins, StopKeepalive, PoolActive, insertVars,
      queryVars, userVars, Abort, Inv, TypeOK, KeyOK, HandsOK, RoutedOK,
      OwnersOK
<1>28. CASE ReclaimChecks
  BY <1>28 DEF ReclaimChecks, PoolActive, insertVars, probeVars, queryVars,
      userVars, Inv, TypeOK, KeyOK, HandsOK, RoutedOK, OwnersOK
<1>29. CASE ReclaimTakes
  BY <1>29 DEF ReclaimTakes, Unroute, ExclusivelyIdle, insertVars, probeVars,
      queryVars, userVars, Holders, Probing, Inv, TypeOK, KeyOK, HandsOK,
      RoutedOK, OwnersOK
<1>30. CASE RestartReads
  BY <1>30 DEF RestartReads, EndDrain, insertVars, probeVars, queryVars,
      userVars, Inv, TypeOK, KeyOK, HandsOK, RoutedOK, OwnersOK
<1>31. CASE RestartSpawns
  BY <1>31 DEF RestartSpawns, StartKeepalive, EndDrain, insertVars, queryVars,
      userVars, Abort, Inv, TypeOK, KeyOK, HandsOK, RoutedOK, OwnersOK
<1>32. CASE ReclaimCloses
  BY <1>32 DEF ReclaimCloses, EndDrain, insertVars, probeVars, queryVars,
      userVars, Inv, TypeOK, KeyOK, HandsOK, RoutedOK, OwnersOK
<1>33. CASE ReclaimReplaces
  BY <1>33 DEF ReclaimReplaces, ReplaceRuntime, EndDrain, Event, insertVars,
      probeVars, queryVars, RuntimeKeys, Inv, TypeOK, KeyOK, HandsOK,
      RoutedOK, OwnersOK
<1>34. CASE ReclaimRestores
  BY <1>34 DEF ReclaimRestores, Event, probeVars, queryVars, Inv, TypeOK,
      KeyOK, HandsOK, RoutedOK, OwnersOK
<1>35. CASE ReclaimRestored
  BY <1>35 DEF ReclaimRestored, EndDrain, insertVars, probeVars, queryVars,
      userVars, Inv, TypeOK, KeyOK, HandsOK, RoutedOK, OwnersOK
<1>36. CASE UNCHANGED vars
  BY <1>36 DEF vars, Inv, TypeOK, KeyOK, HandsOK, RoutedOK, OwnersOK
<1>37. QED
  BY <1>1, <1>2, <1>3, <1>4, <1>5, <1>6, <1>7, <1>8, <1>9, <1>10, <1>11,
      <1>12, <1>13, <1>14, <1>15, <1>16, <1>17, <1>18, <1>19, <1>20, <1>21,
      <1>22, <1>23, <1>24, <1>25, <1>26, <1>27, <1>28, <1>29, <1>30, <1>31,
      <1>32, <1>33, <1>34, <1>35, <1>36 DEF Next, InsertSteps, CloseSteps,
      ReclaimSteps, ProbeSteps, QuerySteps, UserSteps

\* Every step that kills a runtime detaches its routes.
LEMMA KilledPreserved ==
    ASSUME Inv,
           [Next]_vars
    PROVE  NoRouteToKilledRuntime'
<1> USE NullAssumption
<1>1. ASSUME NEW t \in Probes, ProbePings(t) PROVE NoRouteToKilledRuntime'
  BY <1>1 DEF ProbePings, PoolActive, insertVars, queryVars, reclaimVars,
      userVars, Inv, TypeOK, HandsOK, RoutedOK, NoRouteToKilledRuntime
<1>2. ASSUME NEW t \in Probes, ProbeSucceeds(t) PROVE NoRouteToKilledRuntime'
  BY <1>2 DEF ProbeSucceeds, insertVars, queryVars, reclaimVars, userVars,
      Inv, TypeOK, HandsOK, RoutedOK, NoRouteToKilledRuntime
<1>3. ASSUME NEW t \in Probes, NEW replace \in BOOLEAN, ProbeFails(t, replace)
    PROVE NoRouteToKilledRuntime'
  BY <1>3 DEF ProbeFails, Event, insertVars, queryVars, reclaimVars, Inv,
      TypeOK, HandsOK, RoutedOK, NoRouteToKilledRuntime
<1>4. ASSUME NEW t \in Probes, ProbeDetaches(t) PROVE NoRouteToKilledRuntime'
  BY <1>4 DEF ProbeDetaches, DetachIfCurrent, EndProbe, insertVars, queryVars,
      reclaimVars, userVars, RuntimeKeys, ProtectsManualTxn, Unroute, Inv,
      TypeOK, HandsOK, RoutedOK, NoRouteToKilledRuntime
<1>5. ASSUME NEW t \in Probes, ProbeEnds(t) PROVE NoRouteToKilledRuntime'
  BY <1>5 DEF ProbeEnds, EndProbe, insertVars, queryVars, reclaimVars,
      userVars, Inv, TypeOK, HandsOK, RoutedOK, NoRouteToKilledRuntime
<1>6. ASSUME NEW p \in Pools, FinishDetach(p) PROVE NoRouteToKilledRuntime'
  BY <1>6 DEF FinishDetach, StopKeepalive, insertVars, queryVars, reclaimVars,
      userVars, Abort, Inv, TypeOK, HandsOK, RoutedOK, NoRouteToKilledRuntime
<1>7. ASSUME NEW p \in Pools, CloseReads(p) PROVE NoRouteToKilledRuntime'
  BY <1>7 DEF CloseReads, ProtectsManualTxn, insertVars, probeVars, queryVars,
      reclaimVars, userVars, RuntimeKeys, Inv, TypeOK, HandsOK, RoutedOK,
      NoRouteToKilledRuntime
<1>8. ASSUME NEW p \in Pools, CloseEnds(p) PROVE NoRouteToKilledRuntime'
  BY <1>8 DEF CloseEnds, insertVars, probeVars, queryVars, reclaimVars,
      userVars, Inv, TypeOK, HandsOK, RoutedOK, NoRouteToKilledRuntime
<1>9. ASSUME NEW p \in Pools, CloseFails(p) PROVE NoRouteToKilledRuntime'
  BY <1>9 DEF CloseFails, ReplaceRuntime, Event, insertVars, probeVars,
      queryVars, reclaimVars, RuntimeKeys, Inv, TypeOK, HandsOK, RoutedOK,
      NoRouteToKilledRuntime
<1>10. ASSUME NEW p \in Pools, NEW k \in Keys, NEW r \in Runtimes, Open(p, k,
    r) PROVE NoRouteToKilledRuntime'
  BY <1>10 DEF Open, probeVars, queryVars, reclaimVars, userVars, Inv, TypeOK,
      HandsOK, RoutedOK, NoRouteToKilledRuntime
<1>11. ASSUME NEW p \in Pools, InsertWaits(p) PROVE NoRouteToKilledRuntime'
  BY <1>11 DEF InsertWaits, probeVars, queryVars, reclaimVars, userVars, Inv,
      TypeOK, HandsOK, RoutedOK, NoRouteToKilledRuntime
<1>12. ASSUME NEW p \in Pools, Publish(p) PROVE NoRouteToKilledRuntime'
  BY <1>12 DEF Publish, StopKeepalive, StartKeepalive, Available, queryVars,
      reclaimVars, userVars, Abort, Inv, TypeOK, HandsOK, RoutedOK,
      NoRouteToKilledRuntime
<1>13. ASSUME NEW p \in Pools, PublishFails(p) PROVE NoRouteToKilledRuntime'
  BY <1>13 DEF PublishFails, ReplaceRuntime, Available, probeVars, queryVars,
      reclaimVars, userVars, RuntimeKeys, Inv, TypeOK, HandsOK, RoutedOK,
      NoRouteToKilledRuntime
<1>14. ASSUME NEW p \in Pools, InsertFailed(p) PROVE NoRouteToKilledRuntime'
  BY <1>14 DEF InsertFailed, probeVars, queryVars, reclaimVars, userVars, Inv,
      TypeOK, HandsOK, RoutedOK, NoRouteToKilledRuntime
<1>15. ASSUME NEW p \in Pools, InsertRechecks(p) PROVE NoRouteToKilledRuntime'
  BY <1>15 DEF InsertRechecks, Available, probeVars, queryVars, reclaimVars,
      userVars, Inv, TypeOK, HandsOK, RoutedOK, NoRouteToKilledRuntime
<1>16. ASSUME NEW p \in Pools, InsertUndoes(p) PROVE NoRouteToKilledRuntime'
  BY <1>16 DEF InsertUndoes, DetachKey, probeVars, queryVars, reclaimVars,
      userVars, RuntimeKeys, ProtectsManualTxn, Unroute, Inv, TypeOK, HandsOK,
      RoutedOK, NoRouteToKilledRuntime
<1>17. ASSUME NEW q \in Queries, NEW k \in Keys, QueryClones(q, k) PROVE
    NoRouteToKilledRuntime'
  BY <1>17 DEF QueryClones, insertVars, probeVars, reclaimVars, userVars, Inv,
      TypeOK, HandsOK, RoutedOK, NoRouteToKilledRuntime
<1>18. ASSUME NEW q \in Queries, QueryRegisters(q) PROVE
    NoRouteToKilledRuntime'
  BY <1>18 DEF QueryRegisters, insertVars, probeVars, reclaimVars, userVars,
      Inv, TypeOK, HandsOK, RoutedOK, NoRouteToKilledRuntime
<1>19. ASSUME NEW q \in Queries, QueryCancelled(q) PROVE
    NoRouteToKilledRuntime'
  BY <1>19 DEF QueryCancelled, insertVars, probeVars, reclaimVars, userVars,
      Inv, TypeOK, HandsOK, RoutedOK, NoRouteToKilledRuntime
<1>20. ASSUME NEW q \in Queries, QueryEnds(q) PROVE NoRouteToKilledRuntime'
  BY <1>20 DEF QueryEnds, insertVars, probeVars, reclaimVars, userVars, Inv,
      TypeOK, HandsOK, RoutedOK, NoRouteToKilledRuntime
<1>21. ASSUME NEW q \in Queries, NEW replace \in BOOLEAN, QueryDetaches(q,
    replace) PROVE NoRouteToKilledRuntime'
  BY <1>21 DEF QueryDetaches, DetachIfCurrent, Event, insertVars, probeVars,
      reclaimVars, RuntimeKeys, ProtectsManualTxn, Unroute, Inv, TypeOK,
      HandsOK, RoutedOK, NoRouteToKilledRuntime
<1>22. ASSUME NEW k \in Keys, NEW replace \in BOOLEAN, UserDetaches(k,
    replace) PROVE NoRouteToKilledRuntime'
  BY <1>22 DEF UserDetaches, DetachKey, Event, insertVars, probeVars,
      queryVars, reclaimVars, RuntimeKeys, ProtectsManualTxn, Unroute, Inv,
      TypeOK, HandsOK, RoutedOK, NoRouteToKilledRuntime
<1>23. ASSUME NEW r \in Runtimes, OpenFails(r) PROVE NoRouteToKilledRuntime'
  BY <1>23 DEF OpenFails, RuntimeKeys, Unroute, Event, insertVars, probeVars,
      queryVars, reclaimVars, Inv, TypeOK, HandsOK, RoutedOK,
      NoRouteToKilledRuntime
<1>24. ASSUME NEW r \in Runtimes, RuntimeEnds(r) PROVE NoRouteToKilledRuntime'
  BY <1>24 DEF RuntimeEnds, Event, insertVars, probeVars, queryVars,
      reclaimVars, Inv, TypeOK, HandsOK, RoutedOK, NoRouteToKilledRuntime
<1>25. ASSUME NEW k \in Keys, UserStopsProbe(k) PROVE NoRouteToKilledRuntime'
  BY <1>25 DEF UserStopsProbe, StopKeepalive, Event, insertVars, queryVars,
      reclaimVars, Abort, Inv, TypeOK, HandsOK, RoutedOK,
      NoRouteToKilledRuntime
<1>26. ASSUME NEW k \in Keys, UserRemoves(k) PROVE NoRouteToKilledRuntime'
  BY <1>26 DEF UserRemoves, Unroute, insertVars, probeVars, queryVars,
      reclaimVars, Inv, TypeOK, HandsOK, RoutedOK, NoRouteToKilledRuntime
<1>27. ASSUME NEW k \in Keys, ReclaimBegins(k) PROVE NoRouteToKilledRuntime'
  BY <1>27 DEF ReclaimBegins, StopKeepalive, PoolActive, insertVars,
      queryVars, userVars, Abort, Inv, TypeOK, HandsOK, RoutedOK,
      NoRouteToKilledRuntime
<1>28. CASE ReclaimChecks
  BY <1>28 DEF ReclaimChecks, PoolActive, insertVars, probeVars, queryVars,
      userVars, Inv, TypeOK, HandsOK, RoutedOK, NoRouteToKilledRuntime
<1>29. CASE ReclaimTakes
  BY <1>29 DEF ReclaimTakes, Unroute, ExclusivelyIdle, insertVars, probeVars,
      queryVars, userVars, Holders, Probing, Inv, TypeOK, HandsOK, RoutedOK,
      NoRouteToKilledRuntime
<1>30. CASE RestartReads
  BY <1>30 DEF RestartReads, EndDrain, insertVars, probeVars, queryVars,
      userVars, Inv, TypeOK, HandsOK, RoutedOK, NoRouteToKilledRuntime
<1>31. CASE RestartSpawns
  BY <1>31 DEF RestartSpawns, StartKeepalive, EndDrain, insertVars, queryVars,
      userVars, Abort, Inv, TypeOK, HandsOK, RoutedOK, NoRouteToKilledRuntime
<1>32. CASE ReclaimCloses
  BY <1>32 DEF ReclaimCloses, EndDrain, insertVars, probeVars, queryVars,
      userVars, Inv, TypeOK, HandsOK, RoutedOK, NoRouteToKilledRuntime
<1>33. CASE ReclaimReplaces
  BY <1>33 DEF ReclaimReplaces, ReplaceRuntime, EndDrain, Event, insertVars,
      probeVars, queryVars, RuntimeKeys, Inv, TypeOK, HandsOK, RoutedOK,
      NoRouteToKilledRuntime
<1>34. CASE ReclaimRestores
  BY <1>34 DEF ReclaimRestores, Event, probeVars, queryVars, Inv, TypeOK,
      HandsOK, RoutedOK, NoRouteToKilledRuntime
<1>35. CASE ReclaimRestored
  BY <1>35 DEF ReclaimRestored, EndDrain, insertVars, probeVars, queryVars,
      userVars, Inv, TypeOK, HandsOK, RoutedOK, NoRouteToKilledRuntime
<1>36. CASE UNCHANGED vars
  BY <1>36 DEF vars, Inv, TypeOK, HandsOK, RoutedOK, NoRouteToKilledRuntime
<1>37. QED
  BY <1>1, <1>2, <1>3, <1>4, <1>5, <1>6, <1>7, <1>8, <1>9, <1>10, <1>11,
      <1>12, <1>13, <1>14, <1>15, <1>16, <1>17, <1>18, <1>19, <1>20, <1>21,
      <1>22, <1>23, <1>24, <1>25, <1>26, <1>27, <1>28, <1>29, <1>30, <1>31,
      <1>32, <1>33, <1>34, <1>35, <1>36 DEF Next, InsertSteps, CloseSteps,
      ReclaimSteps, ProbeSteps, QuerySteps, UserSteps

\* Nobody gets hold of a pool that reclaim has taken out.
LEMMA ReclaimPreserved ==
    ASSUME Inv,
           [Next]_vars
    PROVE  ReclaimSparesUsedPools'
<1> USE NullAssumption
<1>1. ASSUME NEW t \in Probes, ProbePings(t) PROVE ReclaimSparesUsedPools'
  BY <1>1 DEF ProbePings, PoolActive, insertVars, queryVars, reclaimVars,
      userVars, Inv, TypeOK, HandsOK, RoutedOK, ReclaimSparesUsedPools,
      Holders
<1>2. ASSUME NEW t \in Probes, ProbeSucceeds(t) PROVE ReclaimSparesUsedPools'
  BY <1>2 DEF ProbeSucceeds, insertVars, queryVars, reclaimVars, userVars,
      Inv, TypeOK, HandsOK, RoutedOK, ReclaimSparesUsedPools, Holders
<1>3. ASSUME NEW t \in Probes, NEW replace \in BOOLEAN, ProbeFails(t, replace)
    PROVE ReclaimSparesUsedPools'
  BY <1>3 DEF ProbeFails, Event, insertVars, queryVars, reclaimVars, Inv,
      TypeOK, HandsOK, RoutedOK, ReclaimSparesUsedPools, Holders
<1>4. ASSUME NEW t \in Probes, ProbeDetaches(t) PROVE ReclaimSparesUsedPools'
  BY <1>4 DEF ProbeDetaches, DetachIfCurrent, EndProbe, insertVars, queryVars,
      reclaimVars, userVars, RuntimeKeys, ProtectsManualTxn, Unroute, Inv,
      TypeOK, HandsOK, RoutedOK, ReclaimSparesUsedPools, Holders
<1>5. ASSUME NEW t \in Probes, ProbeEnds(t) PROVE ReclaimSparesUsedPools'
  BY <1>5 DEF ProbeEnds, EndProbe, insertVars, queryVars, reclaimVars,
      userVars, Inv, TypeOK, HandsOK, RoutedOK, ReclaimSparesUsedPools,
      Holders
<1>6. ASSUME NEW p \in Pools, FinishDetach(p) PROVE ReclaimSparesUsedPools'
  BY <1>6 DEF FinishDetach, StopKeepalive, insertVars, queryVars, reclaimVars,
      userVars, Abort, Inv, TypeOK, HandsOK, RoutedOK, ReclaimSparesUsedPools,
      Holders
<1>7. ASSUME NEW p \in Pools, CloseReads(p) PROVE ReclaimSparesUsedPools'
  BY <1>7 DEF CloseReads, ProtectsManualTxn, insertVars, probeVars, queryVars,
      reclaimVars, userVars, RuntimeKeys, Inv, TypeOK, HandsOK, RoutedOK,
      ReclaimSparesUsedPools, Holders
<1>8. ASSUME NEW p \in Pools, CloseEnds(p) PROVE ReclaimSparesUsedPools'
  BY <1>8 DEF CloseEnds, insertVars, probeVars, queryVars, reclaimVars,
      userVars, Inv, TypeOK, HandsOK, RoutedOK, ReclaimSparesUsedPools,
      Holders
<1>9. ASSUME NEW p \in Pools, CloseFails(p) PROVE ReclaimSparesUsedPools'
  BY <1>9 DEF CloseFails, ReplaceRuntime, Event, insertVars, probeVars,
      queryVars, reclaimVars, RuntimeKeys, Inv, TypeOK, HandsOK, RoutedOK,
      ReclaimSparesUsedPools, Holders
<1>10. ASSUME NEW p \in Pools, NEW k \in Keys, NEW r \in Runtimes, Open(p, k,
    r) PROVE ReclaimSparesUsedPools'
  BY <1>10 DEF Open, probeVars, queryVars, reclaimVars, userVars, Inv, TypeOK,
      HandsOK, RoutedOK, ReclaimSparesUsedPools, Holders
<1>11. ASSUME NEW p \in Pools, InsertWaits(p) PROVE ReclaimSparesUsedPools'
  BY <1>11 DEF InsertWaits, probeVars, queryVars, reclaimVars, userVars, Inv,
      TypeOK, HandsOK, RoutedOK, ReclaimSparesUsedPools, Holders
<1>12. ASSUME NEW p \in Pools, Publish(p) PROVE ReclaimSparesUsedPools'
  BY <1>12 DEF Publish, StopKeepalive, StartKeepalive, Available, queryVars,
      reclaimVars, userVars, Abort, Inv, TypeOK, HandsOK, RoutedOK,
      ReclaimSparesUsedPools, Holders
<1>13. ASSUME NEW p \in Pools, PublishFails(p) PROVE ReclaimSparesUsedPools'
  BY <1>13 DEF PublishFails, ReplaceRuntime, Available, probeVars, queryVars,
      reclaimVars, userVars, RuntimeKeys, Inv, TypeOK, HandsOK, RoutedOK,
      ReclaimSparesUsedPools, Holders
<1>14. ASSUME NEW p \in Pools, InsertFailed(p) PROVE ReclaimSparesUsedPools'
  BY <1>14 DEF InsertFailed, probeVars, queryVars, reclaimVars, userVars, Inv,
      TypeOK, HandsOK, RoutedOK, ReclaimSparesUsedPools, Holders
<1>15. ASSUME NEW p \in Pools, InsertRechecks(p) PROVE ReclaimSparesUsedPools'
  BY <1>15 DEF InsertRechecks, Available, probeVars, queryVars, reclaimVars,
      userVars, Inv, TypeOK, HandsOK, RoutedOK, ReclaimSparesUsedPools,
      Holders
<1>16. ASSUME NEW p \in Pools, InsertUndoes(p) PROVE ReclaimSparesUsedPools'
  BY <1>16 DEF InsertUndoes, DetachKey, probeVars, queryVars, reclaimVars,
      userVars, RuntimeKeys, ProtectsManualTxn, Unroute, Inv, TypeOK, HandsOK,
      RoutedOK, ReclaimSparesUsedPools, Holders
<1>17. ASSUME NEW q \in Queries, NEW k \in Keys, QueryClones(q, k) PROVE
    ReclaimSparesUsedPools'
  BY <1>17 DEF QueryClones, insertVars, probeVars, reclaimVars, userVars, Inv,
      TypeOK, HandsOK, RoutedOK, ReclaimSparesUsedPools, Holders
<1>18. ASSUME NEW q \in Queries, QueryRegisters(q) PROVE
    ReclaimSparesUsedPools'
  BY <1>18 DEF QueryRegisters, insertVars, probeVars, reclaimVars, userVars,
      Inv, TypeOK, HandsOK, RoutedOK, ReclaimSparesUsedPools, Holders
<1>19. ASSUME NEW q \in Queries, QueryCancelled(q) PROVE
    ReclaimSparesUsedPools'
  BY <1>19 DEF QueryCancelled, insertVars, probeVars, reclaimVars, userVars,
      Inv, TypeOK, HandsOK, RoutedOK, ReclaimSparesUsedPools, Holders
<1>20. ASSUME NEW q \in Queries, QueryEnds(q) PROVE ReclaimSparesUsedPools'
  BY <1>20 DEF QueryEnds, insertVars, probeVars, reclaimVars, userVars, Inv,
      TypeOK, HandsOK, RoutedOK, ReclaimSparesUsedPools, Holders
<1>21. ASSUME NEW q \in Queries, NEW replace \in BOOLEAN, QueryDetaches(q,
    replace) PROVE ReclaimSparesUsedPools'
  BY <1>21 DEF QueryDetaches, DetachIfCurrent, Event, insertVars, probeVars,
      reclaimVars, RuntimeKeys, ProtectsManualTxn, Unroute, Inv, TypeOK,
      HandsOK, RoutedOK, ReclaimSparesUsedPools, Holders
<1>22. ASSUME NEW k \in Keys, NEW replace \in BOOLEAN, UserDetaches(k,
    replace) PROVE ReclaimSparesUsedPools'
  BY <1>22 DEF UserDetaches, DetachKey, Event, insertVars, probeVars,
      queryVars, reclaimVars, RuntimeKeys, ProtectsManualTxn, Unroute, Inv,
      TypeOK, HandsOK, RoutedOK, ReclaimSparesUsedPools, Holders
<1>23. ASSUME NEW r \in Runtimes, OpenFails(r) PROVE ReclaimSparesUsedPools'
  BY <1>23 DEF OpenFails, RuntimeKeys, Unroute, Event, insertVars, probeVars,
      queryVars, reclaimVars, Inv, TypeOK, HandsOK, RoutedOK,
      ReclaimSparesUsedPools, Holders
<1>24. ASSUME NEW r \in Runtimes, RuntimeEnds(r) PROVE ReclaimSparesUsedPools'
  BY <1>24 DEF RuntimeEnds, Event, insertVars, probeVars, queryVars,
      reclaimVars, Inv, TypeOK, HandsOK, RoutedOK, ReclaimSparesUsedPools,
      Holders
<1>25. ASSUME NEW k \in Keys, UserStopsProbe(k) PROVE ReclaimSparesUsedPools'
  BY <1>25 DEF UserStopsProbe, StopKeepalive, Event, insertVars, queryVars,
      reclaimVars, Abort, Inv, TypeOK, HandsOK, RoutedOK,
      ReclaimSparesUsedPools, Holders
<1>26. ASSUME NEW k \in Keys, UserRemoves(k) PROVE ReclaimSparesUsedPools'
  BY <1>26 DEF UserRemoves, Unroute, insertVars, probeVars, queryVars,
      reclaimVars, Inv, TypeOK, HandsOK, RoutedOK, ReclaimSparesUsedPools,
      Holders
<1>27. ASSUME NEW k \in Keys, ReclaimBegins(k) PROVE ReclaimSparesUsedPools'
  BY <1>27 DEF ReclaimBegins, StopKeepalive, PoolActive, insertVars,
      queryVars, userVars, Abort, Inv, TypeOK, HandsOK, RoutedOK,
      ReclaimSparesUsedPools, Holders
<1>28. CASE ReclaimChecks
  BY <1>28 DEF ReclaimChecks, PoolActive, insertVars, probeVars, queryVars,
      userVars, Inv, TypeOK, HandsOK, RoutedOK, ReclaimSparesUsedPools,
      Holders
<1>29. CASE ReclaimTakes
  BY <1>29 DEF ReclaimTakes, Unroute, ExclusivelyIdle, insertVars, probeVars,
      queryVars, userVars, Holders, Probing, Inv, TypeOK, HandsOK, RoutedOK,
      ReclaimSparesUsedPools, Holders
<1>30. CASE RestartReads
  BY <1>30 DEF RestartReads, EndDrain, insertVars, probeVars, queryVars,
      userVars, Inv, TypeOK, HandsOK, RoutedOK, ReclaimSparesUsedPools,
      Holders
<1>31. CASE RestartSpawns
  BY <1>31 DEF RestartSpawns, StartKeepalive, EndDrain, insertVars, queryVars,
      userVars, Abort, Inv, TypeOK, HandsOK, RoutedOK, ReclaimSparesUsedPools,
      Holders
<1>32. CASE ReclaimCloses
  BY <1>32 DEF ReclaimCloses, EndDrain, insertVars, probeVars, queryVars,
      userVars, Inv, TypeOK, HandsOK, RoutedOK, ReclaimSparesUsedPools,
      Holders
<1>33. CASE ReclaimReplaces
  BY <1>33 DEF ReclaimReplaces, ReplaceRuntime, EndDrain, Event, insertVars,
      probeVars, queryVars, RuntimeKeys, Inv, TypeOK, HandsOK, RoutedOK,
      ReclaimSparesUsedPools, Holders
<1>34. CASE ReclaimRestores
  BY <1>34 DEF ReclaimRestores, Event, probeVars, queryVars, Inv, TypeOK,
      HandsOK, RoutedOK, ReclaimSparesUsedPools, Holders
<1>35. CASE ReclaimRestored
  BY <1>35 DEF ReclaimRestored, EndDrain, insertVars, probeVars, queryVars,
      userVars, Inv, TypeOK, HandsOK, RoutedOK, ReclaimSparesUsedPools,
      Holders
<1>36. CASE UNCHANGED vars
  BY <1>36 DEF vars, Inv, TypeOK, HandsOK, RoutedOK, ReclaimSparesUsedPools,
      Holders
<1>37. QED
  BY <1>1, <1>2, <1>3, <1>4, <1>5, <1>6, <1>7, <1>8, <1>9, <1>10, <1>11,
      <1>12, <1>13, <1>14, <1>15, <1>16, <1>17, <1>18, <1>19, <1>20, <1>21,
      <1>22, <1>23, <1>24, <1>25, <1>26, <1>27, <1>28, <1>29, <1>30, <1>31,
      <1>32, <1>33, <1>34, <1>35, <1>36 DEF Next, InsertSteps, CloseSteps,
      ReclaimSteps, ProbeSteps, QuerySteps, UserSteps

-----------------------------------------------------------------------------
(* Theorems                                                                *)

\* The inductive invariant holds in every reachable state.
LEMMA Invariance == Spec => []Inv
<1>1. Init => Inv
  BY InitInv
<1>2. Inv /\ [Next]_vars => Inv'
  <2> SUFFICES ASSUME Inv, [Next]_vars PROVE Inv'
    OBVIOUS
  <2>1. TypeOK'
    BY TypePreserved
  <2>2. KeyOK' /\ HandsOK' /\ OpenedOK'
    BY KeyPreserved, HandsPreserved, OpenedPreserved
  <2>3. RoutedOK' /\ OwnersOK'
    BY RoutesPreserved, OwnersPreserved
  <2>4. NoRouteToKilledRuntime' /\ ReclaimSparesUsedPools'
    BY KilledPreserved, ReclaimPreserved
  <2> QED
    BY <2>1, <2>2, <2>3, <2>4 DEF Inv
<1> QED
  BY <1>1, <1>2, PTL DEF Spec

\* Type correctness of the model of the routing table.
THEOREM TypeCorrect == Spec => []TypeOK
<1>1. Inv => TypeOK
  BY DEF Inv
<1> QED
  BY <1>1, Invariance, PTL

\* Every open pool has one owner: the table, the insert that publishes it, the
\* reclaim that took it, or the path that closes it (insert_connection_pool_inner,
\* detach_pool_by_key, detach_agent_pool_if_current, reclaim).
THEOREM PoolsHaveOneOwner == Spec => []EveryPoolHasOneOwner
<1>1. Inv => EveryPoolHasOneOwner
  BY NullAssumption DEF Inv, KeyOK, HandsOK, RoutedOK, OwnersOK,
      EveryPoolHasOneOwner
<1> QED
  BY <1>1, Invariance, PTL

\* No pool of a runtime that routing has fail_stop()ped is routed, whatever
\* other runtimes do (is_available_for_routing under the connections lock).
THEOREM KilledHasNoRoute == Spec => []NoRouteToKilledRuntime
<1>1. Inv => NoRouteToKilledRuntime
  BY DEF Inv
<1> QED
  BY <1>1, Invariance, PTL

\* A pool that try_reclaim_idle_agent_pool closes has no other holder.
THEOREM ReclaimIsExclusive == Spec => []ReclaimSparesUsedPools
<1>1. Inv => ReclaimSparesUsedPools
  BY DEF Inv
<1> QED
  BY <1>1, Invariance, PTL

\* A failed probe takes a replacement of its pool out of the table only with
\* its runtime (detach_agent_pool_if_current, Arc::ptr_eq).
THEOREM ProbesAreHarmless == Spec => ProbesSpareReplacements
<1> DEFINE Harm(t, k) ==
      /\ ProbeDetaches(t)
      /\ connections[k] \notin {target[t], Null} /\ connections'[k] = Null
      /\ runtime[connections[k]] \notin killed'
<1>1. ASSUME Inv, NEW t \in Probes, NEW k \in Keys
      PROVE  ~Harm(t, k)
  <2> SUFFICES ASSUME Harm(t, k) PROVE FALSE
    OBVIOUS
  <2>1. CASE /\ replaces[t] /\ ~ProtectsManualTxn(runtime[target[t]])
             /\ key[target[t]] \notin ManualKeys
    BY <1>1, <2>1, NullAssumption
       DEF ProbeDetaches, DetachIfCurrent, Unroute, RuntimeKeys, Inv, TypeOK
  <2>2. CASE ~(/\ replaces[t] /\ ~ProtectsManualTxn(runtime[target[t]])
               /\ key[target[t]] \notin ManualKeys)
    BY <1>1, <2>2, NullAssumption
       DEF ProbeDetaches, DetachIfCurrent, Unroute, Inv, TypeOK
  <2> QED
    BY <2>1, <2>2
<1>2. Inv => \A t \in Probes, k \in Keys : ~Harm(t, k)
  BY <1>1
<1> QED
  BY <1>2, Invariance, PTL DEF ProbesSpareReplacements

-----------------------------------------------------------------------------
(* Refinement of TaskSupervisor                                            *)

Live(t) == probe[t] \in {"sleep", "ping", "detach"}

\* A pool that was opened stays opened, and keeps its key.
LEMMA PoolsKeepKeys ==
    ASSUME Inv, [Next]_vars
    PROVE  \A o \in Pools : place[o] # "unused" => place'[o] # "unused" /\ key'[o] = key[o]
<1> DEFINE Kept == \A o \in Pools : place[o] # "unused" => place'[o] # "unused" /\ key'[o] = key[o]
<1> SUFFICES Kept
  OBVIOUS
<1>1. ASSUME NEW p \in Pools, InsertSteps(p) PROVE Kept
  <2>1. CASE InsertUndoes(p)
    BY <1>1, <2>1 DEF InsertUndoes, DetachKey, Unroute, Inv, TypeOK
  <2>2. CASE Publish(p)
    BY <1>1, <2>2 DEF Publish, Inv, TypeOK
  <2>3. CASE PublishFails(p)
    BY <1>1, <2>3 DEF PublishFails, ReplaceRuntime, Inv, TypeOK
  <2> QED
    BY <1>1, <2>1, <2>2, <2>3 DEF InsertSteps, InsertWaits, InsertFailed, InsertRechecks
<1>2. ASSUME NEW p \in Pools, CloseSteps(p) PROVE Kept
  BY <1>2 DEF CloseSteps, FinishDetach, CloseReads, CloseEnds, CloseFails, ReplaceRuntime,
      Inv, TypeOK
<1>3. ASSUME NEW t \in Probes, ProbeSteps(t) PROVE Kept
  BY <1>3 DEF ProbeSteps, ProbePings, ProbeSucceeds, ProbeFails, ProbeDetaches, ProbeEnds,
      DetachIfCurrent, Unroute, Inv, TypeOK
<1>4. ASSUME NEW q \in Queries, QuerySteps(q) PROVE Kept
  BY <1>4 DEF QuerySteps, QueryClones, QueryRegisters, QueryCancelled, QueryEnds,
      QueryDetaches, DetachIfCurrent, Unroute, Inv, TypeOK
<1>5. ASSUME NEW k \in Keys, UserSteps(k) PROVE Kept
  <2>1. ASSUME NEW p \in Pools, NEW r \in Runtimes, Open(p, k, r) PROVE Kept
    BY <2>1 DEF Open, Inv, TypeOK
  <2>2. ASSUME NEW replace \in BOOLEAN, UserDetaches(k, replace) PROVE Kept
    BY <2>2 DEF UserDetaches, DetachKey, Unroute, Inv, TypeOK
  <2>3. CASE UserStopsProbe(k) \/ UserRemoves(k) \/ ReclaimBegins(k)
    BY <2>3 DEF UserStopsProbe, UserRemoves, ReclaimBegins, Unroute, Inv, TypeOK
  <2> QED
    BY <1>5, <2>1, <2>2, <2>3 DEF UserSteps
<1>6. ASSUME NEW r \in Runtimes, OpenFails(r) \/ RuntimeEnds(r) PROVE Kept
  BY <1>6 DEF OpenFails, RuntimeEnds, Unroute, Inv, TypeOK
<1>7. CASE ReclaimSteps
  <2>1. CASE ReclaimTakes
    BY <2>1 DEF ReclaimTakes, Unroute, Inv, TypeOK
  <2>2. CASE ReclaimReplaces
    BY <2>2 DEF ReclaimReplaces, ReplaceRuntime, Inv, TypeOK
  <2>3. CASE ReclaimCloses \/ ReclaimRestores
    BY <2>3 DEF ReclaimCloses, ReclaimRestores, Inv, TypeOK
  <2> QED
    BY <1>7, <2>1, <2>2, <2>3 DEF ReclaimSteps, ReclaimChecks, RestartReads,
        RestartSpawns, ReclaimRestored
<1>8. CASE UNCHANGED vars
  BY <1>8 DEF vars
<1> QED
  BY <1>1, <1>2, <1>3, <1>4, <1>5, <1>6, <1>7, <1>8 DEF Next

\* What is true of keepalive tasks: their pool was opened; only a live task is
\* aborted, and a live one that is not is under the key of its pool; the map
\* holds tasks that were started; reclaim waits for a task, and restarts one
\* for a pool of the key that it drains.
ProbesOK ==
    /\ \A t \in Probes : target[t] # Null => place[target[t]] # "unused"
    /\ \A t \in aborted : Live(t)
    /\ \A t \in Probes : Live(t) => t \in aborted \/ keepalive[key[target[t]]] = t
    /\ \A k \in Keys : keepalive[k] # Null => probe[keepalive[k]] # "unused"
    /\ reclaim = "stopping" => reclaimed \in Probes \cup {Null}
    /\ reclaim = "spawn" => key[reclaimed] = reclaim_key

\* The ways in which a step may change what the supervisor sees.
Rests == UNCHANGED <<keepalive, ProbeTask, target, aborted, AwaitedProbes>>
Ends == /\ \E t \in Probes : Live(t) /\ EndProbe(t)
        /\ UNCHANGED <<keepalive, AwaitedProbes>>
Stops == /\ \E k \in Keys : StopKeepalive(k)
         /\ UNCHANGED <<probe, target, AwaitedProbes>>
Starts == /\ \E p \in Pools : place[p] # "unused" /\ StartKeepalive(key[p], p)
          /\ UNCHANGED <<key, AwaitedProbes>>

\* Steps that touch neither the tasks nor the reclaim rest.
LEMMA Resting ==
    ASSUME UNCHANGED <<keepalive, probe, target, aborted, reclaim, reclaimed>>
    PROVE  Rests
BY DEF Rests, ProbeTask, AwaitedProbes

\* Every step is of one of these kinds, or reclaim begins to wait or ends it.
LEMMA ProbeEffects ==
    ASSUME Inv, ProbesOK, [Next]_vars
    PROVE  \/ Rests \/ Ends \/ Stops \/ Starts
           \/ \E k \in Keys : ReclaimBegins(k)
           \/ ReclaimChecks
<1>1. ASSUME NEW p \in Pools, InsertSteps(p) PROVE Rests \/ Stops \/ Starts
  <2>1. CASE Publish(p)
    <3>1. key[p] \in Keys /\ place[p] # "unused"
      BY <2>1 DEF Publish, Inv, HandsOK, TypeOK
    <3>2. UNCHANGED AwaitedProbes /\ UNCHANGED key
      BY <2>1 DEF Publish, reclaimVars, AwaitedProbes
    <3>3. CASE key[p] \in ManualKeys
      <4>1. StopKeepalive(key[p]) /\ UNCHANGED <<probe, target>>
        BY <2>1, <3>3 DEF Publish
      <4> QED
        BY <3>1, <3>2, <4>1 DEF Stops
    <3>4. CASE key[p] \notin ManualKeys
      <4>1. StartKeepalive(key[p], p)
        BY <2>1, <3>4 DEF Publish
      <4> QED
        BY <3>1, <3>2, <4>1 DEF Starts
    <3> QED
      BY <3>3, <3>4
  <2>2. CASE ~Publish(p)
    BY <1>1, <2>2, Resting DEF InsertSteps, InsertWaits, PublishFails, InsertFailed,
        InsertRechecks, InsertUndoes, probeVars, reclaimVars
  <2> QED
    BY <2>1, <2>2
<1>2. ASSUME NEW p \in Pools, CloseSteps(p) PROVE Rests \/ Stops
  <2>1. CASE FinishDetach(p)
    <3>1. key[p] \in Keys
      BY <2>1 DEF FinishDetach, Inv, TypeOK
    <3> QED
      BY <2>1, <3>1 DEF FinishDetach, Stops, reclaimVars, AwaitedProbes
  <2>2. CASE ~FinishDetach(p)
    BY <1>2, <2>2, Resting DEF CloseSteps, CloseReads, CloseEnds, CloseFails,
        probeVars, reclaimVars
  <2> QED
    BY <2>1, <2>2
<1>3. ASSUME NEW t \in Probes, ProbeSteps(t) PROVE Rests \/ Ends
  <2>1. CASE ProbeDetaches(t) \/ ProbeEnds(t)
    <3>1. EndProbe(t) /\ UNCHANGED <<keepalive, AwaitedProbes>>
      BY <2>1 DEF ProbeDetaches, ProbeEnds, reclaimVars, AwaitedProbes
    <3>2. Live(t)
      BY <2>1 DEF ProbeDetaches, ProbeEnds, ProbesOK, Live
    <3> QED
      BY <3>1, <3>2 DEF Ends
  <2>2. CASE ProbePings(t) \/ ProbeSucceeds(t) \/ \E replace \in BOOLEAN : ProbeFails(t, replace)
    <3>1. /\ UNCHANGED <<keepalive, target, aborted, reclaim, reclaimed>>
          /\ Live(t) /\ \E s \in {"sleep", "ping", "detach"} : probe' = [probe EXCEPT ![t] = s]
      BY <2>2 DEF ProbePings, ProbeSucceeds, ProbeFails, reclaimVars, Live
    <3>2. UNCHANGED ProbeTask
      BY <3>1 DEF ProbeTask, Live, Inv, TypeOK
    <3> QED
      BY <3>1, <3>2 DEF Rests, AwaitedProbes
  <2> QED
    BY <1>3, <2>1, <2>2 DEF ProbeSteps
<1>4. ASSUME NEW q \in Queries, QuerySteps(q) PROVE Rests
  BY <1>4, Resting DEF QuerySteps, QueryClones, QueryRegisters, QueryCancelled, QueryEnds,
      QueryDetaches, probeVars, reclaimVars
<1>5. ASSUME NEW k \in Keys, UserSteps(k) PROVE Rests \/ Stops \/ ReclaimBegins(k)
  <2>1. CASE UserStopsProbe(k)
    BY <2>1 DEF UserStopsProbe, Stops, reclaimVars, AwaitedProbes
  <2>2. CASE ~UserStopsProbe(k) /\ ~ReclaimBegins(k)
    BY <1>5, <2>2, Resting DEF UserSteps, Open, UserDetaches, UserRemoves,
        probeVars, reclaimVars
  <2> QED
    BY <2>1, <2>2
<1>6. ASSUME NEW r \in Runtimes, OpenFails(r) \/ RuntimeEnds(r) PROVE Rests
  BY <1>6, Resting DEF OpenFails, RuntimeEnds, probeVars, reclaimVars
<1>7. CASE ReclaimSteps
  <2>1. CASE RestartSpawns
    <3>1. reclaimed \in Pools /\ key[reclaimed] = reclaim_key /\ place[reclaimed] # "unused"
      BY <2>1 DEF RestartSpawns, Inv, TypeOK, OpenedOK, ProbesOK
    <3>2. UNCHANGED key /\ UNCHANGED AwaitedProbes
      BY <2>1 DEF RestartSpawns, EndDrain, AwaitedProbes
    <3>3. StartKeepalive(key[reclaimed], reclaimed)
      BY <2>1, <3>1 DEF RestartSpawns
    <3> QED
      BY <3>1, <3>2, <3>3 DEF Starts
  <2>2. CASE /\ ~RestartSpawns /\ ~ReclaimChecks
    <3>1. /\ UNCHANGED <<keepalive, probe, target, aborted>>
          /\ reclaim # "stopping" /\ reclaim' # "stopping"
      BY <1>7, <2>2 DEF ReclaimSteps, ReclaimTakes, RestartReads, ReclaimCloses,
          ReclaimReplaces, ReclaimRestores, ReclaimRestored, EndDrain, probeVars
    <3> QED
      BY <3>1 DEF Rests, ProbeTask, AwaitedProbes
  <2> QED
    BY <2>1, <2>2
<1>8. CASE UNCHANGED vars
  BY <1>8, Resting DEF vars
<1> QED
  BY <1>1, <1>2, <1>3, <1>4, <1>5, <1>6, <1>7, <1>8 DEF Next

\* Nobody but reclaim changes what reclaim keeps.
LEMMA ReclaimEffects ==
    ASSUME [Next]_vars
    PROVE  UNCHANGED reclaimVars \/ ReclaimSteps \/ \E k \in Keys : ReclaimBegins(k)
<1> USE DEF reclaimVars
<1>1. ASSUME NEW p \in Pools, InsertSteps(p) \/ CloseSteps(p) PROVE UNCHANGED reclaimVars
  BY <1>1 DEF InsertSteps, InsertWaits, Publish, PublishFails, InsertFailed,
      InsertRechecks, InsertUndoes, CloseSteps, FinishDetach, CloseReads, CloseEnds,
      CloseFails
<1>2. ASSUME NEW t \in Probes, ProbeSteps(t) PROVE UNCHANGED reclaimVars
  BY <1>2 DEF ProbeSteps, ProbePings, ProbeSucceeds, ProbeFails, ProbeDetaches, ProbeEnds
<1>3. ASSUME NEW q \in Queries, QuerySteps(q) PROVE UNCHANGED reclaimVars
  BY <1>3 DEF QuerySteps, QueryClones, QueryRegisters, QueryCancelled, QueryEnds,
      QueryDetaches
<1>4. ASSUME NEW k \in Keys, UserSteps(k) PROVE UNCHANGED reclaimVars \/ ReclaimBegins(k)
  BY <1>4 DEF UserSteps, Open, UserDetaches, UserStopsProbe, UserRemoves
<1>5. ASSUME NEW r \in Runtimes, OpenFails(r) \/ RuntimeEnds(r) PROVE UNCHANGED reclaimVars
  BY <1>5 DEF OpenFails, RuntimeEnds
<1>6. CASE UNCHANGED vars
  BY <1>6 DEF vars
<1> QED
  BY <1>1, <1>2, <1>3, <1>4, <1>5, <1>6 DEF Next

\* What a stop does to the tasks: the one under the key, if it lives, is aborted.
LEMMA StopFacts ==
    ASSUME Inv, ProbesOK, NEW k \in Keys, StopKeepalive(k), UNCHANGED <<probe, target>>,
           [Next]_vars
    PROVE  /\ \A t \in aborted' : Live(t)'
           /\ \A t \in Probes : Live(t)' => t \in aborted' \/ keepalive'[key'[target'[t]]] = t
           /\ \A l \in Keys : keepalive'[l] # Null => probe'[keepalive'[l]] # "unused"
<1>1. aborted' = aborted \cup {t \in Probes : t = keepalive[k] /\ probe[t] # "ended"}
  BY DEF StopKeepalive, Abort
<1>2. keepalive' = [keepalive EXCEPT ![k] = Null]
  BY DEF StopKeepalive
<1>3. \A t \in aborted' : Live(t)'
  BY <1>1, NullAssumption DEF ProbesOK, Live, Inv, TypeOK
<1>4. ASSUME NEW t \in Probes, Live(t)' PROVE t \in aborted' \/ keepalive'[key'[target'[t]]] = t
  <2>1. Live(t) /\ target[t] \in Pools /\ place[target[t]] # "unused"
    BY <1>4 DEF Live, Inv, TypeOK, OpenedOK
  <2>2. key'[target'[t]] = key[target[t]] /\ key[target[t]] \in Keys
    BY <2>1, PoolsKeepKeys DEF Inv, TypeOK
  <2>3. t \in aborted \/ keepalive[key[target[t]]] = t
    BY <2>1 DEF ProbesOK
  <2>4. probe[t] # "ended"
    BY <2>1 DEF Live
  <2> QED
    BY <1>1, <1>2, <2>2, <2>3, <2>4 DEF Inv, TypeOK
<1>5. \A l \in Keys : keepalive'[l] # Null => probe'[keepalive'[l]] # "unused"
  BY <1>2 DEF ProbesOK, Inv, TypeOK
<1> QED
  BY <1>3, <1>4, <1>5

\* What a start does: a new task is under the key, the one before it is aborted.
LEMMA StartFacts ==
    ASSUME Inv, ProbesOK, NEW p \in Pools, place[p] # "unused", StartKeepalive(key[p], p),
           UNCHANGED key
    PROVE  /\ \A t \in aborted' : Live(t)'
           /\ \A t \in Probes : Live(t)' => t \in aborted' \/ keepalive'[key'[target'[t]]] = t
           /\ \A l \in Keys : keepalive'[l] # Null => probe'[keepalive'[l]] # "unused"
           /\ \A t \in Probes : target'[t] \in {target[t], p}
<1>1. key[p] \in Keys
  BY DEF Inv, TypeOK
<1>2. PICK u \in Probes :
         /\ probe[u] = "unused"
         /\ probe' = [probe EXCEPT ![u] = "sleep"]
         /\ target' = [target EXCEPT ![u] = p]
         /\ keepalive' = [keepalive EXCEPT ![key[p]] = u]
         /\ aborted' = aborted \cup {t \in Probes : t = keepalive[key[p]] /\ probe[t] # "ended"}
  BY DEF StartKeepalive, Abort
<1>3. \A t \in aborted' : Live(t)'
  BY <1>1, <1>2, NullAssumption DEF ProbesOK, Live, Inv, TypeOK
<1>4. ASSUME NEW t \in Probes, Live(t)' PROVE t \in aborted' \/ keepalive'[key'[target'[t]]] = t
  <2>1. CASE t = u
    BY <1>1, <1>2, <2>1 DEF Inv, TypeOK
  <2>2. CASE t # u
    <3>1. Live(t) /\ target'[t] = target[t] /\ target[t] \in Pools
      BY <1>2, <1>4, <2>2 DEF Live, Inv, TypeOK
    <3>2. key[target[t]] \in Keys
      BY <3>1 DEF Live, Inv, TypeOK, OpenedOK
    <3>3. t \in aborted \/ keepalive[key[target[t]]] = t
      BY <3>1 DEF ProbesOK
    <3>4. probe[t] # "ended"
      BY <3>1 DEF Live
    <3> QED
      BY <1>1, <1>2, <3>1, <3>2, <3>3, <3>4 DEF Inv, TypeOK
  <2> QED
    BY <2>1, <2>2
<1>5. \A l \in Keys : keepalive'[l] # Null => probe'[keepalive'[l]] # "unused"
  BY <1>1, <1>2 DEF ProbesOK, Inv, TypeOK
<1>6. \A t \in Probes : target'[t] \in {target[t], p}
  BY <1>2 DEF Inv, TypeOK
<1> QED
  BY <1>3, <1>4, <1>5, <1>6

\* Every step keeps what is true of keepalive tasks.
LEMMA ProbesPreserved ==
    ASSUME Inv, ProbesOK, [Next]_vars
    PROVE  ProbesOK'
<1> USE NullAssumption
<1>1. reclaim' = "spawn" => key'[reclaimed'] = reclaim_key'
  <2>1. CASE RestartReads
    BY <2>1 DEF RestartReads, EndDrain, Inv, TypeOK, KeyOK
  <2>2. CASE UNCHANGED reclaimVars
    BY <2>2, PoolsKeepKeys DEF reclaimVars, ProbesOK, Inv, TypeOK, OpenedOK
  <2>3. CASE ReclaimSteps /\ ~RestartReads
    BY <2>3 DEF ReclaimSteps, ReclaimChecks, ReclaimTakes, RestartSpawns, ReclaimCloses,
        ReclaimReplaces, ReclaimRestores, ReclaimRestored, EndDrain
  <2>4. CASE \E k \in Keys : ReclaimBegins(k)
    BY <2>4 DEF ReclaimBegins
  <2> QED
    BY <2>1, <2>2, <2>3, <2>4, ReclaimEffects
<1>2. reclaim' = "stopping" => reclaimed' \in Probes \cup {Null}
  <2>1. CASE \E k \in Keys : ReclaimBegins(k)
    BY <2>1 DEF ReclaimBegins, Inv, TypeOK
  <2>2. CASE UNCHANGED reclaimVars
    BY <2>2 DEF reclaimVars, ProbesOK
  <2>3. CASE ReclaimSteps
    BY <2>3 DEF ReclaimSteps, ReclaimChecks, ReclaimTakes, RestartReads, RestartSpawns,
        ReclaimCloses, ReclaimReplaces, ReclaimRestores, ReclaimRestored, EndDrain
  <2> QED
    BY <2>1, <2>2, <2>3, ReclaimEffects
<1>3. CASE Rests \/ ReclaimChecks
  <2>1. UNCHANGED <<keepalive, target, aborted, ProbeTask>>
    BY <1>3 DEF Rests, ReclaimChecks, probeVars, ProbeTask
  <2>2. \A t \in Probes : /\ Live(t)' <=> Live(t)
                          /\ probe'[t] = "unused" <=> probe[t] = "unused"
    <3>1. \A t \in Probes : ProbeTask'[t] = ProbeTask[t]
      BY <2>1
    <3>2. probe' \in [Probes -> {"unused", "sleep", "ping", "detach", "ended"}]
      BY TypePreserved DEF TypeOK
    <3> QED
      BY <3>1, <3>2 DEF ProbeTask, Live, Inv, TypeOK
  <2>3. \A t \in Probes : target'[t] # Null => place'[target'[t]] # "unused"
    BY <2>1, PoolsKeepKeys DEF ProbesOK, Inv, TypeOK
  <2>4. \A t \in Probes : Live(t)' => t \in aborted' \/ keepalive'[key'[target'[t]]] = t
    <3> SUFFICES ASSUME NEW t \in Probes, Live(t)
                 PROVE  t \in aborted' \/ keepalive'[key'[target'[t]]] = t
      BY <2>2
    <3>1. target[t] \in Pools /\ place[target[t]] # "unused"
      BY DEF Live, Inv, TypeOK, OpenedOK
    <3> QED
      BY <2>1, <3>1, PoolsKeepKeys DEF ProbesOK
  <2>5. \A t \in aborted' : Live(t)'
    BY <2>1, <2>2 DEF ProbesOK, Inv, TypeOK
  <2>6. \A k \in Keys : keepalive'[k] # Null => probe'[keepalive'[k]] # "unused"
    BY <2>1, <2>2 DEF ProbesOK, Inv, TypeOK
  <2> QED
    BY <1>1, <1>2, <2>3, <2>4, <2>5, <2>6 DEF ProbesOK
<1>4. CASE Ends
  <2>1. PICK u \in Probes : EndProbe(u)
    BY <1>4 DEF Ends
  <2>2. UNCHANGED <<keepalive, target>>
    BY <1>4, <2>1 DEF Ends, EndProbe
  <2>3. /\ aborted' = aborted \ {u}
        /\ \A t \in Probes : probe'[t] = IF t = u THEN "ended" ELSE probe[t]
    BY <2>1 DEF EndProbe, Inv, TypeOK
  <2>4. \A t \in Probes : target'[t] # Null => place'[target'[t]] # "unused"
    BY <2>2, PoolsKeepKeys DEF ProbesOK, Inv, TypeOK
  <2>5. ASSUME NEW t \in Probes, Live(t)'
        PROVE  t \in aborted' \/ keepalive'[key'[target'[t]]] = t
    <3>1. t # u /\ Live(t)
      BY <2>3, <2>5 DEF Live
    <3>2. target[t] \in Pools /\ place[target[t]] # "unused"
      BY <3>1 DEF Live, Inv, TypeOK, OpenedOK
    <3> QED
      BY <2>2, <2>3, <3>1, <3>2, PoolsKeepKeys DEF ProbesOK
  <2>6. \A t \in aborted' : Live(t)'
    BY <2>3 DEF ProbesOK, Live, Inv, TypeOK
  <2>7. \A k \in Keys : keepalive'[k] # Null => probe'[keepalive'[k]] # "unused"
    BY <2>2, <2>3 DEF ProbesOK, Inv, TypeOK
  <2> QED
    BY <1>1, <1>2, <2>4, <2>5, <2>6, <2>7 DEF ProbesOK
<1>5. CASE Stops \/ \E k \in Keys : ReclaimBegins(k)
  <2>1. PICK k \in Keys : StopKeepalive(k) /\ UNCHANGED <<probe, target>>
    BY <1>5 DEF Stops, ReclaimBegins
  <2>2. \A t \in Probes : target'[t] # Null => place'[target'[t]] # "unused"
    BY <2>1, PoolsKeepKeys DEF ProbesOK, Inv, TypeOK
  <2> QED
    BY <1>1, <1>2, <2>1, <2>2, StopFacts DEF ProbesOK
<1>6. CASE Starts
  <2>1. PICK p \in Pools : place[p] # "unused" /\ StartKeepalive(key[p], p)
    BY <1>6 DEF Starts
  <2>2. UNCHANGED key
    BY <1>6 DEF Starts
  <2>3. /\ \A t \in aborted' : Live(t)'
        /\ \A t \in Probes : Live(t)' => t \in aborted' \/ keepalive'[key'[target'[t]]] = t
        /\ \A l \in Keys : keepalive'[l] # Null => probe'[keepalive'[l]] # "unused"
        /\ \A t \in Probes : target'[t] \in {target[t], p}
    BY <2>1, <2>2, StartFacts
  <2>4. \A t \in Probes : target'[t] # Null => place'[target'[t]] # "unused"
    BY <2>1, <2>3, PoolsKeepKeys DEF ProbesOK, Inv, TypeOK
  <2> QED
    BY <1>1, <1>2, <2>3, <2>4 DEF ProbesOK
<1> QED
  BY <1>3, <1>4, <1>5, <1>6, ProbeEffects

\* A step of the routing table is a step of the supervisor, or none.
LEMMA SupervisorStep ==
    ASSUME Inv, ProbesOK, [Next]_vars
    PROVE  Supervisor!Next \/ UNCHANGED Supervisor!vars
<1> USE NullAssumption
<1>1. ASSUME NEW t \in Probes, target'[t] = target[t] PROVE ProbeKey'[t] = ProbeKey[t]
  <2>1. CASE target[t] = Null
    BY <1>1, <2>1 DEF ProbeKey
  <2>2. CASE target[t] # Null
    <3>1. target[t] \in Pools /\ place[target[t]] # "unused"
      BY <2>2 DEF ProbesOK, Inv, TypeOK
    <3>2. key'[target[t]] = key[target[t]]
      BY <3>1, PoolsKeepKeys
    <3> QED
      BY <1>1, <2>2, <3>2 DEF ProbeKey
  <2> QED
    BY <2>1, <2>2
<1>2. ASSUME UNCHANGED target PROVE UNCHANGED ProbeKey
  <2>1. \A t \in Probes : ProbeKey'[t] = ProbeKey[t]
    BY <1>1, <1>2
  <2> QED
    BY <2>1 DEF ProbeKey
<1>3. CASE Rests
  BY <1>2, <1>3 DEF Rests, Supervisor!vars
<1>4. CASE Ends
  <2>1. PICK t \in Probes : Live(t) /\ EndProbe(t)
    BY <1>4 DEF Ends
  <2>2. ProbeTask[t] = "running"
    BY <2>1 DEF ProbeTask, Live
  <2>3. ProbeTask' = [ProbeTask EXCEPT ![t] = "ended"]
    BY <2>1 DEF EndProbe, ProbeTask, Inv, TypeOK
  <2>4. UNCHANGED ProbeKey
    BY <1>2, <2>1 DEF EndProbe
  <2>5. Supervisor!BodyEnds(t)
    BY <1>4, <2>1, <2>2, <2>3, <2>4 DEF Ends, EndProbe, Supervisor!BodyEnds
  <2> QED
    BY <2>5 DEF Supervisor!Next, Supervisor!TaskStep
<1>5. ASSUME NEW k \in Keys, StopKeepalive(k), UNCHANGED <<probe, target>>
      PROVE  /\ UNCHANGED <<ProbeTask, ProbeKey>>
             /\ keepalive[k] = Null => UNCHANGED <<keepalive, aborted>>
             /\ Supervisor!Abort(k)
  <2>1. UNCHANGED <<ProbeTask, ProbeKey>>
    BY <1>2, <1>5 DEF ProbeTask
  <2>2. keepalive[k] = Null => UNCHANGED <<keepalive, aborted>>
    BY <1>5 DEF StopKeepalive, Abort, Inv, TypeOK
  <2>3. \A t \in Probes : ProbeTask[t] # "ended" <=> probe[t] # "ended"
    BY DEF ProbeTask
  <2>4. Supervisor!Abort(k)
    BY <1>5, <2>3 DEF StopKeepalive, Abort, Supervisor!Abort
  <2> QED
    BY <2>1, <2>2, <2>4
<1>6. CASE Stops
  <2>1. PICK k \in Keys : StopKeepalive(k) /\ UNCHANGED <<probe, target>>
    BY <1>6 DEF Stops
  <2>2. CASE keepalive[k] = Null
    BY <1>5, <1>6, <2>1, <2>2 DEF Stops, Supervisor!vars
  <2>3. CASE keepalive[k] # Null
    <3>1. Supervisor!stop(k)
      BY <1>5, <1>6, <2>1, <2>3 DEF Stops, StopKeepalive, Supervisor!stop
    <3> QED
      BY <3>1 DEF Supervisor!Next
  <2> QED
    BY <2>2, <2>3
<1>7. CASE Starts
  <2>1. PICK p \in Pools : place[p] # "unused" /\ StartKeepalive(key[p], p)
    BY <1>7 DEF Starts
  <2>2. UNCHANGED <<key, AwaitedProbes>>
    BY <1>7 DEF Starts
  <2>3. key[p] \in Keys
    BY <2>1 DEF Inv, TypeOK
  <2>4. PICK t \in Probes :
           /\ probe[t] = "unused"
           /\ probe' = [probe EXCEPT ![t] = "sleep"]
           /\ target' = [target EXCEPT ![t] = p]
           /\ keepalive' = [keepalive EXCEPT ![key[p]] = t]
           /\ Abort(key[p])
    BY <2>1 DEF StartKeepalive
  <2>5. ProbeTask[t] = "unused" /\ ProbeTask' = [ProbeTask EXCEPT ![t] = "running"]
    BY <2>4 DEF ProbeTask, Inv, TypeOK
  <2>6. ProbeKey' = [ProbeKey EXCEPT ![t] = key[p]]
    BY <2>2, <2>4 DEF ProbeKey, Inv, TypeOK
  <2>7. Supervisor!Spawn(key[p], t, "running")
    BY <2>4, <2>5, <2>6 DEF Supervisor!Spawn
  <2>8. \A u \in Probes : ProbeTask[u] # "ended" <=> probe[u] # "ended"
    BY DEF ProbeTask
  <2>9. Supervisor!Abort(key[p])
    BY <2>4, <2>8 DEF Abort, Supervisor!Abort
  <2>10. Supervisor!spawn_replace(key[p], t)
    BY <2>2, <2>7, <2>9 DEF Supervisor!spawn_replace
  <2> QED
    BY <2>3, <2>10 DEF Supervisor!Next
<1>8. ASSUME NEW k \in Keys, ReclaimBegins(k)
      PROVE  Supervisor!Next \/ UNCHANGED Supervisor!vars
  <2>1. StopKeepalive(k) /\ UNCHANGED <<probe, target>>
    BY <1>8 DEF ReclaimBegins
  <2>2. AwaitedProbes = {} /\ AwaitedProbes' = {keepalive[k]} \ {Null}
    BY <1>8 DEF ReclaimBegins, AwaitedProbes
  <2>3. CASE keepalive[k] = Null
    <3>1. UNCHANGED AwaitedProbes
      BY <2>2, <2>3
    <3> QED
      BY <1>5, <2>1, <2>3, <3>1 DEF Supervisor!vars
  <2>4. CASE keepalive[k] # Null
    <3>1. AwaitedProbes' = AwaitedProbes \cup {keepalive[k]}
      BY <2>2, <2>4
    <3>2. Supervisor!stop_and_wait(k)
      BY <1>5, <2>1, <2>4, <3>1 DEF StopKeepalive, Supervisor!stop_and_wait
    <3> QED
      BY <3>2 DEF Supervisor!Next
  <2> QED
    BY <2>3, <2>4
<1>9. CASE ReclaimChecks
  <2>1. UNCHANGED <<keepalive, aborted, ProbeTask, ProbeKey>>
    BY <1>2, <1>9 DEF ReclaimChecks, probeVars, ProbeTask
  <2>2. AwaitedProbes = {reclaimed} \ {Null} /\ AwaitedProbes' = {}
    BY <1>9 DEF ReclaimChecks, AwaitedProbes
  <2>3. CASE reclaimed = Null
    BY <2>1, <2>2, <2>3 DEF Supervisor!vars
  <2>4. CASE reclaimed # Null
    <3>1. reclaimed \in Probes /\ ProbeTask[reclaimed] = "ended"
      BY <1>9, <2>4 DEF ReclaimChecks, ProbesOK, ProbeTask
    <3>2. Supervisor!StopReturns(reclaimed)
      BY <2>1, <2>2, <2>4, <3>1 DEF Supervisor!StopReturns
    <3> QED
      BY <3>1, <3>2 DEF Supervisor!Next
  <2> QED
    BY <2>3, <2>4
<1> QED
  BY <1>3, <1>4, <1>6, <1>7, <1>8, <1>9, ProbeEffects

\* What is true of keepalive tasks holds in every reachable state.
LEMMA ProbesInvariance == Spec => []ProbesOK
<1>1. Init => ProbesOK
  BY NullAssumption DEF Init, ProbesOK, Live
<1>2. Inv /\ ProbesOK /\ [Next]_vars => ProbesOK'
  BY ProbesPreserved
<1> QED
  BY <1>1, <1>2, Invariance, PTL DEF Spec

\* Inserts, detaches, removals and reclaim use keepalive tasks as the supervisor
\* allows: every step is one of its operations, the end of a task, or neither.
THEOREM ImplementsSupervisor == Spec => SupervisorSpec
<1>1. Init => Supervisor!Init
  BY DEF Init, Supervisor!Init, Supervisor!TaskKeys, ProbeTask, ProbeKey, AwaitedProbes
<1>2. Inv /\ ProbesOK /\ [Next]_vars => [Supervisor!Next]_Supervisor!vars
  BY SupervisorStep
<1> QED
  BY <1>1, <1>2, Invariance, ProbesInvariance, PTL DEF Spec, SupervisorSpec, Supervisor!Spec

\* So the supervisor's promise holds for the probes of pools: one that lives is
\* under its pool's key, to be stopped with it, or was aborted.
THEOREM NoProbeEscapes == Spec => []Supervisor!NoTaskEscapes
<1>1. Inv /\ ProbesOK => Supervisor!NoTaskEscapes
  <2> SUFFICES ASSUME Inv, ProbesOK, NEW t \in Probes, Supervisor!Alive(t)
               PROVE  t \in aborted \/ keepalive[ProbeKey[t]] = t
    BY DEF Supervisor!NoTaskEscapes, Supervisor!Drained
  <2>1. Live(t)
    BY DEF Supervisor!Alive, ProbeTask, Live, Inv, TypeOK
  <2>2. ProbeKey[t] = key[target[t]]
    BY <2>1, NullAssumption DEF ProbeKey, Live, Inv, TypeOK
  <2> QED
    BY <2>1, <2>2 DEF ProbesOK
<1> QED
  BY <1>1, Invariance, ProbesInvariance, PTL
=============================================================================
