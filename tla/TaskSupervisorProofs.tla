------------------------ MODULE TaskSupervisorProofs ------------------------
(***************************************************************************)
(* Proofs about TaskSupervisor, for any keys and tasks: its safety         *)
(* properties are parts of one inductive invariant.  What must be added is *)
(* that a one-shot stays under its key until it removes itself, and that   *)
(* tasks are accepted exactly until a shutdown begins: then the key of a   *)
(* spawn_once that is free has no live task, and no task is spawned after  *)
(* the drain.                                                              *)
(***************************************************************************)
EXTENDS TaskSupervisor, TLAPS

\* Tasks have a key once they were spawned, and a handle in the map is under
\* the key of its task.
KeyOK ==
    /\ \A t \in Tasks : task[t] = "unused" <=> key[t] = Null
    /\ \A k \in TaskKeys : tasks[k] # Null => key[tasks[k]] = k

\* A one-shot that has not removed itself is in the map until the drain.
OneShotOK ==
    \A t \in Tasks :
        key[t] \in OnceKeys /\ task[t] # "ended" => Drained \/ tasks[key[t]] = t

\* shutdown holds handles of tasks only, none before the drain, and leaves
\* the map empty; a one-shot is aborted by shutdown alone.
DrainOK ==
    /\ \A t \in handles : task[t] # "unused"
    /\ ~Drained => handles = {}
    /\ Drained => \A k \in TaskKeys : tasks[k] = Null
    /\ \A t \in aborted : key[t] \in OnceKeys => Drained

\* Tasks are accepted until a shutdown begins.
AcceptingOK == accepting <=> shutdown = "no"

Inv ==
    /\ TypeOK
    /\ KeyOK
    /\ OneShotOK
    /\ DrainOK
    /\ AcceptingOK
    /\ NoTaskEscapes
    /\ OneShotHandleIsCurrent
    /\ OneShotsDoNotAccumulate

LEMMA InitInv == Init => Inv
  BY NullAssumption DEF Init, Inv, TypeOK, KeyOK, OneShotOK, DrainOK, AcceptingOK,
     NoTaskEscapes, OneShotHandleIsCurrent, OneShotsDoNotAccumulate, Alive, TaskKeys,
     Drained

\* Every step keeps the invariant.
LEMMA StepInv == Inv /\ [Next]_vars => Inv'
<1> SUFFICES ASSUME Inv, [Next]_vars
             PROVE  Inv'
  OBVIOUS
<1> USE NullAssumption, KeysAssumption DEF TaskKeys
<1>1. ASSUME NEW k \in ReplaceKeys, NEW t \in Tasks, spawn_replace(k, t)
      PROVE  Inv'
  <2>1. TypeOK'
    BY <1>1 DEF spawn_replace, Spawn, Abort, Inv, TypeOK, KeyOK, DrainOK
  <2>2. KeyOK'
    BY <1>1 DEF spawn_replace, Spawn, Abort, Inv, TypeOK, KeyOK
  <2>3. OneShotOK'
    BY <1>1 DEF spawn_replace, Spawn, Abort, Inv, TypeOK, KeyOK, OneShotOK,
        OneShotsDoNotAccumulate, Drained, AcceptingOK
  <2>4. AcceptingOK'
    BY <1>1 DEF spawn_replace, Spawn, Abort, Inv, TypeOK, AcceptingOK
  <2>5. DrainOK'
    BY <1>1 DEF spawn_replace, Spawn, Abort, Inv, TypeOK, KeyOK, DrainOK,
        AcceptingOK, Drained
  <2>6. NoTaskEscapes'
    BY <1>1 DEF spawn_replace, Spawn, Abort, Inv, TypeOK, KeyOK, OneShotOK,
        AcceptingOK, NoTaskEscapes, OneShotsDoNotAccumulate, Alive, Drained
  <2>7. OneShotHandleIsCurrent'
    BY <1>1 DEF spawn_replace, Spawn, Abort, Inv, TypeOK, KeyOK, DrainOK,
        Drained, OneShotHandleIsCurrent
  <2>8. OneShotsDoNotAccumulate'
    BY <1>1 DEF spawn_replace, Spawn, Abort, Inv, TypeOK, KeyOK, OneShotOK,
        AcceptingOK, OneShotsDoNotAccumulate, Drained
  <2> QED
    BY <2>1, <2>2, <2>3, <2>4, <2>5, <2>6, <2>7, <2>8 DEF Inv
<1>2. ASSUME NEW k \in OnceKeys, NEW t \in Tasks, spawn_once(k, t)
      PROVE  Inv'
  <2>1. TypeOK'
    BY <1>2 DEF spawn_once, Spawn, Inv, TypeOK
  <2>2. KeyOK'
    BY <1>2 DEF spawn_once, Spawn, Inv, TypeOK, KeyOK
  <2>3. OneShotOK'
    BY <1>2 DEF spawn_once, Spawn, Inv, TypeOK, KeyOK, OneShotOK,
        OneShotsDoNotAccumulate, Drained, AcceptingOK
  <2>4. AcceptingOK'
    BY <1>2 DEF spawn_once, Spawn, Inv, TypeOK, AcceptingOK
  <2>5. DrainOK'
    BY <1>2 DEF spawn_once, Spawn, Inv, TypeOK, KeyOK, DrainOK, AcceptingOK,
        Drained
  <2>6. NoTaskEscapes'
    BY <1>2 DEF spawn_once, Spawn, Inv, TypeOK, KeyOK, OneShotOK,
        AcceptingOK, NoTaskEscapes, OneShotsDoNotAccumulate, Alive, Drained
  <2>7. OneShotHandleIsCurrent'
    BY <1>2 DEF spawn_once, Spawn, Inv, TypeOK, KeyOK, DrainOK, Drained,
        OneShotHandleIsCurrent
  <2>8. OneShotsDoNotAccumulate'
    BY <1>2 DEF spawn_once, Spawn, Inv, TypeOK, KeyOK, OneShotOK,
        AcceptingOK, OneShotsDoNotAccumulate, Drained
  <2> QED
    BY <2>1, <2>2, <2>3, <2>4, <2>5, <2>6, <2>7, <2>8 DEF Inv
<1>3. ASSUME NEW t \in Tasks, Start(t)
      PROVE  Inv'
  <2>1. TypeOK'
    BY <1>3 DEF Start, Inv, TypeOK
  <2>2. KeyOK'
    BY <1>3 DEF Start, Inv, TypeOK, KeyOK
  <2>3. OneShotOK'
    BY <1>3 DEF Start, Inv, TypeOK, KeyOK, OneShotOK,
        OneShotsDoNotAccumulate, Drained, AcceptingOK
  <2>4. AcceptingOK'
    BY <1>3 DEF Start, Inv, TypeOK, AcceptingOK
  <2>5. DrainOK'
    BY <1>3 DEF Start, Inv, TypeOK, KeyOK, DrainOK, AcceptingOK, Drained
  <2>6. NoTaskEscapes'
    BY <1>3 DEF Start, Inv, TypeOK, KeyOK, OneShotOK, AcceptingOK,
        NoTaskEscapes, OneShotsDoNotAccumulate, Alive, Drained
  <2>7. OneShotHandleIsCurrent'
    BY <1>3 DEF Start, Inv, TypeOK, KeyOK, DrainOK, Drained,
        OneShotHandleIsCurrent
  <2>8. OneShotsDoNotAccumulate'
    BY <1>3 DEF Start, Inv, TypeOK, KeyOK, OneShotOK, AcceptingOK,
        OneShotsDoNotAccumulate, Drained
  <2> QED
    BY <2>1, <2>2, <2>3, <2>4, <2>5, <2>6, <2>7, <2>8 DEF Inv
<1>4. ASSUME NEW k \in ReplaceKeys, stop(k)
      PROVE  Inv'
  <2>1. TypeOK'
    BY <1>4 DEF stop, Abort, Inv, TypeOK, KeyOK, DrainOK
  <2>2. KeyOK'
    BY <1>4 DEF stop, Abort, Inv, TypeOK, KeyOK
  <2>3. OneShotOK'
    BY <1>4 DEF stop, Abort, Inv, TypeOK, KeyOK, OneShotOK,
        OneShotsDoNotAccumulate, Drained, AcceptingOK
  <2>4. AcceptingOK'
    BY <1>4 DEF stop, Abort, Inv, TypeOK, AcceptingOK
  <2>5. DrainOK'
    BY <1>4 DEF stop, Abort, Inv, TypeOK, KeyOK, DrainOK, AcceptingOK,
        Drained
  <2>6. NoTaskEscapes'
    BY <1>4 DEF stop, Abort, Inv, TypeOK, KeyOK, OneShotOK, AcceptingOK,
        NoTaskEscapes, OneShotsDoNotAccumulate, Alive, Drained
  <2>7. OneShotHandleIsCurrent'
    BY <1>4 DEF stop, Abort, Inv, TypeOK, KeyOK, DrainOK, Drained,
        OneShotHandleIsCurrent
  <2>8. OneShotsDoNotAccumulate'
    BY <1>4 DEF stop, Abort, Inv, TypeOK, KeyOK, OneShotOK, AcceptingOK,
        OneShotsDoNotAccumulate, Drained
  <2> QED
    BY <2>1, <2>2, <2>3, <2>4, <2>5, <2>6, <2>7, <2>8 DEF Inv
<1>5. ASSUME NEW k \in ReplaceKeys, stop_and_wait(k)
      PROVE  Inv'
  <2>1. TypeOK'
    BY <1>5 DEF stop_and_wait, Abort, Inv, TypeOK, KeyOK, DrainOK
  <2>2. KeyOK'
    BY <1>5 DEF stop_and_wait, Abort, Inv, TypeOK, KeyOK
  <2>3. OneShotOK'
    BY <1>5 DEF stop_and_wait, Abort, Inv, TypeOK, KeyOK, OneShotOK,
        OneShotsDoNotAccumulate, Drained, AcceptingOK
  <2>4. AcceptingOK'
    BY <1>5 DEF stop_and_wait, Abort, Inv, TypeOK, AcceptingOK
  <2>5. DrainOK'
    BY <1>5 DEF stop_and_wait, Abort, Inv, TypeOK, KeyOK, DrainOK,
        AcceptingOK, Drained
  <2>6. NoTaskEscapes'
    BY <1>5 DEF stop_and_wait, Abort, Inv, TypeOK, KeyOK, OneShotOK,
        AcceptingOK, NoTaskEscapes, OneShotsDoNotAccumulate, Alive, Drained
  <2>7. OneShotHandleIsCurrent'
    BY <1>5 DEF stop_and_wait, Abort, Inv, TypeOK, KeyOK, DrainOK, Drained,
        OneShotHandleIsCurrent
  <2>8. OneShotsDoNotAccumulate'
    BY <1>5 DEF stop_and_wait, Abort, Inv, TypeOK, KeyOK, OneShotOK,
        AcceptingOK, OneShotsDoNotAccumulate, Drained
  <2> QED
    BY <2>1, <2>2, <2>3, <2>4, <2>5, <2>6, <2>7, <2>8 DEF Inv
<1>6. ASSUME NEW t \in Tasks, StopReturns(t)
      PROVE  Inv'
  <2>1. TypeOK'
    BY <1>6 DEF StopReturns, Inv, TypeOK
  <2>2. KeyOK'
    BY <1>6 DEF StopReturns, Inv, TypeOK, KeyOK
  <2>3. OneShotOK'
    BY <1>6 DEF StopReturns, Inv, TypeOK, KeyOK, OneShotOK,
        OneShotsDoNotAccumulate, Drained, AcceptingOK
  <2>4. AcceptingOK'
    BY <1>6 DEF StopReturns, Inv, TypeOK, AcceptingOK
  <2>5. DrainOK'
    BY <1>6 DEF StopReturns, Inv, TypeOK, KeyOK, DrainOK, AcceptingOK,
        Drained
  <2>6. NoTaskEscapes'
    BY <1>6 DEF StopReturns, Inv, TypeOK, KeyOK, OneShotOK, AcceptingOK,
        NoTaskEscapes, OneShotsDoNotAccumulate, Alive, Drained
  <2>7. OneShotHandleIsCurrent'
    BY <1>6 DEF StopReturns, Inv, TypeOK, KeyOK, DrainOK, Drained,
        OneShotHandleIsCurrent
  <2>8. OneShotsDoNotAccumulate'
    BY <1>6 DEF StopReturns, Inv, TypeOK, KeyOK, OneShotOK, AcceptingOK,
        OneShotsDoNotAccumulate, Drained
  <2> QED
    BY <2>1, <2>2, <2>3, <2>4, <2>5, <2>6, <2>7, <2>8 DEF Inv
<1>7. ASSUME NEW t \in Tasks, BodyEnds(t)
      PROVE  Inv'
  <2>1. TypeOK'
    BY <1>7 DEF BodyEnds, Inv, TypeOK
  <2>2. KeyOK'
    BY <1>7 DEF BodyEnds, Inv, TypeOK, KeyOK
  <2>3. OneShotOK'
    BY <1>7 DEF BodyEnds, Inv, TypeOK, KeyOK, OneShotOK,
        OneShotsDoNotAccumulate, Drained, AcceptingOK
  <2>4. AcceptingOK'
    BY <1>7 DEF BodyEnds, Inv, TypeOK, AcceptingOK
  <2>5. DrainOK'
    BY <1>7 DEF BodyEnds, Inv, TypeOK, KeyOK, DrainOK, AcceptingOK, Drained
  <2>6. NoTaskEscapes'
    BY <1>7 DEF BodyEnds, Inv, TypeOK, KeyOK, OneShotOK, AcceptingOK,
        NoTaskEscapes, OneShotsDoNotAccumulate, Alive, Drained
  <2>7. OneShotHandleIsCurrent'
    BY <1>7 DEF BodyEnds, Inv, TypeOK, KeyOK, DrainOK, Drained,
        OneShotHandleIsCurrent
  <2>8. OneShotsDoNotAccumulate'
    BY <1>7 DEF BodyEnds, Inv, TypeOK, KeyOK, OneShotOK, AcceptingOK,
        OneShotsDoNotAccumulate, Drained
  <2> QED
    BY <2>1, <2>2, <2>3, <2>4, <2>5, <2>6, <2>7, <2>8 DEF Inv
<1>8. ASSUME NEW t \in Tasks, Aborts(t)
      PROVE  Inv'
  <2>1. TypeOK'
    BY <1>8 DEF Aborts, Alive, Inv, TypeOK, KeyOK, DrainOK
  <2>2. KeyOK'
    BY <1>8 DEF Aborts, Alive, Inv, TypeOK, KeyOK
  <2>3. OneShotOK'
    BY <1>8 DEF Aborts, Alive, Inv, TypeOK, KeyOK, OneShotOK,
        OneShotsDoNotAccumulate, Drained, AcceptingOK
  <2>4. AcceptingOK'
    BY <1>8 DEF Aborts, Alive, Inv, TypeOK, AcceptingOK
  <2>5. DrainOK'
    BY <1>8 DEF Aborts, Alive, Inv, TypeOK, KeyOK, DrainOK, AcceptingOK,
        Drained
  <2>6. NoTaskEscapes'
    BY <1>8 DEF Aborts, Alive, Inv, TypeOK, KeyOK, OneShotOK, AcceptingOK,
        NoTaskEscapes, OneShotsDoNotAccumulate, Drained
  <2>7. OneShotHandleIsCurrent'
    BY <1>8 DEF Aborts, Alive, Inv, TypeOK, KeyOK, DrainOK, Drained,
        OneShotHandleIsCurrent
  <2>8. OneShotsDoNotAccumulate'
    BY <1>8 DEF Aborts, Alive, Inv, TypeOK, KeyOK, OneShotOK, AcceptingOK,
        OneShotsDoNotAccumulate, Drained
  <2> QED
    BY <2>1, <2>2, <2>3, <2>4, <2>5, <2>6, <2>7, <2>8 DEF Inv
<1>9. ASSUME NEW t \in Tasks, remove_completed(t)
      PROVE  Inv'
  <2>1. TypeOK'
    BY <1>9 DEF remove_completed, Inv, TypeOK
  <2>2. KeyOK'
    BY <1>9 DEF remove_completed, Inv, TypeOK, KeyOK
  <2>3. OneShotOK'
    BY <1>9 DEF remove_completed, Inv, TypeOK, KeyOK, OneShotOK,
        OneShotsDoNotAccumulate, Drained, AcceptingOK
  <2>4. AcceptingOK'
    BY <1>9 DEF remove_completed, Inv, TypeOK, AcceptingOK
  <2>5. DrainOK'
    BY <1>9 DEF remove_completed, Inv, TypeOK, KeyOK, DrainOK, AcceptingOK,
        Drained
  <2>6. NoTaskEscapes'
    BY <1>9 DEF remove_completed, Inv, TypeOK, KeyOK, OneShotOK,
        AcceptingOK, NoTaskEscapes, OneShotsDoNotAccumulate, Alive, Drained
  <2>7. OneShotHandleIsCurrent'
    BY <1>9 DEF remove_completed, Inv, TypeOK, KeyOK, DrainOK, Drained,
        OneShotHandleIsCurrent
  <2>8. OneShotsDoNotAccumulate'
    BY <1>9 DEF remove_completed, Inv, TypeOK, KeyOK, OneShotOK,
        AcceptingOK, OneShotsDoNotAccumulate, Drained
  <2> QED
    BY <2>1, <2>2, <2>3, <2>4, <2>5, <2>6, <2>7, <2>8 DEF Inv
<1>10. ASSUME ShutdownRefuses
      PROVE  Inv'
  <2>1. TypeOK'
    BY <1>10 DEF ShutdownRefuses, Inv, TypeOK
  <2>2. KeyOK'
    BY <1>10 DEF ShutdownRefuses, Inv, TypeOK, KeyOK
  <2>3. OneShotOK'
    BY <1>10 DEF ShutdownRefuses, Inv, TypeOK, KeyOK, OneShotOK,
        OneShotsDoNotAccumulate, Drained, AcceptingOK
  <2>4. AcceptingOK'
    BY <1>10 DEF ShutdownRefuses, Inv, TypeOK, AcceptingOK
  <2>5. DrainOK'
    BY <1>10 DEF ShutdownRefuses, Inv, TypeOK, KeyOK, DrainOK, AcceptingOK,
        Drained
  <2>6. NoTaskEscapes'
    BY <1>10 DEF ShutdownRefuses, Inv, TypeOK, KeyOK, OneShotOK,
        AcceptingOK, NoTaskEscapes, OneShotsDoNotAccumulate, Alive, Drained
  <2>7. OneShotHandleIsCurrent'
    BY <1>10 DEF ShutdownRefuses, Inv, TypeOK, KeyOK, DrainOK, Drained,
        OneShotHandleIsCurrent
  <2>8. OneShotsDoNotAccumulate'
    BY <1>10 DEF ShutdownRefuses, Inv, TypeOK, KeyOK, OneShotOK,
        AcceptingOK, OneShotsDoNotAccumulate, Drained
  <2> QED
    BY <2>1, <2>2, <2>3, <2>4, <2>5, <2>6, <2>7, <2>8 DEF Inv
<1>11. ASSUME ShutdownCancels
      PROVE  Inv'
  <2>1. TypeOK'
    BY <1>11 DEF ShutdownCancels, Inv, TypeOK
  <2>2. KeyOK'
    BY <1>11 DEF ShutdownCancels, Inv, TypeOK, KeyOK
  <2>3. OneShotOK'
    BY <1>11 DEF ShutdownCancels, Inv, TypeOK, KeyOK, OneShotOK,
        OneShotsDoNotAccumulate, Drained, AcceptingOK
  <2>4. AcceptingOK'
    BY <1>11 DEF ShutdownCancels, Inv, TypeOK, AcceptingOK
  <2>5. DrainOK'
    BY <1>11 DEF ShutdownCancels, Inv, TypeOK, KeyOK, DrainOK, AcceptingOK,
        Drained
  <2>6. NoTaskEscapes'
    BY <1>11 DEF ShutdownCancels, Inv, TypeOK, KeyOK, OneShotOK,
        AcceptingOK, NoTaskEscapes, OneShotsDoNotAccumulate, Alive, Drained
  <2>7. OneShotHandleIsCurrent'
    BY <1>11 DEF ShutdownCancels, Inv, TypeOK, KeyOK, DrainOK, Drained,
        OneShotHandleIsCurrent
  <2>8. OneShotsDoNotAccumulate'
    BY <1>11 DEF ShutdownCancels, Inv, TypeOK, KeyOK, OneShotOK,
        AcceptingOK, OneShotsDoNotAccumulate, Drained
  <2> QED
    BY <2>1, <2>2, <2>3, <2>4, <2>5, <2>6, <2>7, <2>8 DEF Inv
<1>12. ASSUME ShutdownDrains
      PROVE  Inv'
  <2>1. TypeOK'
    BY <1>12 DEF ShutdownDrains, Inv, TypeOK
  <2>2. KeyOK'
    BY <1>12 DEF ShutdownDrains, Inv, TypeOK, KeyOK
  <2>3. OneShotOK'
    BY <1>12 DEF ShutdownDrains, Inv, TypeOK, KeyOK, OneShotOK,
        OneShotsDoNotAccumulate, Drained, AcceptingOK
  <2>4. AcceptingOK'
    BY <1>12 DEF ShutdownDrains, Inv, TypeOK, AcceptingOK
  <2>5. DrainOK'
    BY <1>12 DEF ShutdownDrains, Inv, TypeOK, KeyOK, DrainOK, AcceptingOK,
        Drained
  <2>6. NoTaskEscapes'
    <3> SUFFICES ASSUME NEW t \in Tasks, Alive(t)'
                 PROVE  t \in aborted' \cup handles'
      BY DEF NoTaskEscapes
    <3>1. key[t] \in TaskKeys /\ (t \in aborted \cup handles \/ tasks[key[t]] = t)
      BY <1>12 DEF ShutdownDrains, Inv, TypeOK, KeyOK, NoTaskEscapes, Alive, Drained
    <3>2. handles = {}
      BY <1>12 DEF ShutdownDrains, Inv, DrainOK, Drained
    <3> QED
      BY <1>12, <3>1, <3>2 DEF ShutdownDrains
  <2>7. OneShotHandleIsCurrent'
    BY <1>12 DEF ShutdownDrains, Inv, TypeOK, KeyOK, DrainOK, Drained,
        OneShotHandleIsCurrent
  <2>8. OneShotsDoNotAccumulate'
    BY <1>12 DEF ShutdownDrains, Inv, TypeOK, KeyOK, OneShotOK, AcceptingOK,
        OneShotsDoNotAccumulate, Drained
  <2> QED
    BY <2>1, <2>2, <2>3, <2>4, <2>5, <2>6, <2>7, <2>8 DEF Inv
<1>13. ASSUME ShutdownJoins
      PROVE  Inv'
  <2>1. TypeOK'
    BY <1>13 DEF ShutdownJoins, Inv, TypeOK
  <2>2. KeyOK'
    BY <1>13 DEF ShutdownJoins, Inv, TypeOK, KeyOK
  <2>3. OneShotOK'
    BY <1>13 DEF ShutdownJoins, Inv, TypeOK, KeyOK, OneShotOK,
        OneShotsDoNotAccumulate, Drained, AcceptingOK
  <2>4. AcceptingOK'
    BY <1>13 DEF ShutdownJoins, Inv, TypeOK, AcceptingOK
  <2>5. DrainOK'
    BY <1>13 DEF ShutdownJoins, Inv, TypeOK, KeyOK, DrainOK, AcceptingOK,
        Drained
  <2>6. NoTaskEscapes'
    BY <1>13 DEF ShutdownJoins, Inv, TypeOK, KeyOK, OneShotOK, AcceptingOK,
        NoTaskEscapes, OneShotsDoNotAccumulate, Alive, Drained
  <2>7. OneShotHandleIsCurrent'
    BY <1>13 DEF ShutdownJoins, Inv, TypeOK, KeyOK, DrainOK, Drained,
        OneShotHandleIsCurrent
  <2>8. OneShotsDoNotAccumulate'
    BY <1>13 DEF ShutdownJoins, Inv, TypeOK, KeyOK, OneShotOK, AcceptingOK,
        OneShotsDoNotAccumulate, Drained
  <2> QED
    BY <2>1, <2>2, <2>3, <2>4, <2>5, <2>6, <2>7, <2>8 DEF Inv
<1>14. ASSUME ShutdownTimesOut
      PROVE  Inv'
  <2>1. TypeOK'
    BY <1>14 DEF ShutdownTimesOut, Inv, TypeOK, KeyOK, DrainOK
  <2>2. KeyOK'
    BY <1>14 DEF ShutdownTimesOut, Inv, TypeOK, KeyOK
  <2>3. OneShotOK'
    BY <1>14 DEF ShutdownTimesOut, Inv, TypeOK, KeyOK, OneShotOK,
        OneShotsDoNotAccumulate, Drained, AcceptingOK
  <2>4. AcceptingOK'
    BY <1>14 DEF ShutdownTimesOut, Inv, TypeOK, AcceptingOK
  <2>5. DrainOK'
    BY <1>14 DEF ShutdownTimesOut, Inv, TypeOK, KeyOK, DrainOK, AcceptingOK,
        Drained
  <2>6. NoTaskEscapes'
    BY <1>14 DEF ShutdownTimesOut, Inv, TypeOK, KeyOK, OneShotOK,
        AcceptingOK, NoTaskEscapes, OneShotsDoNotAccumulate, Alive, Drained
  <2>7. OneShotHandleIsCurrent'
    BY <1>14 DEF ShutdownTimesOut, Inv, TypeOK, KeyOK, DrainOK, Drained,
        OneShotHandleIsCurrent
  <2>8. OneShotsDoNotAccumulate'
    BY <1>14 DEF ShutdownTimesOut, Inv, TypeOK, KeyOK, OneShotOK,
        AcceptingOK, OneShotsDoNotAccumulate, Drained
  <2> QED
    BY <2>1, <2>2, <2>3, <2>4, <2>5, <2>6, <2>7, <2>8 DEF Inv
<1>15. ASSUME ShutdownDropped
      PROVE  Inv'
  <2>1. TypeOK'
    BY <1>15 DEF ShutdownDropped, Inv, TypeOK
  <2>2. KeyOK'
    BY <1>15 DEF ShutdownDropped, Inv, TypeOK, KeyOK
  <2>3. OneShotOK'
    BY <1>15 DEF ShutdownDropped, Inv, TypeOK, KeyOK, OneShotOK,
        OneShotsDoNotAccumulate, Drained, AcceptingOK
  <2>4. AcceptingOK'
    BY <1>15 DEF ShutdownDropped, Inv, TypeOK, AcceptingOK
  <2>5. DrainOK'
    BY <1>15 DEF ShutdownDropped, Inv, TypeOK, KeyOK, DrainOK, AcceptingOK,
        Drained
  <2>6. NoTaskEscapes'
    BY <1>15 DEF ShutdownDropped, Inv, TypeOK, KeyOK, OneShotOK,
        AcceptingOK, NoTaskEscapes, OneShotsDoNotAccumulate, Alive, Drained
  <2>7. OneShotHandleIsCurrent'
    BY <1>15 DEF ShutdownDropped, Inv, TypeOK, KeyOK, DrainOK, Drained,
        OneShotHandleIsCurrent
  <2>8. OneShotsDoNotAccumulate'
    BY <1>15 DEF ShutdownDropped, Inv, TypeOK, KeyOK, OneShotOK,
        AcceptingOK, OneShotsDoNotAccumulate, Drained
  <2> QED
    BY <2>1, <2>2, <2>3, <2>4, <2>5, <2>6, <2>7, <2>8 DEF Inv
<1>16. CASE UNCHANGED vars
  BY <1>16 DEF Inv, TypeOK, KeyOK, OneShotOK, DrainOK, AcceptingOK, NoTaskEscapes,
     Alive, Drained, OneShotHandleIsCurrent, OneShotsDoNotAccumulate, vars
<1> QED
  BY <1>1, <1>2, <1>3, <1>4, <1>5, <1>6, <1>7, <1>8, <1>9, <1>10, <1>11,
     <1>12, <1>13, <1>14, <1>15, <1>16 DEF Next, TaskStep, ShutdownStep

LEMMA Invariance == Spec => []Inv
  BY InitInv, StepInv, PTL DEF Spec

-----------------------------------------------------------------------------
\* The supervisor is type correct; in particular only one-shots, which were
\* started late, remove themselves.
THEOREM TypeCorrect == Spec => []TypeOK
<1>1. Inv => TypeOK
  BY DEF Inv
<1> QED
  BY <1>1, Invariance, PTL

\* No task gets out of the supervisor's hands, however spawns, stops and a
\* shutdown interleave, unless AppState::shutdown's own timeout drops it.
THEOREM NoneEscapes == Spec => []NoTaskEscapes
<1>1. Inv => NoTaskEscapes
  BY DEF Inv
<1> QED
  BY <1>1, Invariance, PTL

\* remove_completed, which removes by key, never removes another task's handle,
\* and the handle of a finished one-shot never blocks its key.
THEOREM HandlesAreCurrent == Spec => []OneShotHandleIsCurrent
<1>1. Inv => OneShotHandleIsCurrent
  BY DEF Inv
<1> QED
  BY <1>1, Invariance, PTL

\* There is at most one unfinished one-shot of a key.
THEOREM OneShotsAreSingle == Spec => []OneShotsDoNotAccumulate
<1>1. Inv => OneShotsDoNotAccumulate
  BY DEF Inv
<1> QED
  BY <1>1, Invariance, PTL
=============================================================================
