------------------------ MODULE RunningQueriesProofs ------------------------
(***************************************************************************)
(* Proofs about RunningQueries, for every set of execution ids,            *)
(* registrations, scopes, pools and callers.                               *)
(***************************************************************************)
EXTENDS RunningQueries, TLAPS

(***************************************************************************)
(* The parts of the inductive invariant that are not properties of their   *)
(* own.                                                                    *)
(***************************************************************************)

\* A registered task sits under its own id, its guard has not removed it, no
\* register call has displaced it, and it is not an untracked task that was
\* cancelled.
MapOK ==
    \A e \in ExecutionIds : inner[e] # Null =>
        /\ execution_id[inner[e]] = e
        /\ Owned(inner[e])
        /\ displaced[inner[e]] = "no"
        /\ remember_completion[inner[e]] \/ ~token[inner[e]]

\* A registration id that was not handed out yet has left no trace.
FreshOK ==
    \A r \in Registrations : guard[r] = "none" =>
        /\ execution_id[r] = Null
        /\ ~token[r]
        /\ ~completion[r]
        /\ interrupt[r] = Null
        /\ pool_key[r] = Null
        /\ closure[r] = "unready"
        /\ displaced[r] = "no"

\* The first half of ReachableWhileRunning.
StaysRegistered ==
    \A r \in Registrations :
        Owned(r) /\ displaced[r] = "no" /\ (remember_completion[r] \/ ~token[r])
        => inner[execution_id[r]] = r

\* A tracked, undisplaced registration has signalled completion only once its
\* guard is gone.
CompletionOK ==
    \A r \in Registrations :
        completion[r] /\ remember_completion[r] /\ displaced[r] = "no"
        => guard[r] = "gone"

\* A terminal answer to a requested cancel was given because of the
\* completion of the registration the caller subscribed to.
ResultOK ==
    \A c \in Callers :
        pc[c] = "returned" /\ result[c].requested /\ result[c].terminal
        => watching[c] \in Registrations /\ completion[watching[c]]

\* What a caller has in hand was really registered, and cancel_and_wait
\* cancels with a subscription.
CallerOK ==
    \A c \in Callers :
        /\ hit[c] # Null => guard[hit[c]] # "none"
        /\ held[c] # Null => closure[held[c]] # "unready"
        /\ target[c] # Null /\ pc[c] \in {"cancelling", "firing", "completing"}
           => watching[c] \in Registrations

\* The closure stored in a task was handed over under the id of that task.
SlotOK ==
    \A r \in Registrations : interrupt[r] # Null =>
        /\ execution_id[interrupt[r]] = execution_id[r]
        /\ closure[interrupt[r]] # "unready"

Inv ==
    /\ TypeOK
    /\ MapOK
    /\ FreshOK
    /\ StaysRegistered
    /\ CompletionOK
    /\ ResultOK
    /\ CallerOK
    /\ SlotOK
    /\ CompletedMeansFinished
    /\ StoredInterruptReachable
    /\ LostInterruptNeedsReusedId

-----------------------------------------------------------------------------
(* The initial state                                                       *)

\* The empty registry satisfies the invariant.
LEMMA InitInv == Init => Inv
<1> SUFFICES ASSUME Init PROVE Inv
  OBVIOUS
<1>1. TypeOK
  BY DEF Init, TypeOK, OrNull, ClosureStates, GuardStates, DisplacedStates,
         CallerStates, Results, NoResult
<1>2. MapOK /\ FreshOK /\ StaysRegistered /\ CompletionOK
  BY DEF Init, MapOK, FreshOK, StaysRegistered, CompletionOK, Owned
<1>3. ResultOK /\ CallerOK /\ SlotOK
  BY DEF Init, ResultOK, CallerOK, SlotOK, NoResult
<1>4. CompletedMeansFinished /\ StoredInterruptReachable /\ LostInterruptNeedsReusedId
  BY DEF Init, CompletedMeansFinished, StoredInterruptReachable,
         LostInterruptNeedsReusedId
<1> QED
  BY <1>1, <1>2, <1>3, <1>4 DEF Inv

-----------------------------------------------------------------------------
(* Steps of the registry: one lemma per action                             *)

\* Registering an id keeps the invariant; the displaced task leaves the map
\* with its closure.
LEMMA RegisterInv ==
    ASSUME Inv, NEW r \in Registrations, NEW e \in ExecutionIds,
           NEW tracked \in BOOLEAN, NEW s \in Scopes, Register(r, e, tracked, s)
    PROVE  Inv'
<1> USE NullAssumption DEF Register, InsertTask, callerVars
<1>1. TypeOK'
  BY DEF Inv, TypeOK, OrNull, GuardStates, DisplacedStates
<1>2. MapOK'
  BY DEF Inv, TypeOK, OrNull, MapOK, FreshOK, Owned
<1>3. FreshOK'
  BY DEF Inv, TypeOK, OrNull, MapOK, FreshOK, Owned
<1>4. StaysRegistered'
  BY DEF Inv, TypeOK, OrNull, MapOK, FreshOK, Owned, StaysRegistered
<1>5. CompletionOK'
  BY DEF Inv, TypeOK, OrNull, FreshOK, CompletionOK
<1>6. ResultOK'
  BY DEF Inv, TypeOK, ResultOK
<1>7. SlotOK'
  BY DEF Inv, TypeOK, OrNull, FreshOK, SlotOK
<1>8. CompletedMeansFinished'
  BY DEF Inv, TypeOK, OrNull, MapOK, FreshOK, CompletedMeansFinished, Owned
<1>9. StoredInterruptReachable'
  BY DEF Inv, TypeOK, OrNull, MapOK, FreshOK, StoredInterruptReachable
<1>10. LostInterruptNeedsReusedId'
  BY DEF Inv, TypeOK, OrNull, FreshOK, LostInterruptNeedsReusedId
<1>11. CallerOK'
  BY DEF Inv, TypeOK, OrNull, CallerOK
<1> QED
  BY <1>1, <1>2, <1>3, <1>4, <1>5, <1>6, <1>7, <1>8, <1>9, <1>10, <1>11 DEF Inv


\* The register call that displaced r cancels its token.
LEMMA DisplacedCancelInv ==
    ASSUME Inv, NEW r \in Registrations, DisplacedCancel(r)
    PROVE  Inv'
<1> USE NullAssumption DEF DisplacedCancel, tasks, callerVars
<1>1. TypeOK'
  BY DEF Inv, TypeOK, OrNull, DisplacedStates
<1>2. MapOK'
  BY DEF Inv, TypeOK, OrNull, MapOK, FreshOK, Owned
<1>3. FreshOK'
  BY DEF Inv, TypeOK, OrNull, FreshOK, MapOK, SlotOK, CallerOK, Owned
<1>4. StaysRegistered'
  BY DEF Inv, TypeOK, OrNull, MapOK, FreshOK, Owned, StaysRegistered
<1>5. StoredInterruptReachable'
  BY DEF Inv, TypeOK, OrNull, MapOK, FreshOK, StoredInterruptReachable
<1>6. CompletionOK' /\ ResultOK' /\ CallerOK' /\ SlotOK'
       /\ CompletedMeansFinished' /\ LostInterruptNeedsReusedId'
  BY DEF Inv, TypeOK, Owned, CompletionOK, ResultOK, CallerOK, SlotOK,
         CompletedMeansFinished, LostInterruptNeedsReusedId
<1> QED
  BY <1>1, <1>2, <1>3, <1>4, <1>5, <1>6 DEF Inv

\* ... signals its completion, which tells a waiter nothing about its guard ...
LEMMA DisplacedCompleteInv ==
    ASSUME Inv, NEW r \in Registrations, DisplacedComplete(r)
    PROVE  Inv'
<1> USE NullAssumption DEF DisplacedComplete, tasks, callerVars
<1>1. TypeOK'
  BY DEF Inv, TypeOK, OrNull, DisplacedStates
<1>2. MapOK'
  BY DEF Inv, TypeOK, OrNull, MapOK, FreshOK, Owned
<1>3. FreshOK'
  BY DEF Inv, TypeOK, OrNull, FreshOK, MapOK, SlotOK, CallerOK, Owned
<1>4. StaysRegistered'
  BY DEF Inv, TypeOK, OrNull, MapOK, FreshOK, Owned, StaysRegistered
<1>5. CompletionOK'
  BY DEF Inv, TypeOK, OrNull, FreshOK, CompletionOK
<1>6. ResultOK'
  BY DEF Inv, TypeOK, OrNull, ResultOK
<1>7. StoredInterruptReachable'
  BY DEF Inv, TypeOK, OrNull, MapOK, FreshOK, StoredInterruptReachable
<1>8. CallerOK' /\ SlotOK' /\ CompletedMeansFinished'
       /\ LostInterruptNeedsReusedId'
  BY DEF Inv, TypeOK, Owned, CallerOK, SlotOK, CompletedMeansFinished,
         LostInterruptNeedsReusedId
<1> QED
  BY <1>1, <1>2, <1>3, <1>4, <1>5, <1>6, <1>7, <1>8 DEF Inv

\* ... and runs the closure that was stored in it.
LEMMA DisplacedInterruptInv ==
    ASSUME Inv, NEW r \in Registrations, DisplacedInterrupt(r)
    PROVE  Inv'
<1> USE NullAssumption DEF DisplacedInterrupt, Resolve, tasks, callerVars
<1>1. TypeOK'
  BY DEF Inv, TypeOK, OrNull, DisplacedStates, ClosureStates
<1>2. MapOK'
  BY DEF Inv, TypeOK, OrNull, MapOK, FreshOK, Owned
<1>3. FreshOK'
  BY DEF Inv, TypeOK, OrNull, FreshOK, MapOK, SlotOK, CallerOK, Owned
<1>4. StaysRegistered'
  BY DEF Inv, TypeOK, OrNull, MapOK, FreshOK, Owned, StaysRegistered
<1>5. SlotOK'
  BY DEF Inv, TypeOK, OrNull, MapOK, FreshOK, SlotOK
<1>6. StoredInterruptReachable'
  BY DEF Inv, TypeOK, OrNull, MapOK, FreshOK, StoredInterruptReachable
<1>7. LostInterruptNeedsReusedId'
  BY DEF Inv, TypeOK, OrNull, MapOK, FreshOK, SlotOK,
         LostInterruptNeedsReusedId
<1>8. CallerOK'
  BY DEF Inv, TypeOK, OrNull, CallerOK, MapOK, Owned
<1>9. CompletionOK' /\ ResultOK' /\ CompletedMeansFinished'
  BY DEF Inv, TypeOK, Owned, CompletionOK, ResultOK, CompletedMeansFinished
<1> QED
  BY <1>1, <1>2, <1>3, <1>4, <1>5, <1>6, <1>7, <1>8, <1>9 DEF Inv

\* A driver stores its closure in the task registered under its id, which need
\* not be its own; the closure it overwrites was handed over under the same id.
LEMMA StoreInterruptInv ==
    ASSUME Inv, NEW r \in Registrations, StoreInterrupt(r)
    PROVE  Inv'
<1> USE NullAssumption DEF StoreInterrupt, CanStoreInterrupt, Resolve, tasks,
       callerVars
<1>1. TypeOK'
  BY DEF Inv, TypeOK, OrNull, ClosureStates
<1>2. FreshOK'
  BY DEF Inv, TypeOK, OrNull, FreshOK, MapOK, SlotOK, CallerOK, Owned
<1>3. SlotOK'
  BY DEF Inv, TypeOK, OrNull, MapOK, FreshOK, SlotOK
<1>4. StoredInterruptReachable'
  BY DEF Inv, TypeOK, OrNull, MapOK, FreshOK, StoredInterruptReachable
<1>5. LostInterruptNeedsReusedId'
  BY DEF Inv, TypeOK, OrNull, MapOK, FreshOK, SlotOK,
         LostInterruptNeedsReusedId
<1>6. CallerOK'
  BY DEF Inv, TypeOK, OrNull, CallerOK, MapOK, Owned
<1>7. MapOK' /\ StaysRegistered' /\ CompletionOK' /\ ResultOK'
       /\ CompletedMeansFinished'
  BY DEF Inv, TypeOK, Owned, MapOK, StaysRegistered, CompletionOK, ResultOK,
         CompletedMeansFinished
<1> QED
  BY <1>1, <1>2, <1>3, <1>4, <1>5, <1>6, <1>7 DEF Inv

\* A driver that comes too late runs its closure.
LEMMA RunLateInterruptInv ==
    ASSUME Inv, NEW r \in Registrations, RunLateInterrupt(r)
    PROVE  Inv'
<1> USE NullAssumption DEF RunLateInterrupt, tasks, callerVars
<1>1. TypeOK'
  BY DEF Inv, TypeOK, OrNull, ClosureStates
<1>2. FreshOK'
  BY DEF Inv, TypeOK, OrNull, FreshOK, MapOK, SlotOK, CallerOK, Owned
<1>3. SlotOK'
  BY DEF Inv, TypeOK, OrNull, MapOK, FreshOK, SlotOK
<1>4. StoredInterruptReachable'
  BY DEF Inv, TypeOK, OrNull, MapOK, FreshOK, StoredInterruptReachable
<1>5. LostInterruptNeedsReusedId'
  BY DEF Inv, TypeOK, OrNull, MapOK, FreshOK, SlotOK,
         LostInterruptNeedsReusedId
<1>6. CallerOK'
  BY DEF Inv, TypeOK, OrNull, CallerOK, MapOK, Owned
<1>7. MapOK' /\ StaysRegistered' /\ CompletionOK' /\ ResultOK'
       /\ CompletedMeansFinished'
  BY DEF Inv, TypeOK, Owned, MapOK, StaysRegistered, CompletionOK, ResultOK,
         CompletedMeansFinished
<1> QED
  BY <1>1, <1>2, <1>3, <1>4, <1>5, <1>6, <1>7 DEF Inv

\* Pool keys are only read by is_pool_active.
LEMMA SetPoolKeyInv ==
    ASSUME Inv, NEW r \in Registrations, NEW k \in PoolKeys, SetPoolKey(r, k)
    PROVE  Inv'
<1> USE NullAssumption DEF SetPoolKey, tasks, callerVars
<1>1. TypeOK'
  BY DEF Inv, TypeOK, OrNull
<1>2. FreshOK'
  BY DEF Inv, TypeOK, OrNull, FreshOK, MapOK, SlotOK, CallerOK, Owned
<1>3. MapOK' /\ StaysRegistered' /\ CompletionOK' /\ ResultOK'
       /\ CallerOK' /\ SlotOK' /\ CompletedMeansFinished'
       /\ StoredInterruptReachable' /\ LostInterruptNeedsReusedId'
  BY DEF Inv, TypeOK, Owned, MapOK, StaysRegistered, CompletionOK, ResultOK,
         CallerOK, SlotOK, CompletedMeansFinished, StoredInterruptReachable,
         LostInterruptNeedsReusedId
<1> QED
  BY <1>1, <1>2, <1>3 DEF Inv

\* Drop of a guard, and the end of the grace period of a detached one: both are
\* remove(), which leaves every other registration of the same id alone.
LEMMA RemoveInv ==
    ASSUME Inv, NEW r \in Registrations, Finish(r) \/ Reclaim(r)
    PROVE  Inv'
<1> USE NullAssumption DEF Finish, Reclaim, Remove, IsCurrent, Resolve,
       tasks, callerVars
<1>1. TypeOK'
  BY DEF Inv, TypeOK, OrNull, ClosureStates, GuardStates
<1>2. MapOK'
  BY DEF Inv, TypeOK, OrNull, MapOK, FreshOK, Owned
<1>3. FreshOK'
  BY DEF Inv, TypeOK, OrNull, FreshOK, MapOK, SlotOK, CallerOK, Owned
<1>4. StaysRegistered'
  BY DEF Inv, TypeOK, OrNull, MapOK, FreshOK, Owned, StaysRegistered
<1>5. CompletionOK'
  BY DEF Inv, TypeOK, OrNull, FreshOK, CompletionOK
<1>6. SlotOK'
  BY DEF Inv, TypeOK, OrNull, MapOK, FreshOK, SlotOK
<1>7. CompletedMeansFinished'
  BY DEF Inv, TypeOK, OrNull, MapOK, StaysRegistered, CompletedMeansFinished,
         Owned
<1>8. StoredInterruptReachable'
  BY DEF Inv, TypeOK, OrNull, MapOK, FreshOK, StoredInterruptReachable
<1>9. LostInterruptNeedsReusedId'
  BY DEF Inv, TypeOK, OrNull, MapOK, FreshOK, SlotOK,
         LostInterruptNeedsReusedId
<1>10. CallerOK'
  BY DEF Inv, TypeOK, OrNull, CallerOK, MapOK, Owned
<1>11. ResultOK'
  BY DEF Inv, TypeOK, Owned, ResultOK
<1> QED
  BY <1>1, <1>2, <1>3, <1>4, <1>5, <1>6, <1>7, <1>8, <1>9, <1>10, <1>11 DEF Inv

\* A detached registration stays as it is.
LEMMA DetachInv ==
    ASSUME Inv, NEW r \in Registrations, Detach(r)
    PROVE  Inv'
<1> USE NullAssumption DEF Detach, tasks, callerVars
<1>1. TypeOK'
  BY DEF Inv, TypeOK, OrNull, GuardStates
<1>2. MapOK'
  BY DEF Inv, TypeOK, OrNull, MapOK, FreshOK, Owned
<1>3. FreshOK'
  BY DEF Inv, TypeOK, OrNull, FreshOK, MapOK, SlotOK, CallerOK, Owned
<1>4. StaysRegistered'
  BY DEF Inv, TypeOK, OrNull, MapOK, FreshOK, Owned, StaysRegistered
<1>5. CompletionOK'
  BY DEF Inv, TypeOK, OrNull, FreshOK, CompletionOK
<1>6. CompletedMeansFinished'
  BY DEF Inv, TypeOK, OrNull, MapOK, StaysRegistered, CompletedMeansFinished,
         Owned
<1>7. CallerOK'
  BY DEF Inv, TypeOK, OrNull, CallerOK, MapOK, Owned
<1>8. ResultOK' /\ SlotOK' /\ StoredInterruptReachable'
       /\ LostInterruptNeedsReusedId'
  BY DEF Inv, TypeOK, Owned, ResultOK, SlotOK, StoredInterruptReachable,
         LostInterruptNeedsReusedId
<1> QED
  BY <1>1, <1>2, <1>3, <1>4, <1>5, <1>6, <1>7, <1>8 DEF Inv

\* After remove() the guard signals its completion and is gone.
LEMMA RemoveCompleteInv ==
    ASSUME Inv, NEW r \in Registrations, RemoveComplete(r)
    PROVE  Inv'
<1> USE NullAssumption DEF RemoveComplete, tasks, callerVars
<1>1. TypeOK'
  BY DEF Inv, TypeOK, OrNull, GuardStates
<1>2. MapOK'
  BY DEF Inv, TypeOK, OrNull, MapOK, FreshOK, Owned
<1>3. FreshOK'
  BY DEF Inv, TypeOK, OrNull, FreshOK, MapOK, SlotOK, CallerOK, Owned
<1>4. StaysRegistered'
  BY DEF Inv, TypeOK, OrNull, MapOK, FreshOK, Owned, StaysRegistered
<1>5. CompletionOK'
  BY DEF Inv, TypeOK, OrNull, FreshOK, CompletionOK
<1>6. ResultOK'
  BY DEF Inv, TypeOK, OrNull, ResultOK
<1>7. CompletedMeansFinished'
  BY DEF Inv, TypeOK, OrNull, MapOK, StaysRegistered, CompletedMeansFinished,
         Owned
<1>8. CallerOK'
  BY DEF Inv, TypeOK, OrNull, CallerOK, MapOK, Owned
<1>9. SlotOK' /\ StoredInterruptReachable' /\ LostInterruptNeedsReusedId'
  BY DEF Inv, TypeOK, Owned, SlotOK, StoredInterruptReachable,
         LostInterruptNeedsReusedId
<1> QED
  BY <1>1, <1>2, <1>3, <1>4, <1>5, <1>6, <1>7, <1>8, <1>9 DEF Inv

\* Forgetting a completion only makes answers less definite.
LEMMA ExpireCompletedInv ==
    ASSUME Inv, NEW e \in ExecutionIds, ExpireCompleted(e)
    PROVE  Inv'
<1> USE NullAssumption DEF ExpireCompleted, tasks, callerVars
<1>1. TypeOK'
  BY DEF Inv, TypeOK, OrNull
<1>2. CompletedMeansFinished'
  BY DEF Inv, TypeOK, OrNull, MapOK, StaysRegistered, CompletedMeansFinished,
         Owned
<1>3. MapOK' /\ FreshOK' /\ StaysRegistered' /\ CompletionOK' /\ ResultOK'
       /\ CallerOK' /\ SlotOK' /\ StoredInterruptReachable'
       /\ LostInterruptNeedsReusedId'
  BY DEF Inv, TypeOK, Owned, MapOK, FreshOK, StaysRegistered, CompletionOK,
         ResultOK, CallerOK, SlotOK, StoredInterruptReachable,
         LostInterruptNeedsReusedId
<1> QED
  BY <1>1, <1>2, <1>3 DEF Inv

-----------------------------------------------------------------------------
(* Steps of the callers                                                    *)

\* A call to cancel, cancel_and_wait or one of the scoped cancels starts: the
\* registry is only read.
LEMMA StartInv ==
    ASSUME Inv, NEW c \in Callers, NEW ids \in SUBSET ExecutionIds,
           NEW e \in OrNull(ExecutionIds), NEW r \in OrNull(Registrations),
           NEW next \in {"cancelling", "checking"},
           next = "checking" => e \in ExecutionIds,
           next = "cancelling" /\ e # Null => r \in Registrations, Start(c,
         ids, e, r, next)
    PROVE  Inv'
<1> USE NullAssumption DEF Start, regVars, tasks
<1>1. TypeOK'
  BY DEF Inv, TypeOK, OrNull, CallerStates
<1>2. ResultOK'
  BY DEF Inv, TypeOK, OrNull, ResultOK
<1>3. CallerOK'
  BY DEF Inv, TypeOK, OrNull, CallerOK, MapOK, Owned
<1>4. MapOK' /\ FreshOK' /\ StaysRegistered' /\ CompletionOK' /\ SlotOK'
       /\ CompletedMeansFinished' /\ StoredInterruptReachable'
       /\ LostInterruptNeedsReusedId'
  BY DEF Inv, TypeOK, Owned, MapOK, FreshOK, StaysRegistered, CompletionOK,
         SlotOK, CompletedMeansFinished, StoredInterruptReachable,
         LostInterruptNeedsReusedId
<1> QED
  BY <1>1, <1>2, <1>3, <1>4 DEF Inv

\* cancel() of an id that is not registered changes nothing in the registry.
LEMMA CancelMissingInv ==
    ASSUME Inv, NEW c \in Callers, NEW e \in ExecutionIds, CancelMissing(c, e)
    PROVE  Inv'
<1> USE NullAssumption DEF CancelMissing, regVars, tasks
<1>1. TypeOK'
  BY DEF Inv, TypeOK, OrNull, CallerStates
<1>2. ResultOK'
  BY DEF Inv, TypeOK, OrNull, ResultOK
<1>3. CallerOK'
  BY DEF Inv, TypeOK, OrNull, CallerOK, MapOK, Owned
<1>4. MapOK' /\ FreshOK' /\ StaysRegistered' /\ CompletionOK' /\ SlotOK'
       /\ CompletedMeansFinished' /\ StoredInterruptReachable'
       /\ LostInterruptNeedsReusedId'
  BY DEF Inv, TypeOK, Owned, MapOK, FreshOK, StaysRegistered, CompletionOK,
         SlotOK, CompletedMeansFinished, StoredInterruptReachable,
         LostInterruptNeedsReusedId
<1> QED
  BY <1>1, <1>2, <1>3, <1>4 DEF Inv

\* cancel() of a registered id: a tracked task stays, an untracked one leaves the
\* map; its closure is in the caller's hands.
LEMMA CancelTaskInv ==
    ASSUME Inv, NEW c \in Callers, NEW e \in ExecutionIds, CancelTask(c, e)
    PROVE  Inv'
<1> USE NullAssumption DEF CancelTask, Resolve, tasks
<1>1. TypeOK'
  BY DEF Inv, TypeOK, OrNull, CallerStates, ClosureStates
<1>2. MapOK'
  BY DEF Inv, TypeOK, OrNull, MapOK, FreshOK, Owned
<1>3. FreshOK'
  BY DEF Inv, TypeOK, OrNull, FreshOK, MapOK, SlotOK, CallerOK, Owned
<1>4. StaysRegistered'
  BY DEF Inv, TypeOK, OrNull, MapOK, FreshOK, Owned, StaysRegistered
<1>5. ResultOK'
  BY DEF Inv, TypeOK, OrNull, ResultOK
<1>6. SlotOK'
  BY DEF Inv, TypeOK, OrNull, MapOK, FreshOK, SlotOK
<1>7. CompletedMeansFinished'
  BY DEF Inv, TypeOK, OrNull, MapOK, StaysRegistered, CompletedMeansFinished,
         Owned
<1>8. StoredInterruptReachable'
  BY DEF Inv, TypeOK, OrNull, MapOK, FreshOK, StoredInterruptReachable
<1>9. LostInterruptNeedsReusedId'
  BY DEF Inv, TypeOK, OrNull, MapOK, FreshOK, SlotOK,
         LostInterruptNeedsReusedId
<1>10. CallerOK'
  BY DEF Inv, TypeOK, OrNull, CallerOK, MapOK, Owned
<1>11. CompletionOK'
  BY DEF Inv, TypeOK, Owned, CompletionOK
<1> QED
  BY <1>1, <1>2, <1>3, <1>4, <1>5, <1>6, <1>7, <1>8, <1>9, <1>10, <1>11 DEF Inv

\* The closure taken is run.
LEMMA CancelFireInv ==
    ASSUME Inv, NEW c \in Callers, CancelFire(c)
    PROVE  Inv'
<1> USE NullAssumption DEF CancelFire, Resolve, tasks
<1>1. TypeOK'
  BY DEF Inv, TypeOK, OrNull, CallerStates, ClosureStates
<1>2. FreshOK'
  BY DEF Inv, TypeOK, OrNull, FreshOK, MapOK, SlotOK, CallerOK, Owned
<1>3. ResultOK'
  BY DEF Inv, TypeOK, OrNull, ResultOK
<1>4. CallerOK'
  BY DEF Inv, TypeOK, OrNull, CallerOK, MapOK, Owned
<1>5. SlotOK'
  BY DEF Inv, TypeOK, OrNull, MapOK, FreshOK, SlotOK
<1>6. StoredInterruptReachable'
  BY DEF Inv, TypeOK, OrNull, MapOK, FreshOK, StoredInterruptReachable
<1>7. LostInterruptNeedsReusedId'
  BY DEF Inv, TypeOK, OrNull, MapOK, FreshOK, SlotOK,
         LostInterruptNeedsReusedId
<1>8. MapOK' /\ StaysRegistered' /\ CompletionOK' /\ CompletedMeansFinished'
  BY DEF Inv, TypeOK, Owned, MapOK, StaysRegistered, CompletionOK,
         CompletedMeansFinished
<1> QED
  BY <1>1, <1>2, <1>3, <1>4, <1>5, <1>6, <1>7, <1>8 DEF Inv

\* Completion is signalled for an untracked task only.
LEMMA CancelCompleteInv ==
    ASSUME Inv, NEW c \in Callers, CancelComplete(c)
    PROVE  Inv'
<1> USE NullAssumption DEF CancelComplete, tasks
<1>1. TypeOK'
  BY DEF Inv, TypeOK, OrNull, CallerStates, CallerOK
<1>2. FreshOK'
  BY DEF Inv, TypeOK, OrNull, FreshOK, MapOK, SlotOK, CallerOK, Owned
<1>3. CompletionOK'
  BY DEF Inv, TypeOK, OrNull, FreshOK, CompletionOK
<1>4. ResultOK'
  BY DEF Inv, TypeOK, OrNull, ResultOK
<1>5. CallerOK'
  BY DEF Inv, TypeOK, OrNull, CallerOK, MapOK, Owned
<1>6. MapOK' /\ StaysRegistered' /\ SlotOK' /\ CompletedMeansFinished'
       /\ StoredInterruptReachable' /\ LostInterruptNeedsReusedId'
  BY DEF Inv, TypeOK, Owned, MapOK, StaysRegistered, SlotOK,
         CompletedMeansFinished, StoredInterruptReachable,
         LostInterruptNeedsReusedId
<1> QED
  BY <1>1, <1>2, <1>3, <1>4, <1>5, <1>6 DEF Inv

\* A thread that returned forgets its locals.
LEMMA IdleInv ==
    ASSUME Inv, NEW c \in Callers, Idle(c)
    PROVE  Inv'
<1> USE NullAssumption DEF Idle, regVars, tasks
<1>1. TypeOK'
  BY DEF Inv, TypeOK, OrNull, CallerStates, Results, NoResult
<1>2. ResultOK'
  BY DEF Inv, TypeOK, OrNull, ResultOK
<1>3. CallerOK'
  BY DEF Inv, TypeOK, OrNull, CallerOK, MapOK, Owned
<1>4. MapOK' /\ FreshOK' /\ StaysRegistered' /\ CompletionOK' /\ SlotOK'
       /\ CompletedMeansFinished' /\ StoredInterruptReachable'
       /\ LostInterruptNeedsReusedId'
  BY DEF Inv, TypeOK, Owned, MapOK, FreshOK, StaysRegistered, CompletionOK,
         SlotOK, CompletedMeansFinished, StoredInterruptReachable,
         LostInterruptNeedsReusedId
<1> QED
  BY <1>1, <1>2, <1>3, <1>4 DEF Inv

\* The answer of cancel_and_wait: terminal, for a requested cancel, because of the
\* completion it subscribed to.
LEMMA WaitReturnInv ==
    ASSUME Inv, NEW c \in Callers, NEW requested \in BOOLEAN,
       NEW terminal \in BOOLEAN,
           requested /\ terminal => watching[c] \in Registrations /\ completion[watching[c]], WaitReturn(c, requested, terminal)
    PROVE  Inv'
<1> USE NullAssumption DEF WaitReturn, regVars, tasks
<1>1. TypeOK'
  BY DEF Inv, TypeOK, OrNull, CallerStates, Results
<1>2. ResultOK'
  BY DEF Inv, TypeOK, OrNull, ResultOK
<1>3. CallerOK'
  BY DEF Inv, TypeOK, OrNull, CallerOK, MapOK, Owned
<1>4. MapOK' /\ FreshOK' /\ StaysRegistered' /\ CompletionOK' /\ SlotOK'
       /\ CompletedMeansFinished' /\ StoredInterruptReachable'
       /\ LostInterruptNeedsReusedId'
  BY DEF Inv, TypeOK, Owned, MapOK, FreshOK, StaysRegistered, CompletionOK,
         SlotOK, CompletedMeansFinished, StoredInterruptReachable,
         LostInterruptNeedsReusedId
<1> QED
  BY <1>1, <1>2, <1>3, <1>4 DEF Inv

-----------------------------------------------------------------------------
(* Theorems                                                                *)

\* Every step of a task or a caller, and the passing of the grace period,
\* keeps the invariant.
LEMMA NextInv == Inv /\ [Next]_vars => Inv'
<1> SUFFICES ASSUME Inv, [Next]_vars PROVE Inv'
  OBVIOUS
<1>1. ASSUME NEW r \in Registrations, TaskStep(r) PROVE Inv'
  BY <1>1, RegisterInv, DisplacedCancelInv, DisplacedCompleteInv,
     DisplacedInterruptInv, StoreInterruptInv, RunLateInterruptInv,
     SetPoolKeyInv, RemoveInv, DetachInv, RemoveCompleteInv
     DEF TaskStep
<1>2. ASSUME NEW c \in Callers, CallerStep(c) PROVE Inv'
  <2>1. ASSUME NEW e \in ExecutionIds, Cancel(c, e) PROVE Inv'
    BY <2>1, StartInv DEF Cancel, OrNull
  <2>2. ASSUME NEW e \in ExecutionIds, CancelAndWait(c, e) PROVE Inv'
    <3>1. inner[e] \in OrNull(Registrations)
      BY DEF Inv, TypeOK
    <3> QED
      BY <2>2, <3>1, StartInv DEF CancelAndWait, OrNull
  <2>3. ASSUME NEW S \in SUBSET Scopes, CancelMatching(c, S) PROVE Inv'
    BY <2>3, StartInv DEF CancelMatching, OrNull
  <2>4. CASE CancelReturn(c) \/ Forget(c)
    BY <2>4, IdleInv DEF CancelReturn, Forget
  <2>5. CASE WaitCompleted(c)
    BY <2>5, WaitReturnInv DEF WaitCompleted, Inv, TypeOK
  <2>6. CASE WaitTimeout(c)
    BY <2>6, WaitReturnInv DEF WaitTimeout
  <2>7. CASE CheckCompleted(c)
    <3>1. CompletedExecutionIsTerminal(target[c]) \in BOOLEAN
      BY DEF CompletedExecutionIsTerminal
    <3> QED
      BY <2>7, <3>1, WaitReturnInv DEF CheckCompleted
  <2> QED
    BY <1>2, <2>1, <2>2, <2>3, <2>4, <2>5, <2>6, <2>7, CancelMissingInv,
       CancelTaskInv, CancelFireInv, CancelCompleteInv
       DEF CallerStep
<1>3. CASE UNCHANGED vars
  <2>1. TypeOK' /\ MapOK' /\ FreshOK' /\ StaysRegistered' /\ CompletionOK'
    BY <1>3 DEF Inv, vars, TypeOK, MapOK, FreshOK, StaysRegistered,
                CompletionOK, Owned
  <2>2. ResultOK' /\ CallerOK' /\ SlotOK'
    BY <1>3 DEF Inv, vars, ResultOK, CallerOK, SlotOK
  <2>3. /\ CompletedMeansFinished' /\ StoredInterruptReachable'
        /\ LostInterruptNeedsReusedId'
    BY <1>3 DEF Inv, vars, CompletedMeansFinished, Owned,
                StoredInterruptReachable, LostInterruptNeedsReusedId
  <2> QED
    BY <2>1, <2>2, <2>3 DEF Inv
<1> QED
  BY <1>1, <1>2, <1>3, ExpireCompletedInv DEF Next

\* The inductive invariant holds in every reachable state of the registry.
THEOREM Invariance == Spec => []Inv
BY InitInv, NextInv, PTL DEF Spec

\* The registry is type correct; in particular a caller past cancel() has a
\* task in hand and a waiting caller a subscription.
THEOREM TypeCorrect == Spec => []TypeOK
<1>1. Inv => TypeOK
  BY DEF Inv
<1> QED
  BY <1>1, Invariance, PTL

\* No stale guard or reclaim timer ever takes a running execution out of the
\* map: it stays cancellable and its pool stays active (remove() compares
\* registration ids).
THEOREM RunningStaysReachable == Spec => []ReachableWhileRunning
<1>1. Inv => ReachableWhileRunning
  BY NullAssumption
     DEF Inv, TypeOK, StaysRegistered, ReachableWhileRunning, IsPoolActive, Owned
<1> QED
  BY <1>1, Invariance, PTL

\* cancel_and_wait tells a client that it may reconcile data only when the
\* guard of the tracked execution it watched is gone, or its id was registered
\* again.
THEOREM TerminalIsFinished == Spec => []TerminalMeansFinished
<1>1. Inv => TerminalMeansFinished
  BY DEF Inv, ResultOK, CompletionOK, TerminalMeansFinished
<1> QED
  BY <1>1, Invariance, PTL

\* The memory of completed executions never names one that still runs, unless
\* its id was registered again.
THEOREM CompletedIsFinished == Spec => []CompletedMeansFinished
<1>1. Inv => CompletedMeansFinished
  BY DEF Inv
<1> QED
  BY <1>1, Invariance, PTL

\* No stored interrupt is ever out of reach of a later cancel, whatever the
\* order of register_interrupt, cancel, register and remove.
THEOREM NoInterruptLeaks == Spec => []StoredInterruptReachable
<1>1. Inv => StoredInterruptReachable
  BY DEF Inv
<1> QED
  BY <1>1, Invariance, PTL

\* A running execution whose id is its own never loses its interrupt.
THEOREM InterruptLossNeedsReuse == Spec => []LostInterruptNeedsReusedId
<1>1. Inv => LostInterruptNeedsReusedId
  BY DEF Inv
<1> QED
  BY <1>1, Invariance, PTL

-----------------------------------------------------------------------------
(* The safety cores of FinishedIsSignalled and TakenInterruptRuns: what is *)
(* owed is in the hands of a thread that goes on to do it.                 *)

\* A task that has left the map without its completion being signalled is
\* about to be signalled: by the remove() that took it out, by the register
\* call that displaced it, or by the cancel() that removed an untracked task.
SignalOwed ==
    \A r \in Registrations :
        guard[r] # "none" /\ inner[execution_id[r]] # r /\ ~completion[r] =>
            \/ guard[r] = "completing"
            \/ displaced[r] \in {"cancel", "complete"}
            \/ /\ ~remember_completion[r]
               /\ \E c \in Callers : hit[c] = r /\ pc[c] \in {"firing", "completing"}

\* A closure is in one place: in one slot while it is stored, in the hands of
\* one caller that runs it next once it is taken.
ClosureHeldOnce ==
    /\ \A o \in Registrations : closure[o] = "taken" =>
          \E c \in Callers : pc[c] = "firing" /\ held[c] = o
    /\ \A c \in Callers :
          held[c] # Null => pc[c] = "firing" /\ closure[held[c]] = "taken"
    /\ \A c, d \in Callers : held[c] # Null /\ held[c] = held[d] => c = d
    /\ \A r \in Registrations : interrupt[r] # Null => closure[interrupt[r]] = "stored"
    /\ \A q, r \in Registrations :
          interrupt[q] # Null /\ interrupt[q] = interrupt[r] => q = r

\* Every step that takes a task out of the map owes its signal; only the
\* debtor's signal ends the debt.
LEMMA SignalPreserved ==
    ASSUME Inv, Inv', SignalOwed, [Next]_vars
    PROVE  SignalOwed'
<1> USE NullAssumption DEF Inv, TypeOK, OrNull, MapOK, FreshOK, CallerOK,
                           Owned, SignalOwed
<1>1. ASSUME NEW r \in Registrations, NEW e \in ExecutionIds,
       NEW tracked \in BOOLEAN, NEW s \in Scopes, Register(r, e, tracked, s)
      PROVE  SignalOwed'
  BY <1>1 DEF Register, InsertTask, callerVars
<1>2. ASSUME NEW r \in Registrations, DisplacedCancel(r)
      PROVE  SignalOwed'
  BY <1>2 DEF DisplacedCancel, tasks, callerVars
<1>3. ASSUME NEW r \in Registrations, DisplacedComplete(r)
      PROVE  SignalOwed'
  BY <1>3 DEF DisplacedComplete, tasks, callerVars
<1>4. ASSUME NEW r \in Registrations, DisplacedInterrupt(r)
      PROVE  SignalOwed'
  BY <1>4 DEF DisplacedInterrupt, Resolve, tasks, callerVars
<1>5. ASSUME NEW r \in Registrations, StoreInterrupt(r)
      PROVE  SignalOwed'
  BY <1>5 DEF StoreInterrupt, CanStoreInterrupt, Resolve, tasks, callerVars
<1>6. ASSUME NEW r \in Registrations, RunLateInterrupt(r)
      PROVE  SignalOwed'
  BY <1>6 DEF RunLateInterrupt, tasks, callerVars
<1>7. ASSUME NEW r \in Registrations, NEW k \in PoolKeys, SetPoolKey(r, k)
      PROVE  SignalOwed'
  BY <1>7 DEF SetPoolKey, tasks, callerVars
<1>8. ASSUME NEW r \in Registrations, Finish(r) \/ Reclaim(r)
      PROVE  SignalOwed'
  BY <1>8 DEF Finish, Reclaim, Remove, IsCurrent, Resolve, tasks, callerVars
<1>9. ASSUME NEW r \in Registrations, Detach(r)
      PROVE  SignalOwed'
  BY <1>9 DEF Detach, tasks, callerVars
<1>10. ASSUME NEW r \in Registrations, RemoveComplete(r)
      PROVE  SignalOwed'
  BY <1>10 DEF RemoveComplete, tasks, callerVars
<1>11. ASSUME NEW e \in ExecutionIds, ExpireCompleted(e)
      PROVE  SignalOwed'
  BY <1>11 DEF ExpireCompleted, tasks, callerVars
<1>12. ASSUME NEW c \in Callers, NEW e \in ExecutionIds,
       Cancel(c, e) \/ CancelAndWait(c, e)
      PROVE  SignalOwed'
  BY <1>12 DEF Cancel, CancelAndWait, Start, regVars, tasks
<1>13. ASSUME NEW c \in Callers, NEW S \in SUBSET Scopes, CancelMatching(c, S)
      PROVE  SignalOwed'
  BY <1>13 DEF CancelMatching, Start, regVars, tasks
<1>14. ASSUME NEW c \in Callers, NEW e \in ExecutionIds, CancelMissing(c, e)
      PROVE  SignalOwed'
  BY <1>14 DEF CancelMissing, regVars, tasks
<1>15. ASSUME NEW c \in Callers, NEW e \in ExecutionIds, CancelTask(c, e)
      PROVE  SignalOwed'
  BY <1>15 DEF CancelTask, Resolve, tasks
<1>16. ASSUME NEW c \in Callers, CancelFire(c)
      PROVE  SignalOwed'
  BY <1>16 DEF CancelFire, Resolve, tasks
<1>17. ASSUME NEW c \in Callers, CancelComplete(c)
      PROVE  SignalOwed'
  BY <1>17 DEF CancelComplete, tasks
<1>18. ASSUME NEW c \in Callers, CancelReturn(c) \/ Forget(c)
      PROVE  SignalOwed'
  BY <1>18 DEF CancelReturn, Forget, Idle, regVars, tasks
<1>19. ASSUME NEW c \in Callers,
       WaitCompleted(c) \/ WaitTimeout(c) \/ CheckCompleted(c)
      PROVE  SignalOwed'
  BY <1>19 DEF WaitCompleted, WaitTimeout, CheckCompleted, WaitReturn,
     regVars, tasks
<1>20. CASE UNCHANGED vars
  BY <1>20 DEF vars
<1> HIDE DEF Inv, TypeOK, OrNull, MapOK, FreshOK, CallerOK, Owned, SignalOwed
<1> QED
  BY <1>1, <1>2, <1>3, <1>4, <1>5, <1>6, <1>7, <1>8, <1>9, <1>10, <1>11,
     <1>12, <1>13, <1>14, <1>15, <1>16, <1>17, <1>18, <1>19, <1>20
     DEF Next, TaskStep, CallerStep

\* Every step that moves a closure moves it to one place.
LEMMA ClosurePreserved ==
    ASSUME Inv, Inv', ClosureHeldOnce, [Next]_vars
    PROVE  ClosureHeldOnce'
<1> USE NullAssumption DEF Inv, TypeOK, OrNull, MapOK, FreshOK, SlotOK,
                           CallerOK, Owned, ClosureHeldOnce
<1>1. ASSUME NEW r \in Registrations, NEW e \in ExecutionIds,
       NEW tracked \in BOOLEAN, NEW s \in Scopes, Register(r, e, tracked, s)
      PROVE  ClosureHeldOnce'
  BY <1>1 DEF Register, InsertTask, callerVars
<1>2. ASSUME NEW r \in Registrations, DisplacedCancel(r)
      PROVE  ClosureHeldOnce'
  BY <1>2 DEF DisplacedCancel, tasks, callerVars
<1>3. ASSUME NEW r \in Registrations, DisplacedComplete(r)
      PROVE  ClosureHeldOnce'
  BY <1>3 DEF DisplacedComplete, tasks, callerVars
<1>4. ASSUME NEW r \in Registrations, DisplacedInterrupt(r)
      PROVE  ClosureHeldOnce'
  BY <1>4 DEF DisplacedInterrupt, Resolve, tasks, callerVars
<1>5. ASSUME NEW r \in Registrations, StoreInterrupt(r)
      PROVE  ClosureHeldOnce'
  BY <1>5 DEF StoreInterrupt, CanStoreInterrupt, Resolve, tasks, callerVars
<1>6. ASSUME NEW r \in Registrations, RunLateInterrupt(r)
      PROVE  ClosureHeldOnce'
  BY <1>6 DEF RunLateInterrupt, tasks, callerVars
<1>7. ASSUME NEW r \in Registrations, NEW k \in PoolKeys, SetPoolKey(r, k)
      PROVE  ClosureHeldOnce'
  BY <1>7 DEF SetPoolKey, tasks, callerVars
<1>8. ASSUME NEW r \in Registrations, Finish(r) \/ Reclaim(r)
      PROVE  ClosureHeldOnce'
  <2> USE <1>8 DEF Finish, Reclaim, Remove, Resolve, tasks, callerVars
  <2>1. CASE ~IsCurrent(r) \/ interrupt[r] = Null
    <3>1. closure' = closure /\ pc' = pc /\ held' = held
      BY <2>1
    <3>2. \A q \in Registrations : interrupt'[q] = interrupt[q]
      BY <2>1
    <3> QED
      BY <3>1, <3>2
  <2>2. CASE IsCurrent(r) /\ interrupt[r] # Null
    <3>1. /\ closure' = [closure EXCEPT ![interrupt[r]] = "dropped"]
          /\ interrupt' = [interrupt EXCEPT ![r] = Null]
          /\ pc' = pc /\ held' = held
      BY <2>2
    <3>2. /\ interrupt[r] \in Registrations
          /\ \A q \in Registrations \ {r} : interrupt[q] # interrupt[r]
          /\ \A c \in Callers : held[c] # interrupt[r]
      BY <2>2
    <3> QED
      BY <3>1, <3>2
  <2> QED
    BY <2>1, <2>2
<1>9. ASSUME NEW r \in Registrations, Detach(r)
      PROVE  ClosureHeldOnce'
  BY <1>9 DEF Detach, tasks, callerVars
<1>10. ASSUME NEW r \in Registrations, RemoveComplete(r)
      PROVE  ClosureHeldOnce'
  BY <1>10 DEF RemoveComplete, tasks, callerVars
<1>11. ASSUME NEW e \in ExecutionIds, ExpireCompleted(e)
      PROVE  ClosureHeldOnce'
  BY <1>11 DEF ExpireCompleted, tasks, callerVars
<1>12. ASSUME NEW c \in Callers, NEW e \in ExecutionIds,
       Cancel(c, e) \/ CancelAndWait(c, e)
      PROVE  ClosureHeldOnce'
  BY <1>12 DEF Cancel, CancelAndWait, Start, regVars, tasks
<1>13. ASSUME NEW c \in Callers, NEW S \in SUBSET Scopes, CancelMatching(c, S)
      PROVE  ClosureHeldOnce'
  BY <1>13 DEF CancelMatching, Start, regVars, tasks
<1>14. ASSUME NEW c \in Callers, NEW e \in ExecutionIds, CancelMissing(c, e)
      PROVE  ClosureHeldOnce'
  BY <1>14 DEF CancelMissing, regVars, tasks
<1>15. ASSUME NEW c \in Callers, NEW e \in ExecutionIds, CancelTask(c, e)
      PROVE  ClosureHeldOnce'
  BY <1>15 DEF CancelTask, Resolve, tasks
<1>16. ASSUME NEW c \in Callers, CancelFire(c)
      PROVE  ClosureHeldOnce'
  BY <1>16 DEF CancelFire, Resolve, tasks
<1>17. ASSUME NEW c \in Callers, CancelComplete(c)
      PROVE  ClosureHeldOnce'
  BY <1>17 DEF CancelComplete, tasks
<1>18. ASSUME NEW c \in Callers, CancelReturn(c) \/ Forget(c)
      PROVE  ClosureHeldOnce'
  BY <1>18 DEF CancelReturn, Forget, Idle, regVars, tasks
<1>19. ASSUME NEW c \in Callers,
       WaitCompleted(c) \/ WaitTimeout(c) \/ CheckCompleted(c)
      PROVE  ClosureHeldOnce'
  BY <1>19 DEF WaitCompleted, WaitTimeout, CheckCompleted, WaitReturn,
     regVars, tasks
<1>20. CASE UNCHANGED vars
  BY <1>20 DEF vars
<1> HIDE DEF Inv, TypeOK, OrNull, MapOK, FreshOK, SlotOK, CallerOK, Owned,
             ClosureHeldOnce
<1> QED
  BY <1>1, <1>2, <1>3, <1>4, <1>5, <1>6, <1>7, <1>8, <1>9, <1>10, <1>11,
     <1>12, <1>13, <1>14, <1>15, <1>16, <1>17, <1>18, <1>19, <1>20
     DEF Next, TaskStep, CallerStep

\* Whoever takes a task out of the map (remove(), cancel() of an untracked
\* task, a displacing register) signals its completion: a waiter is never left
\* to its timeout by a task that is gone and that nobody will signal.
THEOREM SignalIsOwed == Spec => []SignalOwed
<1>1. Init => SignalOwed
  BY DEF Init, SignalOwed
<1> QED
  BY <1>1, SignalPreserved, Invariance, PTL DEF Spec

\* No two callers, displacing registers or slots share an interrupt closure,
\* and a taken one is held by a caller that is about to run it.
THEOREM ClosuresAreHeldOnce == Spec => []ClosureHeldOnce
<1>1. Init => ClosureHeldOnce
  BY DEF Init, ClosureHeldOnce
<1> QED
  BY <1>1, ClosurePreserved, Invariance, PTL DEF Spec

\* An interrupt closure runs at most once, and one that has run or was dropped
\* is never stored or taken again: cancel(), a displacing register and a late
\* register_interrupt never both run it.
THEOREM InterruptRunsOnce ==
    Spec => [][\A o \in Registrations :
                  closure[o] \in {"fired", "dropped"} => closure'[o] = closure[o]]_vars
<1> DEFINE Settled == \A o \in Registrations :
                         closure[o] \in {"fired", "dropped"} => closure'[o] = closure[o]
<1>1. ASSUME Inv, ClosureHeldOnce, [Next]_vars PROVE Settled \/ UNCHANGED vars
  <2> USE <1>1, NullAssumption DEF Inv, TypeOK, OrNull, MapOK, SlotOK,
                                  ClosureHeldOnce
  <2>1. ASSUME NEW r \in Registrations, NEW e \in ExecutionIds,
         NEW tracked \in BOOLEAN, NEW s \in Scopes, Register(r, e, tracked, s)
        PROVE  Settled
    BY <2>1 DEF Register, InsertTask, callerVars
  <2>2. ASSUME NEW r \in Registrations, DisplacedCancel(r)
        PROVE  Settled
    BY <2>2 DEF DisplacedCancel, tasks, callerVars
  <2>3. ASSUME NEW r \in Registrations, DisplacedComplete(r)
        PROVE  Settled
    BY <2>3 DEF DisplacedComplete, tasks, callerVars
  <2>4. ASSUME NEW r \in Registrations, DisplacedInterrupt(r)
        PROVE  Settled
    BY <2>4 DEF DisplacedInterrupt, Resolve, tasks, callerVars
  <2>5. ASSUME NEW r \in Registrations, StoreInterrupt(r)
        PROVE  Settled
    BY <2>5 DEF StoreInterrupt, CanStoreInterrupt, Resolve, tasks,
       callerVars
  <2>6. ASSUME NEW r \in Registrations, RunLateInterrupt(r)
        PROVE  Settled
    BY <2>6 DEF RunLateInterrupt, tasks, callerVars
  <2>7. ASSUME NEW r \in Registrations, NEW k \in PoolKeys, SetPoolKey(r, k)
        PROVE  Settled
    BY <2>7 DEF SetPoolKey, tasks, callerVars
  <2>8. ASSUME NEW r \in Registrations, Finish(r) \/ Reclaim(r)
        PROVE  Settled
    BY <2>8 DEF Finish, Reclaim, Remove, IsCurrent, Resolve, tasks,
       callerVars
  <2>9. ASSUME NEW r \in Registrations, Detach(r)
        PROVE  Settled
    BY <2>9 DEF Detach, tasks, callerVars
  <2>10. ASSUME NEW r \in Registrations, RemoveComplete(r)
        PROVE  Settled
    BY <2>10 DEF RemoveComplete, tasks, callerVars
  <2>11. ASSUME NEW e \in ExecutionIds, ExpireCompleted(e)
        PROVE  Settled
    BY <2>11 DEF ExpireCompleted, tasks, callerVars
  <2>12. ASSUME NEW c \in Callers, NEW e \in ExecutionIds,
         Cancel(c, e) \/ CancelAndWait(c, e)
        PROVE  Settled
    BY <2>12 DEF Cancel, CancelAndWait, Start, regVars, tasks
  <2>13. ASSUME NEW c \in Callers, NEW S \in SUBSET Scopes, CancelMatching(c, S)
        PROVE  Settled
    BY <2>13 DEF CancelMatching, Start, regVars, tasks
  <2>14. ASSUME NEW c \in Callers, NEW e \in ExecutionIds, CancelMissing(c, e)
        PROVE  Settled
    BY <2>14 DEF CancelMissing, regVars, tasks
  <2>15. ASSUME NEW c \in Callers, NEW e \in ExecutionIds, CancelTask(c, e)
        PROVE  Settled
    BY <2>15 DEF CancelTask, Resolve, tasks
  <2>16. ASSUME NEW c \in Callers, CancelFire(c)
        PROVE  Settled
    BY <2>16 DEF CancelFire, Resolve, tasks
  <2>17. ASSUME NEW c \in Callers, CancelComplete(c)
        PROVE  Settled
    BY <2>17 DEF CancelComplete, tasks
  <2>18. ASSUME NEW c \in Callers, CancelReturn(c) \/ Forget(c)
        PROVE  Settled
    BY <2>18 DEF CancelReturn, Forget, Idle, regVars, tasks
  <2>19. ASSUME NEW c \in Callers,
         WaitCompleted(c) \/ WaitTimeout(c) \/ CheckCompleted(c)
        PROVE  Settled
    BY <2>19 DEF WaitCompleted, WaitTimeout, CheckCompleted, WaitReturn,
       regVars, tasks
  <2> HIDE DEF Inv, TypeOK, OrNull, MapOK, SlotOK, ClosureHeldOnce
  <2> QED
    BY <2>1, <2>2, <2>3, <2>4, <2>5, <2>6, <2>7, <2>8, <2>9, <2>10, <2>11,
       <2>12, <2>13, <2>14, <2>15, <2>16, <2>17, <2>18, <2>19, Zenon DEF
       Next, TaskStep, CallerStep
<1> QED
  BY <1>1, Invariance, ClosuresAreHeldOnce, PTL DEF Spec
=============================================================================
