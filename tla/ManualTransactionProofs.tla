----------------------- MODULE ManualTransactionProofs ----------------------
(***************************************************************************)
(* Proofs about ManualTransaction, for any number of calls, keep-alive     *)
(* guards, failures and dropped futures.                                   *)
(***************************************************************************)
EXTENDS ManualTransaction, TLAPS

\* Before begin nothing has happened; a session in the map has an open
\* transaction; a transaction that ended has nobody left to end it; a guard
\* spawns its watcher when it is dropped.
MapOK ==
    /\ txn = "none" => /\ ~in_map
                       /\ \A c \in Calls : pc[c] = "idle"
                       /\ \A w \in Spawners : watch[w] # "rolling_back"
    /\ in_map => txn = "open"
    /\ txn \in {"committed", "rolled_back"} =>
          /\ \A c \in Calls : ~Ends(c)
          /\ \A w \in Spawners : watch[w] # "rolling_back"
    /\ \A k \in Keepers : keep[k] # "dropped" => watch[k] = "none"

\* A session that the timeout or a failure took has no script running.
NoStrayScript ==
    removed_by \in {"idle", "failure"} => \A c \in Calls : ~Executes(c)

Inv ==
    /\ TypeOK
    /\ MapOK
    /\ OneEnds
    /\ OneExecutes
    /\ NoStrayScript
    /\ NoOrphan
    /\ OutsideOnlyByUser
    /\ FailedIsRolledBack

-----------------------------------------------------------------------------
(* Preservation of the invariant: one lemma per action                     *)

\* The initial state satisfies the invariant.
LEMMA InitInv == Init => Inv
<1> SUFFICES ASSUME Init PROVE Inv
  OBVIOUS
<1> USE BoundsAssumption DEF Init
<1>1. in_map \in BOOLEAN /\ busy \in BOOLEAN
  BY Zenon
<1>2. TypeOK
  BY <1>1 DEF TypeOK, PCs, Results
<1>3. MapOK /\ OneEnds /\ OneExecutes /\ NoStrayScript /\ NoOrphan /\ OutsideOnlyByUser
  BY DEF MapOK, OneEnds, OneExecutes, NoStrayScript, NoOrphan, OutsideOnlyByUser,
         Ends, Executes, Enders, Spawners
<1>4. FailedIsRolledBack
  BY DEF FailedIsRolledBack
<1> QED
  BY <1>2, <1>3, <1>4 DEF Inv

\* begin opens the transaction and puts the session into the map.
LEMMA BeginInv ==
    ASSUME Inv, begin
    PROVE  Inv'
<1> USE BoundsAssumption, SpawnersAssumption DEF begin
<1>1. in_map' \in BOOLEAN /\ busy' \in BOOLEAN
  BY Zenon DEF Inv, TypeOK
<1>2. TypeOK'
  BY <1>1 DEF Inv, TypeOK, MapOK, PCs, Results, Spawners
<1>3. MapOK'
  BY DEF Inv, TypeOK, MapOK, OneEnds, Ends, Enders, Spawners
<1>4. OneEnds'
  BY DEF Inv, TypeOK, MapOK, OneEnds, Ends, Enders
<1>5. OneExecutes'
  BY DEF Inv, TypeOK, MapOK, OneExecutes, Executes
<1>6. NoStrayScript'
  BY DEF Inv, TypeOK, MapOK, OneExecutes, NoStrayScript, Executes
<1>7. NoOrphan'
  BY DEF Inv, TypeOK, MapOK, OneEnds, NoOrphan, Ends, Enders, Spawners
<1>8. OutsideOnlyByUser'
  BY DEF Inv, TypeOK, MapOK, OneExecutes, NoStrayScript, OutsideOnlyByUser,
         Executes
<1>9. FailedIsRolledBack'
  BY DEF Inv, TypeOK, MapOK, NoStrayScript, FailedIsRolledBack, Ends, Executes
<1> QED
  BY <1>2, <1>3, <1>4, <1>5, <1>6, <1>7, <1>8, <1>9 DEF Inv

\* A call that is refused changes nothing.
LEMMA RefuseInv ==
    ASSUME Inv, NEW c \in Calls, Refuse(c)
    PROVE  Inv'
<1> USE BoundsAssumption, SpawnersAssumption DEF Refuse, Return
<1>1. in_map' \in BOOLEAN /\ busy' \in BOOLEAN
  BY Zenon DEF Inv, TypeOK
<1>2. TypeOK'
  BY <1>1 DEF Inv, TypeOK, MapOK, PCs, Results, Spawners
<1>3. MapOK'
  BY DEF Inv, TypeOK, MapOK, OneEnds, Ends, Enders, Spawners
<1>4. OneEnds'
  BY DEF Inv, TypeOK, MapOK, OneEnds, Ends, Enders
<1>5. OneExecutes'
  BY DEF Inv, TypeOK, MapOK, OneExecutes, Executes
<1>6. NoStrayScript'
  BY DEF Inv, TypeOK, MapOK, OneExecutes, NoStrayScript, Executes
<1>7. NoOrphan'
  BY DEF Inv, TypeOK, MapOK, OneEnds, NoOrphan, Ends, Enders, Spawners
<1>8. OutsideOnlyByUser'
  BY DEF Inv, TypeOK, MapOK, OneExecutes, NoStrayScript, OutsideOnlyByUser,
         Executes
<1>9. FailedIsRolledBack'
  BY DEF Inv, TypeOK, MapOK, NoStrayScript, FailedIsRolledBack, Ends, Executes
<1> QED
  BY <1>2, <1>3, <1>4, <1>5, <1>6, <1>7, <1>8, <1>9 DEF Inv

\* A call marks the session busy: nobody else executes.
LEMMA ClaimInv ==
    ASSUME Inv, NEW c \in Calls, Claim(c)
    PROVE  Inv'
<1> USE BoundsAssumption, SpawnersAssumption DEF Claim, Goto, Touch, Aged
<1>1. in_map' \in BOOLEAN /\ busy' \in BOOLEAN
  BY Zenon DEF Inv, TypeOK
<1>2. TypeOK'
  BY <1>1 DEF Inv, TypeOK, MapOK, PCs, Results, Spawners
<1>3. MapOK'
  BY DEF Inv, TypeOK, MapOK, OneEnds, Ends, Enders, Spawners
<1>4. OneEnds'
  BY DEF Inv, TypeOK, MapOK, OneEnds, Ends, Enders
<1>5. OneExecutes'
  BY DEF Inv, TypeOK, MapOK, OneExecutes, Executes
<1>6. NoStrayScript'
  BY DEF Inv, TypeOK, MapOK, OneExecutes, NoStrayScript, Executes
<1>7. NoOrphan'
  BY DEF Inv, TypeOK, MapOK, OneEnds, NoOrphan, Ends, Enders, Spawners
<1>8. OutsideOnlyByUser'
  BY DEF Inv, TypeOK, MapOK, OneExecutes, NoStrayScript, OutsideOnlyByUser,
         Executes
<1>9. FailedIsRolledBack'
  BY DEF Inv, TypeOK, MapOK, NoStrayScript, FailedIsRolledBack, Ends, Executes
<1> QED
  BY <1>2, <1>3, <1>4, <1>5, <1>6, <1>7, <1>8, <1>9 DEF Inv

\* A call finds the session over its timeout and takes it.
LEMMA ExpireInv ==
    ASSUME Inv, NEW c \in Calls, Expire(c)
    PROVE  Inv'
<1> USE BoundsAssumption, SpawnersAssumption DEF Expire, Goto, TakeSession
<1>1. in_map' \in BOOLEAN /\ busy' \in BOOLEAN
  BY Zenon DEF Inv, TypeOK
<1>2. TypeOK'
  BY <1>1 DEF Inv, TypeOK, MapOK, PCs, Results, Spawners
<1>3. MapOK'
  BY DEF Inv, TypeOK, MapOK, OneEnds, Ends, Enders, Spawners
<1>4. OneEnds'
  BY DEF Inv, TypeOK, MapOK, OneEnds, Ends, Enders
<1>5. OneExecutes'
  BY DEF Inv, TypeOK, MapOK, OneExecutes, Executes
<1>6. NoStrayScript'
  BY DEF Inv, TypeOK, MapOK, OneExecutes, NoStrayScript, Executes
<1>7. NoOrphan'
  BY DEF Inv, TypeOK, MapOK, OneEnds, NoOrphan, Ends, Enders, Spawners
<1>8. OutsideOnlyByUser'
  BY DEF Inv, TypeOK, MapOK, OneExecutes, NoStrayScript, OutsideOnlyByUser,
         Executes
<1>9. FailedIsRolledBack'
  BY DEF Inv, TypeOK, MapOK, NoStrayScript, FailedIsRolledBack, Ends, Executes
<1> QED
  BY <1>2, <1>3, <1>4, <1>5, <1>6, <1>7, <1>8, <1>9 DEF Inv

\* A call looks the session up again.
LEMMA FetchInv ==
    ASSUME Inv, NEW c \in Calls, Fetch(c)
    PROVE  Inv'
<1> USE BoundsAssumption, SpawnersAssumption DEF Fetch, Goto, Return
<1>1. in_map' \in BOOLEAN /\ busy' \in BOOLEAN
  BY Zenon DEF Inv, TypeOK
<1>2. TypeOK'
  BY <1>1 DEF Inv, TypeOK, MapOK, PCs, Results, Spawners
<1>3. MapOK'
  BY DEF Inv, TypeOK, MapOK, OneEnds, Ends, Enders, Spawners
<1>4. OneEnds'
  BY DEF Inv, TypeOK, MapOK, OneEnds, Ends, Enders
<1>5. OneExecutes'
  BY DEF Inv, TypeOK, MapOK, OneExecutes, Executes
<1>6. NoStrayScript'
  BY DEF Inv, TypeOK, MapOK, OneExecutes, NoStrayScript, Executes
<1>7. NoOrphan'
  BY DEF Inv, TypeOK, MapOK, OneEnds, NoOrphan, Ends, Enders, Spawners
<1>8. OutsideOnlyByUser'
  BY DEF Inv, TypeOK, MapOK, OneExecutes, NoStrayScript, OutsideOnlyByUser,
         Executes
<1>9. FailedIsRolledBack'
  BY DEF Inv, TypeOK, MapOK, NoStrayScript, FailedIsRolledBack, Ends, Executes
<1> QED
  BY <1>2, <1>3, <1>4, <1>5, <1>6, <1>7, <1>8, <1>9 DEF Inv

\* A call gets the connection.
LEMMA LockInv ==
    ASSUME Inv, NEW c \in Calls, Lock(c)
    PROVE  Inv'
<1> USE BoundsAssumption, SpawnersAssumption DEF Lock, Goto
<1>1. in_map' \in BOOLEAN /\ busy' \in BOOLEAN
  BY Zenon DEF Inv, TypeOK
<1>2. TypeOK'
  BY <1>1 DEF Inv, TypeOK, MapOK, PCs, Results, Spawners
<1>3. MapOK'
  BY DEF Inv, TypeOK, MapOK, OneEnds, Ends, Enders, Spawners
<1>4. OneEnds'
  BY DEF Inv, TypeOK, MapOK, OneEnds, Ends, Enders
<1>5. OneExecutes'
  BY DEF Inv, TypeOK, MapOK, OneExecutes, Executes
<1>6. NoStrayScript'
  BY DEF Inv, TypeOK, MapOK, OneExecutes, NoStrayScript, Executes
<1>7. NoOrphan'
  BY DEF Inv, TypeOK, MapOK, OneEnds, NoOrphan, Ends, Enders, Spawners
<1>8. OutsideOnlyByUser'
  BY DEF Inv, TypeOK, MapOK, OneExecutes, NoStrayScript, OutsideOnlyByUser,
         Executes
<1>9. FailedIsRolledBack'
  BY DEF Inv, TypeOK, MapOK, NoStrayScript, FailedIsRolledBack, Ends, Executes
<1> QED
  BY <1>2, <1>3, <1>4, <1>5, <1>6, <1>7, <1>8, <1>9 DEF Inv

\* The script runs; it is outside a transaction only if the user ended it.
LEMMA RunStatementsInv ==
    ASSUME Inv, NEW c \in Calls, NEW good \in BOOLEAN, RunStatements(c, good)
    PROVE  Inv'
<1> USE BoundsAssumption, SpawnersAssumption DEF RunStatements, Goto
<1>1. in_map' \in BOOLEAN /\ busy' \in BOOLEAN
  BY Zenon DEF Inv, TypeOK
<1>2. TypeOK'
  BY <1>1 DEF Inv, TypeOK, MapOK, PCs, Results, Spawners
<1>3. MapOK'
  BY DEF Inv, TypeOK, MapOK, OneEnds, Ends, Enders, Spawners
<1>4. OneEnds'
  BY DEF Inv, TypeOK, MapOK, OneEnds, Ends, Enders
<1>5. OneExecutes'
  BY DEF Inv, TypeOK, MapOK, OneExecutes, Executes
<1>6. NoStrayScript'
  BY DEF Inv, TypeOK, MapOK, OneExecutes, NoStrayScript, Executes
<1>7. NoOrphan'
  BY DEF Inv, TypeOK, MapOK, OneEnds, NoOrphan, Ends, Enders, Spawners
<1>8. OutsideOnlyByUser'
  BY DEF Inv, TypeOK, MapOK, OneExecutes, NoStrayScript, OutsideOnlyByUser,
         Executes
<1>9. FailedIsRolledBack'
  BY DEF Inv, TypeOK, MapOK, NoStrayScript, FailedIsRolledBack, Ends, Executes
<1> QED
  BY <1>2, <1>3, <1>4, <1>5, <1>6, <1>7, <1>8, <1>9 DEF Inv

\* A call whose statement failed takes the session.
LEMMA FailInv ==
    ASSUME Inv, NEW c \in Calls, Fail(c)
    PROVE  Inv'
<1> USE BoundsAssumption, SpawnersAssumption DEF Fail, Goto, TakeSession
<1>1. in_map' \in BOOLEAN /\ busy' \in BOOLEAN
  BY Zenon DEF Inv, TypeOK
<1>2. TypeOK'
  BY <1>1 DEF Inv, TypeOK, MapOK, PCs, Results, Spawners
<1>3. MapOK'
  BY DEF Inv, TypeOK, MapOK, OneEnds, Ends, Enders, Spawners
<1>4. OneEnds'
  BY DEF Inv, TypeOK, MapOK, OneEnds, Ends, Enders
<1>5. OneExecutes'
  BY DEF Inv, TypeOK, MapOK, OneExecutes, Executes
<1>6. NoStrayScript'
  BY DEF Inv, TypeOK, MapOK, OneExecutes, NoStrayScript, Executes
<1>7. NoOrphan'
  BY DEF Inv, TypeOK, MapOK, OneEnds, NoOrphan, Ends, Enders, Spawners
<1>8. OutsideOnlyByUser'
  BY DEF Inv, TypeOK, MapOK, OneExecutes, NoStrayScript, OutsideOnlyByUser,
         Executes
<1>9. FailedIsRolledBack'
  BY DEF Inv, TypeOK, MapOK, NoStrayScript, FailedIsRolledBack, Ends, Executes
<1> QED
  BY <1>2, <1>3, <1>4, <1>5, <1>6, <1>7, <1>8, <1>9 DEF Inv

\* ... or leaves the rollback to the one that took it before.
LEMMA FailTakenInv ==
    ASSUME Inv, NEW c \in Calls, FailTaken(c)
    PROVE  Inv'
<1> USE BoundsAssumption, SpawnersAssumption DEF FailTaken, Return
<1>1. in_map' \in BOOLEAN /\ busy' \in BOOLEAN
  BY Zenon DEF Inv, TypeOK
<1>2. TypeOK'
  BY <1>1 DEF Inv, TypeOK, MapOK, PCs, Results, Spawners
<1>3. MapOK'
  BY DEF Inv, TypeOK, MapOK, OneEnds, Ends, Enders, Spawners
<1>4. OneEnds'
  BY DEF Inv, TypeOK, MapOK, OneEnds, Ends, Enders
<1>5. OneExecutes'
  BY DEF Inv, TypeOK, MapOK, OneExecutes, Executes
<1>6. NoStrayScript'
  BY DEF Inv, TypeOK, MapOK, OneExecutes, NoStrayScript, Executes
<1>7. NoOrphan'
  BY DEF Inv, TypeOK, MapOK, OneEnds, NoOrphan, Ends, Enders, Spawners
<1>8. OutsideOnlyByUser'
  BY DEF Inv, TypeOK, MapOK, OneExecutes, NoStrayScript, OutsideOnlyByUser,
         Executes
<1>9. FailedIsRolledBack'
  BY DEF Inv, TypeOK, MapOK, NoStrayScript, FailedIsRolledBack, Ends, Executes
<1> QED
  BY <1>2, <1>3, <1>4, <1>5, <1>6, <1>7, <1>8, <1>9 DEF Inv

\* It rolls back.
LEMMA RollBackHeldInv ==
    ASSUME Inv, NEW c \in Calls, NEW good \in BOOLEAN, RollBackHeld(c, good)
    PROVE  Inv'
<1> USE BoundsAssumption, SpawnersAssumption DEF RollBackHeld,
         EndTransaction, Return
<1>1. in_map' \in BOOLEAN /\ busy' \in BOOLEAN
  BY Zenon DEF Inv, TypeOK
<1>2. TypeOK'
  BY <1>1 DEF Inv, TypeOK, MapOK, PCs, Results, Spawners
<1>3. MapOK'
  BY DEF Inv, TypeOK, MapOK, OneEnds, Ends, Enders, Spawners
<1>4. OneEnds'
  BY DEF Inv, TypeOK, MapOK, OneEnds, Ends, Enders
<1>5. OneExecutes'
  BY DEF Inv, TypeOK, MapOK, OneExecutes, Executes
<1>6. NoStrayScript'
  BY DEF Inv, TypeOK, MapOK, OneExecutes, NoStrayScript, Executes
<1>7. NoOrphan'
  BY DEF Inv, TypeOK, MapOK, OneEnds, NoOrphan, Ends, Enders, Spawners
<1>8. OutsideOnlyByUser'
  BY DEF Inv, TypeOK, MapOK, OneExecutes, NoStrayScript, OutsideOnlyByUser,
         Executes
<1>9. FailedIsRolledBack'
  BY DEF Inv, TypeOK, MapOK, NoStrayScript, FailedIsRolledBack, Ends, Executes
<1> QED
  BY <1>2, <1>3, <1>4, <1>5, <1>6, <1>7, <1>8, <1>9 DEF Inv

\* The only script ends: the session is idle again.
LEMMA FinishInv ==
    ASSUME Inv, NEW c \in Calls, Finish(c)
    PROVE  Inv'
<1> USE BoundsAssumption, SpawnersAssumption DEF Finish, Return,
         TouchAndSpawn, Aged
<1>1. in_map' \in BOOLEAN /\ busy' \in BOOLEAN
  BY Zenon DEF Inv, TypeOK
<1>2. TypeOK'
  <2>1. pc' \in [Calls -> PCs] /\ result' \in [Calls -> Results]
    BY DEF Inv, TypeOK, PCs, Results
  <2>2. age' \in 0..2
    BY DEF Inv, TypeOK
  <2>3. watch' \in [Spawners -> {"none", "fresh", "stale", "rolling_back",
         "done"}]
    BY DEF Inv, TypeOK, Spawners
  <2> QED
    BY <1>1, <2>1, <2>2, <2>3 DEF Inv, TypeOK
<1>3. MapOK'
  BY DEF Inv, TypeOK, MapOK, OneEnds, Ends, Enders, Spawners
<1>4. OneEnds'
  BY DEF Inv, TypeOK, MapOK, OneEnds, Ends, Enders
<1>5. OneExecutes'
  BY DEF Inv, TypeOK, MapOK, OneExecutes, Executes
<1>6. NoStrayScript'
  BY DEF Inv, TypeOK, MapOK, OneExecutes, NoStrayScript, Executes
<1>7. NoOrphan'
  BY DEF Inv, TypeOK, MapOK, OneEnds, NoOrphan, Ends, Enders, Spawners
<1>8. OutsideOnlyByUser'
  BY DEF Inv, TypeOK, MapOK, OneExecutes, NoStrayScript, OutsideOnlyByUser,
         Executes
<1>9. FailedIsRolledBack'
  BY DEF Inv, TypeOK, MapOK, NoStrayScript, FailedIsRolledBack, Ends, Executes
<1> QED
  BY <1>2, <1>3, <1>4, <1>5, <1>6, <1>7, <1>8, <1>9 DEF Inv

\* A dropped future leaves the map as it is.
LEMMA DropInv ==
    ASSUME Inv, NEW c \in Calls, Drop(c)
    PROVE  Inv'
<1> USE BoundsAssumption, SpawnersAssumption DEF Drop, Return
<1>1. in_map' \in BOOLEAN /\ busy' \in BOOLEAN
  BY Zenon DEF Inv, TypeOK
<1>2. TypeOK'
  BY <1>1 DEF Inv, TypeOK, MapOK, PCs, Results, Spawners
<1>3. MapOK'
  BY DEF Inv, TypeOK, MapOK, OneEnds, Ends, Enders, Spawners
<1>4. OneEnds'
  BY DEF Inv, TypeOK, MapOK, OneEnds, Ends, Enders
<1>5. OneExecutes'
  BY DEF Inv, TypeOK, MapOK, OneExecutes, Executes
<1>6. NoStrayScript'
  BY DEF Inv, TypeOK, MapOK, OneExecutes, NoStrayScript, Executes
<1>7. NoOrphan'
  BY DEF Inv, TypeOK, MapOK, OneEnds, NoOrphan, Ends, Enders, Spawners
<1>8. OutsideOnlyByUser'
  BY DEF Inv, TypeOK, MapOK, OneExecutes, NoStrayScript, OutsideOnlyByUser,
         Executes
<1>9. FailedIsRolledBack'
  BY DEF Inv, TypeOK, MapOK, NoStrayScript, FailedIsRolledBack, Ends, Executes
<1> QED
  BY <1>2, <1>3, <1>4, <1>5, <1>6, <1>7, <1>8, <1>9 DEF Inv

\* The user's commit or rollback takes the session.
LEMMA TakeInv ==
    ASSUME Inv, NEW c \in Calls, NEW op \in {"commit", "rollback"}, Take(c, op)
    PROVE  Inv'
<1> USE BoundsAssumption, SpawnersAssumption DEF Take, Goto, TakeSession
<1>1. in_map' \in BOOLEAN /\ busy' \in BOOLEAN
  BY Zenon DEF Inv, TypeOK
<1>2. TypeOK'
  BY <1>1 DEF Inv, TypeOK, MapOK, PCs, Results, Spawners
<1>3. MapOK'
  BY DEF Inv, TypeOK, MapOK, OneEnds, Ends, Enders, Spawners
<1>4. OneEnds'
  BY DEF Inv, TypeOK, MapOK, OneEnds, Ends, Enders
<1>5. OneExecutes'
  BY DEF Inv, TypeOK, MapOK, OneExecutes, Executes
<1>6. NoStrayScript'
  BY DEF Inv, TypeOK, MapOK, OneExecutes, NoStrayScript, Executes
<1>7. NoOrphan'
  BY DEF Inv, TypeOK, MapOK, OneEnds, NoOrphan, Ends, Enders, Spawners
<1>8. OutsideOnlyByUser'
  BY DEF Inv, TypeOK, MapOK, OneExecutes, NoStrayScript, OutsideOnlyByUser,
         Executes
<1>9. FailedIsRolledBack'
  BY DEF Inv, TypeOK, MapOK, NoStrayScript, FailedIsRolledBack, Ends, Executes
<1> QED
  BY <1>2, <1>3, <1>4, <1>5, <1>6, <1>7, <1>8, <1>9 DEF Inv

\* It commits.
LEMMA CommitTakenInv ==
    ASSUME Inv, NEW c \in Calls, NEW good \in BOOLEAN, CommitTaken(c, good)
    PROVE  Inv'
<1> USE BoundsAssumption, SpawnersAssumption DEF CommitTaken, EndTransaction,
         Return
<1>1. in_map' \in BOOLEAN /\ busy' \in BOOLEAN
  BY Zenon DEF Inv, TypeOK
<1>2. TypeOK'
  BY <1>1 DEF Inv, TypeOK, MapOK, PCs, Results, Spawners
<1>3. MapOK'
  BY DEF Inv, TypeOK, MapOK, OneEnds, Ends, Enders, Spawners
<1>4. OneEnds'
  BY DEF Inv, TypeOK, MapOK, OneEnds, Ends, Enders
<1>5. OneExecutes'
  BY DEF Inv, TypeOK, MapOK, OneExecutes, Executes
<1>6. NoStrayScript'
  BY DEF Inv, TypeOK, MapOK, OneExecutes, NoStrayScript, Executes
<1>7. NoOrphan'
  BY DEF Inv, TypeOK, MapOK, OneEnds, NoOrphan, Ends, Enders, Spawners
<1>8. OutsideOnlyByUser'
  BY DEF Inv, TypeOK, MapOK, OneExecutes, NoStrayScript, OutsideOnlyByUser,
         Executes
<1>9. FailedIsRolledBack'
  BY DEF Inv, TypeOK, MapOK, NoStrayScript, FailedIsRolledBack, Ends, Executes
<1> QED
  BY <1>2, <1>3, <1>4, <1>5, <1>6, <1>7, <1>8, <1>9 DEF Inv

\* It rolls back.
LEMMA RollBackTakenInv ==
    ASSUME Inv, NEW c \in Calls, NEW good \in BOOLEAN, RollBackTaken(c, good)
    PROVE  Inv'
<1> USE BoundsAssumption, SpawnersAssumption DEF RollBackTaken,
         EndTransaction, Return
<1>1. in_map' \in BOOLEAN /\ busy' \in BOOLEAN
  BY Zenon DEF Inv, TypeOK
<1>2. TypeOK'
  BY <1>1 DEF Inv, TypeOK, MapOK, PCs, Results, Spawners
<1>3. MapOK'
  BY DEF Inv, TypeOK, MapOK, OneEnds, Ends, Enders, Spawners
<1>4. OneEnds'
  BY DEF Inv, TypeOK, MapOK, OneEnds, Ends, Enders
<1>5. OneExecutes'
  BY DEF Inv, TypeOK, MapOK, OneExecutes, Executes
<1>6. NoStrayScript'
  BY DEF Inv, TypeOK, MapOK, OneExecutes, NoStrayScript, Executes
<1>7. NoOrphan'
  BY DEF Inv, TypeOK, MapOK, OneEnds, NoOrphan, Ends, Enders, Spawners
<1>8. OutsideOnlyByUser'
  BY DEF Inv, TypeOK, MapOK, OneExecutes, NoStrayScript, OutsideOnlyByUser,
         Executes
<1>9. FailedIsRolledBack'
  BY DEF Inv, TypeOK, MapOK, NoStrayScript, FailedIsRolledBack, Ends, Executes
<1> QED
  BY <1>2, <1>3, <1>4, <1>5, <1>6, <1>7, <1>8, <1>9 DEF Inv

\* A guard refreshes the session.
LEMMA KeepInv ==
    ASSUME Inv, NEW k \in Keepers, Keep(k) \/ Refresh(k)
    PROVE  Inv'
<1> USE BoundsAssumption, SpawnersAssumption DEF Keep, Refresh, Touch, Aged
<1>1. in_map' \in BOOLEAN /\ busy' \in BOOLEAN
  BY Zenon DEF Inv, TypeOK
<1>2. TypeOK'
  BY <1>1 DEF Inv, TypeOK, MapOK, PCs, Results, Spawners
<1>3. MapOK'
  BY DEF Inv, TypeOK, MapOK, OneEnds, Ends, Enders, Spawners
<1>4. OneEnds'
  BY DEF Inv, TypeOK, MapOK, OneEnds, Ends, Enders
<1>5. OneExecutes'
  BY DEF Inv, TypeOK, MapOK, OneExecutes, Executes
<1>6. NoStrayScript'
  BY DEF Inv, TypeOK, MapOK, OneExecutes, NoStrayScript, Executes
<1>7. NoOrphan'
  BY DEF Inv, TypeOK, MapOK, OneEnds, NoOrphan, Ends, Enders, Spawners
<1>8. OutsideOnlyByUser'
  BY DEF Inv, TypeOK, MapOK, OneExecutes, NoStrayScript, OutsideOnlyByUser,
         Executes
<1>9. FailedIsRolledBack'
  BY DEF Inv, TypeOK, MapOK, NoStrayScript, FailedIsRolledBack, Ends, Executes
<1> QED
  BY <1>2, <1>3, <1>4, <1>5, <1>6, <1>7, <1>8, <1>9 DEF Inv

\* A guard that is dropped spawns a watcher.
LEMMA DropKeepInv ==
    ASSUME Inv, NEW k \in Keepers, DropKeep(k)
    PROVE  Inv'
<1> USE BoundsAssumption, SpawnersAssumption DEF DropKeep
<1>1. in_map' \in BOOLEAN /\ busy' \in BOOLEAN
  BY Zenon DEF Inv, TypeOK
<1>2. TypeOK'
  BY <1>1 DEF Inv, TypeOK, MapOK, PCs, Results, Spawners
<1>3. MapOK'
  BY DEF Inv, TypeOK, MapOK, OneEnds, Ends, Enders, Spawners
<1>4. OneEnds'
  BY DEF Inv, TypeOK, MapOK, OneEnds, Ends, Enders
<1>5. OneExecutes'
  BY DEF Inv, TypeOK, MapOK, OneExecutes, Executes
<1>6. NoStrayScript'
  BY DEF Inv, TypeOK, MapOK, OneExecutes, NoStrayScript, Executes
<1>7. NoOrphan'
  BY DEF Inv, TypeOK, MapOK, OneEnds, NoOrphan, Ends, Enders, Spawners
<1>8. OutsideOnlyByUser'
  BY DEF Inv, TypeOK, MapOK, OneExecutes, NoStrayScript, OutsideOnlyByUser,
         Executes
<1>9. FailedIsRolledBack'
  BY DEF Inv, TypeOK, MapOK, NoStrayScript, FailedIsRolledBack, Ends, Executes
<1> QED
  BY <1>2, <1>3, <1>4, <1>5, <1>6, <1>7, <1>8, <1>9 DEF Inv

\* A watcher takes an idle session, in which no script runs.
LEMMA WatcherTakesInv ==
    ASSUME Inv, NEW w \in Spawners, WatcherTakes(w)
    PROVE  Inv'
<1> USE BoundsAssumption, SpawnersAssumption DEF WatcherTakes, TakeSession,
         IsIdle, Awake
<1>1. in_map' \in BOOLEAN /\ busy' \in BOOLEAN
  BY Zenon DEF Inv, TypeOK
<1>2. TypeOK'
  BY <1>1 DEF Inv, TypeOK, MapOK, PCs, Results, Spawners
<1>3. MapOK'
  BY DEF Inv, TypeOK, MapOK, OneEnds, Ends, Enders, Spawners
<1>4. OneEnds'
  BY DEF Inv, TypeOK, MapOK, OneEnds, Ends, Enders
<1>5. OneExecutes'
  BY DEF Inv, TypeOK, MapOK, OneExecutes, Executes
<1>6. NoStrayScript'
  BY DEF Inv, TypeOK, MapOK, OneExecutes, NoStrayScript, Executes
<1>7. NoOrphan'
  BY DEF Inv, TypeOK, MapOK, OneEnds, NoOrphan, Ends, Enders, Spawners
<1>8. OutsideOnlyByUser'
  BY DEF Inv, TypeOK, MapOK, OneExecutes, NoStrayScript, OutsideOnlyByUser,
         Executes
<1>9. FailedIsRolledBack'
  BY DEF Inv, TypeOK, MapOK, NoStrayScript, FailedIsRolledBack, Ends, Executes
<1> QED
  BY <1>2, <1>3, <1>4, <1>5, <1>6, <1>7, <1>8, <1>9 DEF Inv

\* A watcher finds nothing to do.
LEMMA WatcherLeavesInv ==
    ASSUME Inv, NEW w \in Spawners, WatcherLeaves(w)
    PROVE  Inv'
<1> USE BoundsAssumption, SpawnersAssumption DEF WatcherLeaves, Awake
<1>1. in_map' \in BOOLEAN /\ busy' \in BOOLEAN
  BY Zenon DEF Inv, TypeOK
<1>2. TypeOK'
  BY <1>1 DEF Inv, TypeOK, MapOK, PCs, Results, Spawners
<1>3. MapOK'
  BY DEF Inv, TypeOK, MapOK, OneEnds, Ends, Enders, Spawners
<1>4. OneEnds'
  BY DEF Inv, TypeOK, MapOK, OneEnds, Ends, Enders
<1>5. OneExecutes'
  BY DEF Inv, TypeOK, MapOK, OneExecutes, Executes
<1>6. NoStrayScript'
  BY DEF Inv, TypeOK, MapOK, OneExecutes, NoStrayScript, Executes
<1>7. NoOrphan'
  BY DEF Inv, TypeOK, MapOK, OneEnds, NoOrphan, Ends, Enders, Spawners
<1>8. OutsideOnlyByUser'
  BY DEF Inv, TypeOK, MapOK, OneExecutes, NoStrayScript, OutsideOnlyByUser,
         Executes
<1>9. FailedIsRolledBack'
  BY DEF Inv, TypeOK, MapOK, NoStrayScript, FailedIsRolledBack, Ends, Executes
<1> QED
  BY <1>2, <1>3, <1>4, <1>5, <1>6, <1>7, <1>8, <1>9 DEF Inv

\* A watcher rolls back.
LEMMA WatcherRollsBackInv ==
    ASSUME Inv, NEW w \in Spawners, NEW good \in BOOLEAN, WatcherRollsBack(w,
         good)
    PROVE  Inv'
<1> USE BoundsAssumption, SpawnersAssumption DEF WatcherRollsBack,
         EndTransaction
<1>1. in_map' \in BOOLEAN /\ busy' \in BOOLEAN
  BY Zenon DEF Inv, TypeOK
<1>2. TypeOK'
  BY <1>1 DEF Inv, TypeOK, MapOK, PCs, Results, Spawners
<1>3. MapOK'
  BY DEF Inv, TypeOK, MapOK, OneEnds, Ends, Enders, Spawners
<1>4. OneEnds'
  BY DEF Inv, TypeOK, MapOK, OneEnds, Ends, Enders
<1>5. OneExecutes'
  BY DEF Inv, TypeOK, MapOK, OneExecutes, Executes
<1>6. NoStrayScript'
  BY DEF Inv, TypeOK, MapOK, OneExecutes, NoStrayScript, Executes
<1>7. NoOrphan'
  BY DEF Inv, TypeOK, MapOK, OneEnds, NoOrphan, Ends, Enders, Spawners
<1>8. OutsideOnlyByUser'
  BY DEF Inv, TypeOK, MapOK, OneExecutes, NoStrayScript, OutsideOnlyByUser,
         Executes
<1>9. FailedIsRolledBack'
  BY DEF Inv, TypeOK, MapOK, NoStrayScript, FailedIsRolledBack, Ends, Executes
<1> QED
  BY <1>2, <1>3, <1>4, <1>5, <1>6, <1>7, <1>8, <1>9 DEF Inv

\* Time passes.
LEMMA TickInv ==
    ASSUME Inv, Tick
    PROVE  Inv'
<1> USE BoundsAssumption, SpawnersAssumption DEF Tick
<1>1. in_map' \in BOOLEAN /\ busy' \in BOOLEAN
  BY Zenon DEF Inv, TypeOK
<1>2. TypeOK'
  BY <1>1 DEF Inv, TypeOK, MapOK, PCs, Results, Spawners
<1>3. MapOK'
  BY DEF Inv, TypeOK, MapOK, OneEnds, Ends, Enders, Spawners
<1>4. OneEnds'
  BY DEF Inv, TypeOK, MapOK, OneEnds, Ends, Enders
<1>5. OneExecutes'
  BY DEF Inv, TypeOK, MapOK, OneExecutes, Executes
<1>6. NoStrayScript'
  BY DEF Inv, TypeOK, MapOK, OneExecutes, NoStrayScript, Executes
<1>7. NoOrphan'
  BY DEF Inv, TypeOK, MapOK, OneEnds, NoOrphan, Ends, Enders, Spawners
<1>8. OutsideOnlyByUser'
  BY DEF Inv, TypeOK, MapOK, OneExecutes, NoStrayScript, OutsideOnlyByUser,
         Executes
<1>9. FailedIsRolledBack'
  BY DEF Inv, TypeOK, MapOK, NoStrayScript, FailedIsRolledBack, Ends, Executes
<1> QED
  BY <1>2, <1>3, <1>4, <1>5, <1>6, <1>7, <1>8, <1>9 DEF Inv

-----------------------------------------------------------------------------
(* Theorems                                                                *)

\* Every step keeps the invariant.
LEMMA NextInv == Inv /\ [Next]_vars => Inv'
<1> SUFFICES ASSUME Inv, [Next]_vars PROVE Inv'
  OBVIOUS
<1>1. ASSUME NEW c \in Calls, CallStep(c)
      PROVE  Inv'
  BY <1>1, FetchInv, LockInv, FailInv, FailTakenInv, FinishInv,
         RunStatementsInv,
     RollBackHeldInv, CommitTakenInv, RollBackTakenInv DEF CallStep
<1>2. ASSUME NEW c \in Calls,
             \/ Refuse(c) \/ Claim(c) \/ Expire(c) \/ Drop(c)
             \/ \E op \in {"commit", "rollback"} : Take(c, op)
      PROVE  Inv'
  BY <1>2, RefuseInv, ClaimInv, ExpireInv, DropInv, TakeInv
<1>3. ASSUME NEW k \in Keepers, Keep(k) \/ Refresh(k) \/ DropKeep(k)
      PROVE  Inv'
  BY <1>3, KeepInv, DropKeepInv
<1>4. ASSUME NEW w \in Spawners, WatcherStep(w)
      PROVE  Inv'
  BY <1>4, WatcherTakesInv, WatcherLeavesInv,
         WatcherRollsBackInv DEF WatcherStep
<1>5. CASE UNCHANGED vars
  <2>1. TypeOK' /\ MapOK' /\ NoStrayScript'
    BY <1>5 DEF Inv, vars, TypeOK, MapOK, NoStrayScript, Ends, Executes
  <2>2. OneEnds' /\ OneExecutes' /\ NoOrphan' /\ OutsideOnlyByUser'
    BY <1>5 DEF Inv, vars, OneEnds, OneExecutes, NoOrphan, OutsideOnlyByUser,
                Ends, Executes, Enders
  <2>3. FailedIsRolledBack'
    BY <1>5 DEF Inv, vars, FailedIsRolledBack
  <2> QED
    BY <2>1, <2>2, <2>3 DEF Inv
<1> QED
  BY <1>1, <1>2, <1>3, <1>4, <1>5, BeginInv, TickInv DEF Next

\* The invariant holds in every reachable state.
THEOREM Invariance == Spec => []Inv
BY InitInv, NextInv, PTL DEF Spec

\* The model is type correct, and its history agrees with the map.
THEOREM TypeCorrect == Spec => []TypeOK
<1>1. Inv => TypeOK
  BY DEF Inv
<1> QED
  BY <1>1, Invariance, PTL

\* Only one call or watcher ends a transaction, however many race for it.
THEOREM EndedOnce == Spec => []OneEnds
<1>1. Inv => OneEnds
  BY DEF Inv
<1> QED
  BY <1>1, Invariance, PTL

\* At most one script runs on a session.
THEOREM ExecutedAlone == Spec => []OneExecutes
<1>1. Inv => OneExecutes
  BY DEF Inv
<1> QED
  BY <1>1, Invariance, PTL

\* Without failures of the connection and dropped futures no open transaction
\* is left without somebody to end it.
THEOREM NothingOrphaned == Spec => []NoOrphan
<1>1. Inv => NoOrphan
  BY DEF Inv
<1> QED
  BY <1>1, Invariance, PTL

\* The idle timeout and failures never take a transaction away from a script.
THEOREM TimeoutSparesScripts == Spec => []OutsideOnlyByUser
<1>1. Inv => OutsideOnlyByUser
  BY DEF Inv
<1> QED
  BY <1>1, Invariance, PTL

\* Whoever is told that a failed statement rolled the transaction back is told
\* the truth, unless the user's own commit or rollback came in between or a
\* ROLLBACK failed.
THEOREM FailuresAreToldRight == Spec => []FailedIsRolledBack
<1>1. Inv => FailedIsRolledBack
  BY DEF Inv
<1> QED
  BY <1>1, Invariance, PTL

-----------------------------------------------------------------------------
(* Refinement of TransactionSession                                        *)

Committing == \E c \in Calls : pc[c] = "commit"
Ending == (\E c \in Calls : Ends(c)) \/ (\E w \in Spawners : watch[w] = "rolling_back")

\* The phase, without the set of those who end the transaction.
LEMMA PhaseIs ==
    /\ Phase = IF txn # "open" THEN txn
               ELSE IF in_map THEN "active"
               ELSE IF Committing THEN "committing"
               ELSE IF Ending THEN "rolling_back" ELSE "abandoned"
    /\ Phase' = IF txn' # "open" THEN txn'
                ELSE IF in_map' THEN "active"
                ELSE IF Committing' THEN "committing"
                ELSE IF Ending' THEN "rolling_back" ELSE "abandoned"
<1>1. Enders # {} <=> Ending
  BY DEF Enders, Ending
<1>2. (Enders # {})' <=> Ending'
  BY DEF Enders, Ending
<1> QED
  BY <1>1, <1>2, Zenon DEF Phase, Committing

\* A step that neither takes nor ends the transaction, and in which nothing goes
\* wrong, is no step of the session.
Quiet ==
    /\ UNCHANGED <<txn, in_map, removed_by, faults, drops>>
    /\ Committing' <=> Committing
    /\ Ending' <=> Ending

LEMMA QuietStep ==
    ASSUME Quiet
    PROVE  UNCHANGED Session!vars
<1>1. Phase' = Phase
  BY PhaseIs DEF Quiet
<1>2. (faults > 0 \/ drops > 0)' = (faults > 0 \/ drops > 0)
  BY DEF Quiet
<1> QED
  BY <1>1, <1>2 DEF Quiet, Session!vars

\* A session that is taken from the map is open and nobody ends it yet; whoever
\* takes it does from then on.
LEMMA TakeStep ==
    ASSUME Inv, NEW who \in {"user", "idle", "failure"}, TakeSession(who),
           UNCHANGED <<txn, faults, drops>>,
           Ending', Committing' => who = "user"
    PROVE  Session!Next
<1>1. Phase = "active"
  BY PhaseIs DEF TakeSession, Inv, MapOK
<1>2. \E end \in {"committing", "rolling_back"} :
         Phase' = end /\ (end = "committing" => who = "user")
  BY PhaseIs DEF TakeSession, Inv, MapOK
<1>3. (faults > 0 \/ drops > 0)' = (faults > 0 \/ drops > 0)
  OBVIOUS
<1>4. \E end \in {"committing", "rolling_back"} : Session!Take(who, end)
  BY <1>1, <1>2, <1>3 DEF TakeSession, Session!Take
<1> QED
  BY <1>4 DEF Session!Next

\* The one who ends the transaction does so, or leaves it open after a failure.
LEMMA EndStep ==
    ASSUME Inv, NEW good \in BOOLEAN, NEW how \in {"committed", "rolled_back"},
           EndTransaction(good, how), UNCHANGED <<in_map, removed_by, drops>>,
           Ending, Committing <=> how = "committed", ~Ending', ~Committing'
    PROVE  Session!Next
<1>1. txn = "open" /\ ~in_map
  <2>1. Enders # {}
    BY DEF Ending, Enders
  <2>2. ~in_map
    BY <2>1 DEF Inv, OneEnds
  <2>3. txn \notin {"none", "committed", "rolled_back"}
    BY DEF Inv, MapOK, Ending, Ends
  <2> QED
    BY <2>2, <2>3 DEF Inv, TypeOK
<1>2. /\ how = "committed" => Phase = "committing"
      /\ how = "rolled_back" => Phase = "rolling_back"
  BY <1>1, PhaseIs
<1>3. CASE txn' = how
  <2>1. Phase' = how
    BY <1>3, PhaseIs
  <2>2. (faults > 0 \/ drops > 0)' \in {(faults > 0 \/ drops > 0), TRUE}
    <3>1. (faults > 0 \/ drops > 0) => (faults > 0 \/ drops > 0)'
      BY DEF EndTransaction, Inv, TypeOK
    <3> QED
      BY <3>1, Zenon
  <2>3. Session!End
    BY <1>2, <2>1, <2>2 DEF Session!End
  <2> QED
    BY <2>3 DEF Session!Next
<1>4. CASE txn' # how
  <2>1. txn' = "open" /\ ~good
    BY <1>1, <1>4 DEF EndTransaction
  <2>2. Phase' = "abandoned"
    BY <1>1, <2>1, PhaseIs
  <2>3. (faults > 0 \/ drops > 0)' = TRUE
    BY <2>1 DEF EndTransaction, Inv, TypeOK
  <2>4. Session!Mishap
    BY <1>2, <2>2, <2>3 DEF Session!Mishap
  <2> QED
    BY <2>4 DEF Session!Next
<1> QED
  BY <1>3, <1>4

\* A dropped future leaves the session as it was, unless it was the one that
\* rolled back.
LEMMA DropStep ==
    ASSUME Inv, NEW c \in Calls, Drop(c)
    PROVE  Session!Next
<1>1. Committing' <=> Committing
  BY DEF Drop, Return, Committing, Inv, TypeOK
<1>2. UNCHANGED <<txn, in_map, removed_by>>
  BY DEF Drop
<1>3. (faults > 0 \/ drops > 0)' = TRUE
  BY DEF Drop, Inv, TypeOK
<1>4. CASE pc[c] = "rolling_back"
  <2>1. Ends(c) /\ txn = "open" /\ ~in_map /\ ~Committing /\ Ending
    BY <1>4 DEF Inv, TypeOK, MapOK, OneEnds, Ends, Enders, Ending, Committing
  <2>2. ~Ending'
    BY <1>4, <2>1 DEF Drop, Return, Inv, TypeOK, OneEnds, Ends, Ending
  <2>3. Phase = "rolling_back" /\ Phase' = "abandoned"
    BY <1>1, <1>2, <2>1, <2>2, PhaseIs
  <2> QED
    BY <1>2, <1>3, <2>3 DEF Session!Next, Session!Mishap
<1>5. CASE pc[c] # "rolling_back"
  <2>1. Ending' <=> Ending
    BY <1>5 DEF Drop, Return, Inv, TypeOK, Ends, Ending
  <2>2. Phase' = Phase
    BY <1>1, <1>2, <2>1, PhaseIs
  <2> QED
    BY <1>2, <1>3, <2>2 DEF Session!Next, Session!Mishap
<1> QED
  BY <1>4, <1>5

\* Every step of a call, a guard or a watcher is a step of the session or none.
LEMMA SessionStep == Inv /\ [Next]_vars => [Session!Next]_Session!vars
<1> SUFFICES ASSUME Inv, [Next]_vars
             PROVE  Session!Next \/ UNCHANGED Session!vars
  OBVIOUS
<1> USE DEF Ending, Committing, Ends
<1>1. CASE begin
  <2>1. Phase = "none" /\ Phase' = "active"
    BY <1>1, PhaseIs DEF begin
  <2>2. (faults > 0 \/ drops > 0)' = (faults > 0 \/ drops > 0)
    BY <1>1 DEF begin
  <2> QED
    BY <1>1, <2>1, <2>2 DEF begin, Session!Next, Session!Open
<1>2. CASE Tick
  BY <1>2, QuietStep DEF Tick, Quiet
<1>3. ASSUME NEW c \in Calls,
             Refuse(c) \/ Claim(c) \/ Fetch(c) \/ Lock(c) \/ FailTaken(c) \/ Finish(c)
      PROVE  UNCHANGED Session!vars
  <2>1. Quiet
    <3>1. CASE Refuse(c)
      BY <3>1 DEF Refuse, Return, Quiet, Inv, TypeOK
    <3>2. CASE Claim(c)
      BY <3>2 DEF Claim, Goto, Touch, Aged, Quiet, Inv, TypeOK
    <3>3. CASE Fetch(c)
      BY <3>3 DEF Fetch, Goto, Return, Quiet, Inv, TypeOK
    <3>4. CASE Lock(c)
      BY <3>4 DEF Lock, Goto, Quiet, Inv, TypeOK
    <3>5. CASE FailTaken(c)
      BY <3>5 DEF FailTaken, Return, Quiet, Inv, TypeOK
    <3>6. CASE Finish(c)
      <4>1. /\ UNCHANGED <<txn, in_map, removed_by, faults, drops>>
            /\ \A d \in Calls : pc'[d] = IF d = c THEN "done" ELSE pc[d]
        BY <3>6 DEF Finish, Return, Inv, TypeOK
      <4>2. \A w \in Spawners : watch'[w] = "rolling_back" <=> watch[w] = "rolling_back"
        <5>1. CASE in_map
          <6>1. \A w \in Spawners : watch[w] # "rolling_back"
            BY <5>1 DEF Inv, OneEnds, Enders
          <6> QED
            BY <3>6, <5>1, <6>1 DEF Finish, TouchAndSpawn, Aged, Inv, TypeOK
        <5>2. CASE ~in_map
          BY <3>6, <5>2 DEF Finish
        <5> QED
          BY <5>1, <5>2
      <4> QED
        BY <3>6, <4>1, <4>2 DEF Finish, Quiet
    <3> QED
      BY <1>3, <3>1, <3>2, <3>3, <3>4, <3>5, <3>6
  <2> QED
    BY <2>1, QuietStep
<1>4. ASSUME NEW c \in Calls, NEW good \in BOOLEAN, RunStatements(c, good)
      PROVE  UNCHANGED Session!vars
  <2>1. Quiet
    BY <1>4 DEF RunStatements, Goto, Quiet, Inv, TypeOK
  <2> QED
    BY <2>1, QuietStep
<1>5. ASSUME NEW c \in Calls, Expire(c) PROVE Session!Next
  <2>1. Ending' /\ ~Committing'
    BY <1>5 DEF Expire, Goto, TakeSession, Inv, TypeOK, OneEnds, Enders
  <2> QED
    BY <1>5, <2>1, TakeStep DEF Expire
<1>6. ASSUME NEW c \in Calls, Fail(c) PROVE Session!Next
  <2>1. Ending' /\ ~Committing'
    BY <1>6 DEF Fail, Goto, TakeSession, Inv, TypeOK, OneEnds, Enders
  <2> QED
    BY <1>6, <2>1, TakeStep DEF Fail
<1>7. ASSUME NEW c \in Calls, NEW op \in {"commit", "rollback"}, Take(c, op)
      PROVE  Session!Next
  <2>1. Ending'
    BY <1>7 DEF Take, Goto, Inv, TypeOK
  <2> QED
    BY <1>7, <2>1, TakeStep DEF Take
<1>8. ASSUME NEW c \in Calls, Drop(c) PROVE Session!Next
  BY <1>8, DropStep
<1>9. ASSUME NEW c \in Calls, NEW good \in BOOLEAN,
             RollBackHeld(c, good) \/ RollBackTaken(c, good) \/ CommitTaken(c, good)
      PROVE  Session!Next
  <2>1. PICK how \in {"committed", "rolled_back"} :
           /\ EndTransaction(good, how) /\ UNCHANGED <<in_map, removed_by, drops>>
           /\ Ends(c) /\ (pc[c] = "commit" <=> how = "committed")
           /\ pc' = [pc EXCEPT ![c] = "done"] /\ UNCHANGED watch
    BY <1>9 DEF RollBackHeld, RollBackTaken, CommitTaken, Return
  <2>2. Ending /\ ~Ending' /\ ~Committing'
    BY <2>1 DEF Inv, TypeOK, OneEnds
  <2>3. Committing <=> how = "committed"
    BY <2>1 DEF Inv, TypeOK, OneEnds
  <2> QED
    BY <2>1, <2>2, <2>3, EndStep
<1>10. ASSUME NEW k \in Keepers, Keep(k) \/ Refresh(k) \/ DropKeep(k)
       PROVE  UNCHANGED Session!vars
  <2>1. UNCHANGED <<txn, in_map, removed_by, faults, drops, pc>>
    BY <1>10 DEF Keep, Refresh, DropKeep
  <2>2. \A w \in Spawners : watch'[w] = "rolling_back" <=> watch[w] = "rolling_back"
    <3>1. CASE Keep(k) \/ Refresh(k)
      BY <3>1 DEF Keep, Refresh, Touch, Aged, Inv, TypeOK
    <3>2. CASE DropKeep(k)
      BY <3>2, SpawnersAssumption DEF DropKeep, Inv, TypeOK, MapOK, Spawners
    <3> QED
      BY <1>10, <3>1, <3>2
  <2>3. Quiet
    BY <2>1, <2>2 DEF Quiet
  <2> QED
    BY <2>3, QuietStep
<1>11. ASSUME NEW w \in Spawners, WatcherTakes(w) PROVE Session!Next
  <2>1. Ending' /\ ~Committing'
    BY <1>11 DEF WatcherTakes, IsIdle, Inv, TypeOK, OneEnds, Enders
  <2> QED
    BY <1>11, <2>1, TakeStep DEF WatcherTakes
<1>12. ASSUME NEW w \in Spawners, WatcherLeaves(w) PROVE UNCHANGED Session!vars
  <2>1. Quiet
    BY <1>12 DEF WatcherLeaves, Awake, Quiet, Inv, TypeOK
  <2> QED
    BY <2>1, QuietStep
<1>13. ASSUME NEW w \in Spawners, NEW good \in BOOLEAN, WatcherRollsBack(w, good)
       PROVE  Session!Next
  <2>1. Ending /\ ~Ending' /\ ~Committing /\ ~Committing'
    BY <1>13 DEF WatcherRollsBack, Inv, TypeOK, OneEnds
  <2> QED
    BY <1>13, <2>1, EndStep DEF WatcherRollsBack
<1>14. CASE UNCHANGED vars
  BY <1>14, QuietStep DEF vars, Quiet
<1>15. ASSUME NEW c \in Calls, CallStep(c) PROVE Session!Next \/ UNCHANGED Session!vars
  BY <1>15, <1>3, <1>4, <1>6, <1>9 DEF CallStep
<1>16. ASSUME NEW w \in Spawners, WatcherStep(w)
       PROVE  Session!Next \/ UNCHANGED Session!vars
  BY <1>16, <1>11, <1>12, <1>13 DEF WatcherStep
<1> QED
  BY <1>1, <1>2, <1>3, <1>5, <1>7, <1>8, <1>10, <1>14, <1>15, <1>16 DEF Next

\* Calls, guards and watchers implement the session: it is taken once, committed
\* only by its user's commit, ended once, and abandoned only after a mishap.
THEOREM ImplementsSession == Spec => SessionSpec
<1>1. Init => Session!Init
  <2> SUFFICES ASSUME Init PROVE Session!Init
    OBVIOUS
  <2>1. Phase = "none" /\ removed_by = "nobody"
    BY PhaseIs DEF Init
  <2>2. (faults > 0 \/ drops > 0) = FALSE
    BY DEF Init
  <2> QED
    BY <2>1, <2>2 DEF Session!Init
<1> QED
  BY <1>1, SessionStep, Invariance, PTL DEF Spec, SessionSpec, Session!Spec
=============================================================================
