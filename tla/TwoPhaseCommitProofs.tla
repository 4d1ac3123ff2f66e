------------------------ MODULE TwoPhaseCommitProofs ------------------------
(***************************************************************************)
(* Proofs about TwoPhaseCommit, for any number of participants, retries,   *)
(* crashes and lost answers.                                               *)
(***************************************************************************)
EXTENDS TwoPhaseCommit, TLAPS

\* Which statuses the log can have where the call under way is; a terminal log
\* means that no call is under way.
LogOK ==
    /\ pc \in {"create", "prepare", "abort"} => log = "preparing"
    /\ pc = "decide" => log = "prepared"
    /\ pc = "commit" => log = "committing"
    /\ pc = "rollback" => log \notin Terminal \cup {"none"}
    /\ pc = "rollback" /\ ~in_recover => log = "rolling_back"
    /\ pc \in {"create", "prepare", "decide", "abort"} => ~in_recover

\* The locals of commit_phase are empty outside it; the rounds partition the
\* participants.
LocalsOK ==
    /\ pc \notin {"commit", "rollback"} => ok = {} /\ pending = {} /\ next_pending = {}
    /\ pending \cap next_pending = {}
    /\ pc \in {"idle", "create"} => at = 1
    /\ pc = "abort" => at \in Participants

\* Every participant has prepared once the log says so, and those before `at`
\* in the prepare loop.
PreparedOK ==
    /\ log \in {"prepared", "committing"} =>
          \A p \in Participants : participant[p] # "active"
    /\ pc = "prepare" => \A p \in Participants : p < at => participant[p] # "active"

\* Without crashes and lost answers there is no recovery, and commit_results
\* are exact.
ExactOK ==
    crashes = 0 /\ lost = 0 =>
        /\ ~in_recover
        /\ pc = "idle" => log \in Terminal \cup {"none"}
        /\ pc # "idle" => \A p \in Participants : participant[p] = "committed" => p \in ok
        /\ log = "none" => \A p \in Participants : participant[p] = "active"
        /\ pc = "rollback" => ok # Participants

Inv ==
    /\ TypeOK
    /\ LogOK
    /\ LocalsOK
    /\ AcknowledgedOnce
    /\ PreparedOK
    /\ WriteAhead
    /\ CommittedMeansAllCommitted
    /\ ExactOK
    /\ OutcomeIsRight
-----------------------------------------------------------------------------
(* Preservation of the invariant: one lemma per action                     *)

\* The initial state satisfies the invariant.
LEMMA InitInv == Init => Inv
<1> SUFFICES ASSUME Init PROVE Inv
  OBVIOUS
<1> USE BoundsAssumption DEF Init
<1>1. TypeOK
  <2>1. in_recover \in BOOLEAN /\ failed \in BOOLEAN
    BY Zenon
  <2>2. log \in Statuses /\ state_entry \in StateNames \cup {"none"}
    BY DEF Statuses, StateNames, Moved
  <2>3. /\ participant \in [Participants -> ParticipantStates]
        /\ pc \in {"idle", "create", "prepare", "decide", "commit", "abort",
              "rollback"}
    BY DEF ParticipantStates
  <2>4. at \in 1..(N + 1) /\ attempt \in 0..MaxRetries
    OBVIOUS
  <2>5. /\ pending \subseteq Participants
        /\ next_pending \subseteq Participants
        /\ ok \subseteq Participants
    OBVIOUS
  <2>6. crashes \in 0..MaxCrashes /\ lost \in 0..MaxLost
    OBVIOUS
  <2> QED
    BY <2>1, <2>2, <2>3, <2>4, <2>5, <2>6, Zenon DEF TypeOK
<1>2. LogOK /\ LocalsOK /\ AcknowledgedOnce /\ PreparedOK
  BY DEF LogOK, LocalsOK, AcknowledgedOnce, PreparedOK, Terminal, Participants
<1>3. WriteAhead /\ CommittedMeansAllCommitted /\ ExactOK /\ OutcomeIsRight
  BY DEF WriteAhead, CommittedMeansAllCommitted, ExactOK, OutcomeIsRight
<1> QED
  BY <1>1, <1>2, <1>3 DEF Inv

\* execute() records the transaction as preparing.
LEMMA ExecuteInv ==
    ASSUME Inv, execute
    PROVE  Inv'
<1> USE BoundsAssumption DEF execute, NoLocals
<1>1. TypeOK'
  <2>1. in_recover' \in BOOLEAN /\ failed' \in BOOLEAN
    BY Zenon DEF Inv, TypeOK
  <2>2. log' \in Statuses /\ state_entry' \in StateNames \cup {"none"}
    BY DEF Inv, TypeOK, Statuses, StateNames, Moved
  <2>3. /\ participant' \in [Participants -> ParticipantStates]
        /\ pc' \in {"idle", "create", "prepare", "decide", "commit", "abort",
              "rollback"}
    BY DEF Inv, TypeOK, ParticipantStates
  <2>4. at' \in 1..(N + 1) /\ attempt' \in 0..MaxRetries
    BY DEF Inv, TypeOK
  <2>5. /\ pending' \subseteq Participants
        /\ next_pending' \subseteq Participants
        /\ ok' \subseteq Participants
    BY DEF Inv, TypeOK
  <2>6. crashes' \in 0..MaxCrashes /\ lost' \in 0..MaxLost
    BY DEF Inv, TypeOK
  <2> QED
    BY <2>1, <2>2, <2>3, <2>4, <2>5, <2>6, Zenon DEF TypeOK
<1>2. LogOK'
  BY DEF Inv, TypeOK, LogOK, Terminal
<1>3. LocalsOK'
  BY DEF Inv, TypeOK, LocalsOK
<1>4. AcknowledgedOnce'
  BY DEF Inv, TypeOK, LocalsOK, AcknowledgedOnce
<1>5. PreparedOK'
  BY DEF Inv, TypeOK, LogOK, LocalsOK, PreparedOK, Participants
<1>6. WriteAhead'
  BY DEF Inv, TypeOK, LogOK, PreparedOK, WriteAhead, Participants
<1>7. CommittedMeansAllCommitted'
  BY DEF Inv, TypeOK, LogOK, Terminal, AcknowledgedOnce,
         CommittedMeansAllCommitted
<1>8. ExactOK'
  BY DEF Inv, TypeOK, LogOK, LocalsOK, AcknowledgedOnce, WriteAhead, ExactOK,
         OutcomeIsRight, Terminal
<1>9. OutcomeIsRight'
  BY DEF Inv, TypeOK, LogOK, Terminal, AcknowledgedOnce, ExactOK,
         OutcomeIsRight
<1> QED
  BY <1>1, <1>2, <1>3, <1>4, <1>5, <1>6, <1>7, <1>8, <1>9 DEF Inv

\* ... creates its state machine entry and starts to prepare.
LEMMA CreateStateInv ==
    ASSUME Inv, CreateState
    PROVE  Inv'
<1> USE BoundsAssumption DEF CreateState
<1>1. TypeOK'
  BY DEF Inv, TypeOK, Participants, Statuses, StateNames
<1>2. LogOK'
  BY DEF Inv, TypeOK, LogOK, Terminal
<1>3. LocalsOK'
  BY DEF Inv, TypeOK, LocalsOK
<1>4. AcknowledgedOnce'
  BY DEF Inv, TypeOK, LocalsOK, AcknowledgedOnce
<1>5. PreparedOK'
  BY DEF Inv, TypeOK, LogOK, LocalsOK, PreparedOK, Participants
<1>6. WriteAhead'
  BY DEF Inv, TypeOK, LogOK, PreparedOK, WriteAhead, Participants
<1>7. CommittedMeansAllCommitted'
  BY DEF Inv, TypeOK, LogOK, Terminal, AcknowledgedOnce,
         CommittedMeansAllCommitted
<1>8. ExactOK'
  BY DEF Inv, TypeOK, LogOK, LocalsOK, AcknowledgedOnce, WriteAhead, ExactOK,
         OutcomeIsRight, Terminal
<1>9. OutcomeIsRight'
  BY DEF Inv, TypeOK, LogOK, Terminal, AcknowledgedOnce, ExactOK,
         OutcomeIsRight
<1> QED
  BY <1>1, <1>2, <1>3, <1>4, <1>5, <1>6, <1>7, <1>8, <1>9 DEF Inv

\* One participant prepares, or refuses.
LEMMA PrepareInv ==
    ASSUME Inv, NEW good \in BOOLEAN, Prepare(good)
    PROVE  Inv'
<1> USE BoundsAssumption DEF Prepare, Answer
<1>1. TypeOK'
  BY DEF Inv, TypeOK, Participants, ParticipantStates
<1>2. LogOK'
  BY DEF Inv, TypeOK, LogOK, Terminal
<1>3. LocalsOK'
  BY DEF Inv, TypeOK, LocalsOK
<1>4. AcknowledgedOnce'
  BY DEF Inv, TypeOK, LocalsOK, AcknowledgedOnce
<1>5. PreparedOK'
  BY DEF Inv, TypeOK, LogOK, LocalsOK, PreparedOK, Participants
<1>6. WriteAhead'
  BY DEF Inv, TypeOK, LogOK, PreparedOK, WriteAhead, Participants
<1>7. CommittedMeansAllCommitted'
  BY DEF Inv, TypeOK, LogOK, Terminal, AcknowledgedOnce,
         CommittedMeansAllCommitted
<1>8. ExactOK'
  BY DEF Inv, TypeOK, LogOK, LocalsOK, AcknowledgedOnce, WriteAhead, ExactOK,
         OutcomeIsRight, Terminal
<1>9. OutcomeIsRight'
  BY DEF Inv, TypeOK, LogOK, Terminal, AcknowledgedOnce, ExactOK,
         OutcomeIsRight
<1> QED
  BY <1>1, <1>2, <1>3, <1>4, <1>5, <1>6, <1>7, <1>8, <1>9 DEF Inv

\* All have prepared.
LEMMA SavePreparedInv ==
    ASSUME Inv, SavePrepared
    PROVE  Inv'
<1> USE BoundsAssumption DEF SavePrepared
<1>1. TypeOK'
  BY DEF Inv, TypeOK, Participants, Statuses
<1>2. LogOK'
  BY DEF Inv, TypeOK, LogOK, Terminal
<1>3. LocalsOK'
  BY DEF Inv, TypeOK, LocalsOK
<1>4. AcknowledgedOnce'
  BY DEF Inv, TypeOK, LocalsOK, AcknowledgedOnce
<1>5. PreparedOK'
  BY DEF Inv, TypeOK, LogOK, LocalsOK, PreparedOK, Participants
<1>6. WriteAhead'
  BY DEF Inv, TypeOK, LogOK, PreparedOK, WriteAhead, Participants
<1>7. CommittedMeansAllCommitted'
  BY DEF Inv, TypeOK, LogOK, Terminal, AcknowledgedOnce,
         CommittedMeansAllCommitted
<1>8. ExactOK'
  BY DEF Inv, TypeOK, LogOK, LocalsOK, AcknowledgedOnce, WriteAhead, ExactOK,
         OutcomeIsRight, Terminal
<1>9. OutcomeIsRight'
  BY DEF Inv, TypeOK, LogOK, Terminal, AcknowledgedOnce, ExactOK,
         OutcomeIsRight
<1> QED
  BY <1>1, <1>2, <1>3, <1>4, <1>5, <1>6, <1>7, <1>8, <1>9 DEF Inv

\* The decision is recorded before anyone commits.
LEMMA SaveCommittingInv ==
    ASSUME Inv, SaveCommitting
    PROVE  Inv'
<1> USE BoundsAssumption DEF SaveCommitting, StartCommitPhase
<1>1. TypeOK'
  BY DEF Inv, TypeOK, Participants, Statuses
<1>2. LogOK'
  BY DEF Inv, TypeOK, LogOK, Terminal
<1>3. LocalsOK'
  BY DEF Inv, TypeOK, LocalsOK
<1>4. AcknowledgedOnce'
  BY DEF Inv, TypeOK, LocalsOK, AcknowledgedOnce
<1>5. PreparedOK'
  BY DEF Inv, TypeOK, LogOK, LocalsOK, PreparedOK, Participants
<1>6. WriteAhead'
  BY DEF Inv, TypeOK, LogOK, PreparedOK, WriteAhead, Participants
<1>7. CommittedMeansAllCommitted'
  BY DEF Inv, TypeOK, LogOK, Terminal, AcknowledgedOnce,
         CommittedMeansAllCommitted
<1>8. ExactOK'
  BY DEF Inv, TypeOK, LogOK, LocalsOK, AcknowledgedOnce, WriteAhead, ExactOK,
         OutcomeIsRight, Terminal
<1>9. OutcomeIsRight'
  BY DEF Inv, TypeOK, LogOK, Terminal, AcknowledgedOnce, ExactOK,
         OutcomeIsRight
<1> QED
  BY <1>1, <1>2, <1>3, <1>4, <1>5, <1>6, <1>7, <1>8, <1>9 DEF Inv

\* One participant commits, or fails to.
LEMMA CommitInv ==
    ASSUME Inv, NEW p \in Participants, NEW good \in BOOLEAN, Commit(p, good)
    PROVE  Inv'
<1> USE BoundsAssumption DEF Commit, Answer
<1>1. TypeOK'
  <2>1. in_recover' \in BOOLEAN /\ failed' \in BOOLEAN
    BY Zenon DEF Inv, TypeOK
  <2>2. log' \in Statuses /\ state_entry' \in StateNames \cup {"none"}
    BY DEF Inv, TypeOK, Statuses, StateNames, Moved
  <2>3. /\ participant' \in [Participants -> ParticipantStates]
        /\ pc' \in {"idle", "create", "prepare", "decide", "commit", "abort",
              "rollback"}
    BY DEF Inv, TypeOK, ParticipantStates
  <2>4. at' \in 1..(N + 1) /\ attempt' \in 0..MaxRetries
    BY DEF Inv, TypeOK
  <2>5. /\ pending' \subseteq Participants
        /\ next_pending' \subseteq Participants
        /\ ok' \subseteq Participants
    BY DEF Inv, TypeOK
  <2>6. crashes' \in 0..MaxCrashes /\ lost' \in 0..MaxLost
    BY DEF Inv, TypeOK
  <2> QED
    BY <2>1, <2>2, <2>3, <2>4, <2>5, <2>6, Zenon DEF TypeOK
<1>2. LogOK'
  BY DEF Inv, TypeOK, LogOK, Terminal
<1>3. LocalsOK'
  BY DEF Inv, TypeOK, LocalsOK
<1>4. AcknowledgedOnce'
  BY DEF Inv, TypeOK, LocalsOK, AcknowledgedOnce
<1>5. PreparedOK'
  BY DEF Inv, TypeOK, LogOK, LocalsOK, PreparedOK, Participants
<1>6. WriteAhead'
  BY DEF Inv, TypeOK, LogOK, PreparedOK, WriteAhead, Participants
<1>7. CommittedMeansAllCommitted'
  BY DEF Inv, TypeOK, LogOK, Terminal, AcknowledgedOnce,
         CommittedMeansAllCommitted
<1>8. ExactOK'
  BY DEF Inv, TypeOK, LogOK, LocalsOK, AcknowledgedOnce, WriteAhead, ExactOK,
         OutcomeIsRight, Terminal
<1>9. OutcomeIsRight'
  BY DEF Inv, TypeOK, LogOK, Terminal, AcknowledgedOnce, ExactOK,
         OutcomeIsRight
<1> QED
  BY <1>1, <1>2, <1>3, <1>4, <1>5, <1>6, <1>7, <1>8, <1>9 DEF Inv

\* The next round asks only those that have not acknowledged.
LEMMA RetryRoundInv ==
    ASSUME Inv, RetryRound
    PROVE  Inv'
<1> USE BoundsAssumption DEF RetryRound
<1>1. TypeOK'
  BY DEF Inv, TypeOK, Participants
<1>2. LogOK'
  BY DEF Inv, TypeOK, LogOK, Terminal
<1>3. LocalsOK'
  BY DEF Inv, TypeOK, LocalsOK
<1>4. AcknowledgedOnce'
  BY DEF Inv, TypeOK, LocalsOK, AcknowledgedOnce
<1>5. PreparedOK'
  BY DEF Inv, TypeOK, LogOK, LocalsOK, PreparedOK, Participants
<1>6. WriteAhead'
  BY DEF Inv, TypeOK, LogOK, PreparedOK, WriteAhead, Participants
<1>7. CommittedMeansAllCommitted'
  BY DEF Inv, TypeOK, LogOK, Terminal, AcknowledgedOnce,
         CommittedMeansAllCommitted
<1>8. ExactOK'
  BY DEF Inv, TypeOK, LogOK, LocalsOK, AcknowledgedOnce, WriteAhead, ExactOK,
         OutcomeIsRight, Terminal
<1>9. OutcomeIsRight'
  BY DEF Inv, TypeOK, LogOK, Terminal, AcknowledgedOnce, ExactOK,
         OutcomeIsRight
<1> QED
  BY <1>1, <1>2, <1>3, <1>4, <1>5, <1>6, <1>7, <1>8, <1>9 DEF Inv

\* Everyone has acknowledged: committed.
LEMMA SaveCommittedInv ==
    ASSUME Inv, SaveCommitted
    PROVE  Inv'
<1> USE BoundsAssumption DEF SaveCommitted, CommitPhaseOver, AllCommitted,
         Finish, NoLocals
<1>1. TypeOK'
  <2>1. in_recover' \in BOOLEAN /\ failed' \in BOOLEAN
    BY Zenon DEF Inv, TypeOK
  <2>2. log' \in Statuses /\ state_entry' \in StateNames \cup {"none"}
    BY DEF Inv, TypeOK, Statuses, StateNames, Moved
  <2>3. /\ participant' \in [Participants -> ParticipantStates]
        /\ pc' \in {"idle", "create", "prepare", "decide", "commit", "abort",
              "rollback"}
    BY DEF Inv, TypeOK, ParticipantStates
  <2>4. at' \in 1..(N + 1) /\ attempt' \in 0..MaxRetries
    BY DEF Inv, TypeOK
  <2>5. /\ pending' \subseteq Participants
        /\ next_pending' \subseteq Participants
        /\ ok' \subseteq Participants
    BY DEF Inv, TypeOK
  <2>6. crashes' \in 0..MaxCrashes /\ lost' \in 0..MaxLost
    BY DEF Inv, TypeOK
  <2> QED
    BY <2>1, <2>2, <2>3, <2>4, <2>5, <2>6, Zenon DEF TypeOK
<1>2. LogOK'
  BY DEF Inv, TypeOK, LogOK, Terminal
<1>3. LocalsOK'
  BY DEF Inv, TypeOK, LocalsOK
<1>4. AcknowledgedOnce'
  BY DEF Inv, TypeOK, LocalsOK, AcknowledgedOnce
<1>5. PreparedOK'
  BY DEF Inv, TypeOK, LogOK, LocalsOK, PreparedOK, Participants
<1>6. WriteAhead'
  BY DEF Inv, TypeOK, LogOK, PreparedOK, WriteAhead, Participants
<1>7. CommittedMeansAllCommitted'
  BY DEF Inv, TypeOK, LogOK, Terminal, AcknowledgedOnce,
         CommittedMeansAllCommitted
<1>8. ExactOK'
  BY DEF Inv, TypeOK, LogOK, LocalsOK, AcknowledgedOnce, WriteAhead, ExactOK,
         OutcomeIsRight, Terminal
<1>9. OutcomeIsRight'
  BY DEF Inv, TypeOK, LogOK, Terminal, AcknowledgedOnce, ExactOK,
         OutcomeIsRight
<1> QED
  BY <1>1, <1>2, <1>3, <1>4, <1>5, <1>6, <1>7, <1>8, <1>9 DEF Inv

\* A refusal, or a commit that failed for good: everyone is rolled back.
LEMMA SaveRollingBackInv ==
    ASSUME Inv, SaveRollingBack
    PROVE  Inv'
<1> USE BoundsAssumption DEF SaveRollingBack, CommitPhaseOver, AllCommitted
<1>1. TypeOK'
  BY DEF Inv, TypeOK, Participants, Statuses
<1>2. LogOK'
  BY DEF Inv, TypeOK, LogOK, Terminal
<1>3. LocalsOK'
  BY DEF Inv, TypeOK, LocalsOK
<1>4. AcknowledgedOnce'
  BY DEF Inv, TypeOK, LocalsOK, AcknowledgedOnce
<1>5. PreparedOK'
  BY DEF Inv, TypeOK, LogOK, LocalsOK, PreparedOK, Participants
<1>6. WriteAhead'
  BY DEF Inv, TypeOK, LogOK, PreparedOK, WriteAhead, Participants
<1>7. CommittedMeansAllCommitted'
  BY DEF Inv, TypeOK, LogOK, Terminal, AcknowledgedOnce,
         CommittedMeansAllCommitted
<1>8. ExactOK'
  BY DEF Inv, TypeOK, LogOK, LocalsOK, AcknowledgedOnce, WriteAhead, ExactOK,
         OutcomeIsRight, Terminal
<1>9. OutcomeIsRight'
  BY DEF Inv, TypeOK, LogOK, Terminal, AcknowledgedOnce, ExactOK,
         OutcomeIsRight
<1> QED
  BY <1>1, <1>2, <1>3, <1>4, <1>5, <1>6, <1>7, <1>8, <1>9 DEF Inv

\* One participant rolls back, unless it has committed.
LEMMA RollbackInv ==
    ASSUME Inv, NEW good \in BOOLEAN, Rollback(good)
    PROVE  Inv'
<1> USE BoundsAssumption DEF Rollback, Answer
<1>1. TypeOK'
  BY DEF Inv, TypeOK, Participants, ParticipantStates
<1>2. LogOK'
  BY DEF Inv, TypeOK, LogOK, Terminal
<1>3. LocalsOK'
  BY DEF Inv, TypeOK, LocalsOK
<1>4. AcknowledgedOnce'
  BY DEF Inv, TypeOK, LocalsOK, AcknowledgedOnce
<1>5. PreparedOK'
  BY DEF Inv, TypeOK, LogOK, LocalsOK, PreparedOK, Participants
<1>6. WriteAhead'
  BY DEF Inv, TypeOK, LogOK, PreparedOK, WriteAhead, Participants
<1>7. CommittedMeansAllCommitted'
  BY DEF Inv, TypeOK, LogOK, Terminal, AcknowledgedOnce,
         CommittedMeansAllCommitted
<1>8. ExactOK'
  BY DEF Inv, TypeOK, LogOK, LocalsOK, AcknowledgedOnce, WriteAhead, ExactOK,
         OutcomeIsRight, Terminal
<1>9. OutcomeIsRight'
  BY DEF Inv, TypeOK, LogOK, Terminal, AcknowledgedOnce, ExactOK,
         OutcomeIsRight
<1> QED
  BY <1>1, <1>2, <1>3, <1>4, <1>5, <1>6, <1>7, <1>8, <1>9 DEF Inv

\* The outcome is mixed if this call has seen a commit.
LEMMA SaveOutcomeInv ==
    ASSUME Inv, SaveOutcome
    PROVE  Inv'
<1> USE BoundsAssumption DEF SaveOutcome, Finish, NoLocals
<1>1. TypeOK'
  <2>1. in_recover' \in BOOLEAN /\ failed' \in BOOLEAN
    BY Zenon DEF Inv, TypeOK
  <2>2. log' \in Statuses /\ state_entry' \in StateNames \cup {"none"}
    BY DEF Inv, TypeOK, Statuses, StateNames, Moved
  <2>3. /\ participant' \in [Participants -> ParticipantStates]
        /\ pc' \in {"idle", "create", "prepare", "decide", "commit", "abort",
              "rollback"}
    BY DEF Inv, TypeOK, ParticipantStates
  <2>4. at' \in 1..(N + 1) /\ attempt' \in 0..MaxRetries
    BY DEF Inv, TypeOK
  <2>5. /\ pending' \subseteq Participants
        /\ next_pending' \subseteq Participants
        /\ ok' \subseteq Participants
    BY DEF Inv, TypeOK
  <2>6. crashes' \in 0..MaxCrashes /\ lost' \in 0..MaxLost
    BY DEF Inv, TypeOK
  <2> QED
    BY <2>1, <2>2, <2>3, <2>4, <2>5, <2>6, Zenon DEF TypeOK
<1>2. LogOK'
  BY DEF Inv, TypeOK, LogOK, Terminal
<1>3. LocalsOK'
  BY DEF Inv, TypeOK, LocalsOK
<1>4. AcknowledgedOnce'
  BY DEF Inv, TypeOK, LocalsOK, AcknowledgedOnce
<1>5. PreparedOK'
  BY DEF Inv, TypeOK, LogOK, LocalsOK, PreparedOK, Participants
<1>6. WriteAhead'
  BY DEF Inv, TypeOK, LogOK, PreparedOK, WriteAhead, Participants
<1>7. CommittedMeansAllCommitted'
  BY DEF Inv, TypeOK, LogOK, Terminal, AcknowledgedOnce,
         CommittedMeansAllCommitted
<1>8. ExactOK'
  BY DEF Inv, TypeOK, LogOK, LocalsOK, AcknowledgedOnce, WriteAhead, ExactOK,
         OutcomeIsRight, Terminal
<1>9. OutcomeIsRight'
  BY DEF Inv, TypeOK, LogOK, Terminal, AcknowledgedOnce, ExactOK,
         OutcomeIsRight
<1> QED
  BY <1>1, <1>2, <1>3, <1>4, <1>5, <1>6, <1>7, <1>8, <1>9 DEF Inv

\* A call that stops, or a recovery that fails, leaves the log as it is.
LEMMA StopInv ==
    ASSUME Inv, Crash \/ RecoverFails
    PROVE  Inv'
<1> USE BoundsAssumption DEF Crash, RecoverFails, Finish, NoLocals
<1>1. TypeOK'
  <2>1. in_recover' \in BOOLEAN /\ failed' \in BOOLEAN
    BY Zenon DEF Inv, TypeOK
  <2>2. log' \in Statuses /\ state_entry' \in StateNames \cup {"none"}
    BY DEF Inv, TypeOK, Statuses, StateNames, Moved
  <2>3. /\ participant' \in [Participants -> ParticipantStates]
        /\ pc' \in {"idle", "create", "prepare", "decide", "commit", "abort",
              "rollback"}
    BY DEF Inv, TypeOK, ParticipantStates
  <2>4. at' \in 1..(N + 1) /\ attempt' \in 0..MaxRetries
    BY DEF Inv, TypeOK
  <2>5. /\ pending' \subseteq Participants
        /\ next_pending' \subseteq Participants
        /\ ok' \subseteq Participants
    BY DEF Inv, TypeOK
  <2>6. crashes' \in 0..MaxCrashes /\ lost' \in 0..MaxLost
    BY DEF Inv, TypeOK
  <2> QED
    BY <2>1, <2>2, <2>3, <2>4, <2>5, <2>6, Zenon DEF TypeOK
<1>2. LogOK'
  BY DEF Inv, TypeOK, LogOK, Terminal
<1>3. LocalsOK'
  BY DEF Inv, TypeOK, LocalsOK
<1>4. AcknowledgedOnce'
  BY DEF Inv, TypeOK, LocalsOK, AcknowledgedOnce
<1>5. PreparedOK'
  BY DEF Inv, TypeOK, LogOK, LocalsOK, PreparedOK, Participants
<1>6. WriteAhead'
  BY DEF Inv, TypeOK, LogOK, PreparedOK, WriteAhead, Participants
<1>7. CommittedMeansAllCommitted'
  BY DEF Inv, TypeOK, LogOK, Terminal, AcknowledgedOnce,
         CommittedMeansAllCommitted
<1>8. ExactOK'
  BY DEF Inv, TypeOK, LogOK, LocalsOK, AcknowledgedOnce, WriteAhead, ExactOK,
         OutcomeIsRight, Terminal
<1>9. OutcomeIsRight'
  BY DEF Inv, TypeOK, LogOK, Terminal, AcknowledgedOnce, ExactOK,
         OutcomeIsRight
<1> QED
  BY <1>1, <1>2, <1>3, <1>4, <1>5, <1>6, <1>7, <1>8, <1>9 DEF Inv

\* recover() starts from the log alone.
LEMMA RecoverInv ==
    ASSUME Inv, recover
    PROVE  Inv'
<1> USE BoundsAssumption DEF recover, StartCommitPhase
<1>1. TypeOK'
  BY DEF Inv, TypeOK, Participants
<1>2. LogOK'
  BY DEF Inv, TypeOK, LogOK, Terminal
<1>3. LocalsOK'
  BY DEF Inv, TypeOK, LocalsOK
<1>4. AcknowledgedOnce'
  BY DEF Inv, TypeOK, LocalsOK, AcknowledgedOnce
<1>5. PreparedOK'
  BY DEF Inv, TypeOK, LogOK, LocalsOK, PreparedOK, Participants
<1>6. WriteAhead'
  BY DEF Inv, TypeOK, LogOK, PreparedOK, WriteAhead, Participants
<1>7. CommittedMeansAllCommitted'
  BY DEF Inv, TypeOK, LogOK, Terminal, AcknowledgedOnce,
         CommittedMeansAllCommitted
<1>8. ExactOK'
  BY DEF Inv, TypeOK, LogOK, LocalsOK, AcknowledgedOnce, WriteAhead, ExactOK,
         OutcomeIsRight, Terminal
<1>9. OutcomeIsRight'
  BY DEF Inv, TypeOK, LogOK, Terminal, AcknowledgedOnce, ExactOK,
         OutcomeIsRight
<1> QED
  BY <1>1, <1>2, <1>3, <1>4, <1>5, <1>6, <1>7, <1>8, <1>9 DEF Inv

-----------------------------------------------------------------------------
(* Theorems                                                                *)

\* Every step keeps the invariant.
LEMMA NextInv == Inv /\ [Next]_vars => Inv'
<1> SUFFICES ASSUME Inv, [Next]_vars PROVE Inv'
  OBVIOUS
<1>1. CASE Next
  BY <1>1, ExecuteInv, CreateStateInv, PrepareInv, SavePreparedInv,
     SaveCommittingInv, CommitInv, RetryRoundInv, SaveCommittedInv,
     SaveRollingBackInv, RollbackInv, SaveOutcomeInv, StopInv, RecoverInv
     DEF Next, Step
<1>2. CASE UNCHANGED vars
  <2>1. TypeOK' /\ LogOK' /\ LocalsOK' /\ AcknowledgedOnce' /\ PreparedOK'
    BY <1>2 DEF Inv, vars, TypeOK, LogOK, LocalsOK, AcknowledgedOnce,
         PreparedOK
  <2>2. WriteAhead' /\ CommittedMeansAllCommitted' /\ ExactOK' /\ OutcomeIsRight'
    BY <1>2 DEF Inv, vars, WriteAhead, CommittedMeansAllCommitted, ExactOK,
                OutcomeIsRight
  <2> QED
    BY <2>1, <2>2 DEF Inv
<1> QED
  BY <1>1, <1>2

\* The invariant holds in every reachable state.
THEOREM Invariance == Spec => []Inv
BY InitInv, NextInv, PTL DEF Spec

\* The coordinator is type correct; commit_phase never exceeds its retries.
THEOREM TypeCorrect == Spec => []TypeOK
<1>1. Inv => TypeOK
  BY DEF Inv
<1> QED
  BY <1>1, Invariance, PTL

\* A committed log is right, whatever crashes, lost answers and recoveries
\* came before it.
THEOREM CommittedIsRight == Spec => []CommittedMeansAllCommitted
<1>1. Inv => CommittedMeansAllCommitted
  BY DEF Inv
<1> QED
  BY <1>1, Invariance, PTL

\* No participant commits before all have prepared and the decision is logged.
THEOREM DecisionIsLogged == Spec => []WriteAhead
<1>1. Inv => WriteAhead
  BY DEF Inv
<1> QED
  BY <1>1, Invariance, PTL

\* Every outcome is right when nothing crashed and no answer was lost.
THEOREM FaultFreeOutcome == Spec => []OutcomeIsRight
<1>1. Inv => OutcomeIsRight
  BY DEF Inv
<1> QED
  BY <1>1, Invariance, PTL

\* Within a call no acknowledged commit is repeated.
THEOREM CommitsOnce == Spec => []AcknowledgedOnce
<1>1. Inv => AcknowledgedOnce
  BY DEF Inv
<1> QED
  BY <1>1, Invariance, PTL

\* No step of a call, of a crash or of a recovery changes a terminal log.
THEOREM TerminalStays == Spec => TerminalIsFinal
<1>1. Inv /\ [Next]_vars => [log' # log => log \notin Terminal]_log
  <2> SUFFICES ASSUME Inv, [Next]_vars, log' # log PROVE log \notin Terminal
    OBVIOUS
  <2>1. log' = log \/ pc # "idle" \/ log \notin Terminal
    BY DEF Next, Step, vars, execute, recover, CreateState, Prepare,
         SavePrepared,
           SaveCommitting, Commit, RetryRound, SaveCommitted, CommitPhaseOver,
           SaveRollingBack, Rollback, SaveOutcome, RecoverFails, Crash,
         Terminal
  <2> QED
    BY <2>1 DEF Inv, TypeOK, LogOK, Terminal
<1> QED
  BY <1>1, Invariance, PTL DEF Spec, TerminalIsFinal
=============================================================================
