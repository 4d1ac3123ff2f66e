--------------------------- MODULE TwoPhaseCommit ---------------------------
(***************************************************************************)
(* The two-phase commit coordinator of dbx-core (two_phase_commit.rs): one *)
(* transaction, its persisted log, its participants, and the calls of      *)
(* execute() and recover() on it.  A call may stop at any point: the       *)
(* process crashes, or a save of the log fails and `?` ends the call.      *)
(* recover() is called when no other call is under way.                    *)
(*                                                                         *)
(* A participant is known by what its trait methods do (external): Ok      *)
(* means the effect took place; a fault is an Err although it did.         *)
(***************************************************************************)
EXTENDS Naturals, FiniteSets, StateTransitions

CONSTANTS
    N,                  \* number of participants
    MaxRetries,         \* max_retries of commit_phase (2 in the code)
    MaxCrashes,         \* bound on calls that stop
    MaxLost             \* bound on lost answers

ASSUME BoundsAssumption ==
    N \in Nat /\ MaxRetries \in Nat /\ MaxCrashes \in Nat /\ MaxLost \in Nat

Participants == 1..N

VARIABLES
    log,                \* persisted status of the TransactionLog, or "none"
    state_entry,        \* persisted state machine entry 2pc_<id>, or "none"
    participant,        \* what each participant has done
    pc,                 \* where the call under way is; "idle" when there is none
    in_recover,         \* is it a call of recover()?
    at,                 \* next participant of a prepare or rollback loop
    pending,            \* participants left in this round of commit_phase
    next_pending,       \* those to try again in the next round
    attempt,            \* the round
    ok,                 \* participants with committed: true in commit_results
    failed,             \* did a rollback of this call fail?
    crashes,            \* calls that stopped so far (history)
    lost                \* lost answers so far (history)

vars == <<log, state_entry, participant, pc, in_recover, at, pending,
          next_pending, attempt, ok, failed, crashes, lost>>

Statuses == {"none", "preparing", "prepared", "committing", "committed",
             "rolling_back", "rolled_back", "mixed"}
Terminal == {"committed", "rolled_back", "mixed"}
ParticipantStates == {"active", "prepared", "committed", "rolled_back"}

Init ==
    /\ log = "none"
    /\ state_entry = "none"
    /\ participant = [p \in Participants |-> "active"]
    /\ pc = "idle"
    /\ in_recover = FALSE
    /\ at = 1
    /\ pending = {}
    /\ next_pending = {}
    /\ attempt = 0
    /\ ok = {}
    /\ failed = FALSE
    /\ crashes = 0
    /\ lost = 0

-----------------------------------------------------------------------------
\* A call of the trait on p ends: with Ok or Err if good, and with its effect
\* on p taken or not.  Err after the effect is a lost answer.
Answer(p, good, effect) ==
    \/ good /\ participant' = [participant EXCEPT ![p] = effect] /\ UNCHANGED lost
    \/ ~good /\ UNCHANGED <<participant, lost>>
    \/ /\ ~good /\ lost < MaxLost
       /\ participant' = [participant EXCEPT ![p] = effect]
       /\ lost' = lost + 1

\* Locals of a call that ends, or of one that has not used them yet.
NoLocals ==
    /\ in_recover' = FALSE /\ at' = 1 /\ pending' = {} /\ next_pending' = {}
    /\ attempt' = 0 /\ ok' = {} /\ failed' = FALSE

Finish == pc' = "idle" /\ NoLocals

\* transition() on the entry, whose result the coordinator ignores.
Moved(s) == IF state_entry # "none" /\ is_valid_transition(state_entry, s)
            THEN s ELSE state_entry

\* execute(): save_log, then create_state and the second save of prepare_phase.
execute ==
    /\ pc = "idle" /\ log = "none"
    /\ log' = "preparing"
    /\ pc' = "create"
    /\ NoLocals
    /\ UNCHANGED <<state_entry, participant, crashes, lost>>

CreateState ==
    /\ pc = "create"
    /\ state_entry' = "created"
    /\ log' = "preparing"
    /\ pc' = "prepare"
    /\ UNCHANGED <<participant, in_recover, at, pending, next_pending, attempt,
                   ok, failed, crashes, lost>>

\* prepare_phase: participants in order, until the first refusal.
Prepare(good) ==
    /\ pc = "prepare" /\ at \in Participants
    /\ Answer(at, good, "prepared")
    /\ IF good THEN at' = at + 1 /\ UNCHANGED pc
               ELSE pc' = "abort" /\ UNCHANGED at
    /\ UNCHANGED <<log, state_entry, in_recover, pending, next_pending, attempt,
                   ok, failed, crashes>>

SavePrepared ==
    /\ pc = "prepare" /\ at = N + 1
    /\ log' = "prepared"
    /\ pc' = "decide"
    /\ UNCHANGED <<state_entry, participant, in_recover, at, pending,
                   next_pending, attempt, ok, failed, crashes, lost>>

StartCommitPhase ==
    /\ pc' = "commit"
    /\ pending' = Participants
    /\ UNCHANGED <<at, next_pending, attempt, ok, failed>>

SaveCommitting_Late ==
    /\ pc = "decide"
    /\ StartCommitPhase
    /\ UNCHANGED <<log, state_entry, participant, in_recover, crashes, lost>>

SaveCommitting ==
    /\ pc = "decide"
    /\ log' = "committing"
    /\ StartCommitPhase
    /\ UNCHANGED <<state_entry, participant, in_recover, crashes, lost>>

\* One commit() of commit_phase, in the participants' order.  Only a prepared
\* or committed participant can answer Ok, and only a prepared one changes.
Commit(p, good) ==
    /\ pc = "commit"
    /\ p \in pending /\ \A q \in pending : p <= q
    /\ IF participant[p] = "prepared"
       THEN Answer(p, good, "committed")
       ELSE /\ good => participant[p] = "committed"
            /\ UNCHANGED <<participant, lost>>
    /\ pending' = pending \ {p}
    /\ IF good THEN ok' = ok \cup {p} /\ UNCHANGED next_pending
               ELSE next_pending' = next_pending \cup {p} /\ UNCHANGED ok
    /\ UNCHANGED <<log, state_entry, pc, in_recover, at, attempt, failed, crashes>>

\* The next round tries those that failed, max_retries times.
RetryRound_Unbounded ==
    /\ pc = "commit" /\ pending = {}
    /\ next_pending # {}
    /\ pending' = next_pending
    /\ next_pending' = {}
    /\ UNCHANGED <<log, state_entry, participant, pc, in_recover, at, attempt, ok,
                   failed, crashes, lost>>

RetryRound ==
    /\ pc = "commit" /\ pending = {}
    /\ next_pending # {} /\ attempt < MaxRetries
    /\ pending' = next_pending
    /\ next_pending' = {}
    /\ attempt' = attempt + 1
    /\ UNCHANGED <<log, state_entry, participant, pc, in_recover, at, ok, failed,
                   crashes, lost>>

CommitPhaseOver ==
    /\ pc = "commit" /\ pending = {}
    /\ next_pending = {} \/ attempt = MaxRetries

AllCommitted_Any == N = 0 \/ ok # {}

AllCommitted == ok = Participants

SaveCommitted ==
    /\ CommitPhaseOver /\ AllCommitted
    /\ log' = "committed"
    /\ state_entry' = IF in_recover THEN state_entry ELSE Moved("completed")
    /\ Finish
    /\ UNCHANGED <<participant, crashes, lost>>

\* execute() records rolling_back before it rolls back, recover() does not.
SaveRollingBack ==
    /\ \/ CommitPhaseOver /\ ~AllCommitted
       \/ pc = "abort"
    /\ log' = IF in_recover THEN log ELSE "rolling_back"
    /\ pc' = "rollback"
    /\ at' = 1
    /\ UNCHANGED <<state_entry, participant, in_recover, pending, next_pending,
                   attempt, ok, failed, crashes, lost>>

\* rollback_phase asks every participant; a committed one stays committed.
Rollback(good) ==
    /\ pc = "rollback" /\ at \in Participants
    /\ IF participant[at] = "committed"
       THEN UNCHANGED <<participant, lost>>
       ELSE Answer(at, good, "rolled_back")
    /\ at' = at + 1
    /\ failed' = (failed \/ ~good)
    /\ UNCHANGED <<log, state_entry, pc, in_recover, pending, next_pending,
                   attempt, ok, crashes>>

\* execute() ignores failed rollbacks; the outcome is read off commit_results,
\* which are empty when there was no commit phase in this call.
SaveOutcome_NeverMixed ==
    /\ pc = "rollback" /\ at = N + 1
    /\ ~in_recover \/ ~failed
    /\ log' = "rolled_back"
    /\ state_entry' = IF in_recover THEN state_entry ELSE Moved("failed")
    /\ Finish
    /\ UNCHANGED <<participant, crashes, lost>>

SaveOutcome ==
    /\ pc = "rollback" /\ at = N + 1
    /\ ~in_recover \/ ~failed
    /\ log' = IF ok # {} THEN "mixed" ELSE "rolled_back"
    /\ state_entry' = IF in_recover THEN state_entry ELSE Moved("failed")
    /\ Finish
    /\ UNCHANGED <<participant, crashes, lost>>

\* recover() returns the error of rollback_phase and leaves the log alone.
RecoverFails ==
    /\ pc = "rollback" /\ at = N + 1
    /\ in_recover /\ failed
    /\ Finish
    /\ UNCHANGED <<log, state_entry, participant, crashes, lost>>

\* recover(): a transaction that was not committing is rolled back, one that
\* was is committed again; a terminal one is returned as it is.
recover_RollsTerminalBack ==
    /\ pc = "idle" /\ log \notin {"none", "committing"}
    /\ pc' = "rollback"
    /\ in_recover' = TRUE
    /\ UNCHANGED <<log, state_entry, participant, at, pending, next_pending,
                   attempt, ok, failed, crashes, lost>>

recover ==
    /\ pc = "idle" /\ log \in {"preparing", "prepared", "rolling_back", "committing"}
    /\ IF log = "committing"
       THEN StartCommitPhase
       ELSE /\ pc' = "rollback"
            /\ UNCHANGED <<at, pending, next_pending, attempt, ok, failed>>
    /\ in_recover' = TRUE
    /\ UNCHANGED <<log, state_entry, participant, crashes, lost>>

\* The call under way stops; only what is persisted, and the participants, stay.
Crash ==
    /\ pc # "idle"
    /\ crashes < MaxCrashes
    /\ crashes' = crashes + 1
    /\ Finish
    /\ UNCHANGED <<log, state_entry, participant, lost>>

-----------------------------------------------------------------------------
Step ==
    \/ CreateState
    \/ \E good \in BOOLEAN : Prepare(good) \/ Rollback(good)
    \/ \E p \in Participants, good \in BOOLEAN : Commit(p, good)
    \/ SavePrepared \/ SaveCommitting \/ RetryRound
    \/ SaveCommitted \/ SaveRollingBack \/ SaveOutcome \/ RecoverFails

Next == execute \/ recover \/ Step \/ Crash

Spec == Init /\ [][Next]_vars

\* A call under way goes on: participants answer, saves return.  Nothing
\* makes anyone call execute() or recover().
FairSpec == Spec /\ WF_vars(Step)

-----------------------------------------------------------------------------
(* Properties                                                              *)

\* Types.
TypeOK ==
    /\ log \in Statuses
    /\ state_entry \in StateNames \cup {"none"}
    /\ participant \in [Participants -> ParticipantStates]
    /\ pc \in {"idle", "create", "prepare", "decide", "commit", "abort", "rollback"}
    /\ in_recover \in BOOLEAN
    /\ at \in 1..(N + 1)
    /\ pending \subseteq Participants
    /\ next_pending \subseteq Participants
    /\ attempt \in 0..MaxRetries
    /\ ok \subseteq Participants
    /\ failed \in BOOLEAN
    /\ crashes \in 0..MaxCrashes
    /\ lost \in 0..MaxLost

\* A log that says committed is right, whatever crashed and was retried.
CommittedMeansAllCommitted ==
    log = "committed" => \A p \in Participants : participant[p] = "committed"

\* Nothing is committed before every participant has prepared and the decision
\* is in the log: recovery may then roll a preparing or prepared transaction
\* back without losing a commit.
WriteAhead ==
    (\E p \in Participants : participant[p] = "committed") =>
        /\ log \notin {"none", "preparing", "prepared"}
        /\ \A p \in Participants : participant[p] # "active"

\* Without crashes and lost answers, a log that says rolled_back, or mixed, is
\* right too.
OutcomeIsRight ==
    crashes = 0 /\ lost = 0 =>
        /\ log = "rolled_back" => \A p \in Participants : participant[p] # "committed"
        /\ log = "mixed" => /\ \E p \in Participants : participant[p] = "committed"
                            /\ \E p \in Participants : participant[p] # "committed"

\* Within one call no participant that has acknowledged its commit is asked to
\* commit again.
AcknowledgedOnce ==
    /\ ok \cap (pending \cup next_pending) = {}
    /\ \A p \in ok : participant[p] = "committed"

\* A terminal status is never changed again, by recover() either.
TerminalIsFinal ==
    [][log' # log => log \notin Terminal]_log

\* Every call returns: the retries are bounded.
CallReturns == pc # "idle" ~> pc = "idle"
=============================================================================
