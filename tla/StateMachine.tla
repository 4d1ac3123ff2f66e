---------------------------- MODULE StateMachine ----------------------------
(***************************************************************************)
(* One key of the persisted state machine of dbx-core: StateMachine and    *)
(* LocalBackend of state_persistence.rs over the state_store table of      *)
(* storage.rs.  Clients create, delete and move the entry concurrently.    *)
(*                                                                         *)
(* The row has a version column of its own; the StateEntry stored in it    *)
(* carries a second version.  compare_and_swap compares the entry version  *)
(* a client has loaded with the row's column.                              *)
(*                                                                         *)
(* Every statement on the table is one atomic step (Storage::with_conn     *)
(* holds the only connection); a client may be delayed between its load    *)
(* and its compare-and-swap.                                               *)
(***************************************************************************)
EXTENDS Naturals, StateTransitions

CONSTANTS
    Clients,
    Absent,             \* no row
    MaxRetries,         \* max_retries of transition (3 in the code)
    MaxCalls,           \* bound on the calls of create_state and transition
    MaxDeletes          \* bound on deletes

ASSUME BoundsAssumption ==
    MaxRetries \in Nat /\ MaxCalls \in Nat /\ MaxDeletes \in Nat

VARIABLES
    row,                \* Absent, or the row: its version column and its entry
    recreated,          \* was the entry overwritten by create_state? (history)
    calls,              \* calls of create_state and transition so far (history)
    deletes,            \* number of deletes so far (history)
    stale,              \* clients whose entry was deleted since they loaded it (history)
    overtaken,          \* was the entry moved by a stale client? (history)
    pc,                 \* where a client is in transition()
    to,                 \* the state it wants
    entry,              \* the entry it loaded
    attempt             \* its attempts so far

vars == <<row, recreated, calls, deletes, stale, overtaken, pc, to, entry, attempt>>

Entries == [current_state: StateNames, version: Nat]
Rows == [version: Nat, value: Entries]
ASSUME AbsentAssumption == Absent \notin StateNames /\ Absent \notin Rows

NoEntry == [current_state |-> "created", version |-> 0]

Init ==
    /\ row = Absent
    /\ recreated = FALSE
    /\ calls = 0
    /\ deletes = 0
    /\ stale = {}
    /\ overtaken = FALSE
    /\ pc = [c \in Clients |-> "idle"]
    /\ to = [c \in Clients |-> "created"]
    /\ entry = [c \in Clients |-> NoEntry]
    /\ attempt = [c \in Clients |-> 0]

-----------------------------------------------------------------------------
\* create_state: save_state upserts the row, which counts its version column
\* on; the entry starts at version 1 again.
create_state ==
    /\ calls < MaxCalls
    /\ calls' = calls + 1
    /\ row' = [version |-> IF row = Absent THEN 1 ELSE row.version + 1,
               value |-> [current_state |-> "created", version |-> 1]]
    /\ recreated' = (recreated \/ row # Absent)
    /\ overtaken' = FALSE
    /\ UNCHANGED <<deletes, stale, pc, to, entry, attempt>>

delete_state ==
    /\ row # Absent
    /\ deletes < MaxDeletes
    /\ row' = Absent
    /\ recreated' = FALSE
    /\ deletes' = deletes + 1
    /\ stale' = {c \in Clients : pc[c] = "cas"}
    /\ overtaken' = FALSE
    /\ UNCHANGED <<calls, pc, to, entry, attempt>>

\* transition(key, s) is called.
transition(c, s) ==
    /\ pc[c] = "idle"
    /\ calls < MaxCalls
    /\ calls' = calls + 1
    /\ pc' = [pc EXCEPT ![c] = "load"]
    /\ to' = [to EXCEPT ![c] = s]
    /\ attempt' = [attempt EXCEPT ![c] = 0]
    /\ UNCHANGED <<row, recreated, deletes, stale, overtaken, entry>>

\* The call returns; its locals are gone.
Return(c) ==
    /\ pc' = [pc EXCEPT ![c] = "idle"]
    /\ to' = [to EXCEPT ![c] = "created"]
    /\ entry' = [entry EXCEPT ![c] = NoEntry]
    /\ attempt' = [attempt EXCEPT ![c] = 0]
    /\ stale' = stale \ {c}

\* The load of an attempt: no entry, or a move that is not allowed from it, is
\* an error.
LoadRejected(c) ==
    /\ pc[c] = "load"
    /\ \/ row = Absent
       \/ row # Absent /\ ~is_valid_transition(row.value.current_state, to[c])
    /\ Return(c)
    /\ UNCHANGED <<row, recreated, calls, deletes, overtaken>>

Load_Unvalidated(c) ==
    /\ pc[c] = "load"
    /\ row # Absent
    /\ entry' = [entry EXCEPT ![c] = row.value]
    /\ pc' = [pc EXCEPT ![c] = "cas"]
    /\ UNCHANGED <<row, recreated, calls, deletes, stale, overtaken, to, attempt>>

Load(c) ==
    /\ pc[c] = "load"
    /\ row # Absent
    /\ is_valid_transition(row.value.current_state, to[c])
    /\ entry' = [entry EXCEPT ![c] = row.value]
    /\ pc' = [pc EXCEPT ![c] = "cas"]
    /\ UNCHANGED <<row, recreated, calls, deletes, stale, overtaken, to, attempt>>

\* compare_and_swap_state of Storage: the row's column must be the version of
\* the entry that was loaded.
CanSwap_AnyVersion(c) == row # Absent

CanSwap(c) == row # Absent /\ row.version = entry[c].version

Swap_KeepsVersion(c) ==
    /\ pc[c] = "cas"
    /\ CanSwap(c)
    /\ row' = [version |-> row.version + 1,
               value |-> [current_state |-> to[c], version |-> entry[c].version]]
    /\ Return(c)
    /\ overtaken' = (overtaken \/ c \in stale)
    /\ UNCHANGED <<recreated, calls, deletes>>

Swap(c) ==
    /\ pc[c] = "cas"
    /\ CanSwap(c)
    /\ row' = [version |-> row.version + 1,
               value |-> [current_state |-> to[c], version |-> entry[c].version + 1]]
    /\ Return(c)
    /\ overtaken' = (overtaken \/ c \in stale)
    /\ UNCHANGED <<recreated, calls, deletes>>

SwapConflict_Uncounted(c) ==
    /\ pc[c] = "cas"
    /\ ~CanSwap(c)
    /\ pc' = [pc EXCEPT ![c] = "load"]
    /\ entry' = [entry EXCEPT ![c] = NoEntry]
    /\ stale' = stale \ {c}
    /\ UNCHANGED <<row, recreated, calls, deletes, overtaken, to, attempt>>

SwapConflict(c) ==
    /\ pc[c] = "cas"
    /\ ~CanSwap(c)
    /\ attempt[c] < MaxRetries
    /\ pc' = [pc EXCEPT ![c] = "load"]
    /\ entry' = [entry EXCEPT ![c] = NoEntry]
    /\ attempt' = [attempt EXCEPT ![c] = @ + 1]
    /\ stale' = stale \ {c}
    /\ UNCHANGED <<row, recreated, calls, deletes, overtaken, to>>

SwapExhausted(c) ==
    /\ pc[c] = "cas"
    /\ ~CanSwap(c)
    /\ attempt[c] = MaxRetries
    /\ Return(c)
    /\ UNCHANGED <<row, recreated, calls, deletes, overtaken>>

-----------------------------------------------------------------------------
Step(c) == LoadRejected(c) \/ Load(c) \/ Swap(c) \/ SwapConflict(c) \/ SwapExhausted(c)

Next ==
    \/ create_state
    \/ delete_state
    \/ \E c \in Clients : (\E s \in StateNames : transition(c, s)) \/ Step(c)

Spec == Init /\ [][Next]_vars

\* A call that was made goes on: its statements return.
FairSpec == Spec /\ \A c \in Clients : WF_vars(Step(c))

-----------------------------------------------------------------------------
(* Properties                                                              *)

\* Types; a client at its compare-and-swap has loaded a real entry.
TypeOK ==
    /\ row \in Rows \cup {Absent}
    /\ recreated \in BOOLEAN
    /\ calls \in 0..MaxCalls
    /\ deletes \in 0..MaxDeletes
    /\ stale \subseteq {c \in Clients : pc[c] = "cas"}
    /\ overtaken \in BOOLEAN
    /\ pc \in [Clients -> {"idle", "load", "cas"}]
    /\ to \in [Clients -> StateNames]
    /\ entry \in [Clients -> Entries]
    /\ attempt \in [Clients -> 0..MaxRetries]

\* A client about to write may move the entry it has loaded.  If the version
\* column has not moved on, that is still the entry in the row, so that the swap
\* loses no other client's move: unless the entry was deleted in between, for a
\* new one counts its versions from 1 again and may have come to the same one.
NoLostUpdate ==
    \A c \in Clients : pc[c] = "cas" =>
        /\ is_valid_transition(entry[c].current_state, to[c])
        /\ c \in stale \/ (row # Absent /\ (CanSwap(c) => row.value = entry[c]))

\* The version inside the entry and the version column agree, so that an
\* uncontended swap succeeds, unless create_state has overwritten the entry.
VersionsAgree ==
    row # Absent /\ ~recreated => row.version = row.value.version

\* However its loads and swaps interleave with other clients', the entry is
\* the atomic state machine of LinearStateMachine.  The one exception is an entry
\* that was moved by a client whose own load is older than the last delete_state:
\* nothing is claimed of it until it is created anew or deleted.
Linear == INSTANCE LinearStateMachine
          WITH current <- IF row = Absent THEN Absent
                          ELSE IF overtaken THEN "created"
                          ELSE row.value.current_state
LinearSpec == Linear!Spec

\* Every transition call returns: the retries are bounded.
TransitionReturns ==
    \A c \in Clients : pc[c] # "idle" ~> pc[c] = "idle"
=============================================================================
