------------------------- MODULE StateMachineProofs -------------------------
(***************************************************************************)
(* Proofs about StateMachine, for every set of clients and every bound on  *)
(* retries, calls and deletes.                                             *)
(***************************************************************************)
EXTENDS StateMachine, TLAPS

\* The entry never runs ahead of its row.  A client that is about to swap holds an
\* entry it may move; unless that entry was deleted since, it is not ahead of the
\* row either, and still the row's if the versions agree.
Current(c) ==
    /\ row # Absent
    /\ entry[c].version <= row.version
    /\ entry[c].version = row.version => row.value = entry[c]

LoadedOK ==
    /\ row # Absent => row.value.version <= row.version
    /\ \A c \in Clients : pc[c] = "cas" =>
          is_valid_transition(entry[c].current_state, to[c])
    /\ \A c \in Clients : pc[c] = "cas" /\ c \notin stale => Current(c)

Inv == TypeOK /\ LoadedOK

-----------------------------------------------------------------------------
\* Absent is not a row.
LEMMA RowTyped ==
    ASSUME TypeOK, row # Absent
    PROVE  row \in Rows
BY DEF TypeOK

\* What create_state and a swap write is a row.
LEMMA RowWritten ==
    ASSUME NEW v \in Nat, NEW s \in StateNames, NEW w \in Nat
    PROVE  /\ [version |-> v, value |-> [current_state |-> s, version |-> w]] \in Rows
           /\ [version |-> v, value |-> [current_state |-> s, version |-> w]] # Absent
<1>1. [version |-> v, value |-> [current_state |-> s, version |-> w]] \in Rows
  BY DEF Rows, Entries
<1> QED
  BY <1>1, AbsentAssumption

\* create_state leaves a row behind, with the entry at version 1.
LEMMA Created ==
    ASSUME TypeOK, create_state
    PROVE  /\ row' # Absent /\ row' \in Rows
           /\ row'.value = [current_state |-> "created", version |-> 1]
           /\ row'.version >= 1
           /\ row # Absent => row'.version = row.version + 1
<1> DEFINE v == IF row = Absent THEN 1 ELSE row.version + 1
<1>1. v \in Nat /\ v >= 1
  <2>1. CASE row = Absent
    BY <2>1
  <2>2. CASE row # Absent
    BY <2>2, RowTyped DEF Rows
  <2> QED
    BY <2>1, <2>2
<1>2. row' = [version |-> v, value |-> [current_state |-> "created", version |-> 1]]
  BY DEF create_state
<1>3. "created" \in StateNames
  BY DEF StateNames
<1> HIDE DEF v
<1>4. row' # Absent /\ row' \in Rows
  BY <1>1, <1>2, <1>3, RowWritten
<1>5. row'.value = [current_state |-> "created", version |-> 1] /\ row'.version = v
  BY <1>2
<1> QED
  BY <1>1, <1>4, <1>5 DEF v

\* A swap leaves a row behind: the wanted state, one version on.
LEMMA Swapped ==
    ASSUME TypeOK, NEW c \in Clients, Swap(c)
    PROVE  /\ row # Absent /\ row.version = entry[c].version
           /\ row' # Absent /\ row' \in Rows
           /\ row'.version = row.version + 1
           /\ row'.value = [current_state |-> to[c], version |-> entry[c].version + 1]
<1>1. row # Absent /\ row.version = entry[c].version
  BY DEF Swap, CanSwap
<1>2. row.version \in Nat /\ entry[c].version \in Nat /\ to[c] \in StateNames
  BY <1>1, RowTyped DEF TypeOK, Rows, Entries
<1>3. row' = [version |-> row.version + 1,
              value |-> [current_state |-> to[c], version |-> entry[c].version + 1]]
  BY DEF Swap
<1>4. row' # Absent /\ row' \in Rows
  BY <1>2, <1>3, RowWritten
<1> QED
  BY <1>1, <1>3, <1>4

\* Types are preserved.
LEMMA TypeStep == TypeOK /\ [Next]_vars => TypeOK'
<1> SUFFICES ASSUME TypeOK, [Next]_vars PROVE TypeOK'
  OBVIOUS
<1> USE BoundsAssumption DEF TypeOK
<1>0. NoEntry \in Entries
  BY DEF NoEntry, Entries, StateNames
<1>1. CASE create_state
  <2>1. row' \in Rows
    BY <1>1, Created
  <2>2. recreated' \in BOOLEAN /\ overtaken' \in BOOLEAN
    BY <1>1, Zenon DEF create_state
  <2> QED
    BY <1>1, <2>1, <2>2 DEF create_state
<1>2. CASE delete_state
  <2>1. row' \in Rows \cup {Absent} /\ recreated' \in BOOLEAN /\ overtaken' \in BOOLEAN
    BY <1>2, Zenon DEF delete_state
  <2>2. deletes' \in 0..MaxDeletes
    BY <1>2 DEF delete_state
  <2> QED
    BY <1>2, <2>1, <2>2 DEF delete_state
<1>3. ASSUME NEW c \in Clients, NEW s \in StateNames, transition(c, s) PROVE TypeOK'
  BY <1>3 DEF transition
<1>4. ASSUME NEW c \in Clients, Step(c) PROVE TypeOK'
  <2>1. CASE LoadRejected(c)
    BY <1>0, <2>1 DEF LoadRejected, Return, StateNames
  <2>2. CASE Load(c)
    BY <2>2, RowTyped DEF Load, Rows
  <2>3. CASE Swap(c)
    <3>1. row' \in Rows \cup {Absent}
      BY <2>3, Swapped
    <3>2. /\ UNCHANGED <<recreated, calls, deletes>>
          /\ overtaken' \in BOOLEAN
          /\ Return(c)
      BY <2>3 DEF Swap
    <3> QED
      BY <1>0, <3>1, <3>2 DEF Return, StateNames
  <2>4. CASE SwapConflict(c)
    BY <1>0, <2>4 DEF SwapConflict
  <2>5. CASE SwapExhausted(c)
    BY <1>0, <2>5 DEF SwapExhausted, Return, StateNames
  <2> QED
    BY <1>4, <2>1, <2>2, <2>3, <2>4, <2>5 DEF Step
<1>5. CASE UNCHANGED vars
  BY <1>5 DEF vars
<1> QED
  BY <1>1, <1>2, <1>3, <1>4, <1>5 DEF Next

\* The initial state is typed and nothing is loaded.
LEMMA InitInv == Init => Inv
<1> SUFFICES ASSUME Init PROVE Inv
  OBVIOUS
<1>1. NoEntry \in Entries /\ "created" \in StateNames
  BY DEF NoEntry, Entries, StateNames
<1>2. TypeOK
  <2>1. row \in Rows \cup {Absent} /\ recreated \in BOOLEAN /\ overtaken \in BOOLEAN
    BY Zenon DEF Init
  <2> QED
    BY <1>1, <2>1, BoundsAssumption DEF Init, TypeOK
<1>3. LoadedOK
  BY DEF Init, LoadedOK
<1> QED
  BY <1>2, <1>3 DEF Inv

\* From one delete to the next the version column only grows, so a version that
\* still matches belongs to the entry that was loaded.
LEMMA LoadedStep == Inv /\ [Next]_vars => LoadedOK'
<1> SUFFICES ASSUME Inv, [Next]_vars PROVE LoadedOK'
  OBVIOUS
<1> USE DEF Inv, TypeOK, LoadedOK, Current, Entries
<1>1. CASE create_state
  <2>1. /\ row' # Absent
        /\ row'.value.version <= row'.version
        /\ row # Absent => row'.version = row.version + 1
    BY <1>1, Created
  <2>2. UNCHANGED <<stale, pc, to, entry>>
    BY <1>1 DEF create_state
  <2>3. ASSUME NEW c \in Clients, pc[c] = "cas", c \notin stale PROVE Current(c)'
    <3>1. row # Absent /\ entry[c].version <= row.version
      BY <2>3
    <3>2. row.version \in Nat
      BY <3>1, RowTyped DEF Rows
    <3> QED
      BY <2>1, <2>2, <2>3, <3>1, <3>2
  <2> QED
    BY <2>1, <2>2, <2>3
<1>2. CASE delete_state
  BY <1>2 DEF delete_state
<1>3. ASSUME NEW c \in Clients, NEW s \in StateNames, transition(c, s) PROVE LoadedOK'
  BY <1>3 DEF transition
<1>4. ASSUME NEW c \in Clients, Step(c) PROVE LoadedOK'
  <2>1. CASE LoadRejected(c)
    BY <2>1 DEF LoadRejected, Return
  <2>2. CASE Load(c)
    BY <2>2, RowTyped DEF Load, Rows
  <2>3. CASE Swap(c)
    <3>1. /\ row # Absent /\ row.version = entry[c].version
          /\ row' # Absent
          /\ row'.version = row.version + 1
          /\ row'.value = [current_state |-> to[c], version |-> entry[c].version + 1]
      BY <2>3, Swapped
    <3>2. row.version \in Nat
      BY <3>1, RowTyped DEF Rows
    <3>3. Return(c)
      BY <2>3 DEF Swap
    <3> QED
      BY <3>1, <3>2, <3>3 DEF Return
  <2>4. CASE SwapConflict(c)
    BY <2>4 DEF SwapConflict
  <2>5. CASE SwapExhausted(c)
    BY <2>5 DEF SwapExhausted, Return
  <2> QED
    BY <1>4, <2>1, <2>2, <2>3, <2>4, <2>5 DEF Step
<1>5. CASE UNCHANGED vars
  BY <1>5 DEF vars
<1> QED
  BY <1>1, <1>2, <1>3, <1>4, <1>5 DEF Next

-----------------------------------------------------------------------------
\* The state machine is type correct, deletes included; the attempts of a call
\* never exceed max_retries.
THEOREM TypeCorrect == Spec => []TypeOK
<1>1. Init => TypeOK
  BY InitInv DEF Inv
<1> QED
  BY <1>1, TypeStep, PTL DEF Spec

\* The version column and the version in the entry agree as long as
\* create_state did not overwrite the entry, deletes included.
THEOREM VersionsStayEqual == Spec => []VersionsAgree
<1>1. Init => VersionsAgree
  BY DEF Init, VersionsAgree
<1>2. TypeOK /\ VersionsAgree /\ [Next]_vars => VersionsAgree'
  <2> SUFFICES ASSUME TypeOK, VersionsAgree, [Next]_vars PROVE VersionsAgree'
    OBVIOUS
  <2> USE DEF VersionsAgree
  <2>1. CASE create_state
    BY <2>1 DEF create_state
  <2>2. CASE delete_state
    BY <2>2 DEF delete_state
  <2>3. ASSUME NEW c \in Clients, NEW s \in StateNames, transition(c, s)
        PROVE  VersionsAgree'
    BY <2>3 DEF transition
  <2>4. ASSUME NEW c \in Clients, Step(c) PROVE VersionsAgree'
    BY <2>4 DEF Step, LoadRejected, Load, Swap, CanSwap, SwapConflict, SwapExhausted
  <2>5. CASE UNCHANGED vars
    BY <2>5 DEF vars
  <2> QED
    BY <2>1, <2>2, <2>3, <2>4, <2>5 DEF Next
<1> QED
  BY <1>1, <1>2, TypeCorrect, PTL DEF Spec

\* The inductive invariant of the loaded entries.
THEOREM Invariance == Spec => []Inv
<1>1. Inv /\ [Next]_vars => Inv'
  BY TypeStep, LoadedStep DEF Inv
<1> QED
  BY <1>1, InitInv, PTL DEF Spec

\* A swap never overwrites a move that its client has not seen, unless the entry
\* it loaded was deleted.
THEOREM NoUpdateIsLost == Spec => []NoLostUpdate
<1>1. Inv => NoLostUpdate
  BY DEF Inv, LoadedOK, Current, NoLostUpdate, CanSwap
<1> QED
  BY <1>1, Invariance, PTL

\* Concurrent loads and swaps implement the atomic state machine: every step is
\* a creation, a deletion, an allowed move, or a stutter; a move by a client that
\* loaded before the last delete is the one step that counts as a creation.
THEOREM ImplementsLinear == Spec => LinearSpec
<1> DEFINE cur == IF row = Absent THEN Absent
                  ELSE IF overtaken THEN "created" ELSE row.value.current_state
<1>1. Init => Linear!Init
  BY DEF Init, Linear!Init
<1>2. Inv /\ [Next]_vars => [Linear!Create \/ Linear!Delete \/ Linear!Move]_cur
  <2> SUFFICES ASSUME Inv, [Next]_vars
               PROVE  Linear!Create \/ Linear!Delete \/ Linear!Move \/ cur' = cur
    OBVIOUS
  <2>1. CASE create_state
    <3>1. row' # Absent /\ row'.value.current_state = "created"
      BY <2>1, Created DEF Inv
    <3> QED
      BY <3>1 DEF Linear!Create
  <2>2. CASE delete_state
    BY <2>2 DEF delete_state, Linear!Delete
  <2>3. ASSUME NEW c \in Clients, NEW s \in StateNames, transition(c, s)
        PROVE  cur' = cur
    BY <2>3 DEF transition
  <2>4. ASSUME NEW c \in Clients, Step(c)
        PROVE  Linear!Create \/ Linear!Move \/ cur' = cur
    <3>1. CASE Swap(c) /\ ~(overtaken \/ c \in stale)
      <4>1. row # Absent /\ row.value = entry[c]
        BY <3>1 DEF Swap, CanSwap, Inv, LoadedOK, Current
      <4>2. row'.value.current_state = to[c] /\ to[c] \in StateNames
        <5>1. row'.value = [current_state |-> to[c], version |-> entry[c].version + 1]
          BY <3>1, Swapped DEF Inv
        <5> QED
          BY <5>1 DEF Inv, TypeOK
      <4>3. to[c] \in ALLOWED_TRANSITIONS[row.value.current_state]
        BY <3>1, <4>1 DEF Swap, Inv, LoadedOK, is_valid_transition
      <4>4. row' # Absent
        BY <3>1, Swapped DEF Inv
      <4>5. row.value.current_state \in StateNames
        BY <4>1, RowTyped DEF Inv, Rows, Entries
      <4>6. ~overtaken /\ ~overtaken'
        BY <3>1, Zenon DEF Swap
      <4> QED
        BY <4>1, <4>2, <4>3, <4>4, <4>5, <4>6, AbsentAssumption
           DEF Linear!Move, Linear!is_valid_transition,
               Linear!ALLOWED_TRANSITIONS, ALLOWED_TRANSITIONS,
               Linear!StateNames, StateNames
    <3>2. CASE Swap(c) /\ (overtaken \/ c \in stale)
      <4>1. overtaken'
        BY <3>2, Zenon DEF Swap
      <4>2. row' # Absent
        BY <3>2, Swapped DEF Inv
      <4> QED
        BY <4>1, <4>2 DEF Linear!Create
    <3>3. CASE ~Swap(c)
      BY <2>4, <3>3 DEF Step, LoadRejected, Load, SwapConflict, SwapExhausted
    <3> QED
      BY <3>1, <3>2, <3>3
  <2>5. CASE UNCHANGED vars
    BY <2>5 DEF vars
  <2> QED
    BY <2>1, <2>2, <2>3, <2>4, <2>5 DEF Next
<1> QED
  BY <1>1, <1>2, Invariance, PTL DEF Spec, LinearSpec, Linear!Spec
=============================================================================
