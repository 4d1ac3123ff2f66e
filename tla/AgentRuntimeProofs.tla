------------------------- MODULE AgentRuntimeProofs -------------------------
(***************************************************************************)
(* Proofs about AgentRuntime, for every finite set of clients, every set   *)
(* of cells and every number of faults.                                    *)
(***************************************************************************)
EXTENDS AgentRuntime, FiniteSetTheorems, TLAPS

(***************************************************************************)
(* The parts of the inductive invariant that are not properties of their   *)
(* own.                                                                    *)
(***************************************************************************)

\* A client holds a session exactly from its reservation until the open
\* fails, the close succeeds or it is dropped.
SessionOK ==
    \A c \in Clients :
        session[c] <=> pc[c] \in {"call", "insert", "write", "wait", "cancel",
                                 "live"}

\* get_or_try_init: a cell is being filled by the one client that started
\* to, and only a filled cell has sessions and a reader.
CellOK ==
    /\ \A c \in Clients :
          /\ pc[c] = "starting" => runtime[cell[c]] = "starting"
          /\ session[c] => runtime[cell[c]] = "set"
    /\ \A c, d \in Clients :
          pc[c] = "starting" /\ pc[d] = "starting" /\ cell[c] = cell[d] => c = d
    /\ \A r \in Cells : runtime[r] = "set" => reader[r] # "none"

\* A written request without an answer is in the pending map.
PendingOK ==
    \A c \in Clients :
        pc[c] \in {"write", "wait"} /\ reply[c] = "none" => c \in pending[cell[c]]

\* A request in the pending map, other than the abandoned ones, is that of a
\* call under way on this runtime that has not been answered: a call that ends,
\* an answer and a drop of its future all take it out of this set.
PendingExact ==
    \A r \in Cells : \A c \in pending[r] :
        /\ cell[c] = r
        /\ pc[c] \in {"write", "wait", "cancel"}
        /\ reply[c] = "none"

\* A call begins without an answer.
ReplyOK ==
    \A c \in Clients :
        pc[c] \notin {"write", "wait", "cancel"} => reply[c] = "none"

\* Without noise the reader leaves its loop only at the end of stdout.
ReaderOK ==
    \A r \in Cells :
        reader[r] \in {"failed", "drained", "done"} /\ ~noise[r]
        => child[r] = "exited"

\* Only a runtime that was started has sessions, timers, a reader, a reaper
\* and somebody who reports on it, stops it or marks it as failed.
StartedOK ==
    /\ \A r \in Cells :
          /\ runtime[r] = "set" <=> child[r] # "none"
          /\ runtime[r] = "set" <=> reader[r] # "none"
          /\ failed[r] \/ reaper_started[r] => runtime[r] = "set"
          /\ grace[r] > 0 \/ idle_kill[r] > 0 => runtime[r] = "set"
    /\ \A c \in Clients :
          pc[c] \in {"call", "insert", "write", "wait", "cancel", "live",
                    "forget", "report"} => runtime[cell[c]] = "set"
    /\ stopper \in {"mark", "kill", "await"} => runtime[stopping] = "set"

\* A reaper waits for a process that is terminated, or that the stopper which
\* started it terminates next; a reaped process has ended.
ReaperOK ==
    \A r \in Cells :
        /\ reaper_started[r] => \/ child[r] \in {"killed", "exited"}
                                \/ stopper = "kill" /\ stopping = r
        /\ child_reaped[r] => reaper_started[r] /\ child[r] = "exited"

Inv ==
    /\ TypeOK
    /\ SessionOK
    /\ CellOK
    /\ SessionsCounted
    /\ UsedRuntimeIsShared
    /\ PendingOK
    /\ ReaderOK
    /\ NoCallLeftBehind
    /\ StartedOK
    /\ ReaperOK
    /\ FailedHasReaper
    /\ ReplyOK
    /\ PendingExact
    /\ NothingLeftInPending

-----------------------------------------------------------------------------
(* Counting sessions                                                       *)

\* The sessions of a runtime are finitely many.
LEMMA SessionsFinite ==
    ASSUME NEW r \in Cells
    PROVE  IsFiniteSet(SessionsOf(r)) /\ IsFiniteSet(SessionsOf(r)')
BY ClientsAssumption, FS_Subset DEF SessionsOf

\* A client that reserves adds one session to its runtime and to no other.
LEMMA SessionBegins ==
    ASSUME TypeOK, SessionsCounted, NEW c \in Clients, ~session[c],
           cell[c] \in Cells,
           session' = [session EXCEPT ![c] = TRUE], cell' = cell,
           active_sessions' = [active_sessions EXCEPT ![cell[c]] = @ + 1]
    PROVE  SessionsCounted'
<1> SUFFICES ASSUME NEW r \in Cells
             PROVE  active_sessions'[r] = Cardinality(SessionsOf(r)')
  BY Zenon DEF SessionsCounted
<1>1. CASE r = cell[c]
  <2>1. SessionsOf(r)' = SessionsOf(r) \cup {c} /\ c \notin SessionsOf(r)
    BY <1>1 DEF SessionsOf, TypeOK
  <2>2. Cardinality(SessionsOf(r) \cup {c}) = Cardinality(SessionsOf(r)) + 1
    BY <2>1, SessionsFinite, FS_AddElement
  <2>3. active_sessions'[r] = active_sessions[r] + 1
    BY <1>1 DEF TypeOK
  <2> QED
    BY <2>1, <2>2, <2>3 DEF SessionsCounted
<1>2. CASE r # cell[c]
  <2>1. SessionsOf(r)' = SessionsOf(r)
    BY <1>2 DEF SessionsOf, TypeOK
  <2>2. active_sessions'[r] = active_sessions[r]
    BY <1>2 DEF TypeOK
  <2> QED
    BY <2>1, <2>2 DEF SessionsCounted
<1> QED
  BY <1>1, <1>2

\* decrement_session_count by a client that holds a session takes away that
\* session: the count was not zero, so it did not saturate.
LEMMA SessionEnds ==
    ASSUME TypeOK, SessionsCounted, NEW c \in Clients, session[c],
           cell[c] \in Cells, EndSession(c), cell' = cell
    PROVE  SessionsCounted'
<1> SUFFICES ASSUME NEW r \in Cells
             PROVE  active_sessions'[r] = Cardinality(SessionsOf(r)')
  BY Zenon DEF SessionsCounted
<1>1. CASE r = cell[c]
  <2>1. SessionsOf(r)' = SessionsOf(r) \ {c} /\ c \in SessionsOf(r)
    BY <1>1 DEF SessionsOf, TypeOK, EndSession
  <2>2. Cardinality(SessionsOf(r) \ {c}) = Cardinality(SessionsOf(r)) - 1
    BY <2>1, SessionsFinite, FS_RemoveElement
  <2>3. Cardinality(SessionsOf(r)) # 0
    BY <2>1, SessionsFinite, FS_EmptySet
  <2>4. active_sessions'[r] = active_sessions[r] - 1
    BY <1>1, <2>3 DEF TypeOK, EndSession, DecrementSessionCount, SessionsCounted
  <2> QED
    BY <2>1, <2>2, <2>4 DEF SessionsCounted
<1>2. CASE r # cell[c]
  <2>1. SessionsOf(r)' = SessionsOf(r)
    BY <1>2 DEF SessionsOf, TypeOK, EndSession
  <2>2. active_sessions'[r] = active_sessions[r]
    BY <1>2 DEF TypeOK, EndSession, DecrementSessionCount
  <2> QED
    BY <2>1, <2>2 DEF SessionsCounted
<1> QED
  BY <1>1, <1>2

\* Nothing else changes the count or the sessions.
LEMMA SessionsKept ==
    ASSUME SessionsCounted, session' = session, active_sessions' = active_sessions,
           \A c \in Clients : session[c] => cell'[c] = cell[c]
    PROVE  SessionsCounted'
<1> SUFFICES ASSUME NEW r \in Cells
             PROVE  active_sessions'[r] = Cardinality(SessionsOf(r)')
  BY Zenon DEF SessionsCounted
<1>1. SessionsOf(r)' = SessionsOf(r)
  BY DEF SessionsOf
<1> QED
  BY <1>1 DEF SessionsCounted

\* decrement_session_count saturates, so the count stays a natural number.
LEMMA DecrementType ==
    ASSUME TypeOK, NEW r \in Cells, DecrementSessionCount(r)
    PROVE  active_sessions' \in [Cells -> Nat] /\ grace' \in [Cells -> Nat]
<1>1. active_sessions' \in [Cells -> Nat]
  BY DEF TypeOK, DecrementSessionCount
<1>2. grace' \in [Cells -> Nat]
  BY DEF TypeOK, DecrementSessionCount
<1> QED
  BY <1>1, <1>2

-----------------------------------------------------------------------------
(* Preservation of the invariant                                           *)

\* Reserve moves one client: to its open call, or back to the beginning.
LEMMA ReserveFacts ==
    ASSUME TypeOK, NEW c \in Clients, Reserve(c)
    PROVE  /\ pc[c] = "cell" /\ cell[c] \in Cells /\ runtime[cell[c]] = "set"
           /\ \A d \in Clients \ {c} : /\ pc'[d] = pc[d] /\ cell'[d] = cell[d]
                                        /\ session'[d] = session[d]
           /\ \/ pc'[c] = "call" /\ cell'[c] = cell[c]
              \/ pc'[c] = "idle" /\ cell'[c] = Null /\ session'[c] = session[c]
           /\ UNCHANGED <<runtime, child, reader, failed, reaper_started, grace,
                          idle_kill, stopper, stopping, reply, pending>>
<1>1. pc[c] = "cell" /\ cell[c] \in Cells /\ runtime[cell[c]] = "set"
  BY DEF Reserve, TypeOK
<1>2. \/ /\ pc' = [pc EXCEPT ![c] = "call"] /\ cell' = cell
         /\ session' = [session EXCEPT ![c] = TRUE]
      \/ /\ pc' = [pc EXCEPT ![c] = "idle"] /\ cell' = [cell EXCEPT ![c] = Null]
         /\ session' = session
  BY DEF Reserve, Goto
<1>3. UNCHANGED <<runtime, child, reader, failed, reaper_started, grace,
                  idle_kill, stopper, stopping, reply, pending>>
  BY DEF Reserve, mapVars, procVars, timerVars, restVars
<1>4. /\ \A d \in Clients \ {c} : /\ pc'[d] = pc[d] /\ cell'[d] = cell[d]
                                  /\ session'[d] = session[d]
      /\ \/ pc'[c] = "call" /\ cell'[c] = cell[c]
         \/ pc'[c] = "idle" /\ cell'[c] = Null /\ session'[c] = session[c]
  BY <1>2 DEF TypeOK
<1> QED
  BY <1>1, <1>3, <1>4

\* The initial state satisfies the invariant.
LEMMA InitInv == Init => Inv
<1> SUFFICES ASSUME Init PROVE Inv
  OBVIOUS
<1>1. TypeOK
  BY MaxFaultsAssumption, MaxAbandonedAssumption DEF Init, TypeOK, ClientStates
<1>2. SessionsCounted
  <2> SUFFICES ASSUME NEW r \in Cells
               PROVE  active_sessions[r] = Cardinality(SessionsOf(r))
    BY Zenon DEF SessionsCounted
  <2>1. SessionsOf(r) = {}
    BY DEF Init, SessionsOf
  <2> QED
    BY <2>1, FS_EmptySet DEF Init
<1>3. SessionOK /\ CellOK /\ UsedRuntimeIsShared
  BY DEF Init, SessionOK, CellOK, UsedRuntimeIsShared
<1>4. PendingOK /\ ReaderOK /\ NoCallLeftBehind
  BY DEF Init, PendingOK, ReaderOK, NoCallLeftBehind
<1>5. StartedOK /\ ReaperOK /\ FailedHasReaper
  BY DEF Init, StartedOK, ReaperOK, FailedHasReaper
<1>6. ReplyOK /\ PendingExact /\ NothingLeftInPending
  BY DEF Init, ReplyOK, PendingExact, NothingLeftInPending
<1> QED
  BY <1>1, <1>2, <1>3, <1>4, <1>5, <1>6 DEF Inv

\* Every step keeps the types.
LEMMA TypePreserved ==
    ASSUME TypeOK,
           [Next]_vars
    PROVE  TypeOK'
<1> USE MaxFaultsAssumption, MaxAbandonedAssumption
<1>1. ASSUME NEW c \in Clients, GetCell(c) PROVE TypeOK'
  BY <1>1 DEF GetCell, CellIsUsable, Goto, restVars, procVars, timerVars,
      mapVars, TypeOK, ClientStates
<1>2. ASSUME NEW c \in Clients, StartRuntime(c) PROVE TypeOK'
  BY <1>2 DEF StartRuntime, Goto, procVars, timerVars, restVars, TypeOK,
      ClientStates
<1>3. ASSUME NEW c \in Clients, RuntimeStarts(c) PROVE TypeOK'
  BY <1>3 DEF RuntimeStarts, Goto, timerVars, restVars, TypeOK, ClientStates
<1>4. ASSUME NEW c \in Clients, RuntimeDoesNotStart(c) PROVE TypeOK'
  BY <1>4 DEF RuntimeDoesNotStart, Goto, procVars, timerVars, restVars,
      TypeOK, ClientStates
<1>5. ASSUME NEW c \in Clients, Reserve(c) PROVE TypeOK'
  <2>1. /\ connection_runtimes' \in Cells \cup {Null}
        /\ runtime' \in [Cells -> {"unused", "empty", "starting", "set"}]
        /\ child' \in [Cells -> {"none", "running", "killed", "exited"}]
        /\ reader' \in [Cells -> {"none", "reading", "failed", "drained", "done"}]
    BY <1>5 DEF Reserve, CanReserve, Goto, mapVars, procVars, timerVars,
        restVars, TypeOK
  <2>2. /\ failed' \in [Cells -> BOOLEAN]
        /\ noise' \in [Cells -> BOOLEAN]
        /\ reaper_started' \in [Cells -> BOOLEAN]
        /\ child_reaped' \in [Cells -> BOOLEAN]
    BY <1>5 DEF Reserve, CanReserve, Goto, mapVars, procVars, timerVars,
        restVars, TypeOK
  <2>3. /\ \A d \in Clients : pc'[d] \notin {"idle", "done"} => cell'[d] \in Cells
        /\ stopper' \in {"mark", "kill", "await"} => stopping' \in Cells
    BY <1>5 DEF Reserve, CanReserve, Goto, mapVars, procVars, timerVars,
        restVars, TypeOK
  <2>4. /\ pending' \in [Cells -> SUBSET Clients]
        /\ abandoned' \in [Cells -> 0..MaxAbandoned]
    BY <1>5 DEF Reserve, CanReserve, Goto, mapVars, procVars, timerVars,
        restVars, TypeOK
  <2>5. active_sessions' \in [Cells -> Nat]
    BY <1>5 DEF Reserve, CanReserve, Goto, mapVars, procVars, timerVars,
        restVars, TypeOK
  <2>6. grace' \in [Cells -> Nat] /\ idle_kill' \in [Cells -> Nat]
    BY <1>5 DEF Reserve, CanReserve, Goto, mapVars, procVars, timerVars,
        restVars, TypeOK
  <2>7. pc' \in [Clients -> ClientStates]
    BY <1>5 DEF Reserve, CanReserve, Goto, mapVars, procVars, timerVars,
        restVars, TypeOK, ClientStates
  <2>8. /\ cell' \in [Clients -> Cells \cup {Null}]
        /\ method' \in [Clients -> {"none", "open", "query", "close"}]
        /\ reply' \in [Clients -> {"none", "ok", "error"}]
    BY <1>5 DEF Reserve, TypeOK
  <2>9. session' \in [Clients -> BOOLEAN]
    BY <1>5 DEF Reserve, TypeOK
  <2>10. /\ stopper' \in {"idle", "mark", "kill", "await", "done"}
        /\ stopping' \in Cells \cup {Null}
        /\ faults' \in 0..MaxFaults
    BY <1>5 DEF Reserve, CanReserve, Goto, mapVars, procVars, timerVars,
        restVars, TypeOK
  <2> QED
    BY <2>1, <2>2, <2>3, <2>4, <2>5, <2>6, <2>7, <2>8, <2>9, <2>10, Zenon DEF
        TypeOK
<1>6. ASSUME NEW c \in Clients, Forget(c) PROVE TypeOK'
  BY <1>6 DEF Forget, CanForget, Goto, procVars, timerVars, restVars, TypeOK,
      ClientStates
<1>7. ASSUME NEW c \in Clients, ReturnOpenError(c) PROVE TypeOK'
  BY <1>7 DEF ReturnOpenError, Goto, mapVars, procVars, timerVars, restVars,
      TypeOK, ClientStates
<1>8. ASSUME NEW c \in Clients, ReplaceAfterOpenError(c) PROVE TypeOK'
  BY <1>8 DEF ReplaceAfterOpenError, Fault, Kill, TerminateChild, FailPending,
      Goto, mapVars, timerVars, TypeOK, ClientStates
<1>9. ASSUME NEW c \in Clients, CallChecks(c) PROVE TypeOK'
  <2>1. /\ connection_runtimes' \in Cells \cup {Null}
        /\ runtime' \in [Cells -> {"unused", "empty", "starting", "set"}]
        /\ child' \in [Cells -> {"none", "running", "killed", "exited"}]
        /\ reader' \in [Cells -> {"none", "reading", "failed", "drained", "done"}]
    BY <1>9 DEF CallChecks, Return, EndSession, DecrementSessionCount, Goto,
        mapVars, procVars, restVars, TypeOK
  <2>2. /\ failed' \in [Cells -> BOOLEAN]
        /\ noise' \in [Cells -> BOOLEAN]
        /\ reaper_started' \in [Cells -> BOOLEAN]
        /\ child_reaped' \in [Cells -> BOOLEAN]
    BY <1>9 DEF CallChecks, Return, EndSession, DecrementSessionCount, Goto,
        mapVars, procVars, restVars, TypeOK
  <2>3. /\ \A d \in Clients : pc'[d] \notin {"idle", "done"} => cell'[d] \in Cells
        /\ stopper' \in {"mark", "kill", "await"} => stopping' \in Cells
    BY <1>9 DEF CallChecks, Return, EndSession, DecrementSessionCount, Goto,
        mapVars, procVars, restVars, TypeOK
  <2>4. /\ pending' \in [Cells -> SUBSET Clients]
        /\ abandoned' \in [Cells -> 0..MaxAbandoned]
    BY <1>9 DEF CallChecks, Return, EndSession, DecrementSessionCount, Goto,
        mapVars, procVars, restVars, TypeOK
  <2>5. cell[c] \in Cells
    BY <1>9 DEF CallChecks, TypeOK
  <2>6. DecrementSessionCount(cell[c]) \/ UNCHANGED <<active_sessions, grace>>
    BY <1>9 DEF CallChecks, Return, EndSession
  <2>7. pc' \in [Clients -> ClientStates]
    BY <1>9 DEF CallChecks, Return, EndSession, DecrementSessionCount, Goto,
        mapVars, procVars, restVars, TypeOK, ClientStates
  <2>8. /\ cell' \in [Clients -> Cells \cup {Null}]
        /\ method' \in [Clients -> {"none", "open", "query", "close"}]
        /\ reply' \in [Clients -> {"none", "ok", "error"}]
    BY <1>9 DEF CallChecks, Return, EndSession, DecrementSessionCount, Goto,
        mapVars, procVars, restVars, TypeOK
  <2>9. session' \in [Clients -> BOOLEAN]
    BY <1>9 DEF CallChecks, Return, EndSession, TypeOK
  <2>10. /\ stopper' \in {"idle", "mark", "kill", "await", "done"}
        /\ stopping' \in Cells \cup {Null}
        /\ faults' \in 0..MaxFaults
    BY <1>9 DEF CallChecks, Return, EndSession, DecrementSessionCount, Goto,
        mapVars, procVars, restVars, TypeOK
  <2>11. /\ active_sessions' \in [Cells -> Nat]
        /\ grace' \in [Cells -> Nat] /\ idle_kill' \in [Cells -> Nat]
    BY <1>9, <2>5, <2>6, DecrementType DEF CallChecks, TypeOK
  <2> QED
    BY <2>1, <2>2, <2>3, <2>4, <2>7, <2>8, <2>9, <2>10, <2>11, Zenon DEF TypeOK
<1>10. ASSUME NEW c \in Clients, CallInserts(c) PROVE TypeOK'
  BY <1>10 DEF CallInserts, Goto, mapVars, procVars, timerVars, restVars,
      TypeOK, ClientStates
<1>11. ASSUME NEW c \in Clients, CallWrites(c) PROVE TypeOK'
  <2>1. /\ connection_runtimes' \in Cells \cup {Null}
        /\ runtime' \in [Cells -> {"unused", "empty", "starting", "set"}]
        /\ child' \in [Cells -> {"none", "running", "killed", "exited"}]
        /\ reader' \in [Cells -> {"none", "reading", "failed", "drained", "done"}]
    BY <1>11 DEF CallWrites, Withdraw, Return, EndSession,
        DecrementSessionCount, Goto, mapVars, procVars, restVars, TypeOK
  <2>2. /\ failed' \in [Cells -> BOOLEAN]
        /\ noise' \in [Cells -> BOOLEAN]
        /\ reaper_started' \in [Cells -> BOOLEAN]
        /\ child_reaped' \in [Cells -> BOOLEAN]
    BY <1>11 DEF CallWrites, Withdraw, Return, EndSession,
        DecrementSessionCount, Goto, mapVars, procVars, restVars, TypeOK
  <2>3. /\ \A d \in Clients : pc'[d] \notin {"idle", "done"} => cell'[d] \in Cells
        /\ stopper' \in {"mark", "kill", "await"} => stopping' \in Cells
    BY <1>11 DEF CallWrites, Withdraw, Return, EndSession,
        DecrementSessionCount, Goto, mapVars, procVars, restVars, TypeOK
  <2>4. /\ pending' \in [Cells -> SUBSET Clients]
        /\ abandoned' \in [Cells -> 0..MaxAbandoned]
    BY <1>11 DEF CallWrites, Withdraw, Return, EndSession,
        DecrementSessionCount, Goto, mapVars, procVars, restVars, TypeOK
  <2>5. cell[c] \in Cells
    BY <1>11 DEF CallWrites, TypeOK
  <2>6. DecrementSessionCount(cell[c]) \/ UNCHANGED <<active_sessions, grace>>
    BY <1>11 DEF CallWrites, Return, EndSession
  <2>7. pc' \in [Clients -> ClientStates]
    BY <1>11 DEF CallWrites, Withdraw, Return, EndSession,
        DecrementSessionCount, Goto, mapVars, procVars, restVars, TypeOK,
        ClientStates
  <2>8. /\ cell' \in [Clients -> Cells \cup {Null}]
        /\ method' \in [Clients -> {"none", "open", "query", "close"}]
        /\ reply' \in [Clients -> {"none", "ok", "error"}]
    BY <1>11 DEF CallWrites, Withdraw, Return, EndSession,
        DecrementSessionCount, Goto, mapVars, procVars, restVars, TypeOK
  <2>9. session' \in [Clients -> BOOLEAN]
    BY <1>11 DEF CallWrites, Return, EndSession, TypeOK
  <2>10. /\ stopper' \in {"idle", "mark", "kill", "await", "done"}
        /\ stopping' \in Cells \cup {Null}
        /\ faults' \in 0..MaxFaults
    BY <1>11 DEF CallWrites, Withdraw, Return, EndSession,
        DecrementSessionCount, Goto, mapVars, procVars, restVars, TypeOK
  <2>11. /\ active_sessions' \in [Cells -> Nat]
        /\ grace' \in [Cells -> Nat] /\ idle_kill' \in [Cells -> Nat]
    BY <1>11, <2>5, <2>6, DecrementType DEF CallWrites, TypeOK
  <2> QED
    BY <2>1, <2>2, <2>3, <2>4, <2>7, <2>8, <2>9, <2>10, <2>11, Zenon DEF TypeOK
<1>12. ASSUME NEW c \in Clients, CallReceives(c) PROVE TypeOK'
  <2>1. /\ connection_runtimes' \in Cells \cup {Null}
        /\ runtime' \in [Cells -> {"unused", "empty", "starting", "set"}]
        /\ child' \in [Cells -> {"none", "running", "killed", "exited"}]
        /\ reader' \in [Cells -> {"none", "reading", "failed", "drained", "done"}]
    BY <1>12 DEF CallReceives, Return, EndSession, DecrementSessionCount,
        Goto, mapVars, procVars, restVars, TypeOK
  <2>2. /\ failed' \in [Cells -> BOOLEAN]
        /\ noise' \in [Cells -> BOOLEAN]
        /\ reaper_started' \in [Cells -> BOOLEAN]
        /\ child_reaped' \in [Cells -> BOOLEAN]
    BY <1>12 DEF CallReceives, Return, EndSession, DecrementSessionCount,
        Goto, mapVars, procVars, restVars, TypeOK
  <2>3. /\ \A d \in Clients : pc'[d] \notin {"idle", "done"} => cell'[d] \in Cells
        /\ stopper' \in {"mark", "kill", "await"} => stopping' \in Cells
    BY <1>12 DEF CallReceives, Return, EndSession, DecrementSessionCount,
        Goto, mapVars, procVars, restVars, TypeOK
  <2>4. /\ pending' \in [Cells -> SUBSET Clients]
        /\ abandoned' \in [Cells -> 0..MaxAbandoned]
    BY <1>12 DEF CallReceives, Return, EndSession, DecrementSessionCount,
        Goto, mapVars, procVars, restVars, TypeOK
  <2>5. cell[c] \in Cells
    BY <1>12 DEF CallReceives, TypeOK
  <2>6. DecrementSessionCount(cell[c]) \/ UNCHANGED <<active_sessions, grace>>
    BY <1>12 DEF CallReceives, Return, EndSession
  <2>7. pc' \in [Clients -> ClientStates]
    BY <1>12 DEF CallReceives, Return, EndSession, DecrementSessionCount,
        Goto, mapVars, procVars, restVars, TypeOK, ClientStates
  <2>8. /\ cell' \in [Clients -> Cells \cup {Null}]
        /\ method' \in [Clients -> {"none", "open", "query", "close"}]
        /\ reply' \in [Clients -> {"none", "ok", "error"}]
    BY <1>12 DEF CallReceives, Return, EndSession, DecrementSessionCount,
        Goto, mapVars, procVars, restVars, TypeOK
  <2>9. session' \in [Clients -> BOOLEAN]
    BY <1>12 DEF CallReceives, Return, EndSession, TypeOK
  <2>10. /\ stopper' \in {"idle", "mark", "kill", "await", "done"}
        /\ stopping' \in Cells \cup {Null}
        /\ faults' \in 0..MaxFaults
    BY <1>12 DEF CallReceives, Return, EndSession, DecrementSessionCount,
        Goto, mapVars, procVars, restVars, TypeOK
  <2>11. /\ active_sessions' \in [Cells -> Nat]
        /\ grace' \in [Cells -> Nat] /\ idle_kill' \in [Cells -> Nat]
    BY <1>12, <2>5, <2>6, DecrementType DEF CallReceives, TypeOK
  <2> QED
    BY <2>1, <2>2, <2>3, <2>4, <2>7, <2>8, <2>9, <2>10, <2>11, Zenon DEF TypeOK
<1>13. ASSUME NEW c \in Clients, CallCancelled(c) PROVE TypeOK'
  <2>1. /\ connection_runtimes' \in Cells \cup {Null}
        /\ runtime' \in [Cells -> {"unused", "empty", "starting", "set"}]
        /\ child' \in [Cells -> {"none", "running", "killed", "exited"}]
        /\ reader' \in [Cells -> {"none", "reading", "failed", "drained", "done"}]
    BY <1>13 DEF CallCancelled, Withdraw, Return, EndSession,
        DecrementSessionCount, Goto, mapVars, procVars, restVars, TypeOK
  <2>2. /\ failed' \in [Cells -> BOOLEAN]
        /\ noise' \in [Cells -> BOOLEAN]
        /\ reaper_started' \in [Cells -> BOOLEAN]
        /\ child_reaped' \in [Cells -> BOOLEAN]
    BY <1>13 DEF CallCancelled, Withdraw, Return, EndSession,
        DecrementSessionCount, Goto, mapVars, procVars, restVars, TypeOK
  <2>3. /\ \A d \in Clients : pc'[d] \notin {"idle", "done"} => cell'[d] \in Cells
        /\ stopper' \in {"mark", "kill", "await"} => stopping' \in Cells
    BY <1>13 DEF CallCancelled, Withdraw, Return, EndSession,
        DecrementSessionCount, Goto, mapVars, procVars, restVars, TypeOK
  <2>4. /\ pending' \in [Cells -> SUBSET Clients]
        /\ abandoned' \in [Cells -> 0..MaxAbandoned]
    BY <1>13 DEF CallCancelled, Withdraw, Return, EndSession,
        DecrementSessionCount, Goto, mapVars, procVars, restVars, TypeOK
  <2>5. cell[c] \in Cells
    BY <1>13 DEF CallCancelled, TypeOK
  <2>6. DecrementSessionCount(cell[c]) \/ UNCHANGED <<active_sessions, grace>>
    BY <1>13 DEF CallCancelled, Return, EndSession
  <2>7. pc' \in [Clients -> ClientStates]
    BY <1>13 DEF CallCancelled, Withdraw, Return, EndSession,
        DecrementSessionCount, Goto, mapVars, procVars, restVars, TypeOK,
        ClientStates
  <2>8. /\ cell' \in [Clients -> Cells \cup {Null}]
        /\ method' \in [Clients -> {"none", "open", "query", "close"}]
        /\ reply' \in [Clients -> {"none", "ok", "error"}]
    BY <1>13 DEF CallCancelled, Withdraw, Return, EndSession,
        DecrementSessionCount, Goto, mapVars, procVars, restVars, TypeOK
  <2>9. session' \in [Clients -> BOOLEAN]
    BY <1>13 DEF CallCancelled, Return, EndSession, TypeOK
  <2>10. /\ stopper' \in {"idle", "mark", "kill", "await", "done"}
        /\ stopping' \in Cells \cup {Null}
        /\ faults' \in 0..MaxFaults
    BY <1>13 DEF CallCancelled, Withdraw, Return, EndSession,
        DecrementSessionCount, Goto, mapVars, procVars, restVars, TypeOK
  <2>11. /\ active_sessions' \in [Cells -> Nat]
        /\ grace' \in [Cells -> Nat] /\ idle_kill' \in [Cells -> Nat]
    BY <1>13, <2>5, <2>6, DecrementType DEF CallCancelled, TypeOK
  <2> QED
    BY <2>1, <2>2, <2>3, <2>4, <2>7, <2>8, <2>9, <2>10, <2>11, Zenon DEF TypeOK
<1>14. ASSUME NEW c \in Clients, NEW m \in {"query", "close"}, Call(c, m)
    PROVE TypeOK'
  BY <1>14 DEF Call, Goto, mapVars, procVars, timerVars, restVars, TypeOK,
      ClientStates
<1>15. ASSUME NEW c \in Clients, CallGivesUp(c) PROVE TypeOK'
  BY <1>15 DEF CallGivesUp, Goto, mapVars, procVars, timerVars, restVars,
      TypeOK, ClientStates
<1>16. ASSUME NEW c \in Clients, DropClient(c) PROVE TypeOK'
  <2>1. /\ connection_runtimes' \in Cells \cup {Null}
        /\ runtime' \in [Cells -> {"unused", "empty", "starting", "set"}]
        /\ child' \in [Cells -> {"none", "running", "killed", "exited"}]
        /\ reader' \in [Cells -> {"none", "reading", "failed", "drained", "done"}]
    BY <1>16 DEF DropClient, EndSession, DecrementSessionCount, Goto,
        mapVars, procVars, restVars, TypeOK
  <2>2. /\ failed' \in [Cells -> BOOLEAN]
        /\ noise' \in [Cells -> BOOLEAN]
        /\ reaper_started' \in [Cells -> BOOLEAN]
        /\ child_reaped' \in [Cells -> BOOLEAN]
    BY <1>16 DEF DropClient, EndSession, DecrementSessionCount, Goto,
        mapVars, procVars, restVars, TypeOK
  <2>3. /\ \A d \in Clients : pc'[d] \notin {"idle", "done"} => cell'[d] \in Cells
        /\ stopper' \in {"mark", "kill", "await"} => stopping' \in Cells
    BY <1>16 DEF DropClient, EndSession, DecrementSessionCount, Goto,
        mapVars, procVars, restVars, TypeOK
  <2>4. /\ pending' \in [Cells -> SUBSET Clients]
        /\ abandoned' \in [Cells -> 0..MaxAbandoned]
    BY <1>16 DEF DropClient, EndSession, DecrementSessionCount, Goto,
        mapVars, procVars, restVars, TypeOK
  <2>5. cell[c] \in Cells
    BY <1>16 DEF DropClient, TypeOK
  <2>6. DecrementSessionCount(cell[c]) \/ UNCHANGED <<active_sessions, grace>>
    BY <1>16 DEF DropClient, EndSession
  <2>7. pc' \in [Clients -> ClientStates]
    BY <1>16 DEF DropClient, EndSession, DecrementSessionCount, Goto,
        mapVars, procVars, restVars, TypeOK, ClientStates
  <2>8. /\ cell' \in [Clients -> Cells \cup {Null}]
        /\ method' \in [Clients -> {"none", "open", "query", "close"}]
        /\ reply' \in [Clients -> {"none", "ok", "error"}]
    BY <1>16 DEF DropClient, EndSession, DecrementSessionCount, Goto,
        mapVars, procVars, restVars, TypeOK
  <2>9. session' \in [Clients -> BOOLEAN]
    BY <1>16 DEF DropClient, EndSession, TypeOK
  <2>10. /\ stopper' \in {"idle", "mark", "kill", "await", "done"}
        /\ stopping' \in Cells \cup {Null}
        /\ faults' \in 0..MaxFaults
    BY <1>16 DEF DropClient, EndSession, DecrementSessionCount, Goto,
        mapVars, procVars, restVars, TypeOK
  <2>11. /\ active_sessions' \in [Cells -> Nat]
        /\ grace' \in [Cells -> Nat] /\ idle_kill' \in [Cells -> Nat]
    BY <1>16, <2>5, <2>6, DecrementType DEF DropClient, TypeOK
  <2> QED
    BY <2>1, <2>2, <2>3, <2>4, <2>7, <2>8, <2>9, <2>10, <2>11, Zenon DEF TypeOK
<1>17. ASSUME NEW c \in Clients, FailStop(c) PROVE TypeOK'
  <2>1. /\ connection_runtimes' \in Cells \cup {Null}
        /\ runtime' \in [Cells -> {"unused", "empty", "starting", "set"}]
        /\ child' \in [Cells -> {"none", "running", "killed", "exited"}]
        /\ reader' \in [Cells -> {"none", "reading", "failed", "drained", "done"}]
    BY <1>17 DEF FailStop, Fault, Kill, TerminateChild, FailPending, mapVars,
        timerVars, TypeOK
  <2>2. /\ failed' \in [Cells -> BOOLEAN]
        /\ noise' \in [Cells -> BOOLEAN]
        /\ reaper_started' \in [Cells -> BOOLEAN]
        /\ child_reaped' \in [Cells -> BOOLEAN]
    BY <1>17 DEF FailStop, Fault, Kill, TerminateChild, FailPending, mapVars,
        timerVars, TypeOK
  <2>3. /\ \A d \in Clients : pc'[d] \notin {"idle", "done"} => cell'[d] \in Cells
        /\ stopper' \in {"mark", "kill", "await"} => stopping' \in Cells
    BY <1>17 DEF FailStop, Fault, Kill, TerminateChild, FailPending, mapVars,
        timerVars, TypeOK
  <2>4. pending' \in [Cells -> SUBSET Clients]
    BY <1>17 DEF FailStop, Fault, Kill, TerminateChild, FailPending, mapVars,
        timerVars, TypeOK
  <2>11. abandoned' \in [Cells -> 0..MaxAbandoned]
    <3>1. 0 \in 0..MaxAbandoned
      OBVIOUS
    <3>2. abandoned' = [abandoned EXCEPT ![cell[c]] = 0]
      BY <1>17 DEF FailStop, Kill, FailPending
    <3> QED
      BY <3>1, <3>2 DEF TypeOK
  <2>5. active_sessions' \in [Cells -> Nat]
    BY <1>17 DEF FailStop, Fault, Kill, TerminateChild, FailPending, mapVars,
        timerVars, TypeOK
  <2>6. grace' \in [Cells -> Nat] /\ idle_kill' \in [Cells -> Nat]
    BY <1>17 DEF FailStop, Fault, Kill, TerminateChild, FailPending, mapVars,
        timerVars, TypeOK
  <2>7. pc' \in [Clients -> ClientStates]
    BY <1>17 DEF FailStop, Fault, Kill, TerminateChild, FailPending, mapVars,
        timerVars, TypeOK, ClientStates
  <2>8. /\ cell' \in [Clients -> Cells \cup {Null}]
        /\ method' \in [Clients -> {"none", "open", "query", "close"}]
        /\ reply' \in [Clients -> {"none", "ok", "error"}]
    BY <1>17 DEF FailStop, Fault, Kill, TerminateChild, FailPending, mapVars,
        timerVars, TypeOK
  <2>9. session' \in [Clients -> BOOLEAN]
    BY <1>17 DEF FailStop, Fault, Kill, TerminateChild, FailPending, mapVars,
        timerVars, TypeOK
  <2>10. /\ stopper' \in {"idle", "mark", "kill", "await", "done"}
        /\ stopping' \in Cells \cup {Null}
        /\ faults' \in 0..MaxFaults
    BY <1>17 DEF FailStop, Fault, Kill, TerminateChild, FailPending, mapVars,
        timerVars, TypeOK
  <2> QED
    BY <2>1, <2>2, <2>3, <2>4, <2>5, <2>6, <2>7, <2>8, <2>9, <2>10, <2>11, Zenon
        DEF TypeOK
<1>18. ASSUME NEW r \in Cells, ReaderDrains(r) PROVE TypeOK'
  BY <1>18 DEF ReaderDrains, FailPending, mapVars, timerVars, restVars,
      TypeOK, ClientStates
<1>19. ASSUME NEW r \in Cells, ReaderTerminates(r) PROVE TypeOK'
  BY <1>19 DEF ReaderTerminates, TerminateChild, mapVars, timerVars,
      clientVars, restVars, TypeOK, ClientStates
<1>20. ASSUME NEW r \in Cells, Reap(r) PROVE TypeOK'
  BY <1>20 DEF Reap, mapVars, timerVars, clientVars, restVars, TypeOK,
      ClientStates
<1>21. ASSUME NEW r \in Cells, ReaderFails(r) PROVE TypeOK'
  <2>1. /\ connection_runtimes' \in Cells \cup {Null}
        /\ runtime' \in [Cells -> {"unused", "empty", "starting", "set"}]
        /\ child' \in [Cells -> {"none", "running", "killed", "exited"}]
        /\ reader' \in [Cells -> {"none", "reading", "failed", "drained", "done"}]
    BY <1>21 DEF ReaderFails, Fault, mapVars, timerVars, clientVars, TypeOK
  <2>2. /\ failed' \in [Cells -> BOOLEAN]
        /\ noise' \in [Cells -> BOOLEAN]
        /\ reaper_started' \in [Cells -> BOOLEAN]
        /\ child_reaped' \in [Cells -> BOOLEAN]
    BY <1>21 DEF ReaderFails, Fault, mapVars, timerVars, clientVars, TypeOK
  <2>3. /\ \A d \in Clients : pc'[d] \notin {"idle", "done"} => cell'[d] \in Cells
        /\ stopper' \in {"mark", "kill", "await"} => stopping' \in Cells
    BY <1>21 DEF ReaderFails, Fault, mapVars, timerVars, clientVars, TypeOK
  <2>4. /\ pending' \in [Cells -> SUBSET Clients]
        /\ abandoned' \in [Cells -> 0..MaxAbandoned]
    BY <1>21 DEF ReaderFails, Fault, mapVars, timerVars, clientVars, TypeOK
  <2>5. active_sessions' \in [Cells -> Nat]
    BY <1>21 DEF ReaderFails, Fault, mapVars, timerVars, clientVars, TypeOK
  <2>6. grace' \in [Cells -> Nat] /\ idle_kill' \in [Cells -> Nat]
    BY <1>21 DEF ReaderFails, Fault, mapVars, timerVars, clientVars, TypeOK
  <2>7. pc' \in [Clients -> ClientStates]
    BY <1>21 DEF ReaderFails, Fault, mapVars, timerVars, clientVars, TypeOK,
        ClientStates
  <2>8. /\ cell' \in [Clients -> Cells \cup {Null}]
        /\ method' \in [Clients -> {"none", "open", "query", "close"}]
        /\ reply' \in [Clients -> {"none", "ok", "error"}]
    BY <1>21 DEF ReaderFails, Fault, mapVars, timerVars, clientVars, TypeOK
  <2>9. session' \in [Clients -> BOOLEAN]
    BY <1>21 DEF ReaderFails, Fault, mapVars, timerVars, clientVars, TypeOK
  <2>10. /\ stopper' \in {"idle", "mark", "kill", "await", "done"}
        /\ stopping' \in Cells \cup {Null}
        /\ faults' \in 0..MaxFaults
    BY <1>21 DEF ReaderFails, Fault, mapVars, timerVars, clientVars, TypeOK
  <2> QED
    BY <2>1, <2>2, <2>3, <2>4, <2>5, <2>6, <2>7, <2>8, <2>9, <2>10, Zenon DEF
        TypeOK
<1>22. ASSUME NEW r \in Cells, ChildExits(r) PROVE TypeOK'
  BY <1>22 DEF ChildExits, Fault, mapVars, timerVars, clientVars, TypeOK,
      ClientStates
<1>23. ASSUME NEW r \in Cells, GraceChecks(r) PROVE TypeOK'
  BY <1>23 DEF GraceChecks, Fault, mapVars, procVars, clientVars, TypeOK,
      ClientStates
<1>24. ASSUME NEW r \in Cells, GraceKills(r) PROVE TypeOK'
  BY <1>24 DEF GraceKills, Kill, TerminateChild, FailPending, mapVars,
      restVars, TypeOK, ClientStates
<1>25. ASSUME NEW r \in Cells, NEW c \in Clients, Respond(r, c) PROVE TypeOK'
  BY <1>25 DEF Respond, mapVars, procVars, timerVars, restVars, TypeOK,
      ClientStates
<1>26. CASE StopTakes
  BY <1>26 DEF StopTakes, procVars, timerVars, clientVars, TypeOK,
      ClientStates
<1>27. CASE StopMarks
  BY <1>27 DEF StopMarks, FailPending, mapVars, timerVars, TypeOK,
      ClientStates
<1>28. CASE StopKills
  BY <1>28 DEF StopKills, TerminateChild, mapVars, timerVars, clientVars,
      TypeOK, ClientStates
<1>29. CASE StopReturns
  BY <1>29 DEF StopReturns, mapVars, procVars, timerVars, clientVars, TypeOK,
      ClientStates
<1>30. ASSUME NEW c \in Clients, CallDropped(c) PROVE TypeOK'
  BY <1>30 DEF CallDropped, Withdraw, Goto, mapVars, procVars, timerVars,
      restVars, TypeOK, ClientStates
<1>31. ASSUME NEW r \in Cells, RespondToNobody(r) PROVE TypeOK'
  BY <1>31 DEF RespondToNobody, mapVars, procVars, timerVars, clientVars,
      restVars, TypeOK, ClientStates
<1>32. CASE UNCHANGED vars
  BY <1>32 DEF vars, TypeOK, ClientStates
<1>33. QED
  BY <1>1, <1>2, <1>3, <1>4, <1>5, <1>6, <1>7, <1>8, <1>9, <1>10, <1>11,
      <1>12, <1>13, <1>14, <1>15, <1>16, <1>17, <1>18, <1>19, <1>20, <1>21,
      <1>22, <1>23, <1>24, <1>25, <1>26, <1>27, <1>28, <1>29, <1>30, <1>31,
      <1>32 DEF Next, OpenSteps, CallSteps, UserSteps, RuntimeSteps, StopSteps

\* Every step keeps sessions and client positions in agreement.
LEMMA SessionPreserved ==
    ASSUME TypeOK, SessionOK,
           [Next]_vars
    PROVE  SessionOK'
<1>1. ASSUME NEW c \in Clients, GetCell(c) PROVE SessionOK'
  BY <1>1 DEF GetCell, CellIsUsable, Goto, restVars, procVars, timerVars,
      mapVars, TypeOK, ClientStates, SessionOK
<1>2. ASSUME NEW c \in Clients, StartRuntime(c) PROVE SessionOK'
  BY <1>2 DEF StartRuntime, Goto, procVars, timerVars, restVars, TypeOK,
      ClientStates, SessionOK
<1>3. ASSUME NEW c \in Clients, RuntimeStarts(c) PROVE SessionOK'
  BY <1>3 DEF RuntimeStarts, Goto, timerVars, restVars, TypeOK, ClientStates,
      SessionOK
<1>4. ASSUME NEW c \in Clients, RuntimeDoesNotStart(c) PROVE SessionOK'
  BY <1>4 DEF RuntimeDoesNotStart, Goto, procVars, timerVars, restVars,
      TypeOK, ClientStates, SessionOK
<1>5. ASSUME NEW c \in Clients, Reserve(c) PROVE SessionOK'
  BY <1>5 DEF Reserve, CanReserve, Goto, mapVars, procVars, timerVars,
      restVars, TypeOK, ClientStates, SessionOK
<1>6. ASSUME NEW c \in Clients, Forget(c) PROVE SessionOK'
  BY <1>6 DEF Forget, CanForget, Goto, procVars, timerVars, restVars, TypeOK,
      ClientStates, SessionOK
<1>7. ASSUME NEW c \in Clients, ReturnOpenError(c) PROVE SessionOK'
  BY <1>7 DEF ReturnOpenError, Goto, mapVars, procVars, timerVars, restVars,
      TypeOK, ClientStates, SessionOK
<1>8. ASSUME NEW c \in Clients, ReplaceAfterOpenError(c) PROVE SessionOK'
  BY <1>8 DEF ReplaceAfterOpenError, Fault, Kill, TerminateChild, FailPending,
      Goto, mapVars, timerVars, TypeOK, ClientStates, SessionOK
<1>9. ASSUME NEW c \in Clients, CallChecks(c) PROVE SessionOK'
  BY <1>9 DEF CallChecks, Return, EndSession, DecrementSessionCount, Goto,
      mapVars, procVars, restVars, TypeOK, ClientStates, SessionOK
<1>10. ASSUME NEW c \in Clients, CallInserts(c) PROVE SessionOK'
  BY <1>10 DEF CallInserts, Goto, mapVars, procVars, timerVars, restVars,
      TypeOK, ClientStates, SessionOK
<1>11. ASSUME NEW c \in Clients, CallWrites(c) PROVE SessionOK'
  BY <1>11 DEF CallWrites, Return, EndSession, Goto, TypeOK, SessionOK
<1>12. ASSUME NEW c \in Clients, CallReceives(c) PROVE SessionOK'
  BY <1>12 DEF CallReceives, Return, EndSession, DecrementSessionCount, Goto,
      mapVars, procVars, restVars, TypeOK, ClientStates, SessionOK
<1>13. ASSUME NEW c \in Clients, CallCancelled(c) PROVE SessionOK'
  BY <1>13 DEF CallCancelled, Withdraw, Return, EndSession,
      DecrementSessionCount, Goto, mapVars, procVars, restVars, TypeOK,
      ClientStates, SessionOK
<1>14. ASSUME NEW c \in Clients, NEW m \in {"query", "close"}, Call(c, m)
    PROVE SessionOK'
  BY <1>14 DEF Call, Goto, mapVars, procVars, timerVars, restVars, TypeOK,
      ClientStates, SessionOK
<1>15. ASSUME NEW c \in Clients, CallGivesUp(c) PROVE SessionOK'
  BY <1>15 DEF CallGivesUp, Goto, mapVars, procVars, timerVars, restVars,
      TypeOK, ClientStates, SessionOK
<1>16. ASSUME NEW c \in Clients, DropClient(c) PROVE SessionOK'
  BY <1>16 DEF DropClient, EndSession, DecrementSessionCount, Goto, mapVars,
      procVars, restVars, TypeOK, ClientStates, SessionOK
<1>17. ASSUME NEW c \in Clients, FailStop(c) PROVE SessionOK'
  BY <1>17 DEF FailStop, Fault, Kill, TerminateChild, FailPending, mapVars,
      timerVars, TypeOK, ClientStates, SessionOK
<1>18. ASSUME NEW r \in Cells, ReaderDrains(r) PROVE SessionOK'
  BY <1>18 DEF ReaderDrains, FailPending, mapVars, timerVars, restVars,
      TypeOK, ClientStates, SessionOK
<1>19. ASSUME NEW r \in Cells, ReaderTerminates(r) PROVE SessionOK'
  BY <1>19 DEF ReaderTerminates, TerminateChild, mapVars, timerVars,
      clientVars, restVars, TypeOK, ClientStates, SessionOK
<1>20. ASSUME NEW r \in Cells, Reap(r) PROVE SessionOK'
  BY <1>20 DEF Reap, mapVars, timerVars, clientVars, restVars, TypeOK,
      ClientStates, SessionOK
<1>21. ASSUME NEW r \in Cells, ReaderFails(r) PROVE SessionOK'
  BY <1>21 DEF ReaderFails, Fault, mapVars, timerVars, clientVars, TypeOK,
      ClientStates, SessionOK
<1>22. ASSUME NEW r \in Cells, ChildExits(r) PROVE SessionOK'
  BY <1>22 DEF ChildExits, Fault, mapVars, timerVars, clientVars, TypeOK,
      ClientStates, SessionOK
<1>23. ASSUME NEW r \in Cells, GraceChecks(r) PROVE SessionOK'
  BY <1>23 DEF GraceChecks, Fault, mapVars, procVars, clientVars, TypeOK,
      ClientStates, SessionOK
<1>24. ASSUME NEW r \in Cells, GraceKills(r) PROVE SessionOK'
  BY <1>24 DEF GraceKills, Kill, TerminateChild, FailPending, mapVars,
      restVars, TypeOK, ClientStates, SessionOK
<1>25. ASSUME NEW r \in Cells, NEW c \in Clients, Respond(r, c) PROVE
    SessionOK'
  BY <1>25 DEF Respond, mapVars, procVars, timerVars, restVars, TypeOK,
      ClientStates, SessionOK
<1>26. CASE StopTakes
  BY <1>26 DEF StopTakes, procVars, timerVars, clientVars, TypeOK,
      ClientStates, SessionOK
<1>27. CASE StopMarks
  BY <1>27 DEF StopMarks, FailPending, mapVars, timerVars, TypeOK,
      ClientStates, SessionOK
<1>28. CASE StopKills
  BY <1>28 DEF StopKills, TerminateChild, mapVars, timerVars, clientVars,
      TypeOK, ClientStates, SessionOK
<1>29. CASE StopReturns
  BY <1>29 DEF StopReturns, mapVars, procVars, timerVars, clientVars, TypeOK,
      ClientStates, SessionOK
<1>30. ASSUME NEW c \in Clients, CallDropped(c) PROVE SessionOK'
  BY <1>30 DEF CallDropped, Withdraw, Goto, mapVars, procVars, timerVars,
      restVars, TypeOK, ClientStates, SessionOK
<1>31. ASSUME NEW r \in Cells, RespondToNobody(r) PROVE SessionOK'
  BY <1>31 DEF RespondToNobody, mapVars, procVars, timerVars, clientVars,
      restVars, TypeOK, ClientStates, SessionOK
<1>32. CASE UNCHANGED vars
  BY <1>32 DEF vars, TypeOK, ClientStates, SessionOK
<1>33. QED
  BY <1>1, <1>2, <1>3, <1>4, <1>5, <1>6, <1>7, <1>8, <1>9, <1>10, <1>11,
      <1>12, <1>13, <1>14, <1>15, <1>16, <1>17, <1>18, <1>19, <1>20, <1>21,
      <1>22, <1>23, <1>24, <1>25, <1>26, <1>27, <1>28, <1>29, <1>30, <1>31,
      <1>32 DEF Next, OpenSteps, CallSteps, UserSteps, RuntimeSteps, StopSteps

\* Every step keeps the cells well formed.
LEMMA CellPreserved ==
    ASSUME TypeOK, SessionOK, CellOK,
           [Next]_vars
    PROVE  CellOK'
<1>1. ASSUME NEW c \in Clients, GetCell(c) PROVE CellOK'
  <2>1. \A d \in Clients : pc'[d] = "starting" => runtime'[cell'[d]] = "starting"
    BY <1>1 DEF GetCell, CellIsUsable, Goto, restVars, procVars, timerVars,
        mapVars, TypeOK, CellOK
  <2>2. \A d \in Clients : session'[d] => runtime'[cell'[d]] = "set"
    BY <1>1 DEF GetCell, CellIsUsable, Goto, restVars, procVars, timerVars,
        mapVars, TypeOK, SessionOK, CellOK
  <2>3. \A d, e \in Clients : pc'[d] = "starting" /\ pc'[e] = "starting"
                              /\ cell'[d] = cell'[e] => d = e
    BY <1>1 DEF GetCell, CellIsUsable, Goto, restVars, procVars, timerVars,
        mapVars, TypeOK, CellOK
  <2>4. \A r \in Cells : runtime'[r] = "set" => reader'[r] # "none"
    BY <1>1 DEF GetCell, CellIsUsable, Goto, restVars, procVars, timerVars,
        mapVars, TypeOK, CellOK
  <2> QED
    BY <2>1, <2>2, <2>3, <2>4, Zenon DEF CellOK
<1>2. ASSUME NEW c \in Clients, StartRuntime(c) PROVE CellOK'
  BY <1>2 DEF StartRuntime, Goto, procVars, timerVars, restVars, TypeOK,
      SessionOK, CellOK
<1>3. ASSUME NEW c \in Clients, RuntimeStarts(c) PROVE CellOK'
  BY <1>3 DEF RuntimeStarts, Goto, timerVars, restVars, TypeOK, SessionOK,
      CellOK
<1>4. ASSUME NEW c \in Clients, RuntimeDoesNotStart(c) PROVE CellOK'
  BY <1>4 DEF RuntimeDoesNotStart, Goto, procVars, timerVars, restVars,
      TypeOK, SessionOK, CellOK
<1>5. ASSUME NEW c \in Clients, Reserve(c) PROVE CellOK'
  <2>1. \A d \in Clients : pc'[d] = "starting" => runtime'[cell'[d]] = "starting"
    BY <1>5, ReserveFacts DEF CellOK
  <2>2. \A d \in Clients : session'[d] => runtime'[cell'[d]] = "set"
    BY <1>5, ReserveFacts DEF SessionOK, CellOK
  <2>3. \A d, e \in Clients : pc'[d] = "starting" /\ pc'[e] = "starting"
                              /\ cell'[d] = cell'[e] => d = e
    BY <1>5, ReserveFacts DEF CellOK
  <2>4. \A r \in Cells : runtime'[r] = "set" => reader'[r] # "none"
    BY <1>5, ReserveFacts DEF CellOK
  <2> QED
    BY <2>1, <2>2, <2>3, <2>4 DEF CellOK
<1>6. ASSUME NEW c \in Clients, Forget(c) PROVE CellOK'
  BY <1>6 DEF Forget, CanForget, Goto, procVars, timerVars, restVars, TypeOK,
      SessionOK, CellOK
<1>7. ASSUME NEW c \in Clients, ReturnOpenError(c) PROVE CellOK'
  BY <1>7 DEF ReturnOpenError, Goto, mapVars, procVars, timerVars, restVars,
      TypeOK, SessionOK, CellOK
<1>8. ASSUME NEW c \in Clients, ReplaceAfterOpenError(c) PROVE CellOK'
  BY <1>8 DEF ReplaceAfterOpenError, Fault, Kill, TerminateChild, FailPending,
      Goto, mapVars, timerVars, TypeOK, SessionOK, CellOK
<1>9. ASSUME NEW c \in Clients, CallChecks(c) PROVE CellOK'
  <2>1. \A d \in Clients : pc'[d] = "starting" => runtime'[cell'[d]] = "starting"
    BY <1>9 DEF CallChecks, Return, EndSession, DecrementSessionCount, Goto,
        mapVars, procVars, restVars, TypeOK, CellOK
  <2>2. \A d \in Clients : session'[d] => runtime'[cell'[d]] = "set"
    BY <1>9 DEF CallChecks, Return, EndSession, DecrementSessionCount, Goto,
        mapVars, procVars, restVars, TypeOK, SessionOK, CellOK
  <2>3. \A d, e \in Clients : pc'[d] = "starting" /\ pc'[e] = "starting"
                              /\ cell'[d] = cell'[e] => d = e
    BY <1>9 DEF CallChecks, Return, EndSession, DecrementSessionCount, Goto,
        mapVars, procVars, restVars, TypeOK, CellOK
  <2>4. \A r \in Cells : runtime'[r] = "set" => reader'[r] # "none"
    BY <1>9 DEF CallChecks, Return, EndSession, DecrementSessionCount, Goto,
        mapVars, procVars, restVars, TypeOK, CellOK
  <2> QED
    BY <2>1, <2>2, <2>3, <2>4, Zenon DEF CellOK
<1>10. ASSUME NEW c \in Clients, CallInserts(c) PROVE CellOK'
  BY <1>10 DEF CallInserts, Goto, mapVars, procVars, timerVars, restVars,
      TypeOK, SessionOK, CellOK
<1>11. ASSUME NEW c \in Clients, CallWrites(c) PROVE CellOK'
  <2>1. \A d \in Clients : pc'[d] = "starting" => runtime'[cell'[d]] = "starting"
    BY <1>11 DEF CallWrites, Withdraw, Return, EndSession,
        DecrementSessionCount, Goto, mapVars, procVars, restVars, TypeOK,
        CellOK
  <2>2. \A d \in Clients : session'[d] => runtime'[cell'[d]] = "set"
    BY <1>11 DEF CallWrites, Withdraw, Return, EndSession,
        DecrementSessionCount, Goto, mapVars, procVars, restVars, TypeOK,
        SessionOK, CellOK
  <2>3. \A d, e \in Clients : pc'[d] = "starting" /\ pc'[e] = "starting"
                              /\ cell'[d] = cell'[e] => d = e
    BY <1>11 DEF CallWrites, Withdraw, Return, EndSession,
        DecrementSessionCount, Goto, mapVars, procVars, restVars, TypeOK,
        CellOK
  <2>4. \A r \in Cells : runtime'[r] = "set" => reader'[r] # "none"
    BY <1>11 DEF CallWrites, Withdraw, Return, EndSession,
        DecrementSessionCount, Goto, mapVars, procVars, restVars, TypeOK,
        CellOK
  <2> QED
    BY <2>1, <2>2, <2>3, <2>4, Zenon DEF CellOK
<1>12. ASSUME NEW c \in Clients, CallReceives(c) PROVE CellOK'
  <2>1. \A d \in Clients : pc'[d] = "starting" => runtime'[cell'[d]] = "starting"
    BY <1>12 DEF CallReceives, Return, EndSession, DecrementSessionCount,
        Goto, mapVars, procVars, restVars, TypeOK, CellOK
  <2>2. \A d \in Clients : session'[d] => runtime'[cell'[d]] = "set"
    BY <1>12 DEF CallReceives, Return, EndSession, DecrementSessionCount,
        Goto, mapVars, procVars, restVars, TypeOK, SessionOK, CellOK
  <2>3. \A d, e \in Clients : pc'[d] = "starting" /\ pc'[e] = "starting"
                              /\ cell'[d] = cell'[e] => d = e
    BY <1>12 DEF CallReceives, Return, EndSession, DecrementSessionCount,
        Goto, mapVars, procVars, restVars, TypeOK, CellOK
  <2>4. \A r \in Cells : runtime'[r] = "set" => reader'[r] # "none"
    BY <1>12 DEF CallReceives, Return, EndSession, DecrementSessionCount,
        Goto, mapVars, procVars, restVars, TypeOK, CellOK
  <2> QED
    BY <2>1, <2>2, <2>3, <2>4, Zenon DEF CellOK
<1>13. ASSUME NEW c \in Clients, CallCancelled(c) PROVE CellOK'
  <2>1. \A d \in Clients : pc'[d] = "starting" => runtime'[cell'[d]] = "starting"
    BY <1>13 DEF CallCancelled, Withdraw, Return, EndSession,
        DecrementSessionCount, Goto, mapVars, procVars, restVars, TypeOK,
        CellOK
  <2>2. \A d \in Clients : session'[d] => runtime'[cell'[d]] = "set"
    BY <1>13 DEF CallCancelled, Withdraw, Return, EndSession,
        DecrementSessionCount, Goto, mapVars, procVars, restVars, TypeOK,
        SessionOK, CellOK
  <2>3. \A d, e \in Clients : pc'[d] = "starting" /\ pc'[e] = "starting"
                              /\ cell'[d] = cell'[e] => d = e
    BY <1>13 DEF CallCancelled, Withdraw, Return, EndSession,
        DecrementSessionCount, Goto, mapVars, procVars, restVars, TypeOK,
        CellOK
  <2>4. \A r \in Cells : runtime'[r] = "set" => reader'[r] # "none"
    BY <1>13 DEF CallCancelled, Withdraw, Return, EndSession,
        DecrementSessionCount, Goto, mapVars, procVars, restVars, TypeOK,
        CellOK
  <2> QED
    BY <2>1, <2>2, <2>3, <2>4, Zenon DEF CellOK
<1>14. ASSUME NEW c \in Clients, NEW m \in {"query", "close"}, Call(c, m)
    PROVE CellOK'
  BY <1>14 DEF Call, Goto, mapVars, procVars, timerVars, restVars, TypeOK,
      SessionOK, CellOK
<1>15. ASSUME NEW c \in Clients, CallGivesUp(c) PROVE CellOK'
  BY <1>15 DEF CallGivesUp, Goto, mapVars, procVars, timerVars, restVars,
      TypeOK, SessionOK, CellOK
<1>16. ASSUME NEW c \in Clients, DropClient(c) PROVE CellOK'
  BY <1>16 DEF DropClient, EndSession, DecrementSessionCount, Goto, mapVars,
      procVars, restVars, TypeOK, SessionOK, CellOK
<1>17. ASSUME NEW c \in Clients, FailStop(c) PROVE CellOK'
  BY <1>17 DEF FailStop, Fault, Kill, TerminateChild, FailPending, mapVars,
      timerVars, TypeOK, SessionOK, CellOK
<1>18. ASSUME NEW r \in Cells, ReaderDrains(r) PROVE CellOK'
  BY <1>18 DEF ReaderDrains, FailPending, mapVars, timerVars, restVars,
      TypeOK, SessionOK, CellOK
<1>19. ASSUME NEW r \in Cells, ReaderTerminates(r) PROVE CellOK'
  BY <1>19 DEF ReaderTerminates, TerminateChild, mapVars, timerVars,
      clientVars, restVars, TypeOK, SessionOK, CellOK
<1>20. ASSUME NEW r \in Cells, Reap(r) PROVE CellOK'
  BY <1>20 DEF Reap, mapVars, timerVars, clientVars, restVars, TypeOK,
      SessionOK, CellOK
<1>21. ASSUME NEW r \in Cells, ReaderFails(r) PROVE CellOK'
  BY <1>21 DEF ReaderFails, Fault, mapVars, timerVars, clientVars, TypeOK,
      SessionOK, CellOK
<1>22. ASSUME NEW r \in Cells, ChildExits(r) PROVE CellOK'
  BY <1>22 DEF ChildExits, Fault, mapVars, timerVars, clientVars, TypeOK,
      SessionOK, CellOK
<1>23. ASSUME NEW r \in Cells, GraceChecks(r) PROVE CellOK'
  BY <1>23 DEF GraceChecks, Fault, mapVars, procVars, clientVars, TypeOK,
      SessionOK, CellOK
<1>24. ASSUME NEW r \in Cells, GraceKills(r) PROVE CellOK'
  BY <1>24 DEF GraceKills, Kill, TerminateChild, FailPending, mapVars,
      restVars, TypeOK, SessionOK, CellOK
<1>25. ASSUME NEW r \in Cells, NEW c \in Clients, Respond(r, c) PROVE CellOK'
  BY <1>25 DEF Respond, mapVars, procVars, timerVars, restVars, TypeOK,
      SessionOK, CellOK
<1>26. CASE StopTakes
  BY <1>26 DEF StopTakes, procVars, timerVars, clientVars, TypeOK, SessionOK,
      CellOK
<1>27. CASE StopMarks
  BY <1>27 DEF StopMarks, FailPending, mapVars, timerVars, TypeOK, SessionOK,
      CellOK
<1>28. CASE StopKills
  BY <1>28 DEF StopKills, TerminateChild, mapVars, timerVars, clientVars,
      TypeOK, SessionOK, CellOK
<1>29. CASE StopReturns
  BY <1>29 DEF StopReturns, mapVars, procVars, timerVars, clientVars, TypeOK,
      SessionOK, CellOK
<1>30. ASSUME NEW c \in Clients, CallDropped(c) PROVE CellOK'
  BY <1>30 DEF CallDropped, Withdraw, Goto, mapVars, procVars, timerVars,
      restVars, TypeOK, SessionOK, CellOK
<1>31. ASSUME NEW r \in Cells, RespondToNobody(r) PROVE CellOK'
  BY <1>31 DEF RespondToNobody, mapVars, procVars, timerVars, clientVars,
      restVars, TypeOK, SessionOK, CellOK
<1>32. CASE UNCHANGED vars
  BY <1>32 DEF vars, TypeOK, SessionOK, CellOK
<1>33. QED
  BY <1>1, <1>2, <1>3, <1>4, <1>5, <1>6, <1>7, <1>8, <1>9, <1>10, <1>11,
      <1>12, <1>13, <1>14, <1>15, <1>16, <1>17, <1>18, <1>19, <1>20, <1>21,
      <1>22, <1>23, <1>24, <1>25, <1>26, <1>27, <1>28, <1>29, <1>30, <1>31,
      <1>32 DEF Next, OpenSteps, CallSteps, UserSteps, RuntimeSteps, StopSteps

\* Every step keeps the count of sessions right.
LEMMA CountPreserved ==
    ASSUME TypeOK, SessionOK, SessionsCounted,
           [Next]_vars
    PROVE  SessionsCounted'
<1>1. ASSUME NEW c \in Clients, GetCell(c) PROVE SessionsCounted'
  BY <1>1, SessionsKept DEF GetCell, CellIsUsable, Goto, restVars, procVars,
      timerVars, mapVars, TypeOK, SessionOK
<1>2. ASSUME NEW c \in Clients, StartRuntime(c) PROVE SessionsCounted'
  BY <1>2, SessionsKept DEF StartRuntime, Goto, procVars, timerVars, restVars,
      TypeOK, SessionOK
<1>3. ASSUME NEW c \in Clients, RuntimeStarts(c) PROVE SessionsCounted'
  BY <1>3, SessionsKept DEF RuntimeStarts, Goto, timerVars, restVars, TypeOK,
      SessionOK
<1>4. ASSUME NEW c \in Clients, RuntimeDoesNotStart(c) PROVE SessionsCounted'
  BY <1>4, SessionsKept DEF RuntimeDoesNotStart, Goto, procVars, timerVars,
      restVars, TypeOK, SessionOK
<1>5. ASSUME NEW c \in Clients, Reserve(c) PROVE SessionsCounted'
  <2>1. CASE CanReserve(c)
    BY <1>5, <2>1, SessionBegins DEF Reserve, TypeOK, SessionOK
  <2>2. CASE ~CanReserve(c)
    BY <1>5, <2>2, SessionsKept DEF Reserve, TypeOK, SessionOK
  <2> QED
    BY <2>1, <2>2
<1>6. ASSUME NEW c \in Clients, Forget(c) PROVE SessionsCounted'
  BY <1>6, SessionsKept DEF Forget, CanForget, Goto, procVars, timerVars,
      restVars, TypeOK, SessionOK
<1>7. ASSUME NEW c \in Clients, ReturnOpenError(c) PROVE SessionsCounted'
  BY <1>7, SessionsKept DEF ReturnOpenError, Goto, mapVars, procVars,
      timerVars, restVars, TypeOK, SessionOK
<1>8. ASSUME NEW c \in Clients, ReplaceAfterOpenError(c) PROVE
    SessionsCounted'
  BY <1>8, SessionsKept DEF ReplaceAfterOpenError, Fault, Kill,
      TerminateChild, FailPending, Goto, mapVars, timerVars, TypeOK, SessionOK
<1>9. ASSUME NEW c \in Clients, CallChecks(c) PROVE SessionsCounted'
  <2>1. CASE session' = session /\ active_sessions' = active_sessions
    BY <1>9, <2>1, SessionsKept DEF CallChecks, Return, EndSession,
        DecrementSessionCount, Goto, mapVars, procVars, restVars, TypeOK
  <2>2. CASE EndSession(c)
    BY <1>9, <2>2, SessionEnds DEF CallChecks, TypeOK, SessionOK
  <2> QED
    BY <1>9, <2>1, <2>2 DEF CallChecks, Return
<1>10. ASSUME NEW c \in Clients, CallInserts(c) PROVE SessionsCounted'
  BY <1>10, SessionsKept DEF CallInserts, Goto, mapVars, procVars, timerVars,
      restVars, TypeOK, SessionOK
<1>11. ASSUME NEW c \in Clients, CallWrites(c) PROVE SessionsCounted'
  <2>1. CASE session' = session /\ active_sessions' = active_sessions
    BY <1>11, <2>1, SessionsKept DEF CallWrites, Withdraw, Return, EndSession,
        DecrementSessionCount, Goto, mapVars, procVars, restVars, TypeOK
  <2>2. CASE EndSession(c)
    BY <1>11, <2>2, SessionEnds DEF CallWrites, Withdraw, TypeOK, SessionOK
  <2> QED
    BY <1>11, <2>1, <2>2 DEF CallWrites, Withdraw, Return
<1>12. ASSUME NEW c \in Clients, CallReceives(c) PROVE SessionsCounted'
  <2>1. CASE session' = session /\ active_sessions' = active_sessions
    BY <1>12, <2>1, SessionsKept DEF CallReceives, Return, EndSession,
        DecrementSessionCount, Goto, mapVars, procVars, restVars, TypeOK
  <2>2. CASE EndSession(c)
    BY <1>12, <2>2, SessionEnds DEF CallReceives, TypeOK, SessionOK
  <2> QED
    BY <1>12, <2>1, <2>2 DEF CallReceives, Return
<1>13. ASSUME NEW c \in Clients, CallCancelled(c) PROVE SessionsCounted'
  <2>1. CASE session' = session /\ active_sessions' = active_sessions
    BY <1>13, <2>1, SessionsKept DEF CallCancelled, Withdraw, Return,
        EndSession, DecrementSessionCount, Goto, mapVars, procVars, restVars,
        TypeOK
  <2>2. CASE EndSession(c)
    BY <1>13, <2>2, SessionEnds DEF CallCancelled, Withdraw, TypeOK, SessionOK
  <2> QED
    BY <1>13, <2>1, <2>2 DEF CallCancelled, Withdraw, Return
<1>14. ASSUME NEW c \in Clients, NEW m \in {"query", "close"}, Call(c, m)
    PROVE SessionsCounted'
  BY <1>14, SessionsKept DEF Call, Goto, mapVars, procVars, timerVars,
      restVars, TypeOK, SessionOK
<1>15. ASSUME NEW c \in Clients, CallGivesUp(c) PROVE SessionsCounted'
  BY <1>15, SessionsKept DEF CallGivesUp, Goto, mapVars, procVars, timerVars,
      restVars, TypeOK, SessionOK
<1>16. ASSUME NEW c \in Clients, DropClient(c) PROVE SessionsCounted'
  BY <1>16, SessionEnds DEF DropClient, TypeOK, SessionOK
<1>17. ASSUME NEW c \in Clients, FailStop(c) PROVE SessionsCounted'
  BY <1>17, SessionsKept DEF FailStop, Fault, Kill, TerminateChild,
      FailPending, mapVars, timerVars, TypeOK, SessionOK
<1>18. ASSUME NEW r \in Cells, ReaderDrains(r) PROVE SessionsCounted'
  BY <1>18, SessionsKept DEF ReaderDrains, FailPending, mapVars, timerVars,
      restVars, TypeOK, SessionOK
<1>19. ASSUME NEW r \in Cells, ReaderTerminates(r) PROVE SessionsCounted'
  BY <1>19, SessionsKept DEF ReaderTerminates, TerminateChild, mapVars,
      timerVars, clientVars, restVars, TypeOK, SessionOK
<1>20. ASSUME NEW r \in Cells, Reap(r) PROVE SessionsCounted'
  BY <1>20, SessionsKept DEF Reap, mapVars, timerVars, clientVars, restVars,
      TypeOK, SessionOK
<1>21. ASSUME NEW r \in Cells, ReaderFails(r) PROVE SessionsCounted'
  BY <1>21, SessionsKept DEF ReaderFails, Fault, mapVars, timerVars,
      clientVars, TypeOK, SessionOK
<1>22. ASSUME NEW r \in Cells, ChildExits(r) PROVE SessionsCounted'
  BY <1>22, SessionsKept DEF ChildExits, Fault, mapVars, timerVars,
      clientVars, TypeOK, SessionOK
<1>23. ASSUME NEW r \in Cells, GraceChecks(r) PROVE SessionsCounted'
  BY <1>23, SessionsKept DEF GraceChecks, Fault, mapVars, procVars,
      clientVars, TypeOK, SessionOK
<1>24. ASSUME NEW r \in Cells, GraceKills(r) PROVE SessionsCounted'
  BY <1>24, SessionsKept DEF GraceKills, Kill, TerminateChild, FailPending,
      mapVars, restVars, TypeOK, SessionOK
<1>25. ASSUME NEW r \in Cells, NEW c \in Clients, Respond(r, c) PROVE
    SessionsCounted'
  BY <1>25, SessionsKept DEF Respond, mapVars, procVars, timerVars, restVars,
      TypeOK, SessionOK
<1>26. CASE StopTakes
  BY <1>26, SessionsKept DEF StopTakes, procVars, timerVars, clientVars,
      TypeOK, SessionOK
<1>27. CASE StopMarks
  BY <1>27, SessionsKept DEF StopMarks, FailPending, mapVars, timerVars,
      TypeOK, SessionOK
<1>28. CASE StopKills
  BY <1>28, SessionsKept DEF StopKills, TerminateChild, mapVars, timerVars,
      clientVars, TypeOK, SessionOK
<1>29. CASE StopReturns
  BY <1>29, SessionsKept DEF StopReturns, mapVars, procVars, timerVars,
      clientVars, TypeOK, SessionOK
<1>30. ASSUME NEW c \in Clients, CallDropped(c) PROVE SessionsCounted'
  BY <1>30, SessionsKept DEF CallDropped, Withdraw, Goto, mapVars, procVars,
      timerVars, restVars, TypeOK, SessionOK
<1>31. ASSUME NEW r \in Cells, RespondToNobody(r) PROVE SessionsCounted'
  BY <1>31, SessionsKept DEF RespondToNobody, mapVars, procVars, timerVars,
      clientVars, restVars, TypeOK, SessionOK
<1>32. CASE UNCHANGED vars
  BY <1>32, SessionsKept DEF vars
<1>33. QED
  BY <1>1, <1>2, <1>3, <1>4, <1>5, <1>6, <1>7, <1>8, <1>9, <1>10, <1>11,
      <1>12, <1>13, <1>14, <1>15, <1>16, <1>17, <1>18, <1>19, <1>20, <1>21,
      <1>22, <1>23, <1>24, <1>25, <1>26, <1>27, <1>28, <1>29, <1>30, <1>31,
      <1>32 DEF Next, OpenSteps, CallSteps, UserSteps, RuntimeSteps, StopSteps

\* Every step keeps a used runtime in the map.
LEMMA SharedPreserved ==
    ASSUME Inv, SessionOK', CellOK',
           [Next]_vars
    PROVE  UsedRuntimeIsShared'
<1>1. ASSUME NEW c \in Clients, GetCell(c) PROVE UsedRuntimeIsShared'
  <2>1. \A r \in Cells : SessionsOf(r)' = SessionsOf(r)
    BY <1>1 DEF GetCell, CellIsUsable, Goto, restVars, procVars, timerVars,
        mapVars, Inv, TypeOK, SessionOK, SessionsOf
  <2>2. /\ UNCHANGED <<failed, stopper, stopping>>
        /\ \A r \in Cells : runtime'[r] = "set" => runtime[r] = "set"
    BY <1>1 DEF GetCell, Inv, TypeOK, mapVars, restVars
  <2>3. \A r \in Cells : connection_runtimes = r /\ connection_runtimes' # r
                        /\ runtime[r] = "set" => failed[r]
    BY <1>1, NullAssumption DEF GetCell, CellIsUsable, Inv, TypeOK, mapVars
  <2> QED
    BY <2>1, <2>2, <2>3 DEF Inv, UsedRuntimeIsShared
<1>2. ASSUME NEW c \in Clients, StartRuntime(c) PROVE UsedRuntimeIsShared'
  BY <1>2 DEF StartRuntime, Goto, procVars, timerVars, restVars, Inv, TypeOK,
      SessionOK, CellOK, UsedRuntimeIsShared, SessionsOf
<1>3. ASSUME NEW c \in Clients, RuntimeStarts(c) PROVE UsedRuntimeIsShared'
  BY <1>3 DEF RuntimeStarts, Goto, timerVars, restVars, Inv, TypeOK,
      SessionOK, CellOK, UsedRuntimeIsShared, SessionsOf
<1>4. ASSUME NEW c \in Clients, RuntimeDoesNotStart(c) PROVE
    UsedRuntimeIsShared'
  BY <1>4 DEF RuntimeDoesNotStart, Goto, procVars, timerVars, restVars, Inv,
      TypeOK, SessionOK, CellOK, UsedRuntimeIsShared, SessionsOf
<1>5. ASSUME NEW c \in Clients, Reserve(c) PROVE UsedRuntimeIsShared'
  BY <1>5 DEF Reserve, CanReserve, Goto, mapVars, procVars, timerVars,
      restVars, Inv, TypeOK, SessionOK, CellOK, UsedRuntimeIsShared,
      SessionsOf
<1>6. ASSUME NEW c \in Clients, Forget(c) PROVE UsedRuntimeIsShared'
  <2> SUFFICES ASSUME NEW r \in Cells, runtime[r] = "set", ~failed[r],
                      SessionsOf(r) # {}
               PROVE  \/ connection_runtimes' = r
                      \/ stopper = "mark" /\ stopping = r
    BY <1>6, Zenon DEF Forget, CanForget, Goto, procVars, timerVars, restVars,
        SessionsOf, UsedRuntimeIsShared
  <2>1. active_sessions[r] # 0
    BY SessionsFinite, FS_EmptySet DEF Inv, SessionsCounted
  <2>2. \/ connection_runtimes = r
        \/ stopper = "mark" /\ stopping = r
    BY DEF Inv, UsedRuntimeIsShared
  <2> QED
    BY <1>6, <2>1, <2>2 DEF Forget, CanForget
<1>7. ASSUME NEW c \in Clients, ReturnOpenError(c) PROVE UsedRuntimeIsShared'
  BY <1>7 DEF ReturnOpenError, Goto, mapVars, procVars, timerVars, restVars,
      Inv, TypeOK, SessionOK, CellOK, UsedRuntimeIsShared, SessionsOf
<1>8. ASSUME NEW c \in Clients, ReplaceAfterOpenError(c) PROVE
    UsedRuntimeIsShared'
  BY <1>8 DEF ReplaceAfterOpenError, Fault, Kill, TerminateChild, FailPending,
      Goto, mapVars, timerVars, Inv, TypeOK, SessionOK, CellOK,
      UsedRuntimeIsShared, SessionsOf
<1>9. ASSUME NEW c \in Clients, CallChecks(c) PROVE UsedRuntimeIsShared'
  <2>1. \A r \in Cells : SessionsOf(r)' \subseteq SessionsOf(r)
    BY <1>9 DEF CallChecks, Return, EndSession, DecrementSessionCount, Goto,
        mapVars, procVars, restVars, Inv, TypeOK, SessionOK, SessionsOf
  <2>2. UNCHANGED <<connection_runtimes, runtime, failed, stopper, stopping>>
    BY <1>9 DEF CallChecks, mapVars, restVars
  <2> QED
    BY <2>1, <2>2 DEF Inv, UsedRuntimeIsShared
<1>10. ASSUME NEW c \in Clients, CallInserts(c) PROVE UsedRuntimeIsShared'
  BY <1>10 DEF CallInserts, Goto, mapVars, procVars, timerVars, restVars, Inv,
      TypeOK, SessionOK, CellOK, UsedRuntimeIsShared, SessionsOf
<1>11. ASSUME NEW c \in Clients, CallWrites(c) PROVE UsedRuntimeIsShared'
  <2>1. \A r \in Cells : SessionsOf(r)' \subseteq SessionsOf(r)
    <3>1. cell' = cell /\ \A d \in Clients : session'[d] => session[d]
      BY <1>11 DEF CallWrites, Return, EndSession, Inv, TypeOK
    <3> QED
      BY <3>1 DEF SessionsOf
  <2>2. UNCHANGED <<connection_runtimes, runtime, failed, stopper, stopping>>
    BY <1>11 DEF CallWrites, mapVars, restVars
  <2> QED
    BY <2>1, <2>2 DEF Inv, UsedRuntimeIsShared
<1>12. ASSUME NEW c \in Clients, CallReceives(c) PROVE UsedRuntimeIsShared'
  <2>1. \A r \in Cells : SessionsOf(r)' \subseteq SessionsOf(r)
    BY <1>12 DEF CallReceives, Return, EndSession, DecrementSessionCount,
        Goto, mapVars, procVars, restVars, Inv, TypeOK, SessionOK, SessionsOf
  <2>2. UNCHANGED <<connection_runtimes, runtime, failed, stopper, stopping>>
    BY <1>12 DEF CallReceives, mapVars, restVars
  <2> QED
    BY <2>1, <2>2 DEF Inv, UsedRuntimeIsShared
<1>13. ASSUME NEW c \in Clients, CallCancelled(c) PROVE UsedRuntimeIsShared'
  <2>1. \A r \in Cells : SessionsOf(r)' \subseteq SessionsOf(r)
    BY <1>13 DEF CallCancelled, Withdraw, Return, EndSession,
        DecrementSessionCount, Goto, mapVars, procVars, restVars, Inv, TypeOK,
        SessionOK, SessionsOf
  <2>2. UNCHANGED <<connection_runtimes, runtime, failed, stopper, stopping>>
    BY <1>13 DEF CallCancelled, mapVars, restVars
  <2> QED
    BY <2>1, <2>2 DEF Inv, UsedRuntimeIsShared
<1>14. ASSUME NEW c \in Clients, NEW m \in {"query", "close"}, Call(c, m)
    PROVE UsedRuntimeIsShared'
  BY <1>14 DEF Call, Goto, mapVars, procVars, timerVars, restVars, Inv,
      TypeOK, SessionOK, CellOK, UsedRuntimeIsShared, SessionsOf
<1>15. ASSUME NEW c \in Clients, CallGivesUp(c) PROVE UsedRuntimeIsShared'
  BY <1>15 DEF CallGivesUp, Goto, mapVars, procVars, timerVars, restVars, Inv,
      TypeOK, SessionOK, CellOK, UsedRuntimeIsShared, SessionsOf
<1>16. ASSUME NEW c \in Clients, DropClient(c) PROVE UsedRuntimeIsShared'
  <2>1. \A r \in Cells : SessionsOf(r)' \subseteq SessionsOf(r)
    BY <1>16 DEF DropClient, EndSession, DecrementSessionCount, Goto, mapVars,
        procVars, restVars, Inv, TypeOK, SessionOK, SessionsOf
  <2>2. UNCHANGED <<connection_runtimes, runtime, failed, stopper, stopping>>
    BY <1>16 DEF DropClient, mapVars, restVars
  <2> QED
    BY <2>1, <2>2 DEF Inv, UsedRuntimeIsShared
<1>17. ASSUME NEW c \in Clients, FailStop(c) PROVE UsedRuntimeIsShared'
  BY <1>17 DEF FailStop, Fault, Kill, TerminateChild, FailPending, mapVars,
      timerVars, Inv, TypeOK, SessionOK, CellOK, UsedRuntimeIsShared,
      SessionsOf
<1>18. ASSUME NEW r \in Cells, ReaderDrains(r) PROVE UsedRuntimeIsShared'
  BY <1>18 DEF ReaderDrains, FailPending, mapVars, timerVars, restVars, Inv,
      TypeOK, SessionOK, CellOK, UsedRuntimeIsShared, SessionsOf
<1>19. ASSUME NEW r \in Cells, ReaderTerminates(r) PROVE UsedRuntimeIsShared'
  BY <1>19 DEF ReaderTerminates, TerminateChild, mapVars, timerVars,
      clientVars, restVars, Inv, TypeOK, SessionOK, CellOK,
      UsedRuntimeIsShared, SessionsOf
<1>20. ASSUME NEW r \in Cells, Reap(r) PROVE UsedRuntimeIsShared'
  BY <1>20 DEF Reap, mapVars, timerVars, clientVars, restVars, Inv, TypeOK,
      SessionOK, CellOK, UsedRuntimeIsShared, SessionsOf
<1>21. ASSUME NEW r \in Cells, ReaderFails(r) PROVE UsedRuntimeIsShared'
  BY <1>21 DEF ReaderFails, Fault, mapVars, timerVars, clientVars, Inv,
      TypeOK, SessionOK, CellOK, UsedRuntimeIsShared, SessionsOf
<1>22. ASSUME NEW r \in Cells, ChildExits(r) PROVE UsedRuntimeIsShared'
  BY <1>22 DEF ChildExits, Fault, mapVars, timerVars, clientVars, Inv, TypeOK,
      SessionOK, CellOK, UsedRuntimeIsShared, SessionsOf
<1>23. ASSUME NEW r \in Cells, GraceChecks(r) PROVE UsedRuntimeIsShared'
  BY <1>23 DEF GraceChecks, Fault, mapVars, procVars, clientVars, Inv, TypeOK,
      SessionOK, CellOK, UsedRuntimeIsShared, SessionsOf
<1>24. ASSUME NEW r \in Cells, GraceKills(r) PROVE UsedRuntimeIsShared'
  BY <1>24 DEF GraceKills, Kill, TerminateChild, FailPending, mapVars,
      restVars, Inv, TypeOK, SessionOK, CellOK, UsedRuntimeIsShared,
      SessionsOf
<1>25. ASSUME NEW r \in Cells, NEW c \in Clients, Respond(r, c) PROVE
    UsedRuntimeIsShared'
  BY <1>25 DEF Respond, mapVars, procVars, timerVars, restVars, Inv, TypeOK,
      SessionOK, CellOK, UsedRuntimeIsShared, SessionsOf
<1>26. CASE StopTakes
  BY <1>26 DEF StopTakes, procVars, timerVars, clientVars, Inv, TypeOK,
      SessionOK, CellOK, UsedRuntimeIsShared, SessionsOf
<1>27. CASE StopMarks
  BY <1>27 DEF StopMarks, FailPending, mapVars, timerVars, Inv, TypeOK,
      SessionOK, CellOK, UsedRuntimeIsShared, SessionsOf
<1>28. CASE StopKills
  BY <1>28 DEF StopKills, TerminateChild, mapVars, timerVars, clientVars, Inv,
      TypeOK, SessionOK, CellOK, UsedRuntimeIsShared, SessionsOf
<1>29. CASE StopReturns
  BY <1>29 DEF StopReturns, mapVars, procVars, timerVars, clientVars, Inv,
      TypeOK, SessionOK, CellOK, UsedRuntimeIsShared, SessionsOf
<1>30. ASSUME NEW c \in Clients, CallDropped(c) PROVE UsedRuntimeIsShared'
  BY <1>30 DEF CallDropped, Withdraw, Goto, mapVars, procVars, timerVars,
      restVars, Inv, TypeOK, SessionOK, CellOK, UsedRuntimeIsShared,
      SessionsOf
<1>31. ASSUME NEW r \in Cells, RespondToNobody(r) PROVE UsedRuntimeIsShared'
  BY <1>31 DEF RespondToNobody, mapVars, procVars, timerVars, clientVars,
      restVars, Inv, TypeOK, SessionOK, CellOK, UsedRuntimeIsShared,
      SessionsOf
<1>32. CASE UNCHANGED vars
  BY <1>32 DEF vars, Inv, TypeOK, SessionOK, CellOK, UsedRuntimeIsShared,
      SessionsOf
<1>33. QED
  BY <1>1, <1>2, <1>3, <1>4, <1>5, <1>6, <1>7, <1>8, <1>9, <1>10, <1>11,
      <1>12, <1>13, <1>14, <1>15, <1>16, <1>17, <1>18, <1>19, <1>20, <1>21,
      <1>22, <1>23, <1>24, <1>25, <1>26, <1>27, <1>28, <1>29, <1>30, <1>31,
      <1>32 DEF Next, OpenSteps, CallSteps, UserSteps, RuntimeSteps, StopSteps

\* Every step keeps an unanswered request in the pending map.
LEMMA PendingPreserved ==
    ASSUME TypeOK, SessionOK, PendingOK,
           [Next]_vars
    PROVE  PendingOK'
<1>1. ASSUME NEW c \in Clients, GetCell(c) PROVE PendingOK'
  BY <1>1 DEF GetCell, CellIsUsable, Goto, restVars, procVars, timerVars,
      mapVars, TypeOK, SessionOK, PendingOK
<1>2. ASSUME NEW c \in Clients, StartRuntime(c) PROVE PendingOK'
  BY <1>2 DEF StartRuntime, Goto, procVars, timerVars, restVars, TypeOK,
      SessionOK, PendingOK
<1>3. ASSUME NEW c \in Clients, RuntimeStarts(c) PROVE PendingOK'
  BY <1>3 DEF RuntimeStarts, Goto, timerVars, restVars, TypeOK, SessionOK,
      PendingOK
<1>4. ASSUME NEW c \in Clients, RuntimeDoesNotStart(c) PROVE PendingOK'
  BY <1>4 DEF RuntimeDoesNotStart, Goto, procVars, timerVars, restVars,
      TypeOK, SessionOK, PendingOK
<1>5. ASSUME NEW c \in Clients, Reserve(c) PROVE PendingOK'
  BY <1>5 DEF Reserve, CanReserve, Goto, mapVars, procVars, timerVars,
      restVars, TypeOK, SessionOK, PendingOK
<1>6. ASSUME NEW c \in Clients, Forget(c) PROVE PendingOK'
  BY <1>6 DEF Forget, CanForget, Goto, procVars, timerVars, restVars, TypeOK,
      SessionOK, PendingOK
<1>7. ASSUME NEW c \in Clients, ReturnOpenError(c) PROVE PendingOK'
  BY <1>7 DEF ReturnOpenError, Goto, mapVars, procVars, timerVars, restVars,
      TypeOK, SessionOK, PendingOK
<1>8. ASSUME NEW c \in Clients, ReplaceAfterOpenError(c) PROVE PendingOK'
  BY <1>8 DEF ReplaceAfterOpenError, Fault, Kill, TerminateChild, FailPending,
      Goto, mapVars, timerVars, TypeOK, SessionOK, PendingOK
<1>9. ASSUME NEW c \in Clients, CallChecks(c) PROVE PendingOK'
  BY <1>9 DEF CallChecks, Return, EndSession, DecrementSessionCount, Goto,
      mapVars, procVars, restVars, TypeOK, SessionOK, PendingOK
<1>10. ASSUME NEW c \in Clients, CallInserts(c) PROVE PendingOK'
  BY <1>10 DEF CallInserts, Goto, mapVars, procVars, timerVars, restVars,
      TypeOK, SessionOK, PendingOK
<1>11. ASSUME NEW c \in Clients, CallWrites(c) PROVE PendingOK'
  <2>1. cell[c] \in Cells /\ cell' = cell /\ pc[c] = "write"
    BY <1>11 DEF CallWrites, TypeOK
  <2>2. CASE Goto(c, "wait") /\ pending' = pending /\ reply' = reply
    BY <2>1, <2>2 DEF Goto, TypeOK, PendingOK
  <2>3. CASE Withdraw(c) /\ Return(c, "error")
    <3>1. /\ pc'[c] \notin {"write", "wait"}
          /\ \A d \in Clients \ {c} : pc'[d] = pc[d] /\ reply'[d] = reply[d]
      BY <2>3 DEF Return, Goto, TypeOK
    <3>2. \A r \in Cells : \A d \in Clients \ {c} :
             d \in pending[r] => d \in pending'[r]
      BY <2>1, <2>3 DEF Withdraw, TypeOK
    <3> QED
      BY <2>1, <3>1, <3>2 DEF TypeOK, PendingOK
  <2> QED
    BY <1>11, <2>2, <2>3 DEF CallWrites
<1>12. ASSUME NEW c \in Clients, CallReceives(c) PROVE PendingOK'
  BY <1>12 DEF CallReceives, Return, EndSession, DecrementSessionCount, Goto,
      mapVars, procVars, restVars, TypeOK, SessionOK, PendingOK
<1>13. ASSUME NEW c \in Clients, CallCancelled(c) PROVE PendingOK'
  BY <1>13 DEF CallCancelled, Withdraw, Return, EndSession,
      DecrementSessionCount, Goto, mapVars, procVars, restVars, TypeOK,
      SessionOK, PendingOK
<1>14. ASSUME NEW c \in Clients, NEW m \in {"query", "close"}, Call(c, m)
    PROVE PendingOK'
  BY <1>14 DEF Call, Goto, mapVars, procVars, timerVars, restVars, TypeOK,
      SessionOK, PendingOK
<1>15. ASSUME NEW c \in Clients, CallGivesUp(c) PROVE PendingOK'
  BY <1>15 DEF CallGivesUp, Goto, mapVars, procVars, timerVars, restVars,
      TypeOK, SessionOK, PendingOK
<1>16. ASSUME NEW c \in Clients, DropClient(c) PROVE PendingOK'
  BY <1>16 DEF DropClient, EndSession, DecrementSessionCount, Goto, mapVars,
      procVars, restVars, TypeOK, SessionOK, PendingOK
<1>17. ASSUME NEW c \in Clients, FailStop(c) PROVE PendingOK'
  BY <1>17 DEF FailStop, Fault, Kill, TerminateChild, FailPending, mapVars,
      timerVars, TypeOK, SessionOK, PendingOK
<1>18. ASSUME NEW r \in Cells, ReaderDrains(r) PROVE PendingOK'
  BY <1>18 DEF ReaderDrains, FailPending, mapVars, timerVars, restVars,
      TypeOK, SessionOK, PendingOK
<1>19. ASSUME NEW r \in Cells, ReaderTerminates(r) PROVE PendingOK'
  BY <1>19 DEF ReaderTerminates, TerminateChild, mapVars, timerVars,
      clientVars, restVars, TypeOK, SessionOK, PendingOK
<1>20. ASSUME NEW r \in Cells, Reap(r) PROVE PendingOK'
  BY <1>20 DEF Reap, mapVars, timerVars, clientVars, restVars, TypeOK,
      SessionOK, PendingOK
<1>21. ASSUME NEW r \in Cells, ReaderFails(r) PROVE PendingOK'
  BY <1>21 DEF ReaderFails, Fault, mapVars, timerVars, clientVars, TypeOK,
      SessionOK, PendingOK
<1>22. ASSUME NEW r \in Cells, ChildExits(r) PROVE PendingOK'
  BY <1>22 DEF ChildExits, Fault, mapVars, timerVars, clientVars, TypeOK,
      SessionOK, PendingOK
<1>23. ASSUME NEW r \in Cells, GraceChecks(r) PROVE PendingOK'
  BY <1>23 DEF GraceChecks, Fault, mapVars, procVars, clientVars, TypeOK,
      SessionOK, PendingOK
<1>24. ASSUME NEW r \in Cells, GraceKills(r) PROVE PendingOK'
  BY <1>24 DEF GraceKills, Kill, TerminateChild, FailPending, mapVars,
      restVars, TypeOK, SessionOK, PendingOK
<1>25. ASSUME NEW r \in Cells, NEW c \in Clients, Respond(r, c) PROVE
    PendingOK'
  BY <1>25 DEF Respond, mapVars, procVars, timerVars, restVars, TypeOK,
      SessionOK, PendingOK
<1>26. CASE StopTakes
  BY <1>26 DEF StopTakes, procVars, timerVars, clientVars, TypeOK, SessionOK,
      PendingOK
<1>27. CASE StopMarks
  BY <1>27 DEF StopMarks, FailPending, mapVars, timerVars, TypeOK, SessionOK,
      PendingOK
<1>28. CASE StopKills
  BY <1>28 DEF StopKills, TerminateChild, mapVars, timerVars, clientVars,
      TypeOK, SessionOK, PendingOK
<1>29. CASE StopReturns
  BY <1>29 DEF StopReturns, mapVars, procVars, timerVars, clientVars, TypeOK,
      SessionOK, PendingOK
<1>30. ASSUME NEW c \in Clients, CallDropped(c) PROVE PendingOK'
  BY <1>30 DEF CallDropped, Withdraw, Goto, mapVars, procVars, timerVars,
      restVars, TypeOK, SessionOK, PendingOK
<1>31. ASSUME NEW r \in Cells, RespondToNobody(r) PROVE PendingOK'
  BY <1>31 DEF RespondToNobody, mapVars, procVars, timerVars, clientVars,
      restVars, TypeOK, SessionOK, PendingOK
<1>32. CASE UNCHANGED vars
  BY <1>32 DEF vars, TypeOK, SessionOK, PendingOK
<1>33. QED
  BY <1>1, <1>2, <1>3, <1>4, <1>5, <1>6, <1>7, <1>8, <1>9, <1>10, <1>11,
      <1>12, <1>13, <1>14, <1>15, <1>16, <1>17, <1>18, <1>19, <1>20, <1>21,
      <1>22, <1>23, <1>24, <1>25, <1>26, <1>27, <1>28, <1>29, <1>30, <1>31,
      <1>32 DEF Next, OpenSteps, CallSteps, UserSteps, RuntimeSteps, StopSteps

\* Every step keeps the reader and the process in agreement.
LEMMA ReaderPreserved ==
    ASSUME TypeOK, ReaderOK,
           [Next]_vars
    PROVE  ReaderOK'
<1>1. ASSUME NEW c \in Clients, GetCell(c) PROVE ReaderOK'
  BY <1>1 DEF GetCell, CellIsUsable, Goto, restVars, procVars, timerVars,
      mapVars, TypeOK, ReaderOK
<1>2. ASSUME NEW c \in Clients, StartRuntime(c) PROVE ReaderOK'
  BY <1>2 DEF StartRuntime, Goto, procVars, timerVars, restVars, TypeOK,
      ReaderOK
<1>3. ASSUME NEW c \in Clients, RuntimeStarts(c) PROVE ReaderOK'
  BY <1>3 DEF RuntimeStarts, Goto, timerVars, restVars, TypeOK, ReaderOK
<1>4. ASSUME NEW c \in Clients, RuntimeDoesNotStart(c) PROVE ReaderOK'
  BY <1>4 DEF RuntimeDoesNotStart, Goto, procVars, timerVars, restVars,
      TypeOK, ReaderOK
<1>5. ASSUME NEW c \in Clients, Reserve(c) PROVE ReaderOK'
  BY <1>5 DEF Reserve, CanReserve, Goto, mapVars, procVars, timerVars,
      restVars, TypeOK, ReaderOK
<1>6. ASSUME NEW c \in Clients, Forget(c) PROVE ReaderOK'
  BY <1>6 DEF Forget, CanForget, Goto, procVars, timerVars, restVars, TypeOK,
      ReaderOK
<1>7. ASSUME NEW c \in Clients, ReturnOpenError(c) PROVE ReaderOK'
  BY <1>7 DEF ReturnOpenError, Goto, mapVars, procVars, timerVars, restVars,
      TypeOK, ReaderOK
<1>8. ASSUME NEW c \in Clients, ReplaceAfterOpenError(c) PROVE ReaderOK'
  BY <1>8 DEF ReplaceAfterOpenError, Fault, Kill, TerminateChild, FailPending,
      Goto, mapVars, timerVars, TypeOK, ReaderOK
<1>9. ASSUME NEW c \in Clients, CallChecks(c) PROVE ReaderOK'
  BY <1>9 DEF CallChecks, Return, EndSession, DecrementSessionCount, Goto,
      mapVars, procVars, restVars, TypeOK, ReaderOK
<1>10. ASSUME NEW c \in Clients, CallInserts(c) PROVE ReaderOK'
  BY <1>10 DEF CallInserts, Goto, mapVars, procVars, timerVars, restVars,
      TypeOK, ReaderOK
<1>11. ASSUME NEW c \in Clients, CallWrites(c) PROVE ReaderOK'
  BY <1>11 DEF CallWrites, Withdraw, Return, EndSession,
      DecrementSessionCount, Goto, mapVars, procVars, restVars, TypeOK,
      ReaderOK
<1>12. ASSUME NEW c \in Clients, CallReceives(c) PROVE ReaderOK'
  BY <1>12 DEF CallReceives, Return, EndSession, DecrementSessionCount, Goto,
      mapVars, procVars, restVars, TypeOK, ReaderOK
<1>13. ASSUME NEW c \in Clients, CallCancelled(c) PROVE ReaderOK'
  BY <1>13 DEF CallCancelled, Withdraw, Return, EndSession,
      DecrementSessionCount, Goto, mapVars, procVars, restVars, TypeOK,
      ReaderOK
<1>14. ASSUME NEW c \in Clients, NEW m \in {"query", "close"}, Call(c, m)
    PROVE ReaderOK'
  BY <1>14 DEF Call, Goto, mapVars, procVars, timerVars, restVars, TypeOK,
      ReaderOK
<1>15. ASSUME NEW c \in Clients, CallGivesUp(c) PROVE ReaderOK'
  BY <1>15 DEF CallGivesUp, Goto, mapVars, procVars, timerVars, restVars,
      TypeOK, ReaderOK
<1>16. ASSUME NEW c \in Clients, DropClient(c) PROVE ReaderOK'
  BY <1>16 DEF DropClient, EndSession, DecrementSessionCount, Goto, mapVars,
      procVars, restVars, TypeOK, ReaderOK
<1>17. ASSUME NEW c \in Clients, FailStop(c) PROVE ReaderOK'
  BY <1>17 DEF FailStop, Fault, Kill, TerminateChild, FailPending, mapVars,
      timerVars, TypeOK, ReaderOK
<1>18. ASSUME NEW r \in Cells, ReaderDrains(r) PROVE ReaderOK'
  BY <1>18 DEF ReaderDrains, FailPending, mapVars, timerVars, restVars,
      TypeOK, ReaderOK
<1>19. ASSUME NEW r \in Cells, ReaderTerminates(r) PROVE ReaderOK'
  BY <1>19 DEF ReaderTerminates, TerminateChild, mapVars, timerVars,
      clientVars, restVars, TypeOK, ReaderOK
<1>20. ASSUME NEW r \in Cells, Reap(r) PROVE ReaderOK'
  BY <1>20 DEF Reap, mapVars, timerVars, clientVars, restVars, TypeOK,
      ReaderOK
<1>21. ASSUME NEW r \in Cells, ReaderFails(r) PROVE ReaderOK'
  BY <1>21 DEF ReaderFails, Fault, mapVars, timerVars, clientVars, TypeOK,
      ReaderOK
<1>22. ASSUME NEW r \in Cells, ChildExits(r) PROVE ReaderOK'
  BY <1>22 DEF ChildExits, Fault, mapVars, timerVars, clientVars, TypeOK,
      ReaderOK
<1>23. ASSUME NEW r \in Cells, GraceChecks(r) PROVE ReaderOK'
  BY <1>23 DEF GraceChecks, Fault, mapVars, procVars, clientVars, TypeOK,
      ReaderOK
<1>24. ASSUME NEW r \in Cells, GraceKills(r) PROVE ReaderOK'
  BY <1>24 DEF GraceKills, Kill, TerminateChild, FailPending, mapVars,
      restVars, TypeOK, ReaderOK
<1>25. ASSUME NEW r \in Cells, NEW c \in Clients, Respond(r, c) PROVE
    ReaderOK'
  BY <1>25 DEF Respond, mapVars, procVars, timerVars, restVars, TypeOK,
      ReaderOK
<1>26. CASE StopTakes
  BY <1>26 DEF StopTakes, procVars, timerVars, clientVars, TypeOK, ReaderOK
<1>27. CASE StopMarks
  BY <1>27 DEF StopMarks, FailPending, mapVars, timerVars, TypeOK, ReaderOK
<1>28. CASE StopKills
  BY <1>28 DEF StopKills, TerminateChild, mapVars, timerVars, clientVars,
      TypeOK, ReaderOK
<1>29. CASE StopReturns
  BY <1>29 DEF StopReturns, mapVars, procVars, timerVars, clientVars, TypeOK,
      ReaderOK
<1>30. ASSUME NEW c \in Clients, CallDropped(c) PROVE ReaderOK'
  BY <1>30 DEF CallDropped, Withdraw, Goto, mapVars, procVars, timerVars,
      restVars, TypeOK, ReaderOK
<1>31. ASSUME NEW r \in Cells, RespondToNobody(r) PROVE ReaderOK'
  BY <1>31 DEF RespondToNobody, mapVars, procVars, timerVars, clientVars,
      restVars, TypeOK, ReaderOK
<1>32. CASE UNCHANGED vars
  BY <1>32 DEF vars, TypeOK, ReaderOK
<1>33. QED
  BY <1>1, <1>2, <1>3, <1>4, <1>5, <1>6, <1>7, <1>8, <1>9, <1>10, <1>11,
      <1>12, <1>13, <1>14, <1>15, <1>16, <1>17, <1>18, <1>19, <1>20, <1>21,
      <1>22, <1>23, <1>24, <1>25, <1>26, <1>27, <1>28, <1>29, <1>30, <1>31,
      <1>32 DEF Next, OpenSteps, CallSteps, UserSteps, RuntimeSteps, StopSteps

\* Every step keeps a waiting call in the hands of its reader.
LEMMA BehindPreserved ==
    ASSUME TypeOK, SessionOK, CellOK, PendingOK, ReaderOK, NoCallLeftBehind,
           [Next]_vars
    PROVE  NoCallLeftBehind'
<1>1. ASSUME NEW c \in Clients, GetCell(c) PROVE NoCallLeftBehind'
  BY <1>1 DEF GetCell, CellIsUsable, Goto, restVars, procVars, timerVars,
      mapVars, TypeOK, SessionOK, CellOK, PendingOK, ReaderOK,
      NoCallLeftBehind
<1>2. ASSUME NEW c \in Clients, StartRuntime(c) PROVE NoCallLeftBehind'
  BY <1>2 DEF StartRuntime, Goto, procVars, timerVars, restVars, TypeOK,
      SessionOK, CellOK, PendingOK, ReaderOK, NoCallLeftBehind
<1>3. ASSUME NEW c \in Clients, RuntimeStarts(c) PROVE NoCallLeftBehind'
  BY <1>3 DEF RuntimeStarts, Goto, timerVars, restVars, TypeOK, SessionOK,
      CellOK, PendingOK, ReaderOK, NoCallLeftBehind
<1>4. ASSUME NEW c \in Clients, RuntimeDoesNotStart(c) PROVE NoCallLeftBehind'
  BY <1>4 DEF RuntimeDoesNotStart, Goto, procVars, timerVars, restVars,
      TypeOK, SessionOK, CellOK, PendingOK, ReaderOK, NoCallLeftBehind
<1>5. ASSUME NEW c \in Clients, Reserve(c) PROVE NoCallLeftBehind'
  BY <1>5 DEF Reserve, CanReserve, Goto, mapVars, procVars, timerVars,
      restVars, TypeOK, SessionOK, CellOK, PendingOK, ReaderOK,
      NoCallLeftBehind
<1>6. ASSUME NEW c \in Clients, Forget(c) PROVE NoCallLeftBehind'
  BY <1>6 DEF Forget, CanForget, Goto, procVars, timerVars, restVars, TypeOK,
      SessionOK, CellOK, PendingOK, ReaderOK, NoCallLeftBehind
<1>7. ASSUME NEW c \in Clients, ReturnOpenError(c) PROVE NoCallLeftBehind'
  BY <1>7 DEF ReturnOpenError, Goto, mapVars, procVars, timerVars, restVars,
      TypeOK, SessionOK, CellOK, PendingOK, ReaderOK, NoCallLeftBehind
<1>8. ASSUME NEW c \in Clients, ReplaceAfterOpenError(c) PROVE
    NoCallLeftBehind'
  BY <1>8 DEF ReplaceAfterOpenError, Fault, Kill, TerminateChild, FailPending,
      Goto, mapVars, timerVars, TypeOK, SessionOK, CellOK, PendingOK,
      ReaderOK, NoCallLeftBehind
<1>9. ASSUME NEW c \in Clients, CallChecks(c) PROVE NoCallLeftBehind'
  BY <1>9 DEF CallChecks, Return, EndSession, DecrementSessionCount, Goto,
      mapVars, procVars, restVars, TypeOK, SessionOK, CellOK, PendingOK,
      ReaderOK, NoCallLeftBehind
<1>10. ASSUME NEW c \in Clients, CallInserts(c) PROVE NoCallLeftBehind'
  BY <1>10 DEF CallInserts, Goto, mapVars, procVars, timerVars, restVars,
      TypeOK, SessionOK, CellOK, PendingOK, ReaderOK, NoCallLeftBehind
<1>11. ASSUME NEW c \in Clients, CallWrites(c) PROVE NoCallLeftBehind'
  BY <1>11 DEF CallWrites, Withdraw, Return, EndSession,
      DecrementSessionCount, Goto, mapVars, procVars, restVars, TypeOK,
      SessionOK, CellOK, PendingOK, ReaderOK, NoCallLeftBehind
<1>12. ASSUME NEW c \in Clients, CallReceives(c) PROVE NoCallLeftBehind'
  BY <1>12 DEF CallReceives, Return, EndSession, DecrementSessionCount, Goto,
      mapVars, procVars, restVars, TypeOK, SessionOK, CellOK, PendingOK,
      ReaderOK, NoCallLeftBehind
<1>13. ASSUME NEW c \in Clients, CallCancelled(c) PROVE NoCallLeftBehind'
  BY <1>13 DEF CallCancelled, Withdraw, Return, EndSession,
      DecrementSessionCount, Goto, mapVars, procVars, restVars, TypeOK,
      SessionOK, CellOK, PendingOK, ReaderOK, NoCallLeftBehind
<1>14. ASSUME NEW c \in Clients, NEW m \in {"query", "close"}, Call(c, m)
    PROVE NoCallLeftBehind'
  BY <1>14 DEF Call, Goto, mapVars, procVars, timerVars, restVars, TypeOK,
      SessionOK, CellOK, PendingOK, ReaderOK, NoCallLeftBehind
<1>15. ASSUME NEW c \in Clients, CallGivesUp(c) PROVE NoCallLeftBehind'
  BY <1>15 DEF CallGivesUp, Goto, mapVars, procVars, timerVars, restVars,
      TypeOK, SessionOK, CellOK, PendingOK, ReaderOK, NoCallLeftBehind
<1>16. ASSUME NEW c \in Clients, DropClient(c) PROVE NoCallLeftBehind'
  BY <1>16 DEF DropClient, EndSession, DecrementSessionCount, Goto, mapVars,
      procVars, restVars, TypeOK, SessionOK, CellOK, PendingOK, ReaderOK,
      NoCallLeftBehind
<1>17. ASSUME NEW c \in Clients, FailStop(c) PROVE NoCallLeftBehind'
  BY <1>17 DEF FailStop, Fault, Kill, TerminateChild, FailPending, mapVars,
      timerVars, TypeOK, SessionOK, CellOK, PendingOK, ReaderOK,
      NoCallLeftBehind
<1>18. ASSUME NEW r \in Cells, ReaderDrains(r) PROVE NoCallLeftBehind'
  BY <1>18 DEF ReaderDrains, FailPending, mapVars, timerVars, restVars,
      TypeOK, SessionOK, CellOK, PendingOK, ReaderOK, NoCallLeftBehind
<1>19. ASSUME NEW r \in Cells, ReaderTerminates(r) PROVE NoCallLeftBehind'
  BY <1>19 DEF ReaderTerminates, TerminateChild, mapVars, timerVars,
      clientVars, restVars, TypeOK, SessionOK, CellOK, PendingOK, ReaderOK,
      NoCallLeftBehind
<1>20. ASSUME NEW r \in Cells, Reap(r) PROVE NoCallLeftBehind'
  BY <1>20 DEF Reap, mapVars, timerVars, clientVars, restVars, TypeOK,
      SessionOK, CellOK, PendingOK, ReaderOK, NoCallLeftBehind
<1>21. ASSUME NEW r \in Cells, ReaderFails(r) PROVE NoCallLeftBehind'
  BY <1>21 DEF ReaderFails, Fault, mapVars, timerVars, clientVars, TypeOK,
      SessionOK, CellOK, PendingOK, ReaderOK, NoCallLeftBehind
<1>22. ASSUME NEW r \in Cells, ChildExits(r) PROVE NoCallLeftBehind'
  BY <1>22 DEF ChildExits, Fault, mapVars, timerVars, clientVars, TypeOK,
      SessionOK, CellOK, PendingOK, ReaderOK, NoCallLeftBehind
<1>23. ASSUME NEW r \in Cells, GraceChecks(r) PROVE NoCallLeftBehind'
  BY <1>23 DEF GraceChecks, Fault, mapVars, procVars, clientVars, TypeOK,
      SessionOK, CellOK, PendingOK, ReaderOK, NoCallLeftBehind
<1>24. ASSUME NEW r \in Cells, GraceKills(r) PROVE NoCallLeftBehind'
  BY <1>24 DEF GraceKills, Kill, TerminateChild, FailPending, mapVars,
      restVars, TypeOK, SessionOK, CellOK, PendingOK, ReaderOK,
      NoCallLeftBehind
<1>25. ASSUME NEW r \in Cells, NEW c \in Clients, Respond(r, c) PROVE
    NoCallLeftBehind'
  BY <1>25 DEF Respond, mapVars, procVars, timerVars, restVars, TypeOK,
      SessionOK, CellOK, PendingOK, ReaderOK, NoCallLeftBehind
<1>26. CASE StopTakes
  BY <1>26 DEF StopTakes, procVars, timerVars, clientVars, TypeOK, SessionOK,
      CellOK, PendingOK, ReaderOK, NoCallLeftBehind
<1>27. CASE StopMarks
  BY <1>27 DEF StopMarks, FailPending, mapVars, timerVars, TypeOK, SessionOK,
      CellOK, PendingOK, ReaderOK, NoCallLeftBehind
<1>28. CASE StopKills
  BY <1>28 DEF StopKills, TerminateChild, mapVars, timerVars, clientVars,
      TypeOK, SessionOK, CellOK, PendingOK, ReaderOK, NoCallLeftBehind
<1>29. CASE StopReturns
  BY <1>29 DEF StopReturns, mapVars, procVars, timerVars, clientVars, TypeOK,
      SessionOK, CellOK, PendingOK, ReaderOK, NoCallLeftBehind
<1>30. ASSUME NEW c \in Clients, CallDropped(c) PROVE NoCallLeftBehind'
  BY <1>30 DEF CallDropped, Withdraw, Goto, mapVars, procVars, timerVars,
      restVars, TypeOK, SessionOK, CellOK, PendingOK, ReaderOK,
      NoCallLeftBehind
<1>31. ASSUME NEW r \in Cells, RespondToNobody(r) PROVE NoCallLeftBehind'
  BY <1>31 DEF RespondToNobody, mapVars, procVars, timerVars, clientVars,
      restVars, TypeOK, SessionOK, CellOK, PendingOK, ReaderOK,
      NoCallLeftBehind
<1>32. CASE UNCHANGED vars
  BY <1>32 DEF vars, TypeOK, SessionOK, CellOK, PendingOK, ReaderOK,
      NoCallLeftBehind
<1>33. QED
  BY <1>1, <1>2, <1>3, <1>4, <1>5, <1>6, <1>7, <1>8, <1>9, <1>10, <1>11,
      <1>12, <1>13, <1>14, <1>15, <1>16, <1>17, <1>18, <1>19, <1>20, <1>21,
      <1>22, <1>23, <1>24, <1>25, <1>26, <1>27, <1>28, <1>29, <1>30, <1>31,
      <1>32 DEF Next, OpenSteps, CallSteps, UserSteps, RuntimeSteps, StopSteps

\* A call that returns moves its caller only, and its session ends on a
\* runtime that was started.
LEMMA CallKeepsStarted ==
    ASSUME TypeOK, StartedOK, NEW c \in Clients,
           pc[c] \in {"call", "write", "wait"},
           UNCHANGED <<runtime, child, reader, failed, reaper_started, idle_kill,
                       stopper, stopping, cell>>,
           grace' = grace \/ DecrementSessionCount(cell[c]),
           \A d \in Clients \ {c} : pc'[d] = pc[d]
    PROVE  StartedOK'
<1>1. cell[c] \in Cells /\ runtime[cell[c]] = "set"
  BY DEF TypeOK, StartedOK
<1>2. \A r \in Cells : grace'[r] > 0 => grace[r] > 0 \/ r = cell[c]
  BY <1>1 DEF TypeOK, DecrementSessionCount
<1> QED
  BY <1>1, <1>2 DEF TypeOK, StartedOK

\* Nothing happens to a runtime before it is started.
LEMMA StartedPreserved ==
    ASSUME TypeOK, CellOK, StartedOK,
           [Next]_vars
    PROVE  StartedOK'
<1>1. ASSUME NEW c \in Clients, GetCell(c) PROVE StartedOK'
  BY <1>1 DEF GetCell, CellIsUsable, Goto, restVars, procVars, timerVars,
      mapVars, TypeOK, CellOK, StartedOK
<1>2. ASSUME NEW c \in Clients, StartRuntime(c) PROVE StartedOK'
  BY <1>2 DEF StartRuntime, Goto, procVars, timerVars, restVars, TypeOK,
      CellOK, StartedOK
<1>3. ASSUME NEW c \in Clients, RuntimeStarts(c) PROVE StartedOK'
  BY <1>3 DEF RuntimeStarts, Goto, timerVars, restVars, TypeOK, CellOK,
      StartedOK
<1>4. ASSUME NEW c \in Clients, RuntimeDoesNotStart(c) PROVE StartedOK'
  BY <1>4 DEF RuntimeDoesNotStart, Goto, procVars, timerVars, restVars,
      TypeOK, CellOK, StartedOK
<1>5. ASSUME NEW c \in Clients, Reserve(c) PROVE StartedOK'
  BY <1>5, ReserveFacts DEF StartedOK
<1>6. ASSUME NEW c \in Clients, Forget(c) PROVE StartedOK'
  BY <1>6 DEF Forget, CanForget, Goto, procVars, timerVars, restVars, TypeOK,
      CellOK, StartedOK
<1>7. ASSUME NEW c \in Clients, ReturnOpenError(c) PROVE StartedOK'
  BY <1>7 DEF ReturnOpenError, Goto, mapVars, procVars, timerVars, restVars,
      TypeOK, CellOK, StartedOK
<1>8. ASSUME NEW c \in Clients, ReplaceAfterOpenError(c) PROVE StartedOK'
  BY <1>8 DEF ReplaceAfterOpenError, Fault, Kill, TerminateChild, FailPending,
      Goto, mapVars, timerVars, TypeOK, CellOK, StartedOK
<1>9. ASSUME NEW c \in Clients, CallChecks(c) PROVE StartedOK'
  BY <1>9, CallKeepsStarted DEF CallChecks, Return, EndSession, Goto,
      mapVars, procVars, restVars, TypeOK
<1>10. ASSUME NEW c \in Clients, CallInserts(c) PROVE StartedOK'
  BY <1>10 DEF CallInserts, Goto, mapVars, procVars, timerVars, restVars,
      TypeOK, CellOK, StartedOK
<1>11. ASSUME NEW c \in Clients, CallWrites(c) PROVE StartedOK'
  BY <1>11, CallKeepsStarted DEF CallWrites, Return, EndSession, Goto,
      mapVars, procVars, restVars, TypeOK
<1>12. ASSUME NEW c \in Clients, CallReceives(c) PROVE StartedOK'
  BY <1>12, CallKeepsStarted DEF CallReceives, Return, EndSession, Goto,
      mapVars, procVars, restVars, TypeOK
<1>13. ASSUME NEW c \in Clients, CallCancelled(c) PROVE StartedOK'
  BY <1>13 DEF CallCancelled, Withdraw, Return, EndSession,
      DecrementSessionCount, Goto, mapVars, procVars, restVars, TypeOK,
      CellOK, StartedOK
<1>14. ASSUME NEW c \in Clients, NEW m \in {"query", "close"}, Call(c, m)
    PROVE StartedOK'
  BY <1>14 DEF Call, Goto, mapVars, procVars, timerVars, restVars, TypeOK,
      CellOK, StartedOK
<1>15. ASSUME NEW c \in Clients, CallGivesUp(c) PROVE StartedOK'
  BY <1>15 DEF CallGivesUp, Goto, mapVars, procVars, timerVars, restVars,
      TypeOK, CellOK, StartedOK
<1>16. ASSUME NEW c \in Clients, DropClient(c) PROVE StartedOK'
  BY <1>16 DEF DropClient, EndSession, DecrementSessionCount, Goto, mapVars,
      procVars, restVars, TypeOK, CellOK, StartedOK
<1>17. ASSUME NEW c \in Clients, FailStop(c) PROVE StartedOK'
  BY <1>17 DEF FailStop, Fault, Kill, TerminateChild, FailPending, mapVars,
      timerVars, TypeOK, CellOK, StartedOK
<1>18. ASSUME NEW r \in Cells, ReaderDrains(r) PROVE StartedOK'
  BY <1>18 DEF ReaderDrains, FailPending, mapVars, timerVars, restVars,
      TypeOK, CellOK, StartedOK
<1>19. ASSUME NEW r \in Cells, ReaderTerminates(r) PROVE StartedOK'
  BY <1>19 DEF ReaderTerminates, TerminateChild, mapVars, timerVars,
      clientVars, restVars, TypeOK, CellOK, StartedOK
<1>20. ASSUME NEW r \in Cells, Reap(r) PROVE StartedOK'
  BY <1>20 DEF Reap, mapVars, timerVars, clientVars, restVars, TypeOK, CellOK,
      StartedOK
<1>21. ASSUME NEW r \in Cells, ReaderFails(r) PROVE StartedOK'
  BY <1>21 DEF ReaderFails, Fault, mapVars, timerVars, clientVars, TypeOK,
      CellOK, StartedOK
<1>22. ASSUME NEW r \in Cells, ChildExits(r) PROVE StartedOK'
  BY <1>22 DEF ChildExits, Fault, mapVars, timerVars, clientVars, TypeOK,
      CellOK, StartedOK
<1>23. ASSUME NEW r \in Cells, GraceChecks(r) PROVE StartedOK'
  BY <1>23 DEF GraceChecks, Fault, mapVars, procVars, clientVars, TypeOK,
      CellOK, StartedOK
<1>24. ASSUME NEW r \in Cells, GraceKills(r) PROVE StartedOK'
  BY <1>24 DEF GraceKills, Kill, TerminateChild, FailPending, mapVars,
      restVars, TypeOK, CellOK, StartedOK
<1>25. ASSUME NEW r \in Cells, NEW c \in Clients, Respond(r, c) PROVE
    StartedOK'
  BY <1>25 DEF Respond, mapVars, procVars, timerVars, restVars, TypeOK,
      CellOK, StartedOK
<1>26. CASE StopTakes
  BY <1>26 DEF StopTakes, procVars, timerVars, clientVars, TypeOK, CellOK,
      StartedOK
<1>27. CASE StopMarks
  BY <1>27 DEF StopMarks, FailPending, mapVars, timerVars, TypeOK, CellOK,
      StartedOK
<1>28. CASE StopKills
  BY <1>28 DEF StopKills, TerminateChild, mapVars, timerVars, clientVars,
      TypeOK, CellOK, StartedOK
<1>29. CASE StopReturns
  BY <1>29 DEF StopReturns, mapVars, procVars, timerVars, clientVars, TypeOK,
      CellOK, StartedOK
<1>30. ASSUME NEW c \in Clients, CallDropped(c) PROVE StartedOK'
  BY <1>30 DEF CallDropped, Withdraw, Goto, mapVars, procVars, timerVars,
      restVars, TypeOK, CellOK, StartedOK
<1>31. ASSUME NEW r \in Cells, RespondToNobody(r) PROVE StartedOK'
  BY <1>31 DEF RespondToNobody, mapVars, procVars, timerVars, clientVars,
      restVars, TypeOK, CellOK, StartedOK
<1>32. CASE UNCHANGED vars
  BY <1>32 DEF vars, TypeOK, CellOK, StartedOK
<1>33. QED
  BY <1>1, <1>2, <1>3, <1>4, <1>5, <1>6, <1>7, <1>8, <1>9, <1>10, <1>11,
      <1>12, <1>13, <1>14, <1>15, <1>16, <1>17, <1>18, <1>19, <1>20, <1>21,
      <1>22, <1>23, <1>24, <1>25, <1>26, <1>27, <1>28, <1>29, <1>30, <1>31,
      <1>32 DEF Next, OpenSteps, CallSteps, UserSteps, RuntimeSteps, StopSteps

\* Whoever starts the reaper has terminated the process, or is the stopper.
LEMMA ReaperPreserved ==
    ASSUME TypeOK, SessionOK, CellOK, StartedOK, ReaperOK,
           [Next]_vars
    PROVE  ReaperOK'
<1>1. ASSUME NEW c \in Clients, GetCell(c) PROVE ReaperOK'
  BY <1>1 DEF GetCell, CellIsUsable, Goto, restVars, procVars, timerVars,
      mapVars, TypeOK, StartedOK, ReaperOK
<1>2. ASSUME NEW c \in Clients, StartRuntime(c) PROVE ReaperOK'
  BY <1>2 DEF StartRuntime, Goto, procVars, timerVars, restVars, TypeOK,
      StartedOK, ReaperOK
<1>3. ASSUME NEW c \in Clients, RuntimeStarts(c) PROVE ReaperOK'
  BY <1>3 DEF RuntimeStarts, Goto, timerVars, restVars, TypeOK, StartedOK,
      ReaperOK, CellOK
<1>4. ASSUME NEW c \in Clients, RuntimeDoesNotStart(c) PROVE ReaperOK'
  BY <1>4 DEF RuntimeDoesNotStart, Goto, procVars, timerVars, restVars,
      TypeOK, StartedOK, ReaperOK
<1>5. ASSUME NEW c \in Clients, Reserve(c) PROVE ReaperOK'
  BY <1>5 DEF Reserve, CanReserve, Goto, mapVars, procVars, timerVars,
      restVars, TypeOK, StartedOK, ReaperOK
<1>6. ASSUME NEW c \in Clients, Forget(c) PROVE ReaperOK'
  BY <1>6 DEF Forget, CanForget, Goto, procVars, timerVars, restVars, TypeOK,
      StartedOK, ReaperOK
<1>7. ASSUME NEW c \in Clients, ReturnOpenError(c) PROVE ReaperOK'
  BY <1>7 DEF ReturnOpenError, Goto, mapVars, procVars, timerVars, restVars,
      TypeOK, StartedOK, ReaperOK
<1>8. ASSUME NEW c \in Clients, ReplaceAfterOpenError(c) PROVE ReaperOK'
  BY <1>8 DEF ReplaceAfterOpenError, Fault, Kill, TerminateChild, FailPending,
      Goto, mapVars, timerVars, TypeOK, StartedOK, ReaperOK
<1>9. ASSUME NEW c \in Clients, CallChecks(c) PROVE ReaperOK'
  BY <1>9 DEF CallChecks, Return, EndSession, DecrementSessionCount, Goto,
      mapVars, procVars, restVars, TypeOK, StartedOK, ReaperOK
<1>10. ASSUME NEW c \in Clients, CallInserts(c) PROVE ReaperOK'
  BY <1>10 DEF CallInserts, Goto, mapVars, procVars, timerVars, restVars,
      TypeOK, StartedOK, ReaperOK
<1>11. ASSUME NEW c \in Clients, CallWrites(c) PROVE ReaperOK'
  BY <1>11 DEF CallWrites, Withdraw, Return, EndSession,
      DecrementSessionCount, Goto, mapVars, procVars, restVars, TypeOK,
      StartedOK, ReaperOK
<1>12. ASSUME NEW c \in Clients, CallReceives(c) PROVE ReaperOK'
  BY <1>12 DEF CallReceives, Return, EndSession, DecrementSessionCount, Goto,
      mapVars, procVars, restVars, TypeOK, StartedOK, ReaperOK
<1>13. ASSUME NEW c \in Clients, CallCancelled(c) PROVE ReaperOK'
  BY <1>13 DEF CallCancelled, Withdraw, Return, EndSession,
      DecrementSessionCount, Goto, mapVars, procVars, restVars, TypeOK,
      StartedOK, ReaperOK
<1>14. ASSUME NEW c \in Clients, NEW m \in {"query", "close"}, Call(c, m)
    PROVE ReaperOK'
  BY <1>14 DEF Call, Goto, mapVars, procVars, timerVars, restVars, TypeOK,
      StartedOK, ReaperOK
<1>15. ASSUME NEW c \in Clients, CallGivesUp(c) PROVE ReaperOK'
  BY <1>15 DEF CallGivesUp, Goto, mapVars, procVars, timerVars, restVars,
      TypeOK, StartedOK, ReaperOK
<1>16. ASSUME NEW c \in Clients, DropClient(c) PROVE ReaperOK'
  BY <1>16 DEF DropClient, EndSession, DecrementSessionCount, Goto, mapVars,
      procVars, restVars, TypeOK, StartedOK, ReaperOK
<1>17. ASSUME NEW c \in Clients, FailStop(c) PROVE ReaperOK'
  BY <1>17 DEF FailStop, Fault, Kill, TerminateChild, FailPending, mapVars,
      timerVars, TypeOK, StartedOK, ReaperOK, SessionOK
<1>18. ASSUME NEW r \in Cells, ReaderDrains(r) PROVE ReaperOK'
  BY <1>18 DEF ReaderDrains, FailPending, mapVars, timerVars, restVars,
      TypeOK, StartedOK, ReaperOK
<1>19. ASSUME NEW r \in Cells, ReaderTerminates(r) PROVE ReaperOK'
  BY <1>19 DEF ReaderTerminates, TerminateChild, mapVars, timerVars,
      clientVars, restVars, TypeOK, StartedOK, ReaperOK
<1>20. ASSUME NEW r \in Cells, Reap(r) PROVE ReaperOK'
  BY <1>20 DEF Reap, mapVars, timerVars, clientVars, restVars, TypeOK,
      StartedOK, ReaperOK
<1>21. ASSUME NEW r \in Cells, ReaderFails(r) PROVE ReaperOK'
  BY <1>21 DEF ReaderFails, Fault, mapVars, timerVars, clientVars, TypeOK,
      StartedOK, ReaperOK
<1>22. ASSUME NEW r \in Cells, ChildExits(r) PROVE ReaperOK'
  BY <1>22 DEF ChildExits, Fault, mapVars, timerVars, clientVars, TypeOK,
      StartedOK, ReaperOK
<1>23. ASSUME NEW r \in Cells, GraceChecks(r) PROVE ReaperOK'
  BY <1>23 DEF GraceChecks, Fault, mapVars, procVars, clientVars, TypeOK,
      StartedOK, ReaperOK
<1>24. ASSUME NEW r \in Cells, GraceKills(r) PROVE ReaperOK'
  BY <1>24 DEF GraceKills, Kill, TerminateChild, FailPending, mapVars,
      restVars, TypeOK, StartedOK, ReaperOK
<1>25. ASSUME NEW r \in Cells, NEW c \in Clients, Respond(r, c) PROVE
    ReaperOK'
  BY <1>25 DEF Respond, mapVars, procVars, timerVars, restVars, TypeOK,
      StartedOK, ReaperOK
<1>26. CASE StopTakes
  BY <1>26 DEF StopTakes, procVars, timerVars, clientVars, TypeOK, StartedOK,
      ReaperOK
<1>27. CASE StopMarks
  BY <1>27 DEF StopMarks, FailPending, mapVars, timerVars, TypeOK, StartedOK,
      ReaperOK
<1>28. CASE StopKills
  BY <1>28 DEF StopKills, TerminateChild, mapVars, timerVars, clientVars,
      TypeOK, StartedOK, ReaperOK
<1>29. CASE StopReturns
  BY <1>29 DEF StopReturns, mapVars, procVars, timerVars, clientVars, TypeOK,
      StartedOK, ReaperOK
<1>30. ASSUME NEW c \in Clients, CallDropped(c) PROVE ReaperOK'
  BY <1>30 DEF CallDropped, Withdraw, Goto, mapVars, procVars, timerVars,
      restVars, TypeOK, StartedOK, ReaperOK
<1>31. ASSUME NEW r \in Cells, RespondToNobody(r) PROVE ReaperOK'
  BY <1>31 DEF RespondToNobody, mapVars, procVars, timerVars, clientVars,
      restVars, TypeOK, StartedOK, ReaperOK
<1>32. CASE UNCHANGED vars
  BY <1>32 DEF vars, TypeOK, StartedOK, ReaperOK
<1>33. QED
  BY <1>1, <1>2, <1>3, <1>4, <1>5, <1>6, <1>7, <1>8, <1>9, <1>10, <1>11,
      <1>12, <1>13, <1>14, <1>15, <1>16, <1>17, <1>18, <1>19, <1>20, <1>21,
      <1>22, <1>23, <1>24, <1>25, <1>26, <1>27, <1>28, <1>29, <1>30, <1>31,
      <1>32 DEF Next, OpenSteps, CallSteps, UserSteps, RuntimeSteps, StopSteps

\* Whoever sets the flag starts the reaper, or is the reader, which will.
LEMMA FailedPreserved ==
    ASSUME TypeOK, SessionOK, CellOK, StartedOK, ReaperOK, FailedHasReaper,
           [Next]_vars
    PROVE  FailedHasReaper'
<1>1. ASSUME NEW c \in Clients, GetCell(c) PROVE FailedHasReaper'
  BY <1>1 DEF GetCell, CellIsUsable, Goto, restVars, procVars, timerVars,
      mapVars, TypeOK, StartedOK, ReaperOK, FailedHasReaper
<1>2. ASSUME NEW c \in Clients, StartRuntime(c) PROVE FailedHasReaper'
  BY <1>2 DEF StartRuntime, Goto, procVars, timerVars, restVars, TypeOK,
      StartedOK, ReaperOK, FailedHasReaper
<1>3. ASSUME NEW c \in Clients, RuntimeStarts(c) PROVE FailedHasReaper'
  BY <1>3 DEF RuntimeStarts, Goto, timerVars, restVars, TypeOK, StartedOK,
      ReaperOK, FailedHasReaper, CellOK
<1>4. ASSUME NEW c \in Clients, RuntimeDoesNotStart(c) PROVE FailedHasReaper'
  BY <1>4 DEF RuntimeDoesNotStart, Goto, procVars, timerVars, restVars,
      TypeOK, StartedOK, ReaperOK, FailedHasReaper
<1>5. ASSUME NEW c \in Clients, Reserve(c) PROVE FailedHasReaper'
  BY <1>5 DEF Reserve, CanReserve, Goto, mapVars, procVars, timerVars,
      restVars, TypeOK, StartedOK, ReaperOK, FailedHasReaper
<1>6. ASSUME NEW c \in Clients, Forget(c) PROVE FailedHasReaper'
  BY <1>6 DEF Forget, CanForget, Goto, procVars, timerVars, restVars, TypeOK,
      StartedOK, ReaperOK, FailedHasReaper
<1>7. ASSUME NEW c \in Clients, ReturnOpenError(c) PROVE FailedHasReaper'
  BY <1>7 DEF ReturnOpenError, Goto, mapVars, procVars, timerVars, restVars,
      TypeOK, StartedOK, ReaperOK, FailedHasReaper
<1>8. ASSUME NEW c \in Clients, ReplaceAfterOpenError(c) PROVE
    FailedHasReaper'
  BY <1>8 DEF ReplaceAfterOpenError, Fault, Kill, TerminateChild, FailPending,
      Goto, mapVars, timerVars, TypeOK, StartedOK, ReaperOK, FailedHasReaper
<1>9. ASSUME NEW c \in Clients, CallChecks(c) PROVE FailedHasReaper'
  BY <1>9 DEF CallChecks, Return, EndSession, DecrementSessionCount, Goto,
      mapVars, procVars, restVars, TypeOK, StartedOK, ReaperOK,
      FailedHasReaper
<1>10. ASSUME NEW c \in Clients, CallInserts(c) PROVE FailedHasReaper'
  BY <1>10 DEF CallInserts, Goto, mapVars, procVars, timerVars, restVars,
      TypeOK, StartedOK, ReaperOK, FailedHasReaper
<1>11. ASSUME NEW c \in Clients, CallWrites(c) PROVE FailedHasReaper'
  BY <1>11 DEF CallWrites, Withdraw, Return, EndSession,
      DecrementSessionCount, Goto, mapVars, procVars, restVars, TypeOK,
      StartedOK, ReaperOK, FailedHasReaper
<1>12. ASSUME NEW c \in Clients, CallReceives(c) PROVE FailedHasReaper'
  BY <1>12 DEF CallReceives, Return, EndSession, DecrementSessionCount, Goto,
      mapVars, procVars, restVars, TypeOK, StartedOK, ReaperOK,
      FailedHasReaper
<1>13. ASSUME NEW c \in Clients, CallCancelled(c) PROVE FailedHasReaper'
  BY <1>13 DEF CallCancelled, Withdraw, Return, EndSession,
      DecrementSessionCount, Goto, mapVars, procVars, restVars, TypeOK,
      StartedOK, ReaperOK, FailedHasReaper
<1>14. ASSUME NEW c \in Clients, NEW m \in {"query", "close"}, Call(c, m)
    PROVE FailedHasReaper'
  BY <1>14 DEF Call, Goto, mapVars, procVars, timerVars, restVars, TypeOK,
      StartedOK, ReaperOK, FailedHasReaper
<1>15. ASSUME NEW c \in Clients, CallGivesUp(c) PROVE FailedHasReaper'
  BY <1>15 DEF CallGivesUp, Goto, mapVars, procVars, timerVars, restVars,
      TypeOK, StartedOK, ReaperOK, FailedHasReaper
<1>16. ASSUME NEW c \in Clients, DropClient(c) PROVE FailedHasReaper'
  BY <1>16 DEF DropClient, EndSession, DecrementSessionCount, Goto, mapVars,
      procVars, restVars, TypeOK, StartedOK, ReaperOK, FailedHasReaper
<1>17. ASSUME NEW c \in Clients, FailStop(c) PROVE FailedHasReaper'
  BY <1>17 DEF FailStop, Fault, Kill, TerminateChild, FailPending, mapVars,
      timerVars, TypeOK, StartedOK, ReaperOK, FailedHasReaper, SessionOK
<1>18. ASSUME NEW r \in Cells, ReaderDrains(r) PROVE FailedHasReaper'
  BY <1>18 DEF ReaderDrains, FailPending, mapVars, timerVars, restVars,
      TypeOK, StartedOK, ReaperOK, FailedHasReaper
<1>19. ASSUME NEW r \in Cells, ReaderTerminates(r) PROVE FailedHasReaper'
  BY <1>19 DEF ReaderTerminates, TerminateChild, mapVars, timerVars,
      clientVars, restVars, TypeOK, StartedOK, ReaperOK, FailedHasReaper
<1>20. ASSUME NEW r \in Cells, Reap(r) PROVE FailedHasReaper'
  BY <1>20 DEF Reap, mapVars, timerVars, clientVars, restVars, TypeOK,
      StartedOK, ReaperOK, FailedHasReaper
<1>21. ASSUME NEW r \in Cells, ReaderFails(r) PROVE FailedHasReaper'
  BY <1>21 DEF ReaderFails, Fault, mapVars, timerVars, clientVars, TypeOK,
      StartedOK, ReaperOK, FailedHasReaper
<1>22. ASSUME NEW r \in Cells, ChildExits(r) PROVE FailedHasReaper'
  BY <1>22 DEF ChildExits, Fault, mapVars, timerVars, clientVars, TypeOK,
      StartedOK, ReaperOK, FailedHasReaper
<1>23. ASSUME NEW r \in Cells, GraceChecks(r) PROVE FailedHasReaper'
  BY <1>23 DEF GraceChecks, Fault, mapVars, procVars, clientVars, TypeOK,
      StartedOK, ReaperOK, FailedHasReaper
<1>24. ASSUME NEW r \in Cells, GraceKills(r) PROVE FailedHasReaper'
  BY <1>24 DEF GraceKills, Kill, TerminateChild, FailPending, mapVars,
      restVars, TypeOK, StartedOK, ReaperOK, FailedHasReaper
<1>25. ASSUME NEW r \in Cells, NEW c \in Clients, Respond(r, c) PROVE
    FailedHasReaper'
  BY <1>25 DEF Respond, mapVars, procVars, timerVars, restVars, TypeOK,
      StartedOK, ReaperOK, FailedHasReaper
<1>26. CASE StopTakes
  BY <1>26 DEF StopTakes, procVars, timerVars, clientVars, TypeOK, StartedOK,
      ReaperOK, FailedHasReaper
<1>27. CASE StopMarks
  BY <1>27 DEF StopMarks, FailPending, mapVars, timerVars, TypeOK, StartedOK,
      ReaperOK, FailedHasReaper
<1>28. CASE StopKills
  BY <1>28 DEF StopKills, TerminateChild, mapVars, timerVars, clientVars,
      TypeOK, StartedOK, ReaperOK, FailedHasReaper
<1>29. CASE StopReturns
  BY <1>29 DEF StopReturns, mapVars, procVars, timerVars, clientVars, TypeOK,
      StartedOK, ReaperOK, FailedHasReaper
<1>30. ASSUME NEW c \in Clients, CallDropped(c) PROVE FailedHasReaper'
  BY <1>30 DEF CallDropped, Withdraw, Goto, mapVars, procVars, timerVars,
      restVars, TypeOK, StartedOK, ReaperOK, FailedHasReaper
<1>31. ASSUME NEW r \in Cells, RespondToNobody(r) PROVE FailedHasReaper'
  BY <1>31 DEF RespondToNobody, mapVars, procVars, timerVars, clientVars,
      restVars, TypeOK, StartedOK, ReaperOK, FailedHasReaper
<1>32. CASE UNCHANGED vars
  BY <1>32 DEF vars, TypeOK, StartedOK, ReaperOK, FailedHasReaper
<1>33. QED
  BY <1>1, <1>2, <1>3, <1>4, <1>5, <1>6, <1>7, <1>8, <1>9, <1>10, <1>11,
      <1>12, <1>13, <1>14, <1>15, <1>16, <1>17, <1>18, <1>19, <1>20, <1>21,
      <1>22, <1>23, <1>24, <1>25, <1>26, <1>27, <1>28, <1>29, <1>30, <1>31,
      <1>32 DEF Next, OpenSteps, CallSteps, UserSteps, RuntimeSteps, StopSteps

\* Only a call whose request is in the pending map gets an answer.
LEMMA ReplyPreserved ==
    ASSUME TypeOK, SessionOK, PendingExact, ReplyOK,
           [Next]_vars
    PROVE  ReplyOK'
<1>1. ASSUME NEW c \in Clients, GetCell(c) PROVE ReplyOK'
  BY <1>1 DEF GetCell, CellIsUsable, Goto, restVars, procVars, timerVars,
      mapVars, TypeOK, PendingExact, ReplyOK
<1>2. ASSUME NEW c \in Clients, StartRuntime(c) PROVE ReplyOK'
  BY <1>2 DEF StartRuntime, Goto, procVars, timerVars, restVars, TypeOK,
      PendingExact, ReplyOK
<1>3. ASSUME NEW c \in Clients, RuntimeStarts(c) PROVE ReplyOK'
  BY <1>3 DEF RuntimeStarts, Goto, timerVars, restVars, TypeOK, PendingExact,
      ReplyOK
<1>4. ASSUME NEW c \in Clients, RuntimeDoesNotStart(c) PROVE ReplyOK'
  BY <1>4 DEF RuntimeDoesNotStart, Goto, procVars, timerVars, restVars,
      TypeOK, PendingExact, ReplyOK
<1>5. ASSUME NEW c \in Clients, Reserve(c) PROVE ReplyOK'
  BY <1>5, ReserveFacts DEF ReplyOK
<1>6. ASSUME NEW c \in Clients, Forget(c) PROVE ReplyOK'
  BY <1>6 DEF Forget, CanForget, Goto, procVars, timerVars, restVars, TypeOK,
      PendingExact, ReplyOK
<1>7. ASSUME NEW c \in Clients, ReturnOpenError(c) PROVE ReplyOK'
  BY <1>7 DEF ReturnOpenError, Goto, mapVars, procVars, timerVars, restVars,
      TypeOK, PendingExact, ReplyOK
<1>8. ASSUME NEW c \in Clients, ReplaceAfterOpenError(c) PROVE ReplyOK'
  <2>1. c \notin pending[cell[c]] /\ cell[c] \in Cells
    BY <1>8 DEF ReplaceAfterOpenError, TypeOK, PendingExact
  <2>2. /\ \A d \in Clients \ {c} : pc'[d] = pc[d]
        /\ \A d \in Clients : reply'[d] = reply[d] \/ d \in pending[cell[c]]
    BY <1>8 DEF ReplaceAfterOpenError, Kill, FailPending, Goto, TypeOK
  <2>3. reply[c] = "none"
    BY <1>8 DEF ReplaceAfterOpenError, ReplyOK
  <2> QED
    BY <2>1, <2>2, <2>3 DEF PendingExact, ReplyOK
<1>9. ASSUME NEW c \in Clients, CallChecks(c) PROVE ReplyOK'
  BY <1>9 DEF CallChecks, Return, EndSession, DecrementSessionCount, Goto,
      mapVars, procVars, restVars, TypeOK, PendingExact, ReplyOK
<1>10. ASSUME NEW c \in Clients, CallInserts(c) PROVE ReplyOK'
  BY <1>10 DEF CallInserts, Goto, mapVars, procVars, timerVars, restVars,
      TypeOK, PendingExact, ReplyOK
<1>11. ASSUME NEW c \in Clients, CallWrites(c) PROVE ReplyOK'
  BY <1>11 DEF CallWrites, Withdraw, Return, EndSession,
      DecrementSessionCount, Goto, mapVars, procVars, restVars, TypeOK,
      PendingExact, ReplyOK
<1>12. ASSUME NEW c \in Clients, CallReceives(c) PROVE ReplyOK'
  BY <1>12 DEF CallReceives, Return, EndSession, DecrementSessionCount, Goto,
      mapVars, procVars, restVars, TypeOK, PendingExact, ReplyOK
<1>13. ASSUME NEW c \in Clients, CallCancelled(c) PROVE ReplyOK'
  BY <1>13 DEF CallCancelled, Withdraw, Return, EndSession,
      DecrementSessionCount, Goto, mapVars, procVars, restVars, TypeOK,
      PendingExact, ReplyOK
<1>14. ASSUME NEW c \in Clients, NEW m \in {"query", "close"}, Call(c, m)
    PROVE ReplyOK'
  BY <1>14 DEF Call, Goto, mapVars, procVars, timerVars, restVars, TypeOK,
      PendingExact, ReplyOK
<1>15. ASSUME NEW c \in Clients, CallGivesUp(c) PROVE ReplyOK'
  BY <1>15 DEF CallGivesUp, Goto, mapVars, procVars, timerVars, restVars,
      TypeOK, PendingExact, ReplyOK
<1>16. ASSUME NEW c \in Clients, DropClient(c) PROVE ReplyOK'
  BY <1>16 DEF DropClient, EndSession, DecrementSessionCount, Goto, mapVars,
      procVars, restVars, TypeOK, PendingExact, ReplyOK
<1>17. ASSUME NEW c \in Clients, FailStop(c) PROVE ReplyOK'
  BY <1>17 DEF FailStop, Fault, Kill, TerminateChild, FailPending, mapVars,
      timerVars, TypeOK, PendingExact, ReplyOK, SessionOK
<1>18. ASSUME NEW r \in Cells, ReaderDrains(r) PROVE ReplyOK'
  BY <1>18 DEF ReaderDrains, FailPending, mapVars, timerVars, restVars,
      TypeOK, PendingExact, ReplyOK
<1>19. ASSUME NEW r \in Cells, ReaderTerminates(r) PROVE ReplyOK'
  BY <1>19 DEF ReaderTerminates, TerminateChild, mapVars, timerVars,
      clientVars, restVars, TypeOK, PendingExact, ReplyOK
<1>20. ASSUME NEW r \in Cells, Reap(r) PROVE ReplyOK'
  BY <1>20 DEF Reap, mapVars, timerVars, clientVars, restVars, TypeOK,
      PendingExact, ReplyOK
<1>21. ASSUME NEW r \in Cells, ReaderFails(r) PROVE ReplyOK'
  BY <1>21 DEF ReaderFails, Fault, mapVars, timerVars, clientVars, TypeOK,
      PendingExact, ReplyOK
<1>22. ASSUME NEW r \in Cells, ChildExits(r) PROVE ReplyOK'
  BY <1>22 DEF ChildExits, Fault, mapVars, timerVars, clientVars, TypeOK,
      PendingExact, ReplyOK
<1>23. ASSUME NEW r \in Cells, GraceChecks(r) PROVE ReplyOK'
  BY <1>23 DEF GraceChecks, Fault, mapVars, procVars, clientVars, TypeOK,
      PendingExact, ReplyOK
<1>24. ASSUME NEW r \in Cells, GraceKills(r) PROVE ReplyOK'
  BY <1>24 DEF GraceKills, Kill, TerminateChild, FailPending, mapVars,
      restVars, TypeOK, PendingExact, ReplyOK
<1>25. ASSUME NEW r \in Cells, NEW c \in Clients, Respond(r, c) PROVE ReplyOK'
  BY <1>25 DEF Respond, mapVars, procVars, timerVars, restVars, TypeOK,
      PendingExact, ReplyOK
<1>26. CASE StopTakes
  BY <1>26 DEF StopTakes, procVars, timerVars, clientVars, TypeOK,
      PendingExact, ReplyOK
<1>27. CASE StopMarks
  BY <1>27 DEF StopMarks, FailPending, mapVars, timerVars, TypeOK,
      PendingExact, ReplyOK
<1>28. CASE StopKills
  BY <1>28 DEF StopKills, TerminateChild, mapVars, timerVars, clientVars,
      TypeOK, PendingExact, ReplyOK
<1>29. CASE StopReturns
  BY <1>29 DEF StopReturns, mapVars, procVars, timerVars, clientVars, TypeOK,
      PendingExact, ReplyOK
<1>30. ASSUME NEW c \in Clients, CallDropped(c) PROVE ReplyOK'
  BY <1>30 DEF CallDropped, Withdraw, Goto, mapVars, procVars, timerVars,
      restVars, TypeOK, PendingExact, ReplyOK
<1>31. ASSUME NEW r \in Cells, RespondToNobody(r) PROVE ReplyOK'
  BY <1>31 DEF RespondToNobody, mapVars, procVars, timerVars, clientVars,
      restVars, TypeOK, PendingExact, ReplyOK
<1>32. CASE UNCHANGED vars
  BY <1>32 DEF vars, TypeOK, PendingExact, ReplyOK
<1>33. QED
  BY <1>1, <1>2, <1>3, <1>4, <1>5, <1>6, <1>7, <1>8, <1>9, <1>10, <1>11,
      <1>12, <1>13, <1>14, <1>15, <1>16, <1>17, <1>18, <1>19, <1>20, <1>21,
      <1>22, <1>23, <1>24, <1>25, <1>26, <1>27, <1>28, <1>29, <1>30, <1>31,
      <1>32 DEF Next, OpenSteps, CallSteps, UserSteps, RuntimeSteps, StopSteps

\* fail_pending_requests answers the requests of one runtime and no other.
LEMMA FailPendingExact ==
    ASSUME TypeOK, PendingExact, NEW r \in Cells, FailPending(r), cell' = cell,
           \A d \in Clients :
              pc[d] \in {"write", "wait", "cancel"} => pc'[d] = pc[d]
    PROVE  PendingExact'
<1> SUFFICES ASSUME NEW q \in Cells, NEW d \in pending'[q]
             PROVE  /\ cell'[d] = q
                    /\ pc'[d] \in {"write", "wait", "cancel"}
                    /\ reply'[d] = "none"
  BY DEF PendingExact
<1>1. q # r /\ d \in pending[q] /\ d \in Clients
  BY DEF TypeOK, FailPending
<1>2. cell[d] = q /\ pc[d] \in {"write", "wait", "cancel"} /\ reply[d] = "none"
  BY <1>1 DEF PendingExact
<1>3. d \notin pending[r]
  BY <1>1, <1>2 DEF PendingExact
<1> QED
  BY <1>1, <1>2, <1>3 DEF FailPending

\* Every end of a call and every answer takes the request out.
LEMMA ExactPreserved ==
    ASSUME TypeOK, SessionOK, ReplyOK, PendingExact,
           [Next]_vars
    PROVE  PendingExact'
<1>1. ASSUME NEW c \in Clients, GetCell(c) PROVE PendingExact'
  BY <1>1 DEF GetCell, CellIsUsable, Goto, restVars, procVars, timerVars,
      mapVars, TypeOK, ReplyOK, PendingExact
<1>2. ASSUME NEW c \in Clients, StartRuntime(c) PROVE PendingExact'
  BY <1>2 DEF StartRuntime, Goto, procVars, timerVars, restVars, TypeOK,
      ReplyOK, PendingExact
<1>3. ASSUME NEW c \in Clients, RuntimeStarts(c) PROVE PendingExact'
  BY <1>3 DEF RuntimeStarts, Goto, timerVars, restVars, TypeOK, ReplyOK,
      PendingExact
<1>4. ASSUME NEW c \in Clients, RuntimeDoesNotStart(c) PROVE PendingExact'
  BY <1>4 DEF RuntimeDoesNotStart, Goto, procVars, timerVars, restVars,
      TypeOK, ReplyOK, PendingExact
<1>5. ASSUME NEW c \in Clients, Reserve(c) PROVE PendingExact'
  BY <1>5 DEF Reserve, CanReserve, Goto, mapVars, procVars, timerVars,
      restVars, TypeOK, ReplyOK, PendingExact
<1>6. ASSUME NEW c \in Clients, Forget(c) PROVE PendingExact'
  BY <1>6 DEF Forget, CanForget, Goto, procVars, timerVars, restVars, TypeOK,
      ReplyOK, PendingExact
<1>7. ASSUME NEW c \in Clients, ReturnOpenError(c) PROVE PendingExact'
  BY <1>7 DEF ReturnOpenError, Goto, mapVars, procVars, timerVars, restVars,
      TypeOK, ReplyOK, PendingExact
<1>8. ASSUME NEW c \in Clients, ReplaceAfterOpenError(c) PROVE PendingExact'
  <2>1. cell[c] \in Cells
    BY <1>8 DEF ReplaceAfterOpenError, TypeOK
  <2> QED
    BY <1>8, <2>1, FailPendingExact DEF ReplaceAfterOpenError, Kill, Goto, TypeOK
<1>9. ASSUME NEW c \in Clients, CallChecks(c) PROVE PendingExact'
  BY <1>9 DEF CallChecks, Return, EndSession, DecrementSessionCount, Goto,
      mapVars, procVars, restVars, TypeOK, ReplyOK, PendingExact
<1>10. ASSUME NEW c \in Clients, CallInserts(c) PROVE PendingExact'
  BY <1>10 DEF CallInserts, Goto, mapVars, procVars, timerVars, restVars,
      TypeOK, ReplyOK, PendingExact
<1>11. ASSUME NEW c \in Clients, CallWrites(c) PROVE PendingExact'
  <2> USE DEF CallWrites, Goto, Withdraw, mapVars, procVars, restVars
  <2>1. cell' = cell /\ cell[c] \in Cells
    BY <1>11 DEF TypeOK
  <2>2. CASE pending' = pending /\ reply' = reply /\ Goto(c, "wait")
    BY <2>1, <2>2 DEF TypeOK, PendingExact
  <2>3. CASE Withdraw(c) /\ Return(c, "error")
    <3>1. /\ \A d \in Clients \ {c} : pc'[d] = pc[d] /\ reply'[d] = reply[d]
          /\ pending' = [pending EXCEPT ![cell[c]] = @ \ {c}]
      BY <2>3 DEF Return, TypeOK
    <3>2. \A r \in Cells : c \notin pending'[r] /\ pending'[r] \subseteq pending[r]
      BY <2>1, <3>1 DEF TypeOK, PendingExact
    <3> QED
      BY <2>1, <3>1, <3>2 DEF TypeOK, PendingExact
  <2> QED
    BY <1>11, <2>2, <2>3
<1>12. ASSUME NEW c \in Clients, CallReceives(c) PROVE PendingExact'
  BY <1>12 DEF CallReceives, Return, EndSession, DecrementSessionCount, Goto,
      mapVars, procVars, restVars, TypeOK, ReplyOK, PendingExact
<1>13. ASSUME NEW c \in Clients, CallCancelled(c) PROVE PendingExact'
  BY <1>13 DEF CallCancelled, Withdraw, Return, EndSession,
      DecrementSessionCount, Goto, mapVars, procVars, restVars, TypeOK,
      ReplyOK, PendingExact
<1>14. ASSUME NEW c \in Clients, NEW m \in {"query", "close"}, Call(c, m)
    PROVE PendingExact'
  BY <1>14 DEF Call, Goto, mapVars, procVars, timerVars, restVars, TypeOK,
      ReplyOK, PendingExact
<1>15. ASSUME NEW c \in Clients, CallGivesUp(c) PROVE PendingExact'
  BY <1>15 DEF CallGivesUp, Goto, mapVars, procVars, timerVars, restVars,
      TypeOK, ReplyOK, PendingExact
<1>16. ASSUME NEW c \in Clients, DropClient(c) PROVE PendingExact'
  BY <1>16 DEF DropClient, EndSession, DecrementSessionCount, Goto, mapVars,
      procVars, restVars, TypeOK, ReplyOK, PendingExact
<1>17. ASSUME NEW c \in Clients, FailStop(c) PROVE PendingExact'
  <2>1. cell[c] \in Cells
    BY <1>17 DEF FailStop, TypeOK, SessionOK
  <2> QED
    BY <1>17, <2>1, FailPendingExact DEF FailStop, Kill
<1>18. ASSUME NEW r \in Cells, ReaderDrains(r) PROVE PendingExact'
  BY <1>18 DEF ReaderDrains, FailPending, mapVars, timerVars, restVars,
      TypeOK, ReplyOK, PendingExact
<1>19. ASSUME NEW r \in Cells, ReaderTerminates(r) PROVE PendingExact'
  BY <1>19 DEF ReaderTerminates, TerminateChild, mapVars, timerVars,
      clientVars, restVars, TypeOK, ReplyOK, PendingExact
<1>20. ASSUME NEW r \in Cells, Reap(r) PROVE PendingExact'
  BY <1>20 DEF Reap, mapVars, timerVars, clientVars, restVars, TypeOK,
      ReplyOK, PendingExact
<1>21. ASSUME NEW r \in Cells, ReaderFails(r) PROVE PendingExact'
  BY <1>21 DEF ReaderFails, Fault, mapVars, timerVars, clientVars, TypeOK,
      ReplyOK, PendingExact
<1>22. ASSUME NEW r \in Cells, ChildExits(r) PROVE PendingExact'
  BY <1>22 DEF ChildExits, Fault, mapVars, timerVars, clientVars, TypeOK,
      ReplyOK, PendingExact
<1>23. ASSUME NEW r \in Cells, GraceChecks(r) PROVE PendingExact'
  BY <1>23 DEF GraceChecks, Fault, mapVars, procVars, clientVars, TypeOK,
      ReplyOK, PendingExact
<1>24. ASSUME NEW r \in Cells, GraceKills(r) PROVE PendingExact'
  BY <1>24 DEF GraceKills, Kill, TerminateChild, FailPending, mapVars,
      restVars, TypeOK, ReplyOK, PendingExact
<1>25. ASSUME NEW r \in Cells, NEW c \in Clients, Respond(r, c) PROVE
    PendingExact'
  BY <1>25 DEF Respond, mapVars, procVars, timerVars, restVars, TypeOK,
      ReplyOK, PendingExact
<1>26. CASE StopTakes
  BY <1>26 DEF StopTakes, procVars, timerVars, clientVars, TypeOK, ReplyOK,
      PendingExact
<1>27. CASE StopMarks
  BY <1>27 DEF StopMarks, FailPending, mapVars, timerVars, TypeOK, ReplyOK,
      PendingExact
<1>28. CASE StopKills
  BY <1>28 DEF StopKills, TerminateChild, mapVars, timerVars, clientVars,
      TypeOK, ReplyOK, PendingExact
<1>29. CASE StopReturns
  BY <1>29 DEF StopReturns, mapVars, procVars, timerVars, clientVars, TypeOK,
      ReplyOK, PendingExact
<1>30. ASSUME NEW c \in Clients, CallDropped(c) PROVE PendingExact'
  BY <1>30 DEF CallDropped, Withdraw, Goto, mapVars, procVars, timerVars,
      restVars, TypeOK, ReplyOK, PendingExact
<1>31. ASSUME NEW r \in Cells, RespondToNobody(r) PROVE PendingExact'
  BY <1>31 DEF RespondToNobody, mapVars, procVars, timerVars, clientVars,
      restVars, TypeOK, ReplyOK, PendingExact
<1>32. CASE UNCHANGED vars
  BY <1>32 DEF vars, TypeOK, ReplyOK, PendingExact
<1>33. QED
  BY <1>1, <1>2, <1>3, <1>4, <1>5, <1>6, <1>7, <1>8, <1>9, <1>10, <1>11,
      <1>12, <1>13, <1>14, <1>15, <1>16, <1>17, <1>18, <1>19, <1>20, <1>21,
      <1>22, <1>23, <1>24, <1>25, <1>26, <1>27, <1>28, <1>29, <1>30, <1>31,
      <1>32 DEF Next, OpenSteps, CallSteps, UserSteps, RuntimeSteps, StopSteps


\* Once the map was drained, a request enters it only to meet a failing write.
LEMMA LeftPreserved ==
    ASSUME TypeOK, ReaderOK, PendingExact, NothingLeftInPending,
           [Next]_vars
    PROVE  NothingLeftInPending'
<1>1. ASSUME NEW c \in Clients, GetCell(c) PROVE NothingLeftInPending'
  BY <1>1 DEF GetCell, CellIsUsable, Goto, restVars, procVars, timerVars,
      mapVars, TypeOK, ReaderOK, PendingExact, NothingLeftInPending
<1>2. ASSUME NEW c \in Clients, StartRuntime(c) PROVE NothingLeftInPending'
  BY <1>2 DEF StartRuntime, Goto, procVars, timerVars, restVars, TypeOK,
      ReaderOK, PendingExact, NothingLeftInPending
<1>3. ASSUME NEW c \in Clients, RuntimeStarts(c) PROVE NothingLeftInPending'
  BY <1>3 DEF RuntimeStarts, Goto, timerVars, restVars, TypeOK, ReaderOK,
      PendingExact, NothingLeftInPending
<1>4. ASSUME NEW c \in Clients, RuntimeDoesNotStart(c) PROVE NothingLeftInPending'
  BY <1>4 DEF RuntimeDoesNotStart, Goto, procVars, timerVars, restVars,
      TypeOK, ReaderOK, PendingExact, NothingLeftInPending
<1>5. ASSUME NEW c \in Clients, Reserve(c) PROVE NothingLeftInPending'
  BY <1>5 DEF Reserve, CanReserve, Goto, mapVars, procVars, timerVars,
      restVars, TypeOK, ReaderOK, PendingExact, NothingLeftInPending
<1>6. ASSUME NEW c \in Clients, Forget(c) PROVE NothingLeftInPending'
  BY <1>6 DEF Forget, CanForget, Goto, procVars, timerVars, restVars, TypeOK,
      ReaderOK, PendingExact, NothingLeftInPending
<1>7. ASSUME NEW c \in Clients, ReturnOpenError(c) PROVE NothingLeftInPending'
  BY <1>7 DEF ReturnOpenError, Goto, mapVars, procVars, timerVars, restVars,
      TypeOK, ReaderOK, PendingExact, NothingLeftInPending
<1>8. ASSUME NEW c \in Clients, ReplaceAfterOpenError(c) PROVE NothingLeftInPending'
  BY <1>8 DEF ReplaceAfterOpenError, Fault, Kill, TerminateChild, FailPending,
      Goto, mapVars, timerVars, TypeOK, ReaderOK, PendingExact,
      NothingLeftInPending
<1>9. ASSUME NEW c \in Clients, CallChecks(c) PROVE NothingLeftInPending'
  BY <1>9 DEF CallChecks, Return, EndSession, DecrementSessionCount, Goto,
      mapVars, procVars, restVars, TypeOK, ReaderOK, PendingExact,
      NothingLeftInPending
<1>10. ASSUME NEW c \in Clients, CallInserts(c) PROVE NothingLeftInPending'
  BY <1>10 DEF CallInserts, Goto, mapVars, procVars, timerVars, restVars,
      TypeOK, ReaderOK, PendingExact, NothingLeftInPending
<1>11. ASSUME NEW c \in Clients, CallWrites(c) PROVE NothingLeftInPending'
  <2>1. /\ \A d \in Clients \ {c} : pc'[d] = pc[d]
        /\ abandoned' = abandoned /\ reader' = reader /\ noise' = noise
    BY <1>11 DEF CallWrites, Return, Goto, procVars, TypeOK
  <2>2. cell[c] \in Cells
    BY <1>11 DEF CallWrites, TypeOK
  <2>3. CASE child[cell[c]] \in {"running", "killed"} /\ pending' = pending
    <3>1. reader[cell[c]] \notin {"drained", "done"} \/ noise[cell[c]]
      BY <2>2, <2>3 DEF ReaderOK
    <3>2. \A r \in Cells : c \in pending[r] => r = cell[c]
      BY DEF PendingExact
    <3> QED
      BY <2>1, <2>3, <3>1, <3>2 DEF NothingLeftInPending, TypeOK
  <2>4. CASE Withdraw(c)
    <3>1. \A r \in Cells : pending'[r] \subseteq pending[r] /\ c \notin pending'[r]
      BY <2>2, <2>4 DEF Withdraw, PendingExact, TypeOK
    <3> QED
      BY <2>1, <3>1 DEF NothingLeftInPending, TypeOK
  <2> QED
    BY <1>11, <2>3, <2>4 DEF CallWrites
<1>12. ASSUME NEW c \in Clients, CallReceives(c) PROVE NothingLeftInPending'
  BY <1>12 DEF CallReceives, Return, EndSession, DecrementSessionCount, Goto,
      mapVars, procVars, restVars, TypeOK, ReaderOK, PendingExact,
      NothingLeftInPending
<1>13. ASSUME NEW c \in Clients, CallCancelled(c) PROVE NothingLeftInPending'
  BY <1>13 DEF CallCancelled, Withdraw, Return, EndSession,
      DecrementSessionCount, Goto, mapVars, procVars, restVars, TypeOK,
      ReaderOK, PendingExact, NothingLeftInPending
<1>14. ASSUME NEW c \in Clients, NEW m \in {"query", "close"}, Call(c, m)
    PROVE NothingLeftInPending'
  BY <1>14 DEF Call, Goto, mapVars, procVars, timerVars, restVars, TypeOK,
      ReaderOK, PendingExact, NothingLeftInPending
<1>15. ASSUME NEW c \in Clients, CallGivesUp(c) PROVE NothingLeftInPending'
  BY <1>15 DEF CallGivesUp, Goto, mapVars, procVars, timerVars, restVars,
      TypeOK, ReaderOK, PendingExact, NothingLeftInPending
<1>16. ASSUME NEW c \in Clients, DropClient(c) PROVE NothingLeftInPending'
  BY <1>16 DEF DropClient, EndSession, DecrementSessionCount, Goto, mapVars,
      procVars, restVars, TypeOK, ReaderOK, PendingExact, NothingLeftInPending
<1>17. ASSUME NEW c \in Clients, FailStop(c) PROVE NothingLeftInPending'
  BY <1>17 DEF FailStop, Fault, Kill, TerminateChild, FailPending, mapVars,
      timerVars, TypeOK, ReaderOK, PendingExact, NothingLeftInPending
<1>18. ASSUME NEW r \in Cells, ReaderDrains(r) PROVE NothingLeftInPending'
  BY <1>18 DEF ReaderDrains, FailPending, mapVars, timerVars, restVars,
      TypeOK, ReaderOK, PendingExact, NothingLeftInPending
<1>19. ASSUME NEW r \in Cells, ReaderTerminates(r) PROVE NothingLeftInPending'
  BY <1>19 DEF ReaderTerminates, TerminateChild, mapVars, timerVars,
      clientVars, restVars, TypeOK, ReaderOK, PendingExact,
      NothingLeftInPending
<1>20. ASSUME NEW r \in Cells, Reap(r) PROVE NothingLeftInPending'
  BY <1>20 DEF Reap, mapVars, timerVars, clientVars, restVars, TypeOK,
      ReaderOK, PendingExact, NothingLeftInPending
<1>21. ASSUME NEW r \in Cells, ReaderFails(r) PROVE NothingLeftInPending'
  BY <1>21 DEF ReaderFails, Fault, mapVars, timerVars, clientVars, TypeOK,
      ReaderOK, PendingExact, NothingLeftInPending
<1>22. ASSUME NEW r \in Cells, ChildExits(r) PROVE NothingLeftInPending'
  BY <1>22 DEF ChildExits, Fault, mapVars, timerVars, clientVars, TypeOK,
      ReaderOK, PendingExact, NothingLeftInPending
<1>23. ASSUME NEW r \in Cells, GraceChecks(r) PROVE NothingLeftInPending'
  BY <1>23 DEF GraceChecks, Fault, mapVars, procVars, clientVars, TypeOK,
      ReaderOK, PendingExact, NothingLeftInPending
<1>24. ASSUME NEW r \in Cells, GraceKills(r) PROVE NothingLeftInPending'
  BY <1>24 DEF GraceKills, Kill, TerminateChild, FailPending, mapVars,
      restVars, TypeOK, ReaderOK, PendingExact, NothingLeftInPending
<1>25. ASSUME NEW r \in Cells, NEW c \in Clients, Respond(r, c) PROVE
    NothingLeftInPending'
  BY <1>25 DEF Respond, mapVars, procVars, timerVars, restVars, TypeOK,
      ReaderOK, PendingExact, NothingLeftInPending
<1>26. CASE StopTakes
  BY <1>26 DEF StopTakes, procVars, timerVars, clientVars, TypeOK, ReaderOK,
      PendingExact, NothingLeftInPending
<1>27. CASE StopMarks
  BY <1>27 DEF StopMarks, FailPending, mapVars, timerVars, TypeOK, ReaderOK,
      PendingExact, NothingLeftInPending
<1>28. CASE StopKills
  BY <1>28 DEF StopKills, TerminateChild, mapVars, timerVars, clientVars,
      TypeOK, ReaderOK, PendingExact, NothingLeftInPending
<1>29. CASE StopReturns
  BY <1>29 DEF StopReturns, mapVars, procVars, timerVars, clientVars, TypeOK,
      ReaderOK, PendingExact, NothingLeftInPending
<1>30. ASSUME NEW c \in Clients, CallDropped(c) PROVE NothingLeftInPending'
  BY <1>30 DEF CallDropped, Withdraw, Goto, mapVars, procVars, timerVars,
      restVars, TypeOK, ReaderOK, PendingExact, NothingLeftInPending
<1>31. ASSUME NEW r \in Cells, RespondToNobody(r) PROVE NothingLeftInPending'
  BY <1>31 DEF RespondToNobody, mapVars, procVars, timerVars, clientVars,
      restVars, TypeOK, ReaderOK, PendingExact, NothingLeftInPending
<1>32. CASE UNCHANGED vars
  BY <1>32 DEF vars, TypeOK, ReaderOK, PendingExact, NothingLeftInPending
<1>33. QED
  BY <1>1, <1>2, <1>3, <1>4, <1>5, <1>6, <1>7, <1>8, <1>9, <1>10, <1>11,
      <1>12, <1>13, <1>14, <1>15, <1>16, <1>17, <1>18, <1>19, <1>20, <1>21,
      <1>22, <1>23, <1>24, <1>25, <1>26, <1>27, <1>28, <1>29, <1>30, <1>31,
      <1>32 DEF Next, OpenSteps, CallSteps, UserSteps, RuntimeSteps, StopSteps

-----------------------------------------------------------------------------
(* Theorems                                                                *)

\* The inductive invariant holds in every reachable state.
LEMMA Invariance == Spec => []Inv
<1>1. Init => Inv
  BY InitInv
<1>2. Inv /\ [Next]_vars => Inv'
  <2> SUFFICES ASSUME Inv, [Next]_vars PROVE Inv'
    OBVIOUS
  <2>1. TypeOK'
    BY TypePreserved DEF Inv
  <2>2. SessionOK' /\ CellOK'
    BY SessionPreserved, CellPreserved DEF Inv
  <2>3. SessionsCounted'
    BY CountPreserved DEF Inv
  <2>4. UsedRuntimeIsShared'
    BY <2>2, SharedPreserved
  <2>5. PendingOK' /\ ReaderOK' /\ NoCallLeftBehind'
    BY PendingPreserved, ReaderPreserved, BehindPreserved DEF Inv
  <2>6. StartedOK' /\ ReaperOK' /\ FailedHasReaper'
    BY StartedPreserved, ReaperPreserved, FailedPreserved DEF Inv
  <2>7. ReplyOK' /\ PendingExact' /\ NothingLeftInPending'
    BY ReplyPreserved, ExactPreserved, LeftPreserved DEF Inv
  <2> QED
    BY <2>1, <2>2, <2>3, <2>4, <2>5, <2>6, <2>7 DEF Inv
<1> QED
  BY <1>1, <1>2, PTL DEF Spec

\* Type correctness of the model of the shared agent runtimes.
THEOREM TypeCorrect == Spec => []TypeOK
<1>1. Inv => TypeOK
  BY DEF Inv
<1> QED
  BY <1>1, Invariance, PTL

\* active_sessions is always the number of clients that hold a session on the
\* runtime (reserve_runtime_locked, decrement_session_count, Drop).
THEOREM CountIsExact == Spec => []SessionsCounted
<1>1. Inv => SessionsCounted
  BY DEF Inv
<1> QED
  BY <1>1, Invariance, PTL

\* A working runtime with sessions stays in connection_runtimes unless it is
\* being stopped (remove_unused_runtime_if_current under the openers' lock).
THEOREM UsedStaysShared == Spec => []UsedRuntimeIsShared
<1>1. Inv => UsedRuntimeIsShared
  BY DEF Inv
<1> QED
  BY <1>1, Invariance, PTL

\* No call waits on a reader that has already drained the pending map of a
\* process that ended (call_typed against start_response_reader and kill).
THEOREM NoCallIsLost == Spec => []NoCallLeftBehind
<1>1. Inv => NoCallLeftBehind
  BY DEF Inv
<1> QED
  BY <1>1, Invariance, PTL

\* A runtime that was marked as failed, by kill(), the reader or
\* stop_daemon_by_key, has somebody who terminates and reaps its process: the
\* safety core of FailedIsReaped.
THEOREM FailedIsEnded == Spec => []FailedHasReaper
<1>1. Inv => FailedHasReaper
  BY DEF Inv
<1> QED
  BY <1>1, Invariance, PTL

\* The pending map of call_typed outlives no process: after the reader drained
\* it at the end of stdout it holds only requests whose write is about to fail,
\* and none that a dropped future left there.
THEOREM PendingEndsEmpty == Spec => []NothingLeftInPending
<1>1. Inv => NothingLeftInPending
  BY DEF Inv
<1> QED
  BY <1>1, Invariance, PTL
=============================================================================
