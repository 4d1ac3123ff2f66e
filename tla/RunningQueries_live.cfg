\* One execution id used twice, one caller; liveness.
SPECIFICATION FairSpec
CONSTANTS
    Null = Null
    ExecutionIds = {e1}
    Registrations = {r1, r2}
    Scopes = {s1}
    PoolKeys = {}
    Callers = {c1}
PROPERTIES
    TakenInterruptRuns
    WaiterReturns
    FinishedIsSignalled
    DetachedReclaimed
CHECK_DEADLOCK FALSE
