\* Two execution ids, one of which may be used twice, two concurrent callers.
SPECIFICATION Spec
CONSTANTS
    Null = Null
    ExecutionIds = {e1, e2}
    Registrations = {r1, r2}
    Scopes = {s1}
    PoolKeys = {}
    Callers = {c1, c2}
SYMMETRY Symmetry
INVARIANTS
    TerminalMeansFinished
    CompletedMeansFinished
    StoredInterruptReachable
    LostInterruptNeedsReusedId
CHECK_DEADLOCK FALSE
