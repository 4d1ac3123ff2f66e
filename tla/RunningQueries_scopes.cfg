\* Two execution ids and two scopes, a pool, one caller.
SPECIFICATION Spec
CONSTANTS
    Null = Null
    ExecutionIds = {e1, e2}
    Registrations = {r1, r2}
    Scopes = {s1, s2}
    PoolKeys = {p1}
    Callers = {c1}
SYMMETRY Symmetry
INVARIANTS
    ReachableWhileRunning
CHECK_DEADLOCK FALSE
