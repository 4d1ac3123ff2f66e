\* Two clients of one runtime key and up to two runtimes.
SPECIFICATION Spec
CONSTANTS
    Null = Null
    Clients = {c1, c2}
    Cells = {r1, r2}
    MaxFaults = 1
    MaxAbandoned = 1
INVARIANTS
    SessionsCounted
    UsedRuntimeIsShared
    NoCallLeftBehind
    NothingLeftInPending
    FailedHasReaper
CHECK_DEADLOCK FALSE
SYMMETRY Symmetry
