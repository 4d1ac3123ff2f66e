\* A manual transaction on a runtime that a failed close replaces.
SPECIFICATION Spec
CONSTANTS
    Null = Null
    Keys = {base, manual}
    ManualKeys = {manual}
    Pools = {p1, p2}
    Runtimes = {r1}
    Probes = {t1, t2}
    Queries = {q1}
    MaxEvents = 2
PROPERTIES
    ClosingSparesManualTransactions
CHECK_DEADLOCK FALSE
