\* A base key and a manual-transaction key on shared runtimes.
SPECIFICATION Spec
CONSTANTS
    Null = Null
    Keys = {base, manual}
    ManualKeys = {manual}
    Pools = {p1, p2}
    Runtimes = {r1}
    Probes = {t1, t2}
    Queries = {q1}
    MaxEvents = 2
INVARIANTS
    EveryPoolHasOneOwner
    NoRouteToKilledRuntime
    ReclaimSparesUsedPools
PROPERTIES
    ProbesSpareReplacements
    SupervisorSpec
CHECK_DEADLOCK FALSE
SYMMETRY Symmetry
