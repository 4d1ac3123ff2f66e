\* Two clients create, move and delete the entry; every transition returns.
SPECIFICATION FairSpec
CONSTANTS
    Clients = {c1, c2}
    Absent = Absent
    MaxRetries = 3
    MaxCalls = 7
    MaxDeletes = 1
INVARIANTS
    NoLostUpdate
    VersionsAgree
PROPERTIES
    LinearSpec
    TransitionReturns
CHECK_DEADLOCK FALSE
