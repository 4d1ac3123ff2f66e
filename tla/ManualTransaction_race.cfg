\* Three calls, a keep-alive guard, a failure and a dropped future.
SPECIFICATION FairSpec
CONSTANTS
    Calls = {c1, c2, c3}
    Keepers = {k1}
    Begin = Begin
    MaxFaults = 1
    MaxDrops = 1
INVARIANTS
    OneEnds
    OneExecutes
    NoOrphan
    OutsideOnlyByUser
    FailedIsRolledBack
PROPERTIES
    SessionSpec
    IdleIsRolledBack
CHECK_DEADLOCK FALSE
