\* The future of an execute call is dropped.
SPECIFICATION FairSpec
CONSTANTS
    Calls = {c1}
    Keepers = {}
    Begin = Begin
    MaxFaults = 0
    MaxDrops = 1
PROPERTIES
    InactiveIsRolledBack
CHECK_DEADLOCK FALSE
