\* Two clients of one runtime: failed calls return, failed processes are reaped.
SPECIFICATION FairSpec
CONSTANTS
    Null = Null
    Clients = {c1, c2}
    Cells = {r1}
    MaxFaults = 1
    MaxAbandoned = 1
PROPERTIES
    FailedCallReturns
    FailedIsReaped
CHECK_DEADLOCK FALSE
