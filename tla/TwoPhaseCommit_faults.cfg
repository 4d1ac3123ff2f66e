\* Three participants, up to two crashes and two lost answers.
SPECIFICATION FairSpec
CONSTANTS
    N = 3
    MaxRetries = 2
    MaxCrashes = 2
    MaxLost = 2
INVARIANTS
    CommittedMeansAllCommitted
    WriteAhead
    OutcomeIsRight
PROPERTIES
    TerminalIsFinal
    CallReturns
CHECK_DEADLOCK FALSE
