\* Four tasks under a keepalive key and a one-shot key; shutdown at any time.
SPECIFICATION FairSpec
CONSTANTS
    Null = Null
    ReplaceKeys = {keepalive}
    OnceKeys = {close}
    Tasks = {t1, t2, t3, t4}
INVARIANTS
    NoTaskEscapes
PROPERTIES
    StopsReturn
    TasksEnd
CHECK_DEADLOCK FALSE
