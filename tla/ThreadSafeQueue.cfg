SPECIFICATION FairSpec
CONSTANTS
    Threads = {t1, t2, t3}
    Values = {v1, v2}
    None = None
    Nobody = Nobody
    MaxCalls = 4
INVARIANTS
    FrontStaysFront
    NoLostWakeup
PROPERTIES
    OperationsAreAtomic
    OperationsReturn
CHECK_DEADLOCK FALSE
