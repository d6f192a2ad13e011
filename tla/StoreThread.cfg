SPECIFICATION FairSpec
CONSTANTS
    h1 = h1
    h2 = h2
    t1 = t1
    t2 = t2
    t3 = t3
    Handles = {h1, h2}
    Callers = {t1, t2, t3}
    Capacity = 2
    MaxCalls = 2
    Shutdown = Shutdown
    None = None
INVARIANTS
    TypeOK
    OutcomeIsTrue
    QueuedBeforeADropIsDone
PROPERTY
    NothingHangs
CHECK_DEADLOCK FALSE
