\* The first calls of two threads, explicit and implicit initialisation.
\* Threads whose first calls overlap may wait for ever: no deadlock check.
SPECIFICATION FairSpec
CONSTANTS
    NoThread = NoThread
    Thread = {t1, t2}
    t1 = t1
    t2 = t2
    Planner = t1
    MaxCalls = 2
INVARIANTS
    TypeOK
    InitialisedOnce
    NothingLost
PROPERTIES
    CallsReturn
CHECK_DEADLOCK FALSE
