\* Two threads make one call each, without tap_init() before.
SPECIFICATION Spec
CONSTANTS
    NoThread = NoThread
    Thread = {t1, t2}
    t1 = t1
    t2 = t2
    Planner = t1
    MaxCalls = 1
INVARIANTS
    DistinctNumbers
CHECK_DEADLOCK FALSE
