\* One call: a test that fails, before anything else.
SPECIFICATION Spec
CONSTANTS
    NoThread = NoThread
    Thread = {t1}
    t1 = t1
    Planner = t1
    MaxCalls = 1
INVARIANTS
    FailuresReturned
CHECK_DEADLOCK FALSE
