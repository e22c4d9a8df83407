\* Two threads that open up to three blocks each, nested or one after the other.
SPECIFICATION Spec
CONSTANTS
    Thread = {t1, t2}
    MaxStarts = 3
INVARIANTS
    TypeOK
    TodoIffInBlock
    InsideIsExcused
    SkippedNotRun
    BrokenOnlyBeforeInit
