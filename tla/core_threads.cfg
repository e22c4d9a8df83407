\* Three threads of one process, in a program that plans first.
SPECIFICATION Spec
CONSTANTS
    main = main
    child = child
    sibling = sibling
    m = m
    a = a
    b = b
    Main = main
    Thread <- ThreeThreads
    Process <- OneProcess
    ProcOf <- AllInMain
    Leader <- Leads
    ForkMode = FALSE
    Menu <- ThreadMenu
    MaxCalls = 2
    PlanFirst = TRUE
    Joins = TRUE
    Killable <- NoProcess
INVARIANTS
    TypeOK
    OnePlanLine
    LinesWhole
    CountersMatchStream
    VerdictAgrees
    DiagnosisAgrees
    HolderMoves
