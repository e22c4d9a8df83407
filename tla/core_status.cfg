\* 256 planned tests, and none of them run.
SPECIFICATION Spec
CONSTANTS
    main = main
    child = child
    sibling = sibling
    m = m
    a = a
    b = b
    Main = main
    Thread <- TwoThreads
    Process <- OneProcess
    ProcOf <- AllInMain
    Leader <- Leads
    ForkMode = FALSE
    Menu <- BigPlanMenu
    MaxCalls = 1
    PlanFirst = TRUE
    Joins = TRUE
    Killable <- NoProcess
INVARIANTS
    ZeroMeansAllRun
