\* A mandatory test fails in a child.
SPECIFICATION FairSpec
CONSTANTS
    main = main
    child = child
    sibling = sibling
    m = m
    a = a
    b = b
    Main = main
    Thread <- TwoThreads
    Process <- TwoProcesses
    ProcOf <- TwoAndOne
    Leader <- Leads
    ForkMode = TRUE
    Menu <- MustChildMenu
    MaxCalls = 1
    PlanFirst = TRUE
    Joins = TRUE
    Killable <- NoProcess
PROPERTIES
    BailOutStops
CHECK_DEADLOCK FALSE
