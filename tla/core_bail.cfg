\* A child bails out.
SPECIFICATION Spec
CONSTANTS
    main = main
    child = child
    sibling = sibling
    m = m
    a = a
    b = b
    Main = main
    Thread <- TwoThreads
    Process <- TwoProcesses
    ProcOf <- TwoAndOne
    Leader <- Leads
    ForkMode = TRUE
    Menu <- BailChildMenu
    MaxCalls = 1
    PlanFirst = TRUE
    Joins = TRUE
    Killable <- NoProcess
INVARIANTS
    BailOutFails
