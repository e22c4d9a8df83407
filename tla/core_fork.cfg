\* The main process and two children with one thread each; nobody bails out.
SPECIFICATION FairSpec
CONSTANTS
    main = main
    child = child
    sibling = sibling
    m = m
    a = a
    b = b
    Main = main
    Thread <- ThreeThreads
    Process <- ThreeProcesses
    ProcOf <- OneEach
    Leader <- Leads
    ForkMode = TRUE
    Menu <- ForkMenu
    MaxCalls = 2
    PlanFirst = TRUE
    Joins = TRUE
    Killable <- NoProcess
INVARIANTS
    VerdictAgrees
    NoOrphanLock
PROPERTIES
    EventuallyExits
