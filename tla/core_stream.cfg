\* Everybody may bail out, and the child may be killed: then the mutex may stay
\* with the dead and the others wait for ever, so that deadlock is not checked.
SPECIFICATION Spec
CONSTANTS
    main = main
    child = child
    sibling = sibling
    m = m
    a = a
    b = b
    Main = main
    Thread <- ThreeThreads
    Process <- TwoProcesses
    ProcOf <- TwoAndOne
    Leader <- Leads
    ForkMode = TRUE
    Menu <- BailMenu
    MaxCalls = 2
    PlanFirst = TRUE
    Joins = TRUE
    Killable <- OnlyChild
INVARIANTS
    NumberedInOrder
    CountersMatchStream
    OnlyBailTears
PROPERTIES
    ImplementsStream
CHECK_DEADLOCK FALSE
