\* Safety, under every combination of preemption and time slicing.
SPECIFICATION Spec
CONSTANTS
    main = main
    idle = idle
    t1 = t1
    t2 = t2
    t3 = t3
    q1 = q1
    Null = Null
    Threads <- MCThreads
    Main = main
    Idle = idle
    Queues = {q1}
    Ranks = {0, 1}
    IdleRank = 2
    Criteria <- AllCriteria
    Allow = {}
SYMMETRY MCSymmetry
CHECK_DEADLOCK FALSE
INVARIANTS
    TypeOK
    ReadyListed
    RunningExecutes
    WaitersQueued
    JoinersKnown
    RebootsWhenDone
    ListsSorted
PROPERTIES
    PreemptsForRank
    JoinReturnsAfterExit
