\* priority() called on the running thread.
SPECIFICATION Spec
CONSTANTS
    main = main
    idle = idle
    t1 = t1
    t2 = t2
    t3 = t3
    q1 = q1
    Null = Null
    Threads <- MCThreads
    Main = main
    Idle = idle
    Queues = {q1}
    Ranks = {0, 1}
    IdleRank = 2
    Criteria <- AllCriteria
    Allow = {"priority_running"}
CHECK_DEADLOCK FALSE
INVARIANTS
    RunningExecutes
