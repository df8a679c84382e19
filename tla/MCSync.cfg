\* A semaphore that handlers and threads post, a mutex and a condition.
SPECIFICATION SyncSpec
CONSTANTS
    main = main
    idle = idle
    t1 = t1
    t2 = t2
    sem = sem
    e1 = e1
    m1 = m1
    c1 = c1
    Null = Null
    Threads <- MCThreads
    Main = main
    Idle = idle
    Queues = {e1, m1, c1}
    Ranks = {0, 1}
    IdleRank = 2
    Criteria <- RoundRobin
    Allow = {}
    Semaphores = {e1}
    Mutexes = {m1}
    Conditions = {c1}
    Guards = {}
    Initial <- MCInitial
    MaxValue = 1
    Watched = e1
SYMMETRY MCSymmetry
CHECK_DEADLOCK FALSE
INVARIANTS
    SyncTypeOK
    SemaphoreCounts
    MutexWaitersHaveHolder
PROPERTIES
    FirstComeFirstServed
    SemaphoreIsPool
