\* Liveness of the threads and of a semaphore used as a lock, with a single rank.
SPECIFICATION SyncFairSpec
CONSTANTS
    main = main
    idle = idle
    t1 = t1
    t2 = t2
    sem = sem
    e1 = e1
    m1 = m1
    c1 = c1
    Null = Null
    Threads <- MCThreads
    Main = main
    Idle = idle
    Queues = {sem}
    Ranks = {0}
    IdleRank = 2
    Criteria <- AllCriteria
    Allow = {}
    Semaphores = {sem}
    Mutexes = {}
    Conditions = {}
    Guards = {sem}
    Initial <- MCInitial
    MaxValue = 2
    Watched = sem
CHECK_DEADLOCK FALSE
INVARIANTS
    GuardsExclude
PROPERTIES
    ReadyThreadsRun
    IdleGivesWay
    LastExitReboots
    GuardsServe
