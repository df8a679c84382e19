\* The mutex lets a second thread in.
SPECIFICATION SyncSpec
CONSTANTS
    main = main
    idle = idle
    t1 = t1
    t2 = t2
    sem = sem
    e1 = e1
    m1 = m1
    c1 = c1
    Null = Null
    Threads <- MCThreads
    Main = main
    Idle = idle
    Queues = {sem, m1}
    Ranks = {0, 1}
    IdleRank = 2
    Criteria <- RoundRobin
    Allow = {}
    Semaphores = {sem}
    Mutexes = {m1}
    Conditions = {}
    Guards = {sem}
    Initial <- MCInitial
    MaxValue = 2
    Watched = sem
SYMMETRY MCSymmetry
CHECK_DEADLOCK FALSE
INVARIANTS
    MutualExclusion
