\* Does a batch settle every commit?
CONSTANTS
    t1 = t1
    t2 = t2
    r1 = r1
    r2 = r2
    a = a
    b = b
    short = short
    Idle = Idle
    Miss = Miss
    NoSha = NoSha
    AppCache = AppCache
    Tasks <- MCTasks
    Repos <- MCRepos
    Refs <- MCRefs
    ShaOf <- MCShaOf
    Requests <- MCRequests
    MaxBatch = 3
SPECIFICATION Spec
INVARIANTS
    FailuresRouted
\* The system stops when every request has been served.
CHECK_DEADLOCK FALSE
