\* Is the shared response cache ever used?
CONSTANTS
    t1 = t1
    t2 = t2
    r1 = r1
    r2 = r2
    a = a
    b = b
    short = short
    Idle = Idle
    Miss = Miss
    NoSha = NoSha
    AppCache = AppCache
    Tasks <- MCTasks
    Repos <- MCRepos
    Refs <- MCRefs
    ShaOf <- MCShaOf
    Requests <- MCRequests
    MaxBatch = 3
SPECIFICATION Spec
PROPERTIES
    SharedCacheUsed
\* The system stops when every request has been served.
CHECK_DEADLOCK FALSE
