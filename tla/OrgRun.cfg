\* An organization run beside a run for one of its repositories, over two quota windows.
CONSTANTS
    t1 = t1
    t2 = t2
    t3 = t3
    t4 = t4
    o1 = o1
    o2 = o2
    r1 = r1
    r2 = r2
    r3 = r3
    a = a
    b = b
    Idle = Idle
    Miss = Miss
    NoSha = NoSha
    AppCache = AppCache
    Unknown = Unknown
    Tasks <- MCTasks
    Repos <- MCRepos
    Refs <- MCRefs
    ShaOf <- MCShaOf
    Requests <- MCRequests
    Runs <- MCRuns
    RepoRuns <- MCRepoRuns
    Batches <- MCBatches
    MaxBatch = 2
    MaxRepos = 2
    DefaultRetries = 1
    MinRemaining = 1
    Quota = 4
    MaxWindows = 1
SPECIFICATION OrgSpec
INVARIANTS
    OrgTypeOK
    ListingInOrder
    WorkSurvivesFailure
    ThrottleJustified
    RefusalsBounded
PROPERTIES
    RunsEnd
\* The system stops when every request has been served.
CHECK_DEADLOCK FALSE
