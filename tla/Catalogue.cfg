\* A client pages, others search, while six entries are stored and stored again.
CONSTANTS
    origin = origin
    fork = fork
    s1 = s1
    s2 = s2
    r1 = r1
    s3 = s3
    NoFilter = NoFilter
    Repos <- RepoAndFork
    Shas <- ThreeShas
    Readers <- OneReader
    Limit = 2
SPECIFICATION Spec
INVARIANTS
    ReadersServed
    StampTells
