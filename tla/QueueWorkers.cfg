\* The queue class under concurrent workers: three jobs, two retries each.
CONSTANTS
    j1 = j1
    j2 = j2
    j3 = j3
    Jobs <- MCJobs
    MaxRetries = 2
SPECIFICATION Spec
INVARIANTS
    Accounted
    Budget
PROPERTIES
    EverySettled
    KeepsContract
\* Every job settled is a proper end: the workers find the queue empty.
CHECK_DEADLOCK FALSE
