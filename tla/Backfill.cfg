\* Two backfills, alone or with a request, that fail or only retry.
CONSTANTS
    b1 = b1
    b2 = b2
    r1 = r1
    Backfills <- TwoBackfills
    Requests <- OneRequest
    MaxHead = 4
    MaxPush = 2
    MaxCommits = 3
    MaxRetries = 1
SPECIFICATION Spec
INVARIANTS
    TypeOK
    NoGapBehindLast
PROPERTIES
    ListedGetsStored
    SelectsDownToLast
\* The system stops when all backfills and requests have ended.
CHECK_DEADLOCK FALSE
