\* Two branches with a common history, two pages each, pushes between them.
CONSTANTS
    main = main
    dev = dev
    Targets <- TwoBranches
    MaxCommits = 6
    PerPage = 2
    MaxBase = 5
    MaxMade = 8
SPECIFICATION Spec
INVARIANTS
    ResultSound
    BranchPrefixes
PROPERTIES
    WalkEnds
\* The walk is over when the result is there.
CHECK_DEADLOCK FALSE
