\* One commit, processed up to twice with different options.
CONSTANTS
    Absent = Absent
    Null = Null
    Payloads <- MCPayloads
    MaxRequests = 2
SPECIFICATION Spec
INVARIANTS
    FiguresAgree
    TypeGrounded
    WellFormedIsStored
PROPERTIES
    ReprocessingKeepsFacts
\* The commit has been processed MaxRequests times.
CHECK_DEADLOCK FALSE
