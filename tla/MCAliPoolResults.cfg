\* Does a session get the results of its own speech only?
CONSTANTS
    NULL = NULL
    GARBAGE = GARBAGE
    s1 = s1
    s2 = s2
    Sessions <- TwoSessions
    MaxCh = 2
    QueueSize = 1
    MaxStarts = 1
    MaxResults = 1
SYMMETRY SessionSymmetry
SPECIFICATION Spec
CHECK_DEADLOCK FALSE
INVARIANTS
    ResultsOfOwner
