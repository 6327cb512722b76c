\* Two sessions share the two channels and resources of the Ali recognizer.
CONSTANTS
    NULL = NULL
    GARBAGE = GARBAGE
    s1 = s1
    s2 = s2
    Sessions <- TwoSessions
    MaxCh = 2
    QueueSize = 1
    MaxStarts = 1
    MaxResults = 1
SYMMETRY SessionSymmetry
SPECIFICATION Spec
CHECK_DEADLOCK FALSE
INVARIANTS
    ChannelsExclusive
    ResourcesExclusive
    NothingLost
    
