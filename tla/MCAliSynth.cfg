\* A session speaks twice, with two channels and two workers of the plugin.
CONSTANTS
    NULL = NULL
    s1 = s1
    Sessions <- OneSession
    MaxCh = 2
    QueueSize = 2
    Speeches <- TwoChunks
    Methods = {"SPEAK", "STOP", "PAUSE", "RESUME"}
    MaxSpeaks = 2
SPECIFICATION Spec
CHECK_DEADLOCK FALSE
INVARIANTS
    HeldIsBusy
    AudioInOrder
PROPERTIES
    CompleteForSpeaker
