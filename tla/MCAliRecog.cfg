\* The Ali recognizer below a client that waits for a RECOGNIZE to finish.
CONSTANTS
    NULL = NULL
    Methods = {"RECOGNIZE", "STOP"}
    MaxRequests = 3
    OtherParts = 1
    MaxInputs = 0
    MaxResults = 2
    QueuesRecognize = FALSE
    StopLists <- PlainStops
SPECIFICATION AliSpec
CHECK_DEADLOCK FALSE
INVARIANTS
    AliStopSafe
PROPERTIES
    AliStoppedIsSilent
