\* The demo plugin below a client that may send RECOGNIZE requests ahead.
CONSTANTS
    NULL = NULL
    Methods = {"RECOGNIZE", "STOP", "START-INPUT-TIMERS", "GET-RESULT"}
    MaxRequests = 3
    OtherParts = 1
    MaxInputs = 1
    QueuesRecognize = TRUE
    StopLists <- AllStops
SPECIFICATION Spec
CHECK_DEADLOCK FALSE
INVARIANTS
    EventsForWork
PROPERTIES
    ImplementsAnyEngine
