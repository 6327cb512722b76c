\* A client that may send RECOGNIZE requests ahead, which the server queues.  The
\* session can get stuck then (see the README), so deadlock is not checked.
CONSTANTS
    NULL = NULL
    Methods = {"RECOGNIZE", "STOP", "GET-PARAMS", "DEFINE-GRAMMAR"}
    MaxRequests = 4
    OtherParts = 1
    MaxInputs = 1
    QueuesRecognize = TRUE
    StopLists <- AllStops
SPECIFICATION FairSpec
CHECK_DEADLOCK FALSE
INVARIANTS
    TypeOK
    StopNeedsRecognize
    StopResponseHasRecognize
    AtMostOneResponse
    TerminatedLast
PROPERTIES
    StoppedIsSilent
    RequestsAnswered
    TerminateCompletes
