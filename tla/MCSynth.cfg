\* SPEAK requests are queued, stopped selectively and barged in on.
CONSTANTS
    NULL = NULL
    Methods <- AllMethods
    MaxRequests = 4
    OtherParts = 1
    MaxMarkers = 1
    SpeakMayFail = TRUE
    StopLists <- AllStops
SPECIFICATION Spec
CHECK_DEADLOCK FALSE
INVARIANTS
    StopResponseHasSpeaker
    IdleMeansNoSpeaker
    OneResponse
PROPERTIES
    StoppedSpeakIsSilent
