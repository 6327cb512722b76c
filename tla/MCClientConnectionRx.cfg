\* The same two sessions; a response that comes after its timeout.
SPECIFICATION Spec
CONSTANTS
    ch1 = ch1
    ch2 = ch2
    c1 = c1
    c2 = c2
    NoConn = NoConn
    Channels = {ch1, ch2}
    Talker = ch1
    Conns = {c1, c2}
    Timers <- MCTimers
    offer_new_connection = FALSE
    request_timeout = 1
    MaxRequests <- MCMaxRequests
    RESCHEDULE = 2
    WORD = 8
PROPERTY
    ResponsesDelivered
