\* Two streams that come and go; their reports are due every third tick and
\* their polls every second, and the times are shifted down every fourth.
SPECIFICATION Spec
CONSTANTS
    s1 = s1
    s2 = s2
    NoTimer = NoTimer
    Streams = {s1, s2}
    Timers <- MCTimers
    RESOLUTION = 2
    RESCHEDULE = 7
    WORD = 32
    rtcp_tx_interval = 6
    rtcp_rx_resolution = 4
INVARIANTS
    RingSound
PROPERTIES
    
    KeepsReportingUnlessReset
