\* Two sessions and memory for two connections; the two timeouts are equal, so
\* that no wait is longer than the timeout of a timer set after it.
SPECIFICATION Spec
CONSTANTS
    ch1 = ch1
    ch2 = ch2
    c1 = c1
    c2 = c2
    NoConn = NoConn
    Channels = {ch1, ch2}
    Conns = {c1, c2}
    Timers <- MCTimers
    inactivity_timeout = 2
    termination_timeout = 2
    RESCHEDULE = 4
    WORD = 16

    
    
    
    
PROPERTY
    ClosedIsDestroyed
