----------------------------- MODULE RtcpReports -----------------------------
(***************************************************************************)
(* What RTCP promises for the RTP streams of a media engine, without the   *)
(* timer queue that delivers it: a stream that is enabled sends a report   *)
(* (tx) and polls its RTCP socket (rx) once every interval, exactly, and a *)
(* stream that is disabled does neither.  MediaTimers implements it.       *)
(***************************************************************************)
EXTENDS Integers

CONSTANTS
    Streams,      \* the RTP streams of the media engine
    Interval,     \* the interval of "tx" and of "rx", in msec
    RESOLUTION,   \* the clock of the media engine, in msec
    NoTimer       \* no report is being made

Jobs == Streams \X {"tx", "rx"}

VARIABLES
    state,        \* is the stream enabled
    left,         \* time until a job of an enabled stream is next due
    firing        \* the job that is being run

vars == <<state, left, firing>>

Init ==
    /\ state = [s \in Streams |-> "DISABLED"]
    /\ left = [j \in Jobs |-> 0]
    /\ firing = NoTimer

Enabled(j) == state[j[1]] = "ENABLED"

\* Nothing is due and nothing is being run.
Quiet == firing = NoTimer /\ \A j \in Jobs : Enabled(j) => left[j] > 0

Enable(s) ==
    /\ Quiet
    /\ state[s] = "DISABLED"
    /\ state' = [state EXCEPT ![s] = "ENABLED"]
    /\ left' = [j \in Jobs |-> IF j[1] = s THEN Interval[j[2]] ELSE left[j]]
    /\ UNCHANGED firing

Disable(s) ==
    /\ Quiet
    /\ state[s] = "ENABLED"
    /\ state' = [state EXCEPT ![s] = "DISABLED"]
    /\ left' = [j \in Jobs |-> IF j[1] = s THEN 0 ELSE left[j]]
    /\ UNCHANGED firing

\* The clock of the engine ticks for all enabled streams alike.
Pass ==
    /\ Quiet
    /\ left' = [j \in Jobs |-> IF Enabled(j) THEN left[j] - RESOLUTION ELSE 0]
    /\ UNCHANGED <<state, firing>>

\* A job runs when its interval is over, and starts its next interval.
Run(j) ==
    /\ firing = NoTimer
    /\ Enabled(j)
    /\ left[j] = 0
    /\ firing' = j
    /\ UNCHANGED <<state, left>>

Repeat ==
    /\ firing # NoTimer
    /\ left' = [left EXCEPT ![firing] = Interval[firing[2]]]
    /\ firing' = NoTimer
    /\ UNCHANGED state

Next ==
    \/ \E s \in Streams : Enable(s) \/ Disable(s)
    \/ \E j \in Jobs : Run(j)
    \/ Pass
    \/ Repeat

Spec == Init /\ [][Next]_vars

=============================================================================
