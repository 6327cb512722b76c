----------------------------- MODULE MediaTimers -----------------------------
(***************************************************************************)
(* The RTCP timers of the RTP streams of one media engine, on the engine's *)
(* timer queue.  Everything here runs on the media thread: each tick of    *)
(* the scheduler first processes the requests of the sessions, which       *)
(* enable and disable streams, and every RESOLUTION msec it advances the   *)
(* timer queue.  A timer that elapses sets itself again.                   *)
(***************************************************************************)
EXTENDS TimerQueue

CONSTANTS
    Streams,             \* the RTP streams of the engine
    RESOLUTION,          \* MPF_TIMER_RESOLUTION, in msec
    rtcp_tx_interval,    \* settings of the streams, in msec
    rtcp_rx_resolution,
    NoTimer              \* no timer procedure is running

ASSUME MediaTimersAssumption ==
    /\ Timers = Streams \X {"tx", "rx"}
    /\ NoTimer \notin Timers
    /\ RESOLUTION \in Nat \ {0}
    /\ rtcp_tx_interval \in Nat /\ rtcp_rx_resolution \in Nat
    /\ \E n \in 1 .. rtcp_tx_interval : rtcp_tx_interval = n * RESOLUTION
    /\ \E n \in 1 .. rtcp_rx_resolution : rtcp_rx_resolution = n * RESOLUTION
    /\ RESCHEDULE + RESOLUTION + rtcp_tx_interval + rtcp_rx_resolution < WORD

VARIABLES
    queue,       \* engine->timer_queue
    state,       \* rtp_stream->state
    advancing,   \* the media thread is inside apt_timer_queue_advance
    firing       \* the timer whose procedure it runs there

vars == <<queue, state, advancing, firing>>

Interval == [k \in {"tx", "rx"} |->
                IF k = "tx" THEN rtcp_tx_interval ELSE rtcp_rx_resolution]

Init ==
    /\ queue = apt_timer_queue_create
    /\ state = [s \in Streams |-> "DISABLED"]
    /\ advancing = FALSE
    /\ firing = NoTimer

-----------------------------------------------------------------------------
(* Requests of the sessions: mpf_rtp_stream_modify and _remove *)

SetTimers(q, s) ==
    apt_timer_set(apt_timer_set(q, <<s, "tx">>, rtcp_tx_interval),
                  <<s, "rx">>, rtcp_rx_resolution)

\* Mutant: only the transmission timer is killed.
kill_tx_only(q, s) == apt_timer_kill(q, <<s, "tx">>)

KillTimers(q, s) ==
    apt_timer_kill(apt_timer_kill(q, <<s, "tx">>), <<s, "rx">>)

\* The remote side enables or disables the stream; an enabled stream for
\* which no codec matches is rejected at once, timers and all.
mpf_rtp_stream_media_negotiate(s, remote, matched) ==
    LET updated == CASE state[s] = "DISABLED" /\ remote = "ENABLED" -> SetTimers(queue, s)
                     [] state[s] = "ENABLED" /\ remote = "DISABLED" -> KillTimers(queue, s)
                     [] OTHER -> queue
        rejected == remote = "ENABLED" /\ ~matched
    IN  /\ ~advancing
        /\ queue' = IF rejected THEN KillTimers(updated, s) ELSE updated
        /\ state' = [state EXCEPT ![s] = IF rejected THEN "DISABLED" ELSE remote]
        /\ UNCHANGED <<advancing, firing>>

mpf_rtp_stream_remove(s) ==
    /\ ~advancing
    /\ state[s] = "ENABLED"
    /\ state' = [state EXCEPT ![s] = "DISABLED"]
    /\ queue' = KillTimers(queue, s)
    /\ UNCHANGED <<advancing, firing>>

-----------------------------------------------------------------------------
(* The clock: mpf_engine_timer_proc *)

mpf_engine_timer_proc ==
    /\ ~advancing
    /\ Advances(queue)
    /\ queue' = AdvanceTime(queue, RESOLUTION)
    /\ advancing' = TRUE
    /\ UNCHANGED <<state, firing>>

ProcessTimer ==
    /\ advancing
    /\ firing = NoTimer
    /\ FirstIsDue(queue)
    /\ firing' = Head(queue.head)
    /\ queue' = TakeFirst(queue)
    /\ UNCHANGED <<state, advancing>>

\* Mutant: the timer is not set again.
timer_proc_one_shot ==
    /\ firing # NoTimer
    /\ firing' = NoTimer
    /\ UNCHANGED <<queue, state, advancing>>

\* mpf_rtcp_tx_timer_proc and mpf_rtcp_rx_timer_proc
mpf_rtcp_timer_proc ==
    /\ firing # NoTimer
    /\ queue' = apt_timer_set(queue, firing, Interval[firing[2]])
    /\ firing' = NoTimer
    /\ UNCHANGED <<state, advancing>>

EndAdvance ==
    /\ advancing
    /\ firing = NoTimer
    /\ ~FirstIsDue(queue)
    /\ advancing' = FALSE
    /\ UNCHANGED <<queue, state, firing>>

Clock == mpf_engine_timer_proc \/ ProcessTimer \/ mpf_rtcp_timer_proc \/ EndAdvance

Next ==
    \/ \E s \in Streams :
           \/ \E remote \in {"ENABLED", "DISABLED"}, matched \in BOOLEAN :
                  mpf_rtp_stream_media_negotiate(s, remote, matched)
           \/ mpf_rtp_stream_remove(s)
    \/ Clock

\* The scheduler's thread calls the engine for ever.
Spec == Init /\ [][Next]_vars /\ WF_vars(Clock)

-----------------------------------------------------------------------------
(* Properties *)

TypeOK ==
    /\ queue \in Queue
    /\ state \in [Streams -> {"ENABLED", "DISABLED"}]
    /\ advancing \in BOOLEAN
    /\ firing \in Timers \cup {NoTimer}

EnabledTimers == {t \in Timers : state[t[1]] = "ENABLED"}

\* The ring never holds a timer twice and is sorted by scheduled time, the
\* order apt_timer_queue_advance relies on when it stops at the first timer
\* that is not due; it holds exactly the timers of the enabled streams, apart
\* from the one whose procedure is running.  In particular no timer is lost
\* or overtaken when the scheduled times are shifted down.
RingSound == RingHolds(queue, EnabledTimers \ {firing})

\* The time a timer has left.
Left == [t \in Timers |->
            IF t \in EnabledTimers /\ t # firing
            THEN queue.scheduled_time[t] - queue.elapsed_time ELSE 0]

Reports == INSTANCE RtcpReports WITH left <- Left

\* Every enabled stream makes its reports exactly once per interval of the
\* engine's clock, whatever other streams come and go and whenever the
\* scheduled times are shifted: the timers implement RtcpReports.
ReportsPeriodically == Reports!Spec

\* A stream that stays enabled goes on reporting.
KeepsReporting ==
    \A s \in Streams :
        state[s] = "ENABLED" ~> (firing = <<s, "tx">> \/ state[s] = "DISABLED")

\* It does as long as the queue of the engine never runs empty again: once
\* it has, the flag that says so stops the clock of apt_timer_queue_advance.
KeepsReportingUnlessReset == ([]~queue.reset) => KeepsReporting

=============================================================================
