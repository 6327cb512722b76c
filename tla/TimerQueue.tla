----------------------------- MODULE TimerQueue -----------------------------
(***************************************************************************)
(* The timer queue of apr-toolkit (apt_timer_queue.c), used by the media   *)
(* engine for RTCP (MediaTimers) and by every poller task (the connection  *)
(* agents of MRCPv2, ServerConnection and ClientConnection).               *)
(*                                                                         *)
(* A queue is a record: the ring of set timers sorted by scheduled time    *)
(* (head), the time that has elapsed since the queue was last empty or     *)
(* rescheduled, the flag that says that the elapsed time has just been     *)
(* reset, and the scheduled time of each timer, 0 for a timer that is not  *)
(* set.  Times are in units of the caller; they wrap at WORD.              *)
(***************************************************************************)
EXTENDS Integers, Sequences, FiniteSets

CONSTANTS
    Timers,       \* the timers created on the queue
    RESCHEDULE,   \* 0xFFFF: from here on scheduled times are shifted down
    WORD          \* 2^32: scheduled and elapsed times are apr_uint32_t

ASSUME TimerQueueAssumption ==
    /\ RESCHEDULE \in Nat \ {0}
    /\ WORD \in Nat /\ WORD > RESCHEDULE

Queue == [head : Seq(Timers), elapsed_time : 0 .. WORD - 1, reset : BOOLEAN,
          scheduled_time : [Timers -> 0 .. WORD - 1]]

apt_timer_queue_create ==
    [head |-> <<>>, elapsed_time |-> 0, reset |-> FALSE,
     scheduled_time |-> [t \in Timers |-> 0]]

IsEmpty(q) == q.head = <<>>

\* The position of timer t in the ring.
PositionOf(s, t) == CHOOSE i \in 1 .. Len(s) : s[i] = t

\* The ring without its i-th timer.
Unlinked(s, i) ==
    [k \in 1 .. Len(s) - 1 |-> IF k < i THEN s[k] ELSE s[k + 1]]

\* The ring with timer t behind its i-th timer.
Linked(s, i, t) ==
    [k \in 1 .. Len(s) + 1 |->
        IF k <= i THEN s[k] ELSE IF k = i + 1 THEN t ELSE s[k - 1]]

\* The last timer of the ring that is due no later than time.
LastNotAfter(s, scheduled, time) ==
    LET before == {i \in 1 .. Len(s) : scheduled[s[i]] <= time}
    IN  IF before = {} THEN 0
        ELSE CHOOSE i \in before : \A j \in before : j <= i

\* The ring of q holds exactly the timers of S, each once, sorted by
\* scheduled time; the other timers are not set.
RingHolds(q, S) ==
    /\ \A i, j \in 1 .. Len(q.head) :
           i < j => /\ q.head[i] # q.head[j]
                    /\ q.scheduled_time[q.head[i]] <= q.scheduled_time[q.head[j]]
    /\ \A t \in Timers : t \in S <=> \E i \in 1 .. Len(q.head) : q.head[i] = t
    /\ \A t \in Timers \ S : q.scheduled_time[t] = 0

-----------------------------------------------------------------------------
(* Operations *)

\* Removing the last timer resets the elapsed time.
apt_timer_remove(q, t) ==
    LET rest == Unlinked(q.head, PositionOf(q.head, t))
    IN  [head |-> rest,
         elapsed_time |-> IF rest = <<>> THEN 0 ELSE q.elapsed_time,
         reset |-> q.reset \/ rest = <<>>,
         scheduled_time |-> [q.scheduled_time EXCEPT ![t] = 0]]

\* The ring is searched from its end.
apt_timer_insert(q, t, time) ==
    [q EXCEPT !.head = Linked(q.head, LastNotAfter(q.head, q.scheduled_time, time), t),
              !.scheduled_time = [q.scheduled_time EXCEPT ![t] = time]]

apt_timer_set(q, t, timeout) ==
    LET free == IF q.scheduled_time[t] # 0 THEN apt_timer_remove(q, t) ELSE q
    IN  IF timeout = 0 THEN q
        ELSE apt_timer_insert(free, t, (free.elapsed_time + timeout) % WORD)

apt_timer_kill(q, t) ==
    IF q.scheduled_time[t] = 0 THEN q ELSE apt_timer_remove(q, t)

\* Mutant: the elapsed time starts again but the scheduled times are kept.
reschedule_elapsed_only(q) == [q EXCEPT !.elapsed_time = 0]

\* All scheduled times are shifted down by the elapsed time.
apt_timers_reschedule(q) ==
    [q EXCEPT !.scheduled_time =
                  [t \in Timers |-> IF \E i \in 1 .. Len(q.head) : q.head[i] = t
                                    THEN (q.scheduled_time[t] - q.elapsed_time) % WORD
                                    ELSE q.scheduled_time[t]],
              !.elapsed_time = 0]

\* The first part of apt_timer_queue_advance: time passes, unless the queue
\* is empty or its elapsed time has just been reset.
Advances(q) == ~IsEmpty(q) /\ ~q.reset

AdvanceTime(q, elapsed) ==
    LET later == [q EXCEPT !.elapsed_time = (@ + elapsed) % WORD]
    IN  IF later.elapsed_time >= RESCHEDULE THEN apt_timers_reschedule(later)
        ELSE later

\* The second part, a loop: while the first timer is due it is taken off and
\* its procedure is called.
FirstIsDue(q) ==
    ~IsEmpty(q) /\ q.scheduled_time[Head(q.head)] <= q.elapsed_time

TakeFirst(q) ==
    [q EXCEPT !.head = Tail(@), !.scheduled_time[Head(q.head)] = 0]

\* Mutant: the flag is not cleared.
timeout_get_keep_reset(q) == q

\* What a poller task does before it waits: clear the flag, and wait until
\* the first timer is due.
apt_timer_queue_timeout_get(q) == [q EXCEPT !.reset = FALSE]

Timeout(q) == (q.scheduled_time[Head(q.head)] - q.elapsed_time) % WORD

=============================================================================
