-------------------------- MODULE MediaTimersProofs --------------------------
(***************************************************************************)
(* Proofs about the RTCP timers, for every number of streams, every        *)
(* interval that is a multiple of the clock's resolution and every width   *)
(* of the time counters: the ring stays sound, and the timers implement    *)
(* RtcpReports.                                                            *)
(***************************************************************************)
EXTENDS MediaTimers, TimerQueueProofs

\* The time a set timer of queue q has left.
LeftIn(q, t) == q.scheduled_time[t] - q.elapsed_time

\* A multiple of the clock's resolution.
OnGrid(n) == \E k \in 0 .. n : n = k * RESOLUTION

\* Queue q holds the timers of S, and each has between low and its interval
\* left, a whole number of ticks.  The last part is what makes the ring
\* invariant inductive: no timer is overdue when the times are shifted down.
Sound(q, S, low) ==
    /\ q \in Queue
    /\ RingHolds(q, S)
    /\ q.elapsed_time < RESCHEDULE
    /\ \A t \in S : /\ OnGrid(LeftIn(q, t))
                    /\ low <= LeftIn(q, t) /\ LeftIn(q, t) <= Interval[t[2]]

\* The inductive invariant.  Outside apt_timer_queue_advance nothing is due.
IInv ==
    /\ state \in [Streams -> {"ENABLED", "DISABLED"}]
    /\ advancing \in BOOLEAN
    /\ firing \in Timers \cup {NoTimer}
    /\ Sound(queue, EnabledTimers \ {firing}, IF advancing THEN 0 ELSE 1)
    /\ firing # NoTimer => advancing /\ firing \in EnabledTimers

-----------------------------------------------------------------------------
(* Ticks *)

\* The intervals are whole numbers of ticks, and fit in a word with any time.
LEMMA IntervalProperties ==
    ASSUME NEW t \in Timers
    PROVE  /\ Interval[t[2]] \in Nat \ {0}
           /\ OnGrid(Interval[t[2]])
           /\ \A e \in Nat : e < RESCHEDULE => e + Interval[t[2]] < WORD
  <1>1. t[2] \in {"tx", "rx"}
    BY MediaTimersAssumption
  <1>2. Interval[t[2]] \in {rtcp_tx_interval, rtcp_rx_resolution}
    BY <1>1 DEF Interval
  <1>3. ASSUME NEW n \in {rtcp_tx_interval, rtcp_rx_resolution}
        PROVE  n \in Nat \ {0} /\ \E k \in 1 .. n : n = k * RESOLUTION
    BY MediaTimersAssumption
  <1>4. \A e \in Nat : e < RESCHEDULE => e + Interval[t[2]] < WORD
    BY <1>2, MediaTimersAssumption, TimerQueueAssumption
  <1> QED
    BY <1>2, <1>3, <1>4 DEF OnGrid

\* A tick takes a timer that is not due to a time at which it is not overdue.
LEMMA GridStep ==
    ASSUME NEW n \in Nat, OnGrid(n), n > 0
    PROVE  n - RESOLUTION \in Nat /\ OnGrid(n - RESOLUTION)
  <1>1. PICK k \in 0 .. n : n = k * RESOLUTION
    BY DEF OnGrid
  <1>2. RESOLUTION \in Nat \ {0} /\ k \in Nat
    BY MediaTimersAssumption
  <1>3. k # 0
    BY <1>1, <1>2
  <1>4. k - 1 \in Nat /\ n - RESOLUTION = (k - 1) * RESOLUTION
    BY <1>1, <1>2, <1>3
  <1>5. \A a, b \in Nat : b # 0 => a * b \in Nat /\ a <= a * b
    OBVIOUS
  <1>6. n - RESOLUTION \in Nat /\ k - 1 <= n - RESOLUTION
    BY <1>2, <1>4, <1>5
  <1> QED
    BY <1>4, <1>6 DEF OnGrid

-----------------------------------------------------------------------------
(* Setting and killing *)

\* Setting a timer that is not set gives it its whole interval and leaves the
\* others alone.
LEMMA SetSound ==
    ASSUME NEW q, NEW S \in SUBSET Timers, NEW low \in {0, 1}, Sound(q, S, low),
           NEW t \in Timers \ S
    PROVE  LET r == apt_timer_set(q, t, Interval[t[2]])
           IN  /\ Sound(r, S \cup {t}, low)
               /\ LeftIn(r, t) = Interval[t[2]]
               /\ \A u \in S : LeftIn(r, u) = LeftIn(q, u)
  <1> DEFINE n == Interval[t[2]]
             r == apt_timer_set(q, t, n)
  <1>1. n \in Nat \ {0} /\ OnGrid(n) /\ \A e \in Nat : e < RESCHEDULE => e + n < WORD
    BY IntervalProperties
  <1>2. q \in Queue /\ RingHolds(q, S) /\ q.elapsed_time \in Nat
        /\ q.elapsed_time < RESCHEDULE /\ q.elapsed_time + n < WORD
        /\ q.scheduled_time \in [Timers -> Nat]
    <2>1. q \in Queue /\ RingHolds(q, S) /\ q.elapsed_time < RESCHEDULE
      BY DEF Sound
    <2>2. q.elapsed_time \in Nat /\ q.scheduled_time \in [Timers -> Nat]
      BY <2>1, TimerQueueAssumption DEF Queue
    <2> QED
      BY <1>1, <2>1, <2>2
  <1> HIDE DEF n
  <1>3. /\ r \in Queue
        /\ RingHolds(r, S \cup {t})
        /\ r.elapsed_time = q.elapsed_time
        /\ r.scheduled_time = [q.scheduled_time EXCEPT ![t] = q.elapsed_time + n]
    BY <1>1, <1>2, SetProperties
  <1> HIDE DEF r
  <1>4. LeftIn(r, t) = n
    BY <1>1, <1>2, <1>3 DEF LeftIn
  <1>5. \A u \in S : LeftIn(r, u) = LeftIn(q, u)
    BY <1>2, <1>3 DEF LeftIn
  <1>6. ASSUME NEW u \in S \cup {t}
        PROVE  /\ OnGrid(LeftIn(r, u))
               /\ low <= LeftIn(r, u) /\ LeftIn(r, u) <= Interval[u[2]]
    <2>1. CASE u = t
      BY <1>1, <1>4, <2>1 DEF n
    <2>2. CASE u \in S
      BY <1>5, <2>2 DEF Sound
    <2> QED
      BY <2>1, <2>2
  <1>7. Sound(r, S \cup {t}, low)
    BY <1>2, <1>3, <1>6 DEF Sound
  <1> QED
    BY <1>4, <1>5, <1>7 DEF r, n

\* Killing a timer leaves the others alone.
LEMMA KillSound ==
    ASSUME NEW q, NEW S \in SUBSET Timers, Sound(q, S, 1), NEW t \in Timers
    PROVE  LET r == apt_timer_kill(q, t)
           IN  /\ Sound(r, S \ {t}, 1)
               /\ \A u \in S \ {t} : LeftIn(r, u) = LeftIn(q, u)
  <1> DEFINE r == apt_timer_kill(q, t)
  <1>1. q \in Queue /\ RingHolds(q, S) /\ q.elapsed_time \in Nat
        /\ q.elapsed_time < RESCHEDULE /\ q.scheduled_time \in [Timers -> Nat]
    BY TimerQueueAssumption DEF Sound, Queue
  <1>2. \A u \in S : q.scheduled_time[u] # 0
    <2>1. ASSUME NEW u \in S
          PROVE  q.scheduled_time[u] # 0
      <3>1. 1 <= q.scheduled_time[u] - q.elapsed_time
        BY DEF Sound, LeftIn
      <3> QED
        BY <1>1, <3>1
    <2> QED
      BY <2>1
  <1>3. /\ r \in Queue
        /\ RingHolds(r, S \ {t})
        /\ S \ {t} # {} => r.elapsed_time = q.elapsed_time
        /\ r.elapsed_time \in {0, q.elapsed_time}
        /\ r.scheduled_time = [q.scheduled_time EXCEPT ![t] = 0]
    BY <1>1, <1>2, KillProperties
  <1> HIDE DEF r
  <1>4. \A u \in S \ {t} : LeftIn(r, u) = LeftIn(q, u)
    BY <1>1, <1>3 DEF LeftIn
  <1>5. r.elapsed_time < RESCHEDULE
    BY <1>1, <1>3, TimerQueueAssumption
  <1>6. Sound(r, S \ {t}, 1)
    BY <1>3, <1>4, <1>5 DEF Sound
  <1> QED
    BY <1>4, <1>6 DEF r

\* The two timers of stream s.
TimersOf(s) == {<<s, "tx">>, <<s, "rx">>}

\* Enabling a stream sets its timers.
LEMMA SetTimersSound ==
    ASSUME NEW q, NEW S \in SUBSET Timers, NEW s \in Streams,
           Sound(q, S, 1), S \cap TimersOf(s) = {}
    PROVE  LET r == SetTimers(q, s)
           IN  /\ Sound(r, S \cup TimersOf(s), 1)
               /\ \A t \in TimersOf(s) : LeftIn(r, t) = Interval[t[2]]
               /\ \A u \in S : LeftIn(r, u) = LeftIn(q, u)
  <1> DEFINE tx == <<s, "tx">>
             rx == <<s, "rx">>
             p == apt_timer_set(q, tx, Interval["tx"])
             r == apt_timer_set(p, rx, Interval["rx"])
  <1>1. tx \in Timers \ S /\ rx \in Timers \ S /\ tx # rx
        /\ tx[2] = "tx" /\ rx[2] = "rx"
    BY MediaTimersAssumption DEF TimersOf
  <1>2. SetTimers(q, s) = r
    BY DEF SetTimers, Interval
  <1>3. /\ Sound(p, S \cup {tx}, 1)
        /\ LeftIn(p, tx) = Interval["tx"]
        /\ \A u \in S : LeftIn(p, u) = LeftIn(q, u)
    <2> HIDE DEF tx
    <2> QED
      BY <1>1, SetSound DEF p
  <1>4. /\ Sound(r, (S \cup {tx}) \cup {rx}, 1)
        /\ LeftIn(r, rx) = Interval["rx"]
        /\ \A u \in S \cup {tx} : LeftIn(r, u) = LeftIn(p, u)
    <2>1. rx \in Timers \ (S \cup {tx}) /\ S \cup {tx} \in SUBSET Timers
      BY <1>1
    <2> HIDE DEF rx, tx, p
    <2> QED
      BY SMTT(30), <1>1, <1>3, <2>1, SetSound DEF r
  <1>5. (S \cup {tx}) \cup {rx} = S \cup TimersOf(s)
    BY DEF TimersOf
  <1> HIDE DEF p, r
  <1> QED
    BY Zenon, <1>1, <1>2, <1>3, <1>4, <1>5 DEF TimersOf

\* Disabling it kills them.
LEMMA KillTimersSound ==
    ASSUME NEW q, NEW S \in SUBSET Timers, NEW s \in Streams, Sound(q, S, 1)
    PROVE  LET r == KillTimers(q, s)
           IN  /\ Sound(r, S \ TimersOf(s), 1)
               /\ \A u \in S \ TimersOf(s) : LeftIn(r, u) = LeftIn(q, u)
  <1> DEFINE tx == <<s, "tx">>
             rx == <<s, "rx">>
             p == apt_timer_kill(q, tx)
             r == apt_timer_kill(p, rx)
  <1>1. tx \in Timers /\ rx \in Timers
    BY MediaTimersAssumption
  <1>2. KillTimers(q, s) = r
    BY DEF KillTimers
  <1>3. Sound(p, S \ {tx}, 1) /\ \A u \in S \ {tx} : LeftIn(p, u) = LeftIn(q, u)
    <2> HIDE DEF tx
    <2> QED
      BY <1>1, KillSound DEF p
  <1>4. /\ Sound(r, (S \ {tx}) \ {rx}, 1)
        /\ \A u \in (S \ {tx}) \ {rx} : LeftIn(r, u) = LeftIn(p, u)
    <2>1. S \ {tx} \in SUBSET Timers
      OBVIOUS
    <2> HIDE DEF rx, tx, p
    <2> QED
      BY <1>1, <1>3, <2>1, KillSound DEF r
  <1>5. (S \ {tx}) \ {rx} = S \ TimersOf(s)
    BY DEF TimersOf
  <1> HIDE DEF p, r, tx, rx
  <1> QED
    BY <1>2, <1>3, <1>4, <1>5

-----------------------------------------------------------------------------
(* One lemma per action: it keeps the invariant, and is a step of RtcpReports *)

\* Outside the clock's procedure the ring holds the timers of all enabled
\* streams, and nothing is due.
LEMMA QuietProperties ==
    ASSUME IInv, ~advancing
    PROVE  /\ firing = NoTimer
           /\ EnabledTimers \ {firing} = EnabledTimers
           /\ Sound(queue, EnabledTimers, 1)
           /\ Reports!Quiet
           /\ Left = [t \in Timers |-> IF t \in EnabledTimers THEN LeftIn(queue, t) ELSE 0]
  <1>1. firing = NoTimer /\ firing \notin Timers
    BY MediaTimersAssumption DEF IInv
  <1>2. EnabledTimers \ {firing} = EnabledTimers
    BY <1>1 DEF EnabledTimers
  <1>3. Sound(queue, EnabledTimers, 1)
    BY <1>2 DEF IInv
  <1>4. Left = [t \in Timers |-> IF t \in EnabledTimers THEN LeftIn(queue, t) ELSE 0]
    BY <1>1 DEF Left, LeftIn
  <1>5. \A t \in EnabledTimers : LeftIn(queue, t) \in Int /\ LeftIn(queue, t) > 0
    <2>1. \A t \in EnabledTimers : 1 <= LeftIn(queue, t)
      BY <1>3 DEF Sound
    <2>2. \A t \in Timers : queue.scheduled_time[t] \in Int /\ queue.elapsed_time \in Int
      BY <1>3, TimerQueueAssumption DEF Sound, Queue
    <2> QED
      BY <2>1, <2>2 DEF LeftIn, EnabledTimers
  <1>6. Reports!Quiet
    BY <1>1, <1>4, <1>5, MediaTimersAssumption
       DEF Reports!Quiet, Reports!Jobs, Reports!Enabled, EnabledTimers
  <1> QED
    BY <1>1, <1>2, <1>3, <1>4, <1>6

\* A stream that is enabled is an Enable of RtcpReports.
LEMMA EnableStep ==
    ASSUME IInv, NEW s \in Streams, ~advancing, state[s] = "DISABLED",
           queue' = SetTimers(queue, s),
           state' = [state EXCEPT ![s] = "ENABLED"],
           UNCHANGED <<advancing, firing>>
    PROVE  IInv' /\ Reports!Enable(s)
  <1>1. /\ firing = NoTimer
        /\ EnabledTimers \ {firing} = EnabledTimers
        /\ Sound(queue, EnabledTimers, 1)
        /\ Reports!Quiet
        /\ Left = [t \in Timers |-> IF t \in EnabledTimers THEN LeftIn(queue, t) ELSE 0]
    BY QuietProperties
  <1>2. state \in [Streams -> {"ENABLED", "DISABLED"}]
    BY DEF IInv
  <1>3. /\ EnabledTimers' = EnabledTimers \cup TimersOf(s)
        /\ EnabledTimers \cap TimersOf(s) = {}
        /\ EnabledTimers \in SUBSET Timers
        /\ TimersOf(s) = {t \in Timers : t[1] = s}
    BY <1>2, MediaTimersAssumption DEF EnabledTimers, TimersOf
  <1>4. /\ Sound(queue', EnabledTimers', 1)
        /\ \A t \in TimersOf(s) : LeftIn(queue', t) = Interval[t[2]]
        /\ \A u \in EnabledTimers : LeftIn(queue', u) = LeftIn(queue, u)
    <2>1. /\ Sound(queue', EnabledTimers \cup TimersOf(s), 1)
          /\ \A t \in TimersOf(s) : LeftIn(queue', t) = Interval[t[2]]
          /\ \A u \in EnabledTimers : LeftIn(queue', u) = LeftIn(queue, u)
      <3> DEFINE E == EnabledTimers
      <3>1. E \in SUBSET Timers /\ E \cap TimersOf(s) = {} /\ Sound(queue, E, 1)
        BY <1>1, <1>3
      <3> HIDE DEF E
      <3>2. /\ Sound(SetTimers(queue, s), E \cup TimersOf(s), 1)
            /\ \A t \in TimersOf(s) : LeftIn(SetTimers(queue, s), t) = Interval[t[2]]
            /\ \A u \in E : LeftIn(SetTimers(queue, s), u) = LeftIn(queue, u)
        BY <3>1, SetTimersSound
      <3> QED
        BY <3>2 DEF E
    <2> QED
      BY <1>3, <2>1
  <1>5. firing' = NoTimer /\ NoTimer \notin Timers /\ advancing' = advancing
    BY <1>1, MediaTimersAssumption
  <1>6. IInv'
    <2>1. EnabledTimers' \ {firing'} = EnabledTimers'
      BY <1>5 DEF EnabledTimers
    <2> QED
      BY <1>2, <1>4, <1>5, <2>1 DEF IInv
  <1>7. Left' = [t \in Timers |-> IF t \in EnabledTimers' THEN LeftIn(queue', t) ELSE 0]
    BY <1>5 DEF Left, LeftIn
  <1>8. Left' = [t \in Timers |-> IF t[1] = s THEN Interval[t[2]] ELSE Left[t]]
    BY <1>1, <1>3, <1>4, <1>7
  <1>9. Reports!Enable(s)
    BY <1>1, <1>8, MediaTimersAssumption DEF Reports!Enable, Reports!Jobs
  <1> QED
    BY <1>6, <1>9

\* A stream that is disabled is a Disable of RtcpReports.
LEMMA DisableStep ==
    ASSUME IInv, NEW s \in Streams, ~advancing, state[s] = "ENABLED",
           queue' = KillTimers(queue, s),
           state' = [state EXCEPT ![s] = "DISABLED"],
           UNCHANGED <<advancing, firing>>
    PROVE  IInv' /\ Reports!Disable(s)
  <1>1. /\ firing = NoTimer
        /\ EnabledTimers \ {firing} = EnabledTimers
        /\ Sound(queue, EnabledTimers, 1)
        /\ Reports!Quiet
        /\ Left = [t \in Timers |-> IF t \in EnabledTimers THEN LeftIn(queue, t) ELSE 0]
    BY QuietProperties
  <1>2. state \in [Streams -> {"ENABLED", "DISABLED"}]
    BY DEF IInv
  <1>3. /\ EnabledTimers' = EnabledTimers \ TimersOf(s)
        /\ EnabledTimers \in SUBSET Timers
        /\ TimersOf(s) = {t \in Timers : t[1] = s}
    BY <1>2, MediaTimersAssumption DEF EnabledTimers, TimersOf
  <1>4. /\ Sound(queue', EnabledTimers', 1)
        /\ \A u \in EnabledTimers' : LeftIn(queue', u) = LeftIn(queue, u)
    BY <1>1, <1>3, KillTimersSound
  <1>5. firing' = NoTimer /\ NoTimer \notin Timers /\ advancing' = advancing
    BY <1>1, MediaTimersAssumption
  <1>6. IInv'
    <2>1. EnabledTimers' \ {firing'} = EnabledTimers'
      BY <1>5 DEF EnabledTimers
    <2> QED
      BY <1>2, <1>4, <1>5, <2>1 DEF IInv
  <1>7. Left' = [t \in Timers |-> IF t \in EnabledTimers' THEN LeftIn(queue', t) ELSE 0]
    BY <1>5 DEF Left, LeftIn
  <1>8. Left' = [t \in Timers |-> IF t[1] = s THEN 0 ELSE Left[t]]
    BY <1>1, <1>3, <1>4, <1>7
  <1>9. Reports!Disable(s)
    BY <1>1, <1>8, MediaTimersAssumption DEF Reports!Disable, Reports!Jobs
  <1> QED
    BY <1>6, <1>9

\* A stream enabled and rejected at once is never seen enabled.
LEMMA RejectStep ==
    ASSUME IInv, NEW s \in Streams, ~advancing, state[s] = "DISABLED",
           queue' = KillTimers(SetTimers(queue, s), s),
           state' = state,
           UNCHANGED <<advancing, firing>>
    PROVE  IInv' /\ UNCHANGED Reports!vars
  <1> DEFINE set == SetTimers(queue, s)
             S == EnabledTimers \cup TimersOf(s)
  <1>1. /\ firing = NoTimer
        /\ Sound(queue, EnabledTimers, 1)
        /\ Left = [t \in Timers |-> IF t \in EnabledTimers THEN LeftIn(queue, t) ELSE 0]
    BY QuietProperties
  <1>2. EnabledTimers' = EnabledTimers
    BY DEF EnabledTimers
  <1>3. /\ EnabledTimers \cap TimersOf(s) = {}
        /\ EnabledTimers \in SUBSET Timers
        /\ S \in SUBSET Timers
        /\ S \ TimersOf(s) = EnabledTimers
    BY MediaTimersAssumption DEF EnabledTimers, TimersOf, IInv
  <1>4. Sound(set, S, 1) /\ \A u \in EnabledTimers : LeftIn(set, u) = LeftIn(queue, u)
    BY <1>1, <1>3, SetTimersSound
  <1>5. /\ Sound(queue', EnabledTimers, 1)
        /\ \A u \in EnabledTimers : LeftIn(queue', u) = LeftIn(set, u)
    <2>1. queue' = KillTimers(set, s)
      OBVIOUS
    <2> HIDE DEF set, S
    <2> QED
      BY <1>3, <1>4, <2>1, KillTimersSound
  <1>6. firing' = NoTimer /\ NoTimer \notin Timers /\ advancing' = advancing
    BY <1>1, MediaTimersAssumption
  <1>7. EnabledTimers' \ {firing'} = EnabledTimers
    BY <1>2, <1>3, <1>6
  <1> HIDE DEF set, S
  <1>8. IInv'
    BY <1>5, <1>6, <1>7 DEF IInv
  <1>9. Left' = [t \in Timers |-> IF t \in EnabledTimers THEN LeftIn(queue', t) ELSE 0]
    BY <1>2, <1>6 DEF Left, LeftIn
  <1>10. Left' = Left
    BY <1>1, <1>4, <1>5, <1>9
  <1> QED
    BY <1>8, <1>10 DEF Reports!vars

\* The clock ticks: no timer is skipped, because each has a whole tick left.
LEMMA PassStep ==
    ASSUME IInv, mpf_engine_timer_proc
    PROVE  IInv' /\ Reports!Pass
  <1> DEFINE E == EnabledTimers
  <1>1. /\ firing = NoTimer
        /\ Sound(queue, E, 1)
        /\ Reports!Quiet
        /\ Left = [t \in Timers |-> IF t \in E THEN LeftIn(queue, t) ELSE 0]
    BY QuietProperties DEF mpf_engine_timer_proc
  <1>2. /\ queue' = AdvanceTime(queue, RESOLUTION)
        /\ advancing' = TRUE
        /\ UNCHANGED <<state, firing>>
        /\ E' = E /\ E \in SUBSET Timers
    BY DEF mpf_engine_timer_proc, EnabledTimers
  <1>3. /\ RESOLUTION \in Nat \ {0} /\ firing' = NoTimer /\ NoTimer \notin Timers
        /\ queue \in Queue /\ RingHolds(queue, E)
        /\ queue.elapsed_time \in Nat /\ queue.elapsed_time + RESOLUTION < WORD
        /\ queue.scheduled_time \in [Timers -> Nat]
    <2>1. queue \in Queue /\ RingHolds(queue, E) /\ queue.elapsed_time < RESCHEDULE
      BY <1>1 DEF Sound
    <2>2. queue.elapsed_time \in Nat /\ queue.scheduled_time \in [Timers -> Nat]
      BY <2>1, TimerQueueAssumption DEF Queue
    <2> QED
      BY <1>1, <1>2, <2>1, <2>2, MediaTimersAssumption, TimerQueueAssumption
  <1>4. ASSUME NEW u \in E
        PROVE  /\ LeftIn(queue, u) - RESOLUTION \in Nat
               /\ OnGrid(LeftIn(queue, u) - RESOLUTION)
               /\ LeftIn(queue, u) - RESOLUTION <= Interval[u[2]]
               /\ queue.scheduled_time[u] >= queue.elapsed_time + RESOLUTION
    <2>1. /\ OnGrid(LeftIn(queue, u))
          /\ 1 <= LeftIn(queue, u) /\ LeftIn(queue, u) <= Interval[u[2]]
      BY <1>1 DEF Sound
    <2>2. LeftIn(queue, u) \in Nat /\ LeftIn(queue, u) > 0 /\ Interval[u[2]] \in Nat
      BY <1>2, <1>3, <2>1, IntervalProperties DEF LeftIn
    <2>3. LeftIn(queue, u) - RESOLUTION \in Nat /\ OnGrid(LeftIn(queue, u) - RESOLUTION)
      BY <2>1, <2>2, GridStep
    <2>4. LeftIn(queue, u) - RESOLUTION <= Interval[u[2]]
      BY <1>3, <2>1, <2>2
    <2>5. queue.scheduled_time[u] >= queue.elapsed_time + RESOLUTION
      BY <1>2, <1>3, <2>3 DEF LeftIn
    <2> QED
      BY <2>3, <2>4, <2>5
  <1> HIDE DEF E
  <1>5. /\ queue' \in Queue
        /\ RingHolds(queue', E)
        /\ queue'.elapsed_time < RESCHEDULE
        /\ \A u \in E : LeftIn(queue', u) = LeftIn(queue, u) - RESOLUTION
    <2> DEFINE r == AdvanceTime(queue, RESOLUTION)
    <2>1. /\ r \in Queue
          /\ RingHolds(r, E)
          /\ r.elapsed_time < RESCHEDULE
          /\ \A u \in E : r.scheduled_time[u] - r.elapsed_time
                              = queue.scheduled_time[u] - queue.elapsed_time - RESOLUTION
      BY <1>2, <1>3, <1>4, AdvanceTimeProperties
    <2> HIDE DEF r
    <2>2. queue' = r
      BY <1>2 DEF r
    <2> QED
      BY <2>1, <2>2 DEF LeftIn
  <1>6. Sound(queue', E, 0)
    BY <1>4, <1>5 DEF Sound
  <1>7. IInv'
    <2>1. E' \ {firing'} = E
      BY <1>2, <1>3
    <2>2. state' \in [Streams -> {"ENABLED", "DISABLED"}]
      BY <1>2 DEF IInv
    <2> QED
      BY Zenon, <1>2, <1>3, <1>6, <2>1, <2>2 DEF IInv, E
  <1>8. Left' = [t \in Timers |-> IF t \in E THEN LeftIn(queue', t) ELSE 0]
    BY <1>2, <1>3 DEF Left, LeftIn, E
  <1>9. Left' = [t \in Timers |-> IF t \in E THEN Left[t] - RESOLUTION ELSE 0]
    BY <1>1, <1>2, <1>5, <1>8
  <1>10. Reports!Pass
    BY <1>1, <1>2, <1>9, MediaTimersAssumption
       DEF Reports!Pass, Reports!Jobs, Reports!Enabled, E, EnabledTimers
  <1> QED
    BY <1>7, <1>10

\* The first timer of the ring is taken when it has nothing left.
LEMMA RunStep ==
    ASSUME IInv, ProcessTimer
    PROVE  IInv' /\ \E j \in Reports!Jobs : Reports!Run(j)
  <1> DEFINE E == EnabledTimers
             f == Head(queue.head)
  <1>1. /\ advancing /\ firing = NoTimer /\ NoTimer \notin Timers
        /\ ~IsEmpty(queue) /\ queue.scheduled_time[f] <= queue.elapsed_time
        /\ firing' = f /\ queue' = TakeFirst(queue)
        /\ UNCHANGED <<state, advancing>>
        /\ E' = E /\ E \in SUBSET Timers
    BY MediaTimersAssumption DEF ProcessTimer, FirstIsDue, EnabledTimers
  <1>2. Sound(queue, E, 0)
    <2>1. E \ {firing} = E
      BY <1>1
    <2> QED
      BY <1>1, <2>1 DEF IInv
  <1>3. queue \in Queue /\ RingHolds(queue, E) /\ queue.elapsed_time < RESCHEDULE
        /\ queue.elapsed_time \in Nat /\ queue.scheduled_time \in [Timers -> Nat]
    BY <1>2, TimerQueueAssumption DEF Sound, Queue
  <1> HIDE DEF E
  <1>4. /\ f \in E
        /\ queue' \in Queue
        /\ RingHolds(queue', E \ {f})
        /\ queue'.elapsed_time = queue.elapsed_time
        /\ queue'.scheduled_time = [queue.scheduled_time EXCEPT ![f] = 0]
    BY Zenon, <1>1, <1>3, TakeFirstProperties
  <1> HIDE DEF f
  <1>5. \A u \in E \ {f} : LeftIn(queue', u) = LeftIn(queue, u)
    BY <1>1, <1>3, <1>4 DEF LeftIn
  <1>6. Sound(queue', E \ {f}, 0)
    BY <1>2, <1>3, <1>4, <1>5 DEF Sound
  <1>7. IInv'
    <2>1. state' \in [Streams -> {"ENABLED", "DISABLED"}]
      BY <1>1 DEF IInv
    <2>2. E' \ {firing'} = E \ {f} /\ firing' \in E' /\ firing' \in Timers
      BY <1>1, <1>4
    <2> QED
      BY <1>1, <1>6, <2>1, <2>2 DEF IInv, E
  <1>8. LeftIn(queue, f) = 0
    <2>1. 0 <= LeftIn(queue, f)
      BY <1>2, <1>4 DEF Sound
    <2> QED
      BY <1>1, <1>3, <1>4, <2>1 DEF LeftIn
  <1>9. Left = [t \in Timers |-> IF t \in E THEN LeftIn(queue, t) ELSE 0]
    BY <1>1 DEF Left, LeftIn, E
  <1>10. Left' = [t \in Timers |-> IF t \in E /\ t # f THEN LeftIn(queue', t) ELSE 0]
    BY <1>1 DEF Left, LeftIn, E
  <1>11. Left' = Left
    BY <1>5, <1>8, <1>9, <1>10
  <1>12. f \in Reports!Jobs /\ Reports!Run(f)
    <2>1. f \in Timers /\ state[f[1]] = "ENABLED" /\ Left[f] = 0
      BY <1>1, <1>4, <1>8, <1>9 DEF E, EnabledTimers
    <2> QED
      BY <1>1, <1>11, <2>1, MediaTimersAssumption
         DEF Reports!Run, Reports!Jobs, Reports!Enabled
  <1> QED
    BY <1>7, <1>12

\* The procedure of a timer sets it again for a whole interval.
LEMMA RepeatStep ==
    ASSUME IInv, mpf_rtcp_timer_proc
    PROVE  IInv' /\ Reports!Repeat
  <1> DEFINE E == EnabledTimers
             S == E \ {firing}
  <1>1. /\ firing # NoTimer /\ advancing /\ firing \in E /\ firing \in Timers
        /\ NoTimer \notin Timers
        /\ queue' = apt_timer_set(queue, firing, Interval[firing[2]])
        /\ firing' = NoTimer
        /\ UNCHANGED <<state, advancing>>
        /\ E' = E /\ E \in SUBSET Timers
    BY MediaTimersAssumption DEF mpf_rtcp_timer_proc, IInv, EnabledTimers
  <1>2. Sound(queue, S, 0)
    BY <1>1 DEF IInv
  <1>3. S \in SUBSET Timers /\ firing \in Timers \ S /\ S \cup {firing} = E
    BY <1>1
  <1> HIDE DEF S, E
  <1>4. /\ Sound(queue', E, 0)
        /\ LeftIn(queue', firing) = Interval[firing[2]]
        /\ \A u \in S : LeftIn(queue', u) = LeftIn(queue, u)
    <2> DEFINE r == apt_timer_set(queue, firing, Interval[firing[2]])
    <2>1. /\ Sound(r, S \cup {firing}, 0)
          /\ LeftIn(r, firing) = Interval[firing[2]]
          /\ \A u \in S : LeftIn(r, u) = LeftIn(queue, u)
      BY <1>2, <1>3, SetSound
    <2> HIDE DEF r
    <2>2. queue' = r
      BY <1>1 DEF r
    <2> QED
      BY <1>3, <2>1, <2>2
  <1>5. IInv'
    <2>1. state' \in [Streams -> {"ENABLED", "DISABLED"}]
      BY <1>1 DEF IInv
    <2>2. E' \ {firing'} = E
      BY <1>1
    <2> QED
      BY <1>1, <1>4, <2>1, <2>2 DEF IInv, E
  <1>6. Left = [t \in Timers |-> IF t \in S THEN LeftIn(queue, t) ELSE 0]
    BY DEF Left, LeftIn, S, E
  <1>7. Left' = [t \in Timers |-> IF t \in E THEN LeftIn(queue', t) ELSE 0]
    BY <1>1 DEF Left, LeftIn, E
  <1>8. Left' = [Left EXCEPT ![firing] = Interval[firing[2]]]
    BY <1>1, <1>3, <1>4, <1>6, <1>7
  <1>9. Reports!Repeat
    BY <1>1, <1>8 DEF Reports!Repeat
  <1> QED
    BY <1>5, <1>9

\* apt_timer_queue_advance stops at the first timer that is not due; as the
\* ring is sorted, no other one is.
LEMMA EndStep ==
    ASSUME IInv, EndAdvance
    PROVE  IInv' /\ UNCHANGED Reports!vars
  <1> DEFINE E == EnabledTimers
  <1>1. /\ advancing /\ firing = NoTimer /\ NoTimer \notin Timers
        /\ ~FirstIsDue(queue) /\ advancing' = FALSE
        /\ UNCHANGED <<queue, state, firing>>
        /\ E' = E /\ E \in SUBSET Timers
    BY MediaTimersAssumption DEF EndAdvance, EnabledTimers
  <1>2. Sound(queue, E, 0)
    <2>1. E \ {firing} = E
      BY <1>1
    <2> QED
      BY <1>1, <2>1 DEF IInv
  <1>3. queue \in Queue /\ RingHolds(queue, E)
        /\ queue.elapsed_time \in Nat /\ queue.scheduled_time \in [Timers -> Nat]
    BY <1>2, TimerQueueAssumption DEF Sound, Queue
  <1> HIDE DEF E
  <1>4. ASSUME NEW u \in E
        PROVE  1 <= LeftIn(queue, u)
    <2>1. CASE IsEmpty(queue)
      <3>1. \E i \in 1 .. Len(queue.head) : queue.head[i] = u
        BY <1>1, <1>3 DEF RingHolds
      <3>2. Len(queue.head) = 0
        BY <2>1 DEF IsEmpty
      <3> QED
        BY <3>1, <3>2
    <2>2. CASE ~IsEmpty(queue)
      <3> DEFINE f == Head(queue.head)
      <3>1. f \in E /\ queue.scheduled_time[f] <= queue.scheduled_time[u]
        BY Zenon, <1>1, <1>3, <2>2, TakeFirstProperties
      <3>2. ~(queue.scheduled_time[f] <= queue.elapsed_time)
        BY <1>1, <2>2 DEF FirstIsDue
      <3> HIDE DEF f
      <3> QED
        BY <1>1, <1>3, <3>1, <3>2 DEF LeftIn
    <2> QED
      BY <2>1, <2>2
  <1>5. Sound(queue, E, 1)
    BY <1>2, <1>4 DEF Sound
  <1>6. IInv'
    <2>1. state' \in [Streams -> {"ENABLED", "DISABLED"}]
      BY <1>1 DEF IInv
    <2>2. E' \ {firing'} = E /\ queue' = queue
      BY <1>1
    <2> QED
      BY Zenon, <1>1, <1>5, <2>1, <2>2 DEF IInv, E
  <1>7. Left' = Left
    BY <1>1 DEF Left, E
  <1> QED
    BY <1>1, <1>6, <1>7 DEF Reports!vars

-----------------------------------------------------------------------------
(* The theorems *)

\* Whatever the sessions ask for in one step of mpf_rtp_stream_media_negotiate.
LEMMA NegotiateStep ==
    ASSUME IInv, NEW s \in Streams, NEW remote \in {"ENABLED", "DISABLED"},
           NEW matched \in BOOLEAN, mpf_rtp_stream_media_negotiate(s, remote, matched)
    PROVE  IInv' /\ (Reports!Enable(s) \/ Reports!Disable(s) \/ UNCHANGED Reports!vars)
  <1>1. state \in [Streams -> {"ENABLED", "DISABLED"}] /\ state[s] \in {"ENABLED", "DISABLED"}
    BY DEF IInv
  <1>2. ~advancing /\ UNCHANGED <<advancing, firing>>
    BY DEF mpf_rtp_stream_media_negotiate
  <1>3. CASE state[s] = "DISABLED" /\ remote = "ENABLED" /\ matched
    <2>1. queue' = SetTimers(queue, s) /\ state' = [state EXCEPT ![s] = "ENABLED"]
      BY <1>3 DEF mpf_rtp_stream_media_negotiate
    <2> QED
      BY Zenon, <1>2, <1>3, <2>1, EnableStep
  <1>4. CASE state[s] = "DISABLED" /\ remote = "ENABLED" /\ ~matched
    <2>1. queue' = KillTimers(SetTimers(queue, s), s)
          /\ state' = [state EXCEPT ![s] = "DISABLED"]
      BY <1>4 DEF mpf_rtp_stream_media_negotiate
    <2>2. state' = state
      BY <1>1, <1>4, <2>1
    <2> QED
      BY <1>2, <1>4, <2>1, <2>2, RejectStep
  <1>5. CASE state[s] = "ENABLED" /\ (remote = "DISABLED" \/ ~matched)
    <2>1. queue' = KillTimers(queue, s) /\ state' = [state EXCEPT ![s] = "DISABLED"]
      BY Zenon, <1>5 DEF mpf_rtp_stream_media_negotiate
    <2> QED
      BY Zenon, <1>2, <1>5, <2>1, DisableStep
  <1>6. CASE remote = state[s] /\ (remote = "DISABLED" \/ matched)
    <2>1. queue' = queue /\ state' = [state EXCEPT ![s] = remote]
      BY Zenon, <1>6 DEF mpf_rtp_stream_media_negotiate
    <2>2. UNCHANGED vars
      BY <1>1, <1>2, <1>6, <2>1 DEF vars
    <2> QED
      BY <2>2 DEF vars, IInv, EnabledTimers, Left, Reports!vars
  <1> QED
    BY <1>1, <1>3, <1>4, <1>5, <1>6

\* The initial states are initial states of RtcpReports.
LEMMA InitStep == Init => IInv /\ Reports!Init
  <1> SUFFICES ASSUME Init
               PROVE  IInv /\ Reports!Init
    OBVIOUS
  <1>1. EnabledTimers = {} /\ firing = NoTimer /\ ~advancing /\ queue = apt_timer_queue_create
        /\ state = [s \in Streams |-> "DISABLED"]
    BY MediaTimersAssumption DEF Init, EnabledTimers
  <1>2. queue \in Queue /\ RingHolds(queue, {}) /\ queue.elapsed_time < RESCHEDULE
    BY <1>1, TimerQueueAssumption DEF apt_timer_queue_create, Queue, RingHolds
  <1>3. IInv
    BY Zenon, <1>1, <1>2 DEF IInv, Sound, Init
  <1>4. Left = [t \in Timers |-> 0]
    BY <1>1 DEF Left
  <1> QED
    BY <1>1, <1>3, <1>4, MediaTimersAssumption DEF Reports!Init, Reports!Jobs

\* Every step keeps the invariant and is a step of RtcpReports or a stutter.
LEMMA NextStep == IInv /\ [Next]_vars => IInv' /\ [Reports!Next]_(Reports!vars)
  <1> SUFFICES ASSUME IInv, [Next]_vars
               PROVE  IInv' /\ (Reports!Next \/ UNCHANGED Reports!vars)
    OBVIOUS
  <1>1. ASSUME NEW s \in Streams, NEW remote \in {"ENABLED", "DISABLED"},
               NEW matched \in BOOLEAN, mpf_rtp_stream_media_negotiate(s, remote, matched)
        PROVE  IInv' /\ (Reports!Next \/ UNCHANGED Reports!vars)
    BY <1>1, NegotiateStep DEF Reports!Next
  <1>2. ASSUME NEW s \in Streams, mpf_rtp_stream_remove(s)
        PROVE  IInv' /\ Reports!Next
    BY Zenon, <1>2, DisableStep DEF mpf_rtp_stream_remove, Reports!Next
  <1>3. CASE mpf_engine_timer_proc
    BY <1>3, PassStep DEF Reports!Next
  <1>4. CASE ProcessTimer
    BY <1>4, RunStep DEF Reports!Next
  <1>5. CASE mpf_rtcp_timer_proc
    BY <1>5, RepeatStep DEF Reports!Next
  <1>6. CASE EndAdvance
    BY <1>6, EndStep
  <1>7. CASE UNCHANGED vars
    BY <1>7 DEF vars, IInv, EnabledTimers, Left, Reports!vars
  <1> QED
    BY <1>1, <1>2, <1>3, <1>4, <1>5, <1>6, <1>7 DEF Next, Clock

\* The timer queue of the media engine is always well formed: the ring holds
\* each timer of an enabled stream once, sorted by scheduled time.
THEOREM RingAlwaysSound == Spec => [](TypeOK /\ RingSound)
  <1>1. IInv => TypeOK /\ RingSound
    BY DEF IInv, Sound, TypeOK, RingSound
  <1> QED
    BY <1>1, InitStep, NextStep, PTL DEF Spec

\* The RTCP timers implement RtcpReports: every report of an enabled stream
\* is made exactly one interval after the one before it.
THEOREM TimersImplementReports == Spec => ReportsPeriodically
  <1> QED
    BY InitStep, NextStep, PTL DEF Spec, ReportsPeriodically, Reports!Spec

=============================================================================
