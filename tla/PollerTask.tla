----------------------------- MODULE PollerTask -----------------------------
(***************************************************************************)
(* The loop of a poller task (apt_poller_task.c), the thread of a          *)
(* connection agent.  It waits for messages and sockets, no longer than    *)
(* until the first timer is due; it calls the handlers of what is ready;   *)
(* and then it advances the timer queue by the time it has waited.  So a   *)
(* timer that a handler sets is set before the time of the wait is added.  *)
(*                                                                         *)
(* A module that extends this one gives the handlers, which run while      *)
(* phase = "handle", and the timer procedures, which run while             *)
(* phase = "fire".                                                         *)
(***************************************************************************)
EXTENDS TimerQueue

VARIABLES
    queue,     \* task->timer_queue
    phase,     \* where the thread is in its loop
    waited     \* how long apt_pollset_poll has taken, or Unlimited

pollerVars == <<queue, phase, waited>>

Unlimited == -1

PollerTypeOK ==
    /\ queue \in Queue
    /\ phase \in {"poll", "handle", "fire"}
    /\ waited \in Int

apt_poller_task_create ==
    /\ queue = apt_timer_queue_create
    /\ phase = "poll"
    /\ waited = Unlimited

\* apt_pollset_poll returns after time, when something is ready or the
\* first timer is due.  With no timer set the time is not measured.
Poll(time) ==
    /\ phase = "poll"
    /\ queue' = apt_timer_queue_timeout_get(queue)
    /\ IF IsEmpty(queue) THEN waited' = Unlimited
       ELSE time <= Timeout(queue) /\ waited' = time
    /\ phase' = "handle"

Advance ==
    /\ phase = "handle"
    /\ IF waited # Unlimited /\ Advances(queue)
       THEN queue' = AdvanceTime(queue, waited) /\ phase' = "fire"
       ELSE queue' = queue /\ phase' = "poll"
    /\ waited' = Unlimited

EndAdvance ==
    /\ phase = "fire"
    /\ ~FirstIsDue(queue)
    /\ phase' = "poll"
    /\ UNCHANGED <<queue, waited>>

=============================================================================
