----------------------------- MODULE AliRecogPool -----------------------------
(***************************************************************************)
(* The engine of the Alibaba recognizer plugin, plugins/Alirecog/src: the  *)
(* factories that lend recognition channels and resources to the sessions  *)
(* (CAliChannelFactory, CAliResourceFactory), the channels' worker threads *)
(* (CAliChannel::RecogMain in a CRecogPool) and the resources that talk to *)
(* the speech service (CAliRecognizer).  Threads:                          *)
(*   - the plugin's consumer task starts recognitions (EngineReocgStart);  *)
(*   - the MPF thread writes frames, polls results and, when a stream is   *)
(*     closed, gives channel and resource back (EngineReocgStop);          *)
(*   - the workers take frames from a channel's queue and send them;       *)
(*   - the SDK's threads deliver results.                                  *)
(***************************************************************************)
EXTENDS Naturals, Sequences

CONSTANTS
    NULL, GARBAGE,   \* a null pointer, and the value of a field never set
    Sessions,        \* MRCP channels (Ali_recog_channel_t)
    MaxCh,           \* max_channel_count of the engine
    QueueSize,       \* MAX_QUEUE_SIZE
    MaxStarts,       \* bound: RECOGNIZE requests of one session
    MaxResults       \* bound: results waiting in one resource

ASSUME PoolAssumption ==
    /\ {MaxCh, QueueSize, MaxStarts} \subseteq Nat \ {0}
    /\ MaxResults \in Nat
    /\ NULL # GARBAGE
    /\ {NULL, GARBAGE} \cap (Sessions \cup (1 .. MaxCh)) = {}

VARIABLES
    idle, busy,    \* m_ChidlePool, m_ChbusyPool: ids of channels
    rePool,        \* m_RePool
    AliCh, AliRe,  \* per session: its channel and resource
    chan,          \* the CAliChannel objects
    res,           \* the CAliRecognizer objects
    tasks,         \* channels pushed to the thread pool, not run yet
    worker,        \* the threads of the pool
    consumer,      \* the consumer task
    mpf,           \* the MPF thread
    recognizing,   \* sessions with a recog_request
    streams,       \* sessions whose stream is open
    starts,        \* per session: RECOGNIZE requests so far
    delivered,     \* per session: whose speech its results are about
    crashed        \* a null or garbage pointer was followed

pool_vars == <<idle, busy, rePool>>
session_vars == <<AliCh, AliRe, recognizing, streams, starts, delivered>>
vars == <<pool_vars, session_vars, chan, res, tasks, worker, consumer, mpf,
          crashed>>

Chans == 1 .. MaxCh
Resources == 1 .. MaxCh
Workers == 1 .. MaxCh    \* apr_thread_pool_create(.., 1, max_channel_count)

FreeChannel == [m_starting |-> FALSE, m_Recoger |-> NULL, m_Channel |-> NULL,
                frames |-> <<>>, locked |-> FALSE]
FreeWorker == [pc |-> "free", ch |-> NULL, frame |-> NULL]
IdleConsumer == [pc |-> "idle", s |-> NULL, ch |-> NULL, re |-> NULL]
IdleMpf == [pc |-> "idle", s |-> NULL, ch |-> NULL, re |-> NULL]

\* EngineInit: the factories and the thread pool.  The fields AliCh and AliRe
\* of a session are not set when it is created.
EngineInit ==
    /\ idle = Chans /\ busy = {}
    /\ rePool = [r \in Resources |-> r]
    /\ AliCh \in [Sessions -> {NULL, GARBAGE}]
    /\ AliRe = AliCh
    /\ chan = [c \in Chans |-> FreeChannel]
    /\ res = [r \in Resources |->
                 [m_Request |-> FALSE, audio |-> {}, results |-> <<>>]]
    /\ tasks = <<>>
    /\ worker = [w \in Workers |-> FreeWorker]
    /\ consumer = IdleConsumer
    /\ mpf = IdleMpf
    /\ recognizing = {} /\ streams = Sessions
    /\ starts = [s \in Sessions |-> 0]
    /\ delivered = [s \in Sessions |-> {}]
    /\ crashed = FALSE

-----------------------------------------------------------------------------
(* Helpers *)

\* apr_queue_interrupt_all: only the threads that wait for a frame right now
\* get APR_EINTR; a thread about to wait notices nothing.
Interrupted(c) ==
    [w \in Workers |->
        IF worker[w].pc = "waiting" /\ worker[w].ch = c /\ chan[c].frames = <<>>
        THEN [worker[w] EXCEPT !.pc = "end"] ELSE worker[w]]

\* CAliChannel::Stop
Stop(c) ==
    /\ ~chan[c].locked
    /\ chan' = [chan EXCEPT ![c].m_starting = FALSE]
    /\ worker' = Interrupted(c)

\* Mutant: the channel stays in the busy pool.
DeleteChannel_keep_busy(c) ==
    /\ idle' = idle \cup {c}
    /\ UNCHANGED busy

DeleteChannel(c) ==
    /\ idle' = idle \cup {c}
    /\ busy' = busy \ {c}

DeleteResource(r) ==
    rePool' = IF r = NULL THEN rePool ELSE Append(rePool, r)

-----------------------------------------------------------------------------
(* EngineReocgStart, on the consumer task *)

NewChannel(s) ==
    /\ consumer.pc = "idle"
    /\ s \in streams
    /\ starts[s] < MaxStarts
    /\ starts' = [starts EXCEPT ![s] = @ + 1]
    /\ \/ /\ idle = {}
          /\ consumer' = [IdleConsumer EXCEPT !.pc = "failed", !.s = s]
          /\ UNCHANGED <<idle, busy>>
       \/ \E c \in idle :
            /\ \A i \in idle : c <= i
            /\ consumer' = [pc |-> "resource", s |-> s, ch |-> c, re |-> NULL]
            /\ idle' = idle \ {c}
            /\ busy' = busy \cup {c}
    /\ UNCHANGED <<rePool, AliCh, AliRe, recognizing, streams, delivered,
                   chan, res, tasks, worker, mpf, crashed>>

NewResource ==
    /\ consumer.pc = "resource"
    /\ IF rePool = <<>>
       THEN /\ consumer' = [consumer EXCEPT !.pc = "failed"]
            /\ UNCHANGED rePool
       ELSE LET n == Len(rePool)
            IN  /\ consumer' = [consumer EXCEPT !.pc = "start", !.re = rePool[n]]
                /\ rePool' = SubSeq(rePool, 1, n - 1)
    /\ UNCHANGED <<idle, busy, session_vars, chan, res, tasks, worker, mpf,
                   crashed>>

\* CAliChannel::Start takes the lock ...
Start ==
    /\ consumer.pc = "start"
    /\ ~chan[consumer.ch].locked
    /\ chan' = [chan EXCEPT ![consumer.ch] =
                    [@ EXCEPT !.m_Channel = consumer.s, !.m_starting = TRUE,
                              !.m_Recoger = consumer.re, !.locked = TRUE]]
    /\ consumer' = [consumer EXCEPT !.pc = "clear"]
    /\ UNCHANGED <<pool_vars, session_vars, res, tasks, worker, mpf, crashed>>

\* Mutant: the frames of last time are left in the queue.
ClearFrames_none ==
    /\ consumer.pc = "clear"
    /\ chan' = [chan EXCEPT ![consumer.ch].locked = FALSE]
    /\ consumer' = [consumer EXCEPT !.pc = "push"]
    /\ UNCHANGED <<pool_vars, session_vars, res, tasks, worker, mpf, crashed>>

\* ... and takes frames out of the queue as long as its size is not zero.
ClearFrames ==
    /\ consumer.pc = "clear"
    /\ IF chan[consumer.ch].frames = <<>>
       THEN /\ chan' = [chan EXCEPT ![consumer.ch].locked = FALSE]
            /\ consumer' = [consumer EXCEPT !.pc = "push"]
       ELSE /\ consumer' = [consumer EXCEPT !.pc = "drain"]
            /\ UNCHANGED chan
    /\ UNCHANGED <<pool_vars, session_vars, res, tasks, worker, mpf, crashed>>

Drain ==
    /\ consumer.pc = "drain"
    /\ chan[consumer.ch].frames # <<>>
    /\ chan' = [chan EXCEPT ![consumer.ch].frames = Tail(@)]
    /\ consumer' = [consumer EXCEPT !.pc = "clear"]
    /\ UNCHANGED <<pool_vars, session_vars, res, tasks, worker, mpf, crashed>>

\* The thread pool takes the task, or cannot make a thread for it.
TaskPush ==
    /\ consumer.pc = "push"
    /\ \/ /\ tasks' = Append(tasks, consumer.ch)
          /\ AliCh' = [AliCh EXCEPT ![consumer.s] = consumer.ch]
          /\ AliRe' = [AliRe EXCEPT ![consumer.s] = consumer.re]
          /\ recognizing' = recognizing \cup {consumer.s}
          /\ consumer' = IdleConsumer
       \/ /\ consumer' = [consumer EXCEPT !.pc = "failed"]
          /\ UNCHANGED <<tasks, AliCh, AliRe, recognizing>>
    /\ UNCHANGED <<pool_vars, streams, starts, delivered, chan, res,
                   worker, mpf, crashed>>

\* Mutant: a failed start keeps the channel.
StartFailed_keep_channel ==
    /\ consumer.pc = "failed"
    /\ IF consumer.ch = NULL
       THEN UNCHANGED <<chan, worker, rePool>>
       ELSE Stop(consumer.ch) /\ DeleteResource(consumer.re)
    /\ AliCh' = [AliCh EXCEPT ![consumer.s] = NULL]
    /\ AliRe' = [AliRe EXCEPT ![consumer.s] = NULL]
    /\ recognizing' = recognizing \cup {consumer.s}
    /\ consumer' = IdleConsumer
    /\ UNCHANGED <<idle, busy, streams, starts, delivered, res, tasks,
                   mpf, crashed>>

\* What was taken is given back; the RECOGNIZE is accepted all the same.
StartFailed ==
    /\ consumer.pc = "failed"
    /\ IF consumer.ch = NULL
       THEN UNCHANGED <<chan, worker, pool_vars>>
       ELSE /\ Stop(consumer.ch)
            /\ DeleteChannel(consumer.ch)
            /\ DeleteResource(consumer.re)
    /\ AliCh' = [AliCh EXCEPT ![consumer.s] = NULL]
    /\ AliRe' = [AliRe EXCEPT ![consumer.s] = NULL]
    /\ recognizing' = recognizing \cup {consumer.s}
    /\ consumer' = IdleConsumer
    /\ UNCHANGED <<streams, starts, delivered, res, tasks, mpf, crashed>>

EngineReocgStart ==
    \/ \E s \in Sessions : NewChannel(s)
    \/ NewResource
    \/ Start
    \/ ClearFrames
    \/ Drain
    \/ TaskPush
    \/ StartFailed

-----------------------------------------------------------------------------
(* The MPF thread *)

\* A frame of a session.  The detector may complete the recognition, which
\* clears recog_request; the frame goes to EngineWriteFrame all the same, where
\* m_starting is tested before the push.
EngineWriteFrame(s) ==
    /\ mpf.pc = "idle"
    /\ s \in recognizing \cap streams
    /\ recognizing' \in {recognizing, recognizing \ {s}}
    /\ mpf' = IF AliCh[s] = NULL THEN IdleMpf
              ELSE [pc |-> IF chan[AliCh[s]].m_starting THEN "push" ELSE "poll",
                    s |-> s, ch |-> AliCh[s], re |-> NULL]
    /\ UNCHANGED <<pool_vars, AliCh, AliRe, streams, starts, delivered,
                   chan, res, tasks, worker, consumer, crashed>>

\* apr_queue_push blocks while the queue is full.
PushFrame ==
    /\ mpf.pc = "push"
    /\ Len(chan[mpf.ch].frames) < QueueSize
    /\ chan' = [chan EXCEPT ![mpf.ch].frames = Append(@, mpf.s)]
    /\ mpf' = [mpf EXCEPT !.pc = "poll"]
    /\ UNCHANGED <<pool_vars, session_vars, res, tasks, worker, consumer,
                   crashed>>

\* EngineRecogCompleted: DoRecogResultGet looks at the size without the lock.
PollResult ==
    /\ mpf.pc = "poll"
    /\ mpf' = IF AliRe[mpf.s] # NULL /\ res[AliRe[mpf.s]].results # <<>>
              THEN [mpf EXCEPT !.pc = "take", !.re = AliRe[mpf.s]] ELSE IdleMpf
    /\ UNCHANGED <<pool_vars, session_vars, chan, res, tasks, worker, consumer,
                   crashed>>

\* front() of a queue that was emptied meanwhile is undefined: a crash.  The
\* result of a recognition that is over is dropped.
TakeResult ==
    /\ mpf.pc = "take"
    /\ mpf' = IdleMpf
    /\ LET r == mpf.re
       IN  IF res[r].results = <<>>
           THEN crashed' = TRUE /\ UNCHANGED <<res, delivered>>
           ELSE /\ res' = [res EXCEPT ![r].results = Tail(@)]
                /\ delivered' = [delivered EXCEPT ![mpf.s] =
                       IF mpf.s \in recognizing
                       THEN @ \cup {Head(res[r].results)} ELSE @]
                /\ UNCHANGED crashed
    /\ UNCHANGED <<pool_vars, AliCh, AliRe, recognizing, streams, starts,
                   chan, tasks, worker, consumer>>

\* A frame after a STOP request: it is answered, recog_request is cleared.
EndRecognition(s) ==
    /\ mpf.pc = "idle"
    /\ s \in recognizing \cap streams
    /\ recognizing' = recognizing \ {s}
    /\ UNCHANGED <<pool_vars, AliCh, AliRe, streams, starts, delivered,
                   chan, res, tasks, worker, consumer, mpf, crashed>>

\* Ali_recog_stream_close calls EngineReocgStop: the channel is stopped ...
\* The server takes the media down after the response to the last request, so
\* no start of the session is under way.
EngineReocgStop(s) ==
    /\ mpf.pc = "idle"
    /\ s \in streams
    /\ consumer.pc # "idle" => consumer.s # s
    /\ streams' = streams \ {s}
    /\ crashed' = (AliCh[s] = GARBAGE)
    /\ IF AliCh[s] \in Chans
       THEN /\ Stop(AliCh[s])
            /\ mpf' = [IdleMpf EXCEPT !.pc = "delete_ch", !.s = s,
                                     !.ch = AliCh[s]]
       ELSE UNCHANGED <<chan, worker, mpf>>
    /\ UNCHANGED <<pool_vars, AliCh, AliRe, recognizing, starts,
                   delivered, res, tasks, consumer>>

\* ... and goes back to its factory ...
ReturnChannel ==
    /\ mpf.pc = "delete_ch"
    /\ DeleteChannel(mpf.ch)
    /\ mpf' = [mpf EXCEPT !.pc = "delete_re"]
    /\ UNCHANGED <<rePool, session_vars, chan, res, tasks, worker, consumer,
                   crashed>>

\* Mutant: the session keeps its pointers.
ReturnResource_keep ==
    /\ mpf.pc = "delete_re"
    /\ DeleteResource(AliRe[mpf.s])
    /\ mpf' = IdleMpf
    /\ UNCHANGED <<idle, busy, session_vars, chan, res, tasks, worker, consumer,
                   crashed>>

\* ... like the resource.
ReturnResource ==
    /\ mpf.pc = "delete_re"
    /\ DeleteResource(AliRe[mpf.s])
    /\ AliCh' = [AliCh EXCEPT ![mpf.s] = NULL]
    /\ AliRe' = [AliRe EXCEPT ![mpf.s] = NULL]
    /\ mpf' = IdleMpf
    /\ UNCHANGED <<idle, busy, recognizing, streams, starts, delivered,
                   chan, res, tasks, worker, consumer, crashed>>

MpfStep ==
    \/ \E s \in Sessions : \/ EngineWriteFrame(s)
                           \/ EndRecognition(s)
                           \/ EngineReocgStop(s)
    \/ PushFrame
    \/ PollResult
    \/ TakeResult
    \/ ReturnChannel
    \/ ReturnResource

-----------------------------------------------------------------------------
(* CAliChannel::RecogMain, on a thread of the pool *)

Goto(w, pc) == worker' = [worker EXCEPT ![w].pc = pc]

Crash ==
    /\ crashed' = TRUE
    /\ UNCHANGED <<chan, res, worker>>

\* A free thread takes the next task; which one makes no difference.
RunTask(w) ==
    /\ worker[w].pc = "free"
    /\ \A v \in Workers : v < w => worker[v].pc # "free"
    /\ tasks # <<>>
    /\ tasks' = Tail(tasks)
    /\ worker' = [worker EXCEPT ![w] = [pc |-> "create", ch |-> Head(tasks),
                                        frame |-> NULL]]
    /\ UNCHANGED <<chan, res, crashed>>

\* DoCreateRecogRequest drops old results and makes a request unless there is
\* one.  Making it can fail, and so can checking the token and starting it.
DoCreateRecogRequest(w) ==
    /\ worker[w].pc = "create"
    /\ LET r == chan[worker[w].ch].m_Recoger
       IN  IF r = NULL THEN Crash
           ELSE /\ \E made \in {TRUE, res[r].m_Request} :
                     /\ res' = [res EXCEPT ![r] =
                                   [@ EXCEPT !.results = <<>>,
                                             !.m_Request = made]]
                     /\ \/ made /\ Goto(w, "loop")
                        \/ Goto(w, "end")
                /\ UNCHANGED <<chan, crashed>>
    /\ UNCHANGED tasks

\* while (m_starting), and the check of the token, which may fail.
TestStarting(w) ==
    /\ worker[w].pc = "loop"
    /\ LET c == worker[w].ch
       IN  \/ ~chan[c].m_starting /\ Goto(w, "end") /\ UNCHANGED crashed
           \/ /\ chan[c].m_starting /\ chan[c].m_Recoger # NULL
              /\ \/ Goto(w, "pop")
                 \/ Goto(w, "end")
              /\ UNCHANGED crashed
           \/ /\ chan[c].m_starting /\ chan[c].m_Recoger = NULL
              /\ crashed' = TRUE /\ UNCHANGED worker
    /\ UNCHANGED <<chan, res, tasks>>

\* apr_queue_pop waits once; a thread that wakes up to an empty queue, because
\* another one was faster or for no reason, gets APR_EINTR and ends.
PopFrame(w) ==
    /\ worker[w].pc \in {"pop", "waiting"}
    /\ LET c == worker[w].ch
       IN  \/ /\ chan[c].frames # <<>>
              /\ chan' = [chan EXCEPT ![c].frames = Tail(@)]
              /\ worker' = [worker EXCEPT ![w] =
                                [@ EXCEPT !.pc = "send",
                                          !.frame = Head(chan[c].frames)]]
           \/ /\ chan[c].frames = <<>> /\ worker[w].pc = "pop"
              /\ Goto(w, "waiting")
              /\ UNCHANGED chan
           \/ /\ chan[c].frames = <<>> /\ worker[w].pc = "waiting"
              /\ Goto(w, "end")
              /\ UNCHANGED chan
    /\ UNCHANGED <<res, tasks, crashed>>

\* DoWriteFrame: without a request the frame is dropped without an error.
DoWriteFrame(w) ==
    /\ worker[w].pc = "send"
    /\ LET r == chan[worker[w].ch].m_Recoger
       IN  IF r = NULL THEN Crash
           ELSE /\ IF res[r].m_Request
                   THEN res' = [res EXCEPT ![r].audio =
                                    @ \cup {worker[w].frame}]
                   ELSE UNCHANGED res
                /\ \/ Goto(w, "loop")
                   \/ res[r].m_Request /\ Goto(w, "end")
                /\ UNCHANGED <<chan, crashed>>
    /\ UNCHANGED tasks

\* DoDestroyRecogRequest, under the channel's lock.
EndRecogMain(w) ==
    /\ worker[w].pc = "end"
    /\ ~chan[worker[w].ch].locked
    /\ LET c == worker[w].ch
           r == chan[c].m_Recoger
       IN  IF r = NULL THEN Crash
           ELSE /\ res' = [res EXCEPT ![r] =
                              [@ EXCEPT !.m_Request = FALSE, !.audio = {}]]
                /\ chan' = [chan EXCEPT ![c] =
                               [@ EXCEPT !.m_Channel = NULL, !.m_Recoger = NULL,
                                         !.m_starting = FALSE]]
                /\ worker' = [worker EXCEPT ![w] = FreeWorker]
                /\ UNCHANGED crashed
    /\ UNCHANGED tasks

RecogMain(w) ==
    /\ \/ RunTask(w)
       \/ DoCreateRecogRequest(w)
       \/ TestStarting(w)
       \/ PopFrame(w)
       \/ DoWriteFrame(w)
       \/ EndRecogMain(w)
    /\ UNCHANGED <<pool_vars, session_vars, consumer, mpf>>

\* The SDK calls OnRecognitionResultChanged or OnRecognitionCompleted with a
\* result about speech that was sent with the request.
OnRecognitionResult(r) ==
    /\ res[r].m_Request
    /\ Len(res[r].results) < MaxResults
    /\ \E s \in res[r].audio :
         res' = [res EXCEPT ![r].results = Append(@, s)]
    /\ UNCHANGED <<pool_vars, session_vars, chan, tasks, worker, consumer, mpf,
                   crashed>>

-----------------------------------------------------------------------------
Init == EngineInit

Next ==
    /\ ~crashed
    /\ \/ EngineReocgStart
       \/ MpfStep
       \/ \E w \in Workers : RecogMain(w)
       \/ \E r \in Resources : OnRecognitionResult(r)

Spec == Init /\ [][Next]_vars

-----------------------------------------------------------------------------
(* Properties *)

\* Every variable keeps its type.
TypeOK ==
    /\ idle \subseteq Chans /\ busy \subseteq Chans
    /\ rePool \in Seq(Resources)
    /\ AliCh \in [Sessions -> Chans \cup {NULL, GARBAGE}]
    /\ AliRe \in [Sessions -> Resources \cup {NULL, GARBAGE}]
    /\ chan \in [Chans -> [m_starting : BOOLEAN,
                           m_Recoger : Resources \cup {NULL},
                           m_Channel : Sessions \cup {NULL},
                           frames : Seq(Sessions), locked : BOOLEAN]]
    /\ \A c \in Chans : Len(chan[c].frames) <= QueueSize
    /\ res \in [Resources -> [m_Request : BOOLEAN, audio : SUBSET Sessions,
                              results : Seq(Sessions)]]
    /\ tasks \in Seq(Chans)
    /\ recognizing \subseteq Sessions /\ streams \subseteq Sessions
    /\ starts \in [Sessions -> 0 .. MaxStarts]
    /\ delivered \in [Sessions -> SUBSET Sessions]

\* Sessions that hold a channel and are not about to give it back.
Holders ==
    {s \in Sessions : AliCh[s] \in Chans /\ ~(mpf.s = s /\ mpf.pc = "delete_re")}

\* No channel is lent to two sessions or to a session and the idle pool.
ChannelsExclusive ==
    /\ idle \cap busy = {}
    /\ \A s \in Holders : AliCh[s] \in busy
    /\ \A s, t \in Holders : AliCh[s] = AliCh[t] => s = t

\* No resource is in the pool twice, lent to two sessions, or both.
ResourcesExclusive ==
    /\ \A i, j \in DOMAIN rePool : rePool[i] = rePool[j] => i = j
    /\ \A s \in Sessions : AliRe[s] \in Resources =>
         /\ \A i \in DOMAIN rePool : rePool[i] # AliRe[s]
         /\ \A t \in Sessions : AliRe[t] = AliRe[s] => s = t

\* As long as no session has started a second recognition, a channel that is
\* not idle is held by a session or in the hands of a thread: none is lost,
\* whichever step of a start fails.
NothingLost ==
    (\A s \in Sessions : starts[s] <= 1) =>
        busy \subseteq {AliCh[s] : s \in Holders} \cup {consumer.ch}

\* What Start drains the queue for: a session never has the frames of another
\* one sent, although channels are reused while their old worker may run.
FramesOfOwner ==
    \A s \in Holders : consumer.ch # AliCh[s] =>
        \A i \in DOMAIN chan[AliCh[s]].frames : chan[AliCh[s]].frames[i] = s

\* DoCreateRecogRequest drops the results of last time ("clean up what is left
\* of the last time", in Chinese in the code): a session gets results about
\* its own speech only.
ResultsOfOwner == \A s \in Sessions : delivered[s] \subseteq {s}

=============================================================================
