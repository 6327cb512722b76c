------------------------------ MODULE AliSynth ------------------------------
(***************************************************************************)
(* The Alibaba synthesizer plugin, plugins/Alisynth/src.  Threads:         *)
(*   - the plugin's consumer task handles the MRCP requests of all         *)
(*     sessions and starts the synthesis (EngineSynthStart);               *)
(*   - the MPF thread reads a frame of each session every 10 ms, answers   *)
(*     STOP and closes streams;                                            *)
(*   - the server's thread closes the channels of a session that ends;     *)
(*   - the workers (CAliSynthChannel::synthMain in a CSynthPool) move the  *)
(*     audio from m_AudioList to m_AudioQueue;                             *)
(*   - the SDK's threads put the audio into m_AudioList.                   *)
(* A chunk of audio is known by its SPEAK, its number and the number of    *)
(* frames it fills; the last frame of a longer chunk may be filled partly. *)
(* A chunk is at least as long as a frame.                                 *)
(***************************************************************************)
EXTENDS Naturals, Sequences

CONSTANTS
    NULL,            \* a null pointer
    Sessions,        \* MRCP channels (Ali_synth_channel_t)
    MaxCh,           \* max_channel_count of the engine
    QueueSize,       \* MAX_QUEUE_SIZE
    Speeches,        \* what the service makes of a text: the frames per chunk
    Methods,         \* bound: the requests the sessions send
    MaxSpeaks        \* bound: SPEAK requests of one session

ASSUME SynthAssumption ==
    /\ {MaxCh, QueueSize} \subseteq Nat \ {0}
    /\ MaxSpeaks \in Nat
    /\ Speeches \subseteq Seq(Nat \ {0})
    /\ NULL \notin Sessions \cup (1 .. MaxCh)
    /\ NULL \notin {"SPEAK", "STOP", "PAUSE", "RESUME", "stopping"}

VARIABLES
    idle, busy,    \* m_idle_pool, m_busy_pool: ids of channels
    chan,          \* the CAliSynthChannel objects
    tasks,         \* channels pushed to the thread pool, not run yet
    worker,        \* the threads of the pool
    ch,            \* the Ali_synth_channel_t objects
    consumer,      \* the consumer task
    mpf,           \* the MPF thread
    server,        \* the server's thread: the session it is closing
    view,          \* per session: what the server knows of it
    request,       \* per session: the request sent and not answered
    speaks,        \* per session: SPEAK requests so far
    crashed        \* a null pointer or an empty list was read

pool_vars == <<idle, busy>>
server_vars == <<view, request, speaks>>
vars == <<pool_vars, chan, tasks, worker, ch, consumer, mpf, server,
          server_vars, crashed>>

Chans == 1 .. MaxCh
Workers == 1 .. MaxCh    \* apr_thread_pool_create(.., 1, max_channel_count)
Speaks == Sessions \X (1 .. MaxSpeaks)

NoAudio == [left |-> 0, buffer |-> FALSE, item |-> 0]
FreeChannel ==
    [m_Start |-> FALSE, m_Play |-> FALSE, m_Runing |-> FALSE, m_Text |-> NULL,
     m_AudioList |-> <<>>, m_AudioQueue |-> <<>>, m_AudioFrame |-> NoAudio,
     m_SynthReq |-> NULL, locked |-> FALSE]
FreeWorker == [pc |-> "free", c |-> NULL, chunk |-> NULL]
Idle == [pc |-> "idle", s |-> NULL, c |-> NULL]

\* EngineInit, and the sessions as Ali_synth_engine_channel_create makes them.
Init ==
    /\ idle = Chans /\ busy = {}
    /\ chan = [c \in Chans |-> FreeChannel]
    /\ tasks = <<>>
    /\ worker = [w \in Workers |-> FreeWorker]
    /\ ch = [s \in Sessions |-> [speak_request |-> NULL, stop_response |-> FALSE,
                                 paused |-> FALSE, AliSynthCh |-> NULL]]
    /\ consumer = Idle /\ mpf = Idle /\ server = Idle
    /\ view = [s \in Sessions |-> "idle"]
    /\ request = [s \in Sessions |-> NULL]
    /\ speaks = [s \in Sessions |-> 0]
    /\ crashed = FALSE

-----------------------------------------------------------------------------
(* The server sends one request of a session at a time, and only those that *)
(* its synthesizer state machine lets through.                              *)

Allowed(s) ==
    CASE view[s] = "idle"     -> {"SPEAK"}
      [] view[s] = "speaking" -> {"STOP", "PAUSE"}
      [] view[s] = "paused"   -> {"STOP", "RESUME"}
      [] OTHER                -> {}

\* The thread t is in EngineSynthStop for the session s.
Stopping(t, s) == t.s = s /\ t.pc \in {"stop", "delete", "forget"}

\* Not while the media of the session is being changed for an offer either.
Send(s) ==
    /\ request[s] = NULL
    /\ ~Stopping(mpf, s)
    /\ \E r \in Allowed(s) \cap Methods :
         /\ r = "SPEAK" => speaks[s] < MaxSpeaks
         /\ request' = [request EXCEPT ![s] = r]
         /\ speaks' = [speaks EXCEPT ![s] = IF r = "SPEAK" THEN @ + 1 ELSE @]
    /\ UNCHANGED <<pool_vars, chan, tasks, worker, ch, consumer, mpf, server,
                   view, crashed>>

\* mrcp_engine_channel_message_send: the response to the request of s.
Respond(s, state) ==
    /\ view' = [view EXCEPT ![s] = state]
    /\ request' = [request EXCEPT ![s] = NULL]
    /\ UNCHANGED speaks

-----------------------------------------------------------------------------
(* CAliSynthChannel and its factory *)

DeleteChannel(c) ==
    /\ idle' = idle \cup {c}
    /\ busy' = busy \ {c}

\* CAliSynthChannel::start, for the SPEAK t.  m_AudioList is left alone.
Started(c, t) ==
    [chan[c] EXCEPT !.m_Start = TRUE, !.m_Play = TRUE, !.m_Runing = TRUE,
                    !.m_Text = t, !.m_AudioFrame = NoAudio,
                    !.m_AudioQueue = <<>>]

\* CAliSynthChannel::stop, also what OnTaskFailed does.
Stopped(c) ==
    [chan[c] EXCEPT !.m_Start = FALSE, !.m_Play = FALSE, !.m_Runing = FALSE]

-----------------------------------------------------------------------------
(* The consumer task *)

\* PAUSE and RESUME are answered at once; STOP and BARGE-IN-OCCURRED leave
\* their response to the MPF thread.
Ali_synth_channel_stop(s) ==
    /\ consumer.pc = "idle" /\ request[s] = "STOP"
    /\ ch' = [ch EXCEPT ![s].stop_response = TRUE]
    /\ request' = [request EXCEPT ![s] = "stopping"]
    /\ UNCHANGED <<pool_vars, chan, tasks, worker, consumer, mpf, server,
                   view, speaks, crashed>>

\* A SPEAK-COMPLETE that the server got meanwhile leaves it idle.
Ali_synth_channel_pause(s) ==
    /\ consumer.pc = "idle" /\ request[s] = "PAUSE"
    /\ ch' = [ch EXCEPT ![s].paused = TRUE]
    /\ Respond(s, IF view[s] = "idle" THEN "idle" ELSE "paused")
    /\ UNCHANGED <<pool_vars, chan, tasks, worker, consumer, mpf, server,
                   crashed>>

Ali_synth_channel_resume(s) ==
    /\ consumer.pc = "idle" /\ request[s] = "RESUME"
    /\ ch' = [ch EXCEPT ![s].paused = FALSE]
    /\ Respond(s, IF view[s] = "idle" THEN "idle" ELSE "speaking")
    /\ UNCHANGED <<pool_vars, chan, tasks, worker, consumer, mpf, server,
                   crashed>>

\* A SPEAK: EngineSynthStart takes a channel.  The id of a channel that is not
\* there is read for the log: a crash.
NewChannel(s) ==
    /\ consumer.pc = "idle" /\ request[s] = "SPEAK"
    /\ \/ /\ idle = {}
          /\ crashed' = TRUE
          /\ UNCHANGED <<consumer, pool_vars>>
       \/ \E c \in idle :
            /\ \A i \in idle : c <= i
            /\ consumer' = [pc |-> "start", s |-> s, c |-> c]
            /\ idle' = idle \ {c}
            /\ busy' = busy \cup {c}
            /\ UNCHANGED crashed
    /\ UNCHANGED <<chan, tasks, worker, ch, mpf, server, server_vars>>

\* start refuses an empty text; the channel then goes back.  Nobody looks
\* whether the thread pool has taken the task.
Start ==
    /\ consumer.pc = "start"
    /\ ~chan[consumer.c].locked
    /\ \/ /\ chan' = [chan EXCEPT ![consumer.c] =
                          Started(consumer.c, <<consumer.s, speaks[consumer.s]>>)]
          /\ ch' = [ch EXCEPT ![consumer.s].AliSynthCh = consumer.c]
          /\ tasks' \in {Append(tasks, consumer.c), tasks}
          /\ UNCHANGED pool_vars
       \/ /\ DeleteChannel(consumer.c)
          /\ ch' = [ch EXCEPT ![consumer.s].AliSynthCh = NULL]
          /\ UNCHANGED <<chan, tasks>>
    /\ consumer' = [consumer EXCEPT !.pc = "respond"]
    /\ UNCHANGED <<worker, mpf, server, server_vars, crashed>>

\* SPEAK is answered with IN-PROGRESS, whatever EngineSynthStart returned ...
RespondSpeak ==
    /\ consumer.pc = "respond"
    /\ Respond(consumer.s, "speaking")
    /\ consumer' = [consumer EXCEPT !.pc = "store"]
    /\ UNCHANGED <<pool_vars, chan, tasks, worker, ch, mpf, server,
                   crashed>>

\* ... and becomes the request that the MPF thread works for.
StoreSpeak ==
    /\ consumer.pc = "store"
    /\ ch' = [ch EXCEPT ![consumer.s].speak_request =
                            <<consumer.s, speaks[consumer.s]>>]
    /\ consumer' = Idle
    /\ UNCHANGED <<pool_vars, chan, tasks, worker, mpf, server, server_vars,
                   crashed>>

ConsumerStep ==
    \/ \E s \in Sessions : \/ Ali_synth_channel_stop(s)
                           \/ Ali_synth_channel_pause(s)
                           \/ Ali_synth_channel_resume(s)
                           \/ NewChannel(s)
    \/ Start
    \/ RespondSpeak
    \/ StoreSpeak

-----------------------------------------------------------------------------
(* EngineSynthStop, on the thread t (mpf or server): wait for the lock and  *)
(* stop the channel, give it back, forget it.                               *)

StopChannel(t) ==
    /\ t.pc = "stop"
    /\ ~chan[t.c].locked
    /\ chan' = [chan EXCEPT ![t.c] = Stopped(t.c)]
    /\ UNCHANGED <<pool_vars, ch>>

ReturnChannel(t) ==
    /\ t.pc = "delete"
    /\ DeleteChannel(t.c)
    /\ UNCHANGED <<chan, ch>>

\* Mutant: the session keeps the pointer.
ForgetChannel_keep(t) ==
    /\ t.pc = "forget"
    /\ UNCHANGED <<chan, pool_vars, ch>>

ForgetChannel(t) ==
    /\ t.pc = "forget"
    /\ ch' = [ch EXCEPT ![t.s].AliSynthCh = NULL]
    /\ UNCHANGED <<chan, pool_vars>>

EngineSynthStop(t) ==
    \/ StopChannel(t)
    \/ ReturnChannel(t)
    \/ ForgetChannel(t)

NextStop(t) == CASE t.pc = "stop"   -> [t EXCEPT !.pc = "delete"]
                 [] t.pc = "delete" -> [t EXCEPT !.pc = "forget"]
                 [] t.pc = "forget" -> Idle

\* A call of EngineSynthStop by a thread.
StopCall(s) ==
    IF ch[s].AliSynthCh = NULL THEN Idle
    ELSE [pc |-> "stop", s |-> s, c |-> ch[s].AliSynthCh]

\* The session ends; no request of it is in work.
Ali_synth_channel_close(s) ==
    /\ server.pc = "idle"
    /\ view[s] \notin {"closing", "closed"} /\ request[s] = NULL
    /\ ~Stopping(mpf, s)
    /\ server' = StopCall(s)
    /\ view' = [view EXCEPT ![s] = "closing"]
    /\ UNCHANGED <<pool_vars, chan, tasks, worker, ch, consumer, mpf, request,
                   speaks, crashed>>

ServerStop ==
    /\ EngineSynthStop(server)
    /\ server' = NextStop(server)
    /\ UNCHANGED <<tasks, worker, consumer, mpf, server_vars, crashed>>

-----------------------------------------------------------------------------
(* The MPF thread *)

\* The stream is closed when the session ends, after the server has closed the
\* channel, and for a moment when an offer changes the media of the session.
Ali_synth_stream_close(s) ==
    /\ mpf.pc = "idle"
    /\ view[s] # "closed" /\ request[s] = NULL
    /\ ~Stopping(server, s)
    /\ mpf' = StopCall(s)
    /\ view' = [view EXCEPT ![s] = IF @ = "closing" THEN "closed" ELSE @]
    /\ UNCHANGED <<pool_vars, chan, tasks, worker, ch, consumer, server, request,
                   speaks, crashed>>

MpfStop ==
    /\ EngineSynthStop(mpf)
    /\ mpf' = NextStop(mpf)
    /\ UNCHANGED <<tasks, worker, consumer, server, server_vars, crashed>>

\* Ali_synth_stream_read answers a STOP first ...
AnswerStop(s) ==
    /\ mpf.pc = "idle" /\ view[s] # "closed"
    /\ ch[s].stop_response
    /\ Respond(s, "idle")
    /\ mpf' = [pc |-> "clear", s |-> s, c |-> NULL]
    /\ UNCHANGED <<pool_vars, chan, tasks, worker, ch, consumer, server,
                   crashed>>

\* Mutant: the SPEAK that was stopped stays the one in progress.
ClearStop_only ==
    /\ mpf.pc = "clear"
    /\ ch' = [ch EXCEPT ![mpf.s].stop_response = FALSE]
    /\ mpf' = Idle
    /\ UNCHANGED <<pool_vars, chan, tasks, worker, consumer, server, server_vars,
                   crashed>>

\* ... and then clears it together with the SPEAK.  The channel is not stopped.
ClearStop ==
    /\ mpf.pc = "clear"
    /\ ch' = [ch EXCEPT ![mpf.s] = [@ EXCEPT !.stop_response = FALSE,
                                            !.speak_request = NULL,
                                            !.paused = FALSE]]
    /\ mpf' = Idle
    /\ UNCHANGED <<pool_vars, chan, tasks, worker, consumer, server, server_vars,
                   crashed>>

\* SPEAK-COMPLETE.
CompleteSpeak(s) ==
    /\ ch' = [ch EXCEPT ![s].speak_request = NULL]
    /\ view' = [view EXCEPT ![s] = IF @ = "closing" THEN @ ELSE "idle"]
    /\ mpf' = Idle

\* With a SPEAK that is not paused EngineReadFrame looks for the channel ...
EngineReadFrame(s) ==
    /\ mpf.pc = "idle" /\ view[s] # "closed"
    /\ ~ch[s].stop_response
    /\ ch[s].speak_request # NULL /\ ~ch[s].paused
    /\ IF ch[s].AliSynthCh = NULL
       THEN CompleteSpeak(s)
       ELSE /\ mpf' = [pc |-> "read", s |-> s, c |-> NULL]
            /\ UNCHANGED <<ch, view>>
    /\ UNCHANGED <<pool_vars, chan, tasks, worker, consumer, server, request,
                   speaks, crashed>>

\* The next frame: of the chunk in m_AudioFrame, or of the next in the queue.
NextFrame(k) ==
    LET f == k.m_AudioFrame
    IN  IF f.left > 0
        THEN [k EXCEPT !.m_AudioFrame.left = f.left - 1,
                       !.m_AudioFrame.buffer = f.left > 1]
        ELSE IF k.m_AudioQueue = <<>> THEN k
        ELSE [k EXCEPT !.m_AudioFrame =
                           [left |-> Head(k.m_AudioQueue).frames - 1,
                            buffer |-> TRUE, item |-> Len(k.m_AudioQueue)],
                       !.m_AudioQueue = Tail(@)]

\* "The last block has been read completely": the queue is empty, and was
\* before the last chunk came out.
LastRead(k) ==
    k.m_AudioQueue = <<>> /\ k.m_AudioFrame = [NoAudio EXCEPT !.item = 1]

\* ... which the server's thread may have taken away in between: a crash.
readAudioData ==
    /\ mpf.pc = "read"
    /\ LET s == mpf.s
           c == ch[s].AliSynthCh
       IN  IF c = NULL
           THEN crashed' = TRUE /\ UNCHANGED <<chan, ch, view, mpf>>
           ELSE IF ~chan[c].m_Play
           THEN CompleteSpeak(s) /\ UNCHANGED <<chan, crashed>>
           ELSE LET k == NextFrame(chan[c])
                IN  /\ chan' = [chan EXCEPT ![c] = k]
                    /\ mpf' = IF LastRead(k)
                              THEN [mpf EXCEPT !.pc = "finish", !.c = c]
                              ELSE Idle
                    /\ UNCHANGED <<ch, view, crashed>>
    /\ UNCHANGED <<pool_vars, tasks, worker, consumer, server, request, speaks>>

\* The end of the audio: no more is played.
FinishPlay ==
    /\ mpf.pc = "finish"
    /\ ~chan[mpf.c].locked
    /\ chan' = [chan EXCEPT ![mpf.c].m_Play = FALSE]
    /\ mpf' = Idle
    /\ UNCHANGED <<pool_vars, tasks, worker, ch, consumer, server, server_vars,
                   crashed>>

MpfStep ==
    \/ \E s \in Sessions : \/ Ali_synth_stream_close(s)
                           \/ AnswerStop(s)
                           \/ EngineReadFrame(s)
    \/ MpfStop
    \/ ClearStop
    \/ readAudioData
    \/ FinishPlay

-----------------------------------------------------------------------------
(* CAliSynthChannel::synthMain, on a thread of the pool *)

\* A free thread takes the next task; which one makes no difference.  It makes
\* a request unless the channel has one (DoCreateSynthRequest) and starts it
\* with the text of the channel (DoSynthRequestInit); both may fail, and a
\* request that has been started cannot be started again.
DoSynthRequestInit(w) ==
    /\ worker[w].pc = "free"
    /\ \A v \in Workers : v < w => worker[v].pc # "free"
    /\ tasks # <<>>
    /\ tasks' = Tail(tasks)
    /\ LET c == Head(tasks)
       IN  \/ /\ chan[c].m_SynthReq = NULL
              /\ \E speech \in Speeches :
                   chan' = [chan EXCEPT ![c].m_SynthReq =
                                [text |-> chan[c].m_Text, sent |-> 0,
                                 speech |-> speech, done |-> FALSE]]
              /\ worker' = [worker EXCEPT ![w] =
                                [FreeWorker EXCEPT !.pc = "loop", !.c = c]]
           \/ /\ chan' = [chan EXCEPT ![c].m_SynthReq = NULL]
              /\ worker' = [worker EXCEPT ![w] =
                                [FreeWorker EXCEPT !.pc = "end", !.c = c]]
    /\ UNCHANGED crashed

\* while (m_Start): it spins until there is audio; the size of the list is
\* read without the lock.
TestStart(w) ==
    /\ worker[w].pc = "loop"
    /\ LET k == chan[worker[w].c]
       IN  \/ ~k.m_Start /\ worker' = [worker EXCEPT ![w].pc = "end"]
           \/ /\ k.m_Start /\ k.m_Runing /\ k.m_AudioList # <<>>
              /\ worker' = [worker EXCEPT ![w].pc = "take"]
    /\ UNCHANGED <<chan, tasks, crashed>>

\* front() of a list that another worker has emptied is undefined: a crash.
TakeAudio(w) ==
    /\ worker[w].pc = "take"
    /\ LET c == worker[w].c
       IN  /\ ~chan[c].locked
           /\ IF chan[c].m_AudioList = <<>>
              THEN crashed' = TRUE /\ UNCHANGED <<chan, worker>>
              ELSE /\ chan' = [chan EXCEPT ![c] =
                                   [chan[c] EXCEPT !.m_AudioList = Tail(@),
                                                   !.locked = TRUE]]
                   /\ worker' = [worker EXCEPT ![w] =
                                   [@ EXCEPT !.pc = "put",
                                       !.chunk = Head(chan[c].m_AudioList)]]
                   /\ UNCHANGED crashed
    /\ UNCHANGED tasks

\* Mutant: the chunk goes to the front of the queue.
PutAudio_front(w) ==
    /\ worker[w].pc = "put"
    /\ LET c == worker[w].c
       IN  /\ Len(chan[c].m_AudioQueue) < QueueSize
           /\ chan' = [chan EXCEPT ![c] =
                  [chan[c] EXCEPT !.m_AudioQueue = <<worker[w].chunk>> \o @,
                                  !.locked = FALSE]]
    /\ worker' = [worker EXCEPT ![w] = [@ EXCEPT !.pc = "loop", !.chunk = NULL]]
    /\ UNCHANGED <<tasks, crashed>>

\* apr_queue_push blocks while the queue is full, with the lock held.
PutAudio(w) ==
    /\ worker[w].pc = "put"
    /\ LET c == worker[w].c
       IN  /\ Len(chan[c].m_AudioQueue) < QueueSize
           /\ chan' = [chan EXCEPT ![c] =
                  [chan[c] EXCEPT !.m_AudioQueue = Append(@, worker[w].chunk),
                                  !.locked = FALSE]]
    /\ worker' = [worker EXCEPT ![w] = [@ EXCEPT !.pc = "loop", !.chunk = NULL]]
    /\ UNCHANGED <<tasks, crashed>>

\* DoDestroySynthRequest, without the lock.
EndSynthMain(w) ==
    /\ worker[w].pc = "end"
    /\ chan' = [chan EXCEPT ![worker[w].c].m_SynthReq = NULL]
    /\ worker' = [worker EXCEPT ![w] = FreeWorker]
    /\ UNCHANGED <<tasks, crashed>>

synthMain(w) ==
    /\ \/ DoSynthRequestInit(w)
       \/ TestStart(w)
       \/ TakeAudio(w)
       \/ PutAudio(w)
       \/ EndSynthMain(w)
    /\ UNCHANGED <<pool_vars, ch, consumer, mpf, server, server_vars>>

-----------------------------------------------------------------------------
(* The SDK's callbacks take the lock of the channel. *)

Active(c) == chan[c].m_SynthReq # NULL /\ ~chan[c].m_SynthReq.done

OnBinaryDataReceived(c) ==
    LET r == chan[c].m_SynthReq
    IN  /\ r.sent < Len(r.speech)
        /\ chan' = [chan EXCEPT ![c] =
               [chan[c] EXCEPT !.m_SynthReq.sent = @ + 1,
                               !.m_AudioList = Append(@,
                                   [text |-> r.text, n |-> r.sent + 1,
                                    frames |-> r.speech[r.sent + 1]])]]

OnSynthesisCompleted(c) ==
    /\ chan[c].m_SynthReq.sent = Len(chan[c].m_SynthReq.speech)
    /\ chan' = [chan EXCEPT ![c] = [@ EXCEPT !.m_Runing = FALSE,
                                             !.m_SynthReq.done = TRUE]]

OnTaskFailed(c) ==
    chan' = [chan EXCEPT ![c] = [Stopped(c) EXCEPT !.m_SynthReq.done = TRUE]]

Callback(c) ==
    /\ Active(c) /\ ~chan[c].locked
    /\ \/ OnBinaryDataReceived(c)
       \/ OnSynthesisCompleted(c)
       \/ OnTaskFailed(c)
    /\ UNCHANGED <<pool_vars, tasks, worker, ch, consumer, mpf, server,
                   server_vars, crashed>>

-----------------------------------------------------------------------------
Next ==
    /\ ~crashed
    /\ \/ \E s \in Sessions : Send(s) \/ Ali_synth_channel_close(s)
       \/ ServerStop
       \/ ConsumerStep
       \/ MpfStep
       \/ \E w \in Workers : synthMain(w)
       \/ \E c \in Chans : Callback(c)

Spec == Init /\ [][Next]_vars

-----------------------------------------------------------------------------
(* Properties *)

\* Every variable keeps its type.
TypeOK ==
    /\ idle \subseteq Chans /\ busy \subseteq Chans
    /\ tasks \in Seq(Chans)
    /\ \A c \in Chans :
         /\ {chan[c].m_Start, chan[c].m_Play, chan[c].m_Runing,
             chan[c].locked} \subseteq BOOLEAN
         /\ chan[c].m_Text \in Speaks \cup {NULL}
         /\ Len(chan[c].m_AudioQueue) <= QueueSize
    /\ ch \in [Sessions -> [speak_request : Speaks \cup {NULL},
                            stop_response : BOOLEAN, paused : BOOLEAN,
                            AliSynthCh : Chans \cup {NULL}]]
    /\ speaks \in [Sessions -> 0 .. MaxSpeaks]

\* Sessions that hold a channel and have not just given it back.
Holders == {s \in Sessions :
               /\ ch[s].AliSynthCh # NULL
               /\ \A t \in {mpf, server} : ~(t.s = s /\ t.pc = "forget")}

\* The channel of a session, or the one the consumer task is starting, is not
\* in the idle pool, where the next SPEAK would take it, and is nobody else's:
\* the two threads that give channels back never give back one that is lent
\* again.
HeldIsBusy ==
    /\ idle \cap busy = {}
    /\ \A s \in Holders : ch[s].AliSynthCh \in busy
    /\ \A s, t \in Holders : ch[s].AliSynthCh = ch[t].AliSynthCh => s = t
    /\ consumer.pc = "start" =>
         /\ consumer.c \in busy
         /\ \A s \in Holders : ch[s].AliSynthCh # consumer.c

\* The MPF thread reports SPEAK-COMPLETE only for a SPEAK that the server
\* holds to be in progress: not before its response was sent, and not after
\* the response to the STOP that ended it, although the consumer task answers
\* the one and stores the request of the other on its own thread.
CompleteForSpeaker ==
    [][\A s \in Sessions :
         ch[s].speak_request # NULL /\ ch'[s].speak_request = NULL
         /\ mpf.pc # "clear" => view[s] # "idle"]_vars

\* The chunk x was sent before y, and none between them.
Follows(x, y) == y.n = 1 \/ (y.text = x.text /\ y.n = x.n + 1)

\* The chunks q of a channel with the request r are in the order in which the
\* service sent them, and the last one is the last that came for r.
InOrder(q, r) ==
    /\ \A i \in 1 .. Len(q) - 1 : Follows(q[i], q[i + 1])
    /\ q # <<>> /\ r # NULL =>
         r.sent = 0 \/ (q[Len(q)].text = r.text /\ q[Len(q)].n = r.sent)

\* The worker w moves a chunk of the channel c to its queue.
Moves(w, c) == worker[w].pc = "put" /\ worker[w].c = c

\* The audio of a channel stays in the order in which the service sent it, none
\* left out and none twice, on its way through m_AudioList, a worker and
\* m_AudioQueue, though workers of earlier and later SPEAK requests may serve
\* the same channel, and the MPF thread reads from it without the lock.
AudioInOrder ==
    \A c \in Chans :
        LET k == chan[c]
        IN  /\ IF k.locked
               THEN \E w \in Workers : Moves(w, c)
               ELSE InOrder(k.m_AudioQueue \o k.m_AudioList, k.m_SynthReq)
            /\ \A w \in Workers : Moves(w, c) =>
                 InOrder(k.m_AudioQueue \o <<worker[w].chunk>> \o k.m_AudioList,
                         k.m_SynthReq)

\* What the comment in readAudioData says of the moment when it ends the play
\* ("the last block has been read completely"): no audio of the SPEAK is left.
LastBlockRead ==
    mpf.pc = "finish" /\ ch[mpf.s].AliSynthCh = mpf.c =>
        LET k == chan[mpf.c]
        IN  k.m_AudioQueue = <<>> /\ k.m_AudioList = <<>> /\ ~Active(mpf.c)

\* What start empties the queue for: the audio of a channel belongs to the
\* SPEAK that it was started for.
AudioOfSpeak ==
    \A c \in busy : \A i \in DOMAIN chan[c].m_AudioQueue :
        chan[c].m_Start => chan[c].m_AudioQueue[i].text = chan[c].m_Text

\* A STOP that the consumer task has taken waits for the MPF thread until it is
\* answered ("make sure there is no more activity and only then send the
\* response").
NoStopForgotten ==
    \A s \in Sessions : request[s] = "stopping" => ch[s].stop_response

=============================================================================
