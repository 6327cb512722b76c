--------------------------- MODULE RecogDemoEngine ---------------------------
(***************************************************************************)
(* The demo recognizer plugin, plugins/demo-recog/src/demo_recog_engine.c, *)
(* below the server's recognizer channel.  Two threads share the plugin's  *)
(* channel object without a lock:                                          *)
(*   - the engine's consumer task runs demo_recog_msg_process;             *)
(*   - the MPF thread calls demo_recog_stream_write for every frame.       *)
(* A step is what a thread does up to the next access of the shared fields *)
(* the other thread can see.                                               *)
(*                                                                         *)
(* owed, working and inputs are history variables: with them every step is *)
(* a step of RecogAnyEngine.                                               *)
(***************************************************************************)
EXTENDS RecogStateMachine

CONSTANT MaxInputs   \* bound: the START-OF-INPUT events of one RECOGNIZE

VARIABLES
    recog_request,    \* active (in-progress) recognition request
    stop_response,    \* pending STOP response
    timers_started,   \* input timers are started
    task,             \* where the consumer task is in demo_recog_msg_process
    task_msg,         \* the request it works on
    mpf,              \* where the MPF thread is in demo_recog_stream_write
    completing,       \* the request the MPF thread's completion event is for
    owed, working, inputs

demo_vars == <<recog_request, stop_response, timers_started, task, task_msg,
               mpf, completing>>

history_vars == <<owed, working, inputs>>

vars == <<server_vars, demo_vars, history_vars>>

demo_recog_engine_channel_create ==
    /\ recog_request = NULL
    /\ stop_response = NULL
    /\ timers_started \in BOOLEAN    \* not initialised by the code
    /\ task = "wait" /\ task_msg = NULL
    /\ mpf = "frame"
    /\ completing = NULL
    /\ owed = {} /\ working = {} /\ inputs = 0

-----------------------------------------------------------------------------
(* The consumer task *)

Respond(r, rstate) ==
    Send(EngineMessage("RESPONSE", r.id, r.method, rstate))

\* The task takes a message; closing needs no more than an answer.
demo_recog_msg_process ==
    /\ task = "wait"
    /\ to_engine # <<>>
    /\ to_engine' = Tail(to_engine)
    /\ IF Head(to_engine) = CloseMsg
       THEN /\ Send(EngineMessage("CLOSED", 0, "CLOSE", "COMPLETE"))
            /\ UNCHANGED <<task, task_msg, owed>>
       ELSE /\ task' = "dispatch"
            /\ task_msg' = Head(to_engine)
            /\ owed' = owed \cup {Head(to_engine)}
            /\ UNCHANGED from_engine
    /\ UNCHANGED <<recog_request, stop_response, timers_started, mpf, completing,
                   working, inputs>>
    /\ EngineOnly

\* The response goes out before recog_request is set.
demo_recog_channel_recognize ==
    /\ task_msg.method = "RECOGNIZE"
    /\ \E start_input_timers \in BOOLEAN : timers_started' = start_input_timers
    /\ Respond(task_msg, "IN-PROGRESS")
    /\ task' = "store"
    /\ owed' = owed \ {task_msg}
    /\ working' = working \cup {task_msg}
    /\ inputs' = 0
    /\ UNCHANGED <<task_msg, stop_response>>

\* Mutant: the STOP is answered while the recognition goes on.
channel_stop_at_once ==
    /\ task_msg.method = "STOP"
    /\ Respond(task_msg, "COMPLETE")
    /\ task' = "wait" /\ task_msg' = NULL
    /\ owed' = owed \ {task_msg}
    /\ UNCHANGED <<stop_response, timers_started, working, inputs>>

\* The MPF thread sends the response.
demo_recog_channel_stop ==
    /\ task_msg.method = "STOP"
    /\ stop_response' = task_msg
    /\ task' = "wait" /\ task_msg' = NULL
    /\ UNCHANGED <<timers_started, history_vars, from_engine>>

\* START-INPUT-TIMERS, the methods without a handler, and a RECOGNIZE without
\* a codec descriptor are answered at once.
AnswerAtOnce ==
    /\ task_msg.method # "STOP"
    /\ timers_started' = (timers_started \/ task_msg.method = "START-INPUT-TIMERS")
    /\ Respond(task_msg, "COMPLETE")
    /\ task' = "wait" /\ task_msg' = NULL
    /\ owed' = owed \ {task_msg}
    /\ UNCHANGED <<stop_response, working, inputs>>

demo_recog_channel_request_dispatch ==
    /\ task = "dispatch"
    /\ \/ demo_recog_channel_recognize
       \/ demo_recog_channel_stop
       \/ AnswerAtOnce
    /\ UNCHANGED <<recog_request, mpf, completing, to_engine>>
    /\ EngineOnly

\* The end of demo_recog_channel_recognize.
StoreRequest ==
    /\ task = "store"
    /\ recog_request' = task_msg
    /\ task' = "wait" /\ task_msg' = NULL
    /\ UNCHANGED <<stop_response, timers_started, mpf, completing, history_vars,
                   to_engine, from_engine>>
    /\ EngineOnly

EngineTask ==
    \/ demo_recog_msg_process
    \/ demo_recog_channel_request_dispatch
    \/ StoreRequest

-----------------------------------------------------------------------------
(* demo_recog_stream_write, on the MPF thread *)

\* Frames arrive until the media of the session is subtracted.
MediaRunning ==
    session_state \in {"INITIALIZING", "DEACTIVATING"} \/ removals > 0

SendStopResponse ==
    /\ mpf = "frame" /\ MediaRunning
    /\ stop_response # NULL
    /\ Respond(stop_response, "COMPLETE")
    /\ mpf' = "clear_stop"
    /\ owed' = owed \ {stop_response}
    /\ working' = {}
    /\ UNCHANGED <<recog_request, stop_response, timers_started, task, task_msg,
                   completing, inputs, to_engine>>
    /\ EngineOnly

\* Mutant: recog_request survives the STOP.
ClearStopResponse_only ==
    /\ mpf = "clear_stop"
    /\ stop_response' = NULL
    /\ mpf' = "frame"
    /\ UNCHANGED <<recog_request, timers_started, task, task_msg, completing,
                   history_vars, to_engine, from_engine>>
    /\ EngineOnly

ClearStopResponse ==
    /\ mpf = "clear_stop"
    /\ stop_response' = NULL
    /\ mpf' = "clear_recog"
    /\ UNCHANGED <<recog_request, timers_started, task, task_msg, completing, history_vars,
                   to_engine, from_engine>>
    /\ EngineOnly

ClearRecogRequest ==
    /\ mpf \in {"clear_recog", "complete"}
    /\ recog_request' = NULL
    /\ mpf' = IF mpf = "complete" THEN "send_complete" ELSE "frame"
    /\ UNCHANGED <<stop_response, timers_started, task, task_msg, completing, history_vars,
                   to_engine, from_engine>>
    /\ EngineOnly

Recognizing ==
    /\ mpf = "frame" /\ MediaRunning
    /\ stop_response = NULL
    /\ recog_request # NULL

\* MPF_DETECTOR_EVENT_ACTIVITY
demo_recog_start_of_input ==
    /\ Recognizing
    /\ inputs < MaxInputs
    /\ inputs' = inputs + 1
    /\ Send(EngineMessage("EVENT", recog_request.id, "START-OF-INPUT",
                          "IN-PROGRESS"))
    /\ UNCHANGED <<demo_vars, owed, working, to_engine>>
    /\ EngineOnly

\* MPF_DETECTOR_EVENT_INACTIVITY, or _NOINPUT with the timers started: the
\* event is made from recog_request, which is then cleared, and sent.
demo_recog_recognition_complete ==
    /\ Recognizing
    /\ \E det_event \in {"INACTIVITY", "NOINPUT"} :
         det_event = "NOINPUT" => timers_started
    /\ completing' = recog_request
    /\ mpf' = "complete"
    /\ UNCHANGED <<recog_request, stop_response, timers_started, task, task_msg,
                   history_vars, to_engine, from_engine>>
    /\ EngineOnly

SendRecognitionComplete ==
    /\ mpf = "send_complete"
    /\ Send(EngineMessage("EVENT", completing.id, "RECOGNITION-COMPLETE",
                          "COMPLETE"))
    /\ mpf' = "frame"
    /\ completing' = NULL
    /\ working' = working \ {completing}
    /\ UNCHANGED <<recog_request, stop_response, timers_started, task, task_msg, owed,
                   inputs, to_engine>>
    /\ EngineOnly

demo_recog_stream_write ==
    \/ SendStopResponse
    \/ ClearStopResponse
    \/ ClearRecogRequest
    \/ demo_recog_start_of_input
    \/ demo_recog_recognition_complete
    \/ SendRecognitionComplete

-----------------------------------------------------------------------------
Init == ServerInit /\ demo_recog_engine_channel_create

Terminated ==
    /\ session_state = "TERMINATED"
    /\ UNCHANGED vars

\* The media is subtracted by the MPF thread, between two frames.
ServerMoves ==
    /\ ServerStep
    /\ removals' < removals => mpf = "frame"
    /\ UNCHANGED <<demo_vars, history_vars>>

Next ==
    \/ ServerMoves
    \/ EngineTask
    \/ demo_recog_stream_write
    \/ ClientStep /\ UNCHANGED <<demo_vars, history_vars>>
    \/ Terminated

Spec == Init /\ [][Next]_vars

\* All threads run, and frames keep coming (rule 4 and 5: nothing blocks).
\* When, if ever, the detector sees the end of an utterance is left open.
Fairness ==
    /\ WF_vars(ServerMoves)
    /\ WF_vars(EngineTask)
    /\ WF_vars(SendStopResponse \/ ClearStopResponse \/ ClearRecogRequest
                 \/ SendRecognitionComplete)

FairSpec == Spec /\ Fairness

-----------------------------------------------------------------------------
(* Properties *)

AnyEngine == INSTANCE RecogAnyEngine

\* The plugin, threads and all, is an engine as the server expects one.
ImplementsAnyEngine == AnyEngine!Spec

\* The events the MPF thread sends are for requests the engine has taken up
\* and neither finished nor stopped, although the thread works on a field the
\* consumer task may replace at any moment.
EventsForWork ==
    /\ Recognizing => recog_request \in working
    /\ mpf = "send_complete" => completing \in working

\* Rule 3 of the plugin rules: "One and only one response MUST be sent back to
\* the received request."  A STOP the plugin holds is one it still knows of.
NoStopForgotten ==
    \A r \in owed : r \in {task_msg, stop_response}

=============================================================================
