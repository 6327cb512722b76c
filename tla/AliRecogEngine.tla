---------------------------- MODULE AliRecogEngine ----------------------------
(***************************************************************************)
(* One channel of the Alibaba recognizer plugin,                           *)
(* plugins/Alirecog/src/Ali_recog_engine.cpp, below the server's           *)
(* recognizer channel.  The file started as a copy of the demo plugin: its *)
(* consumer task and most of its stream callback are those of              *)
(* RecogDemoEngine.  What it adds is the recognition by the service: a     *)
(* RECOGNIZE starts it (EngineReocgStart), results come in from the SDK's  *)
(* threads, and the stream callback polls for them on every frame and      *)
(* sends each one as a RECOGNITION-COMPLETE.  The plugin is in the mode    *)
(* "recognizer".  The pools behind it are the subject of AliRecogPool.     *)
(***************************************************************************)
EXTENDS RecogDemoEngine

CONSTANT MaxResults   \* bound: results of one recognition

ASSUME AliAssumption == MaxResults \in Nat /\ MaxInputs \in Nat

VARIABLES
    started,   \* AliCh and AliRe: "no" (null), "queued" until the worker
               \* has created its request, then "running"
    results,   \* results waiting in the resource
    produced   \* results that came in since started changed

ali_vars == <<started, results, produced>>

Ali_recog_engine_channel_create ==
    /\ demo_recog_engine_channel_create
    /\ started = "no"
    /\ results = 0
    /\ produced = 0

\* A RECOGNIZE takes another resource, before it is answered.  Failing to get
\* one changes nothing about the answer.  The resource may still hold results
\* of its last user.
Ali_recog_channel_recognize ==
    /\ task = "dispatch"
    /\ demo_recog_channel_request_dispatch
    /\ task' = "store"
    /\ started' \in {"no", "queued"}
    /\ results' \in IF started' = "no" THEN {0} ELSE 0 .. MaxResults
    /\ produced' = results'

Ali_recog_channel_stop ==
    /\ task = "dispatch"
    /\ task_msg.method = "STOP"
    /\ demo_recog_channel_request_dispatch
    /\ UNCHANGED ali_vars

\* START-INPUT-TIMERS, and the requests that are answered unhandled.
Ali_recog_channel_request_dispatch ==
    /\ task = "dispatch"
    /\ task_msg.method # "STOP"
    /\ demo_recog_channel_request_dispatch
    /\ task' = "wait"
    /\ UNCHANGED ali_vars

Ali_recog_msg_process ==
    /\ demo_recog_msg_process \/ StoreRequest
    /\ UNCHANGED ali_vars

AliTask ==
    \/ Ali_recog_msg_process
    \/ Ali_recog_channel_recognize
    \/ Ali_recog_channel_stop
    \/ Ali_recog_channel_request_dispatch

\* The worker begins: DoCreateRecogRequest drops the results it finds.
DoCreateRecogRequest ==
    /\ started = "queued"
    /\ started' = "running"
    /\ results' = 0
    /\ produced' = 0
    /\ UNCHANGED <<server_vars, demo_vars, history_vars>>

\* A result of the service arrives (OnRecognitionResultChanged,
\* OnRecognitionCompleted), also after the recognition was stopped.
OnResult ==
    /\ started # "no"
    /\ produced < MaxResults
    /\ produced' = produced + 1
    /\ results' = results + 1
    /\ UNCHANGED <<started, server_vars, demo_vars, history_vars>>

\* The end of Ali_recog_stream_write: recog_request stays as it is.
SendResult ==
    /\ Recognizing
    /\ started # "no" /\ results > 0
    /\ results' = results - 1
    /\ Send(EngineMessage("EVENT", recog_request.id, "RECOGNITION-COMPLETE",
                          "COMPLETE"))
    /\ UNCHANGED <<started, produced, demo_vars, history_vars, to_engine>>
    /\ EngineOnly

\* After the detector has completed the request, the callback still takes a
\* result, and drops it unless there is a new request.
CompleteAndTake ==
    /\ SendRecognitionComplete
    /\ results' = IF results > 0 /\ recog_request = NULL THEN results - 1
                  ELSE results
    /\ UNCHANGED <<started, produced>>

Ali_recog_stream_write ==
    \/ demo_recog_stream_write /\ mpf # "send_complete" /\ UNCHANGED ali_vars
    \/ CompleteAndTake
    \/ SendResult

-----------------------------------------------------------------------------
AliInit == ServerInit /\ Ali_recog_engine_channel_create

\* When the media is taken down, Ali_recog_stream_close ends the recognition.
AliServerMoves ==
    /\ ServerMoves
    /\ IF MediaRunning' THEN UNCHANGED ali_vars
       ELSE started' = "no" /\ results' = 0 /\ UNCHANGED produced

AliNext ==
    \/ AliServerMoves
    \/ AliTask
    \/ DoCreateRecogRequest
    \/ OnResult
    \/ Ali_recog_stream_write
    \/ ClientStep /\ UNCHANGED <<demo_vars, history_vars, ali_vars>>

AliSpec == AliInit /\ [][AliNext]_<<vars, ali_vars>>

-----------------------------------------------------------------------------
(* Properties *)

\* Every variable the plugin adds keeps its type.
AliTypeOK ==
    /\ ServerTypeOK
    /\ started \in {"no", "queued", "running"}
    /\ produced \in 0 .. MaxResults
    /\ results \in 0 .. produced

\* The server survives an engine that completes a request again and again:
\* there is a RECOGNIZE in progress wherever it reads one without a test.
AliStopSafe ==
    AnyEngine!StopNeedsRecognize /\ AnyEngine!StopResponseHasRecognize

\* A request that a STOP response lists as stopped gets no event afterwards,
\* although the service goes on sending results.
AliStoppedIsSilent ==
    [][\A i \in stopped \cap Ids : log'[i] = log[i]]_<<vars, ali_vars>>

\* What MRCP_REQUEST_STATE_COMPLETE promises: "there will be no more events
\* from that resource to the client with that request-id".
AliCompleteIsLast == AnyEngine!NothingAfterComplete

=============================================================================
