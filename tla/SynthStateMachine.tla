-------------------------- MODULE SynthStateMachine --------------------------
(***************************************************************************)
(* The synthesizer state machine of the server,                            *)
(* libs/mrcp-engine/src/mrcp_synth_state_machine.c, on top of the session  *)
(* that feeds it (ServerChannel).  It differs from the recognizer's in     *)
(* what a SPEAK can go through: PAUSE and RESUME, BARGE-IN-OCCURRED, and   *)
(* a SPEECH-MARKER event in place of the response to a pending SPEAK.      *)
(*                                                                         *)
(* Four handlers follow the pointer speaker without a test.  Where it is   *)
(* null the server process dies, and the model has no further server step. *)
(***************************************************************************)
EXTENDS ServerChannel

CONSTANT StopLists   \* the Active-Request-Id-Lists of STOP and BARGE-IN

ASSUME SynthAssumption == StopLists \subseteq SUBSET Ids

VARIABLES
    state,           \* synthesizer state
    is_pending,      \* active_request came from the pending queue
    active_request,  \* sent to the engine, waiting for the response
    speaker,         \* in-progress SPEAK request
    queue            \* pending SPEAK requests, a set in the order of the ids

synth_vars == <<state, is_pending, active_request, speaker, queue>>

server_vars == <<channel_vars, synth_vars>>

\* The handlers that stop speaking.
StopMethods == {"STOP", "BARGE-IN-OCCURRED"}

\* Messages of the engine; ok is the status code of a response.
SynthMessage(type, id, method, rstate, ok) ==
    [type |-> type, id |-> id, method |-> method, rstate |-> rstate, ok |-> ok]

mrcp_synth_state_machine_create ==
    /\ state = "IDLE"
    /\ is_pending = FALSE
    /\ active_request = NULL
    /\ speaker = NULL
    /\ queue = {}

ServerInit ==
    /\ mrcp_server_session_create
    /\ mrcp_synth_state_machine_create

-----------------------------------------------------------------------------
(* Dispatch helpers *)

synth_request_dispatch(m, rest) ==
    /\ active_request' = m
    /\ SendToEngine(m)
    /\ calls' = rest
    /\ UNCHANGED <<session_request, request_queue, session_vars, log>>

synth_response_dispatch(m, rest) ==
    /\ active_request' = NULL
    /\ IF active
       THEN /\ OnResponseDispatch(m, rest)
            /\ UNCHANGED <<session_vars, to_engine>>
       ELSE /\ mrcp_server_session_subrequest_remove
            /\ calls' = rest
            /\ UNCHANGED <<session_request, request_queue, log>>

\* A response made by the state machine itself.
ImmediateResponse(m, rstate) ==
    synth_response_dispatch(SynthMessage("RESPONSE", m.id, m.method, rstate,
                                         TRUE), Tail(calls))

\* Mutant: the SPEAK that is over stays the one in progress.
synth_state_change_keep(s) ==
    /\ state' = s
    /\ UNCHANGED speaker

synth_state_change(s) ==
    /\ state' = s
    /\ speaker' = IF s = "IDLE" THEN NULL ELSE speaker

\* An empty list means every request.
Selected(r, list) == list = {} \/ r.id \in list

\* Mutant: the pending requests are listed as stopped and stay.
pending_requests_keep(list) == queue

synth_pending_requests_remove(list) == {r \in queue : ~Selected(r, list)}

RemovedIds(list) == {r.id : r \in {q \in queue : Selected(q, list)}}

\* r is at the front of the list q.
IsFront(r, q) == r \in q /\ \A other \in q : r.id <= other.id

-----------------------------------------------------------------------------
(* Requests from the client: synth_request_state_update *)

\* What a handler does when it leaves the request to the engine, and when it
\* answers the request itself.
ToEngineIf(cond, m) ==
    /\ IF cond THEN synth_request_dispatch(m, Tail(calls))
       ELSE ImmediateResponse(m, "COMPLETE")
    /\ UNCHANGED <<state, is_pending, speaker, queue, stopped>>

synth_request_params(m) ==
    /\ m.method \in {"SET-PARAMS", "GET-PARAMS"}
    /\ ToEngineIf(TRUE, m)

synth_request_speak(m) ==
    /\ m.method = "SPEAK"
    /\ IF speaker # NULL
       THEN /\ queue' = queue \cup {m}
            /\ ImmediateResponse(m, "PENDING")
       ELSE /\ synth_request_dispatch(m, Tail(calls))
            /\ UNCHANGED queue
    /\ UNCHANGED <<state, is_pending, speaker, stopped>>

\* A STOP that does not name the SPEAK in progress is answered from the queue.
synth_request_stop(m) ==
    /\ m.method = "STOP"
    /\ IF speaker # NULL /\ Selected(speaker, m.list)
       THEN /\ synth_request_dispatch(m, Tail(calls))
            /\ UNCHANGED <<queue, stopped>>
       ELSE /\ queue' = synth_pending_requests_remove(m.list)
            /\ stopped' = stopped \cup RemovedIds(m.list)
            /\ ImmediateResponse(m, "COMPLETE")
    /\ UNCHANGED <<state, is_pending, speaker>>

synth_request_pause(m) ==
    /\ m.method = "PAUSE"
    /\ ToEngineIf(speaker # NULL /\ state = "SPEAKING", m)

synth_request_resume(m) ==
    /\ m.method = "RESUME"
    /\ ToEngineIf(speaker # NULL /\ state = "PAUSED", m)

synth_request_barge_in_occurred(m) ==
    /\ m.method = "BARGE-IN-OCCURRED"
    /\ \E kill_on_barge_in \in BOOLEAN :
         ToEngineIf(speaker # NULL /\ kill_on_barge_in, m)

synth_request_control(m) ==
    /\ m.method = "CONTROL"
    /\ ToEngineIf(state = "SPEAKING", m)

synth_request_define_lexicon(m) ==
    /\ m.method = "DEFINE-LEXICON"
    /\ ToEngineIf(state = "IDLE", m)

synth_request_state_update(m) ==
    \/ synth_request_params(m)
    \/ synth_request_speak(m)
    \/ synth_request_stop(m)
    \/ synth_request_pause(m)
    \/ synth_request_resume(m)
    \/ synth_request_barge_in_occurred(m)
    \/ synth_request_control(m)
    \/ synth_request_define_lexicon(m)

-----------------------------------------------------------------------------
(* Responses from the engine: synth_response_state_update *)

\* Mutant: the test of is_pending is missing.
synth_response_speak_always(m) ==
    /\ m.method = "SPEAK"
    /\ IF m.rstate = "IN-PROGRESS"
       THEN state' = "SPEAKING" /\ speaker' = active_request
       ELSE UNCHANGED <<state, speaker>>
    /\ is_pending' = FALSE
    /\ synth_response_dispatch(m, <<>>)
    /\ UNCHANGED <<queue, stopped>>

\* A pending SPEAK was answered before: the client gets a SPEECH-MARKER now,
\* whatever the engine answered, and active_request stays.
synth_response_speak(m) ==
    /\ m.method = "SPEAK"
    /\ IF m.rstate = "IN-PROGRESS"
       THEN state' = "SPEAKING" /\ speaker' = active_request
       ELSE UNCHANGED <<state, speaker>>
    /\ is_pending' = FALSE
    /\ IF is_pending
       THEN /\ OnEventDispatch(m.id, "IN-PROGRESS")
            /\ UNCHANGED <<active_request, session_request, request_queue, calls,
                           session_vars, to_engine>>
       ELSE synth_response_dispatch(m, <<>>)
    /\ UNCHANGED <<queue, stopped>>

\* What both stopping handlers do first.
Stopped(m) ==
    /\ speaker # NULL
    /\ stopped' = stopped \cup {speaker.id} \cup RemovedIds(active_request.list)
    /\ synth_state_change("IDLE")
    /\ UNCHANGED is_pending

\* The response is sent, which may dispatch a queued client request, before
\* the next pending SPEAK is processed.
synth_response_stop(m) ==
    /\ m.method = "STOP"
    /\ Stopped(m)
    /\ LET kept == synth_pending_requests_remove(active_request.list)
       IN  \/ /\ kept = {}
              /\ queue' = {}
              /\ synth_response_dispatch(m, <<>>)
           \/ \E pending_request \in kept :
                /\ IsFront(pending_request, kept)
                /\ queue' = kept \ {pending_request}
                /\ synth_response_dispatch(m, <<Resume(pending_request)>>)

\* The rest of the queue stays where it is.
synth_response_barge_in_occurred(m) ==
    /\ m.method = "BARGE-IN-OCCURRED"
    /\ Stopped(m)
    /\ queue' = synth_pending_requests_remove(active_request.list)
    /\ synth_response_dispatch(m, <<>>)

\* synth_response_pause, synth_response_resume: a success changes the state.
synth_response_pause(m) ==
    /\ m.method \in {"PAUSE", "RESUME"}
    /\ IF m.ok
       THEN /\ speaker # NULL
            /\ synth_state_change(IF m.method = "PAUSE" THEN "PAUSED"
                                  ELSE "SPEAKING")
       ELSE UNCHANGED <<state, speaker>>
    /\ synth_response_dispatch(m, <<>>)
    /\ UNCHANGED <<is_pending, queue, stopped>>

synth_response_control(m) ==
    /\ m.method = "CONTROL"
    /\ speaker # NULL
    /\ synth_response_dispatch(m, <<>>)
    /\ UNCHANGED <<state, is_pending, speaker, queue, stopped>>

synth_response_other(m) ==
    /\ m.method \in {"SET-PARAMS", "GET-PARAMS", "DEFINE-LEXICON"}
    /\ synth_response_dispatch(m, <<>>)
    /\ UNCHANGED <<state, is_pending, speaker, queue, stopped>>

\* A response that does not match the request waiting for one is dropped.
Expected(m) == active_request # NULL /\ active_request.id = m.id

DropMessage ==
    UNCHANGED <<synth_vars, session_request, request_queue, session_vars, calls,
                to_engine, log, stopped>>

synth_response_state_update(m) ==
    \/ ~Expected(m) /\ DropMessage
    \/ /\ Expected(m)
       /\ \/ synth_response_speak(m)
          \/ synth_response_stop(m)
          \/ synth_response_barge_in_occurred(m)
          \/ synth_response_pause(m)
          \/ synth_response_control(m)
          \/ synth_response_other(m)

-----------------------------------------------------------------------------
(* Events from the engine: synth_event_state_update *)

InProgress(m) == speaker # NULL /\ speaker.id = m.id

synth_event_speech_marker(m) ==
    /\ m.method = "SPEECH-MARKER"
    /\ InProgress(m)
    /\ OnEventDispatch(m.id, "IN-PROGRESS")
    /\ UNCHANGED <<synth_vars, session_request, request_queue, session_vars,
                   calls, to_engine, stopped>>

WaitingForStop == active_request # NULL /\ active_request.method \in StopMethods

\* Mutant: a completion is not ignored while a STOP is waited for.
speak_complete_despite_stop(m) ==
    /\ m.method = "SPEAK-COMPLETE"
    /\ InProgress(m)
    /\ synth_state_change("IDLE")
    /\ OnEventDispatch(m.id, "COMPLETE")
    /\ UNCHANGED <<is_pending, active_request, queue, to_engine,
                   session_request, request_queue, session_vars, calls, stopped>>

synth_event_speak_complete(m) ==
    /\ m.method = "SPEAK-COMPLETE"
    /\ InProgress(m)
    /\ ~WaitingForStop
    /\ synth_state_change("IDLE")
    /\ OnEventDispatch(m.id, "COMPLETE")
    /\ \/ /\ queue = {}
          /\ UNCHANGED <<is_pending, active_request, queue, to_engine>>
       \/ \E pending_request \in queue :
            /\ IsFront(pending_request, queue)
            /\ queue' = queue \ {pending_request}
            /\ is_pending' = TRUE
            /\ active_request' = pending_request
            /\ SendToEngine(pending_request)
    /\ UNCHANGED <<session_request, request_queue, session_vars, calls, stopped>>

Ignored(m) ==
    \/ ~InProgress(m)
    \/ m.method = "SPEAK-COMPLETE" /\ WaitingForStop

synth_event_state_update(m) ==
    \/ synth_event_speech_marker(m)
    \/ synth_event_speak_complete(m)
    \/ Ignored(m) /\ DropMessage

-----------------------------------------------------------------------------
(* Deactivation of the session *)

\* A SPEAK in progress, speaking or paused, is stopped by an internal STOP
\* whose id is one higher than the id of the SPEAK.
synth_state_deactivate(m) ==
    /\ m = TerminateMsg
    /\ active' = FALSE
    /\ calls' = Tail(calls)
    /\ IF speaker # NULL
       THEN LET stop == [id |-> speaker.id + 1, method |-> "STOP",
                         list |-> speaker.list]
            IN  /\ active_request' = stop
                /\ to_engine' = Append(to_engine, stop)
                /\ session_state' = "DEACTIVATING"
                /\ subrequest_count' = 1
                /\ UNCHANGED <<is_open, removals>>
       ELSE /\ mrcp_server_session_terminate_process
            /\ UNCHANGED active_request
    /\ UNCHANGED <<state, is_pending, speaker, queue, session_request,
                   request_queue, log, stopped, from_engine, next_id>>

-----------------------------------------------------------------------------
(* Steps of the server task and of the client *)

DispatchSignaling ==
    /\ calls # <<>>
    /\ Head(calls).op = "dispatch"
    /\ LET m == Head(calls).msg
       IN  \/ /\ m # TerminateMsg
              /\ synth_request_state_update(m)
              /\ UNCHANGED <<active, from_engine, next_id>>
           \/ synth_state_deactivate(m)

\* The end of synth_response_stop.
ResumePending ==
    /\ calls # <<>>
    /\ Head(calls).op = "resume"
    /\ is_pending' = TRUE
    /\ synth_request_dispatch(Head(calls).msg, Tail(calls))
    /\ UNCHANGED <<state, speaker, queue, active, from_engine, next_id, stopped>>

mrcp_server_on_engine_channel_message ==
    /\ ServerIdle
    /\ from_engine # <<>>
    /\ session_state # "TERMINATED"
    /\ from_engine' = Tail(from_engine)
    /\ UNCHANGED <<active, next_id>>
    /\ LET m == Head(from_engine)
       IN  \/ m.type = "RESPONSE" /\ synth_response_state_update(m)
           \/ m.type = "EVENT" /\ synth_event_state_update(m)

ServerStep ==
    \/ DispatchSignaling
    \/ ResumePending
    \/ mrcp_server_on_engine_channel_message
    \/ mrcp_server_on_engine_channel_close /\ UNCHANGED synth_vars
    \/ OtherPartRemoved /\ UNCHANGED synth_vars

ClientStep ==
    /\ \/ \E method \in Methods :
            \E list \in IF method \in StopMethods THEN StopLists ELSE {{}} :
                ClientRequest(method, list)
       \/ ClientTerminate
    /\ UNCHANGED synth_vars

=============================================================================
