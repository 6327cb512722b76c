-------------------------- MODULE RecogStateMachine --------------------------
(***************************************************************************)
(* The recognizer state machine of the server,                             *)
(* libs/mrcp-engine/src/mrcp_recog_state_machine.c, on top of the session  *)
(* that feeds it (ServerChannel).  One operator per handler of the C file; *)
(* the actions are the server task taking a nested call or an engine       *)
(* message.  What the engine does is left to the modules that extend this  *)
(* one.                                                                    *)
(***************************************************************************)
EXTENDS ServerChannel

CONSTANTS
    StopLists,        \* the Active-Request-Id-Lists the client puts in a STOP
    QueuesRecognize   \* may the client send a RECOGNIZE before the one before
                      \* it has finished?

ASSUME RecogAssumption ==
    /\ StopLists \subseteq SUBSET Ids
    /\ QueuesRecognize \in BOOLEAN

VARIABLES
    state,           \* recognizer state
    is_pending,      \* active_request came from the pending queue
    active_request,  \* sent to the engine, waiting for the response
    recog,           \* in-progress RECOGNIZE request
    queue            \* pending RECOGNIZE requests; they are pushed in the
                     \* order of their ids, so the list is a set, the lowest
                     \* id in front

recog_vars == <<state, is_pending, active_request, recog, queue>>

server_vars == <<channel_vars, recog_vars>>

RecogStates == {"IDLE", "RECOGNIZING", "RECOGNIZED"}

RecognizeRequests == {r \in Request : r.method = "RECOGNIZE"}

Frames == [op : {"dispatch"}, msg : Request \cup {TerminateMsg}]
          \cup [op : {"resume"}, msg : RecognizeRequests]

EngineMessages ==
    [type : {"RESPONSE", "EVENT", "CLOSED"},
     id : Nat,
     method : Methods \cup {"STOP", "START-OF-INPUT", "RECOGNITION-COMPLETE",
                            "CLOSE"},
     rstate : RequestStates]

SessionTypeOK ==
    /\ session_request \in Request \cup {TerminateMsg, NULL}
    /\ request_queue \in Seq(Request \cup {TerminateMsg})
    /\ calls \in Seq(Frames)
    /\ log \in [Ids -> Seq(LogEntries)]

TeardownTypeOK ==
    /\ session_state \in SessionStates
    /\ subrequest_count \in 0 .. OtherParts + 1
    /\ removals \in 0 .. OtherParts
    /\ is_open \in BOOLEAN
    /\ to_engine \in Seq(Request \cup {CloseMsg})

RecogTypeOK ==
    /\ state \in RecogStates
    /\ recog \in Request \cup {NULL}
    /\ queue \subseteq RecognizeRequests
    /\ is_pending \in BOOLEAN
    /\ stopped \subseteq Nat

ServerTypeOK ==
    /\ SessionTypeOK
    /\ TeardownTypeOK
    /\ RecogTypeOK
    /\ active_request \in Request \cup {NULL}
    /\ active \in BOOLEAN
    /\ from_engine \in Seq(EngineMessages)
    /\ next_id \in 1 .. MaxRequests + 1

mrcp_recog_state_machine_create ==
    /\ state = "IDLE"
    /\ is_pending = FALSE
    /\ active_request = NULL
    /\ recog = NULL
    /\ queue = {}

ServerInit ==
    /\ mrcp_server_session_create
    /\ mrcp_recog_state_machine_create

-----------------------------------------------------------------------------
(* Dispatch helpers *)

recog_request_dispatch(m, rest) ==
    /\ active_request' = m
    /\ SendToEngine(m)
    /\ calls' = rest
    /\ UNCHANGED <<session_request, request_queue, session_vars, log>>

\* Mutant: an inactive machine drops its response.
recog_response_dispatch_drop(m, rest) ==
    /\ active_request' = NULL
    /\ UNCHANGED <<session_vars, to_engine>>
    /\ IF active THEN OnResponseDispatch(m, rest)
       ELSE calls' = rest /\ UNCHANGED <<session_request, request_queue, log>>

\* While the machine is being deactivated the response is the answer to the
\* internal STOP and counts as a finished sub-request of the session.
recog_response_dispatch(m, rest) ==
    /\ active_request' = NULL
    /\ IF active
       THEN /\ OnResponseDispatch(m, rest)
            /\ UNCHANGED <<session_vars, to_engine>>
       ELSE /\ mrcp_server_session_subrequest_remove
            /\ calls' = rest
            /\ UNCHANGED <<session_request, request_queue, log>>

\* A response made by the state machine itself.
ImmediateResponse(m, rstate) ==
    recog_response_dispatch(EngineMessage("RESPONSE", m.id, m.method, rstate),
                            Tail(calls))

recog_state_change(s) ==
    /\ state' = s
    /\ recog' = IF s = "IDLE" THEN NULL ELSE recog

\* A STOP with an empty list means every request.
Selected(r, list) == list = {} \/ r.id \in list

\* Mutant: the pending requests are listed as stopped and stay.
pending_requests_keep(list) == queue

recog_pending_requests_remove(list) == {r \in queue : ~Selected(r, list)}

RemovedIds(list) == {r.id : r \in {q \in queue : Selected(q, list)}}

\* r is at the front of the list q.
IsFront(r, q) == r \in q /\ \A other \in q : r.id <= other.id

-----------------------------------------------------------------------------
(* Requests from the client: recog_request_state_update *)

\* SET-PARAMS, GET-PARAMS, INTERPRET and the enrollment methods, which have
\* no handler, go to the engine in every state.
DirectMethods == Methods \ {"RECOGNIZE", "STOP", "DEFINE-GRAMMAR",
                            "GET-RESULT", "START-INPUT-TIMERS"}

recog_request_direct(m) ==
    /\ m.method \in DirectMethods
    /\ recog_request_dispatch(m, Tail(calls))
    /\ UNCHANGED <<state, is_pending, recog, queue, stopped>>

recog_request_define_grammar(m) ==
    /\ m.method = "DEFINE-GRAMMAR"
    /\ UNCHANGED <<is_pending, queue, stopped>>
    /\ IF state = "RECOGNIZING"
       THEN /\ ImmediateResponse(m, "COMPLETE")
            /\ UNCHANGED <<state, recog>>
       ELSE /\ IF state = "RECOGNIZED" THEN recog_state_change("IDLE")
               ELSE UNCHANGED <<state, recog>>
            /\ recog_request_dispatch(m, Tail(calls))

recog_request_recognize(m) ==
    /\ m.method = "RECOGNIZE"
    /\ UNCHANGED <<state, is_pending, recog, stopped>>
    /\ IF state = "RECOGNIZING"
       THEN /\ queue' = queue \cup {m}
            /\ ImmediateResponse(m, "PENDING")
       ELSE /\ recog_request_dispatch(m, Tail(calls))
            /\ UNCHANGED queue

recog_request_get_result(m) ==
    /\ m.method = "GET-RESULT"
    /\ UNCHANGED <<state, is_pending, recog, queue, stopped>>
    /\ IF state = "RECOGNIZED" THEN recog_request_dispatch(m, Tail(calls))
       ELSE ImmediateResponse(m, "COMPLETE")

recog_request_recognition_start_timers(m) ==
    /\ m.method = "START-INPUT-TIMERS"
    /\ UNCHANGED <<state, is_pending, recog, queue, stopped>>
    /\ IF state = "RECOGNIZING" THEN recog_request_dispatch(m, Tail(calls))
       ELSE ImmediateResponse(m, "COMPLETE")

\* Mutant: a STOP without a list always goes to the engine.
recog_request_stop_any_state(m) ==
    /\ m.method = "STOP"
    /\ m.list = {}
    /\ recog_request_dispatch(m, Tail(calls))
    /\ UNCHANGED <<is_pending, state, recog, queue, stopped>>

\* Mutant: a STOP is answered without asking the engine to stop.
recog_request_stop_at_once(m) ==
    /\ m.method = "STOP"
    /\ queue' = recog_pending_requests_remove(m.list)
    /\ stopped' = stopped \cup RemovedIds(m.list)
                           \cup {r.id : r \in {recog} \ {NULL}}
    /\ ImmediateResponse(m, "COMPLETE")
    /\ UNCHANGED <<is_pending, state, recog>>

\* Only a STOP that names the in-progress request (or names none) is sent to
\* the engine; any other one is answered from the pending queue.
recog_request_stop(m) ==
    /\ m.method = "STOP"
    /\ UNCHANGED is_pending
    /\ IF state = "RECOGNIZING" /\ Selected(recog, m.list)
       THEN /\ recog_request_dispatch(m, Tail(calls))
            /\ UNCHANGED <<state, recog, queue, stopped>>
       ELSE /\ IF state = "RECOGNIZED" THEN recog_state_change("IDLE")
               ELSE UNCHANGED <<state, recog>>
            /\ queue' = recog_pending_requests_remove(m.list)
            /\ stopped' = stopped \cup RemovedIds(m.list)
            /\ ImmediateResponse(m, "COMPLETE")

recog_request_state_update(m) ==
    \/ recog_request_direct(m)
    \/ recog_request_define_grammar(m)
    \/ recog_request_recognize(m)
    \/ recog_request_get_result(m)
    \/ recog_request_recognition_start_timers(m)
    \/ recog_request_stop(m)

-----------------------------------------------------------------------------
(* Responses from the engine: recog_response_state_update *)

\* The response to a request that came from the pending queue is not sent.
recog_response_recognize(m) ==
    /\ m.method = "RECOGNIZE"
    /\ IF m.rstate = "IN-PROGRESS"
       THEN state' = "RECOGNIZING" /\ recog' = active_request
       ELSE UNCHANGED <<state, recog>>
    /\ is_pending' = FALSE
    /\ IF is_pending
       THEN UNCHANGED <<active_request, session_request, request_queue, calls,
                        session_vars, to_engine, log>>
       ELSE recog_response_dispatch(m, <<>>)
    /\ UNCHANGED <<queue, stopped>>

\* The response is sent before the next pending request is processed, and
\* sending it may dispatch the next queued client request first.
recog_response_stop(m) ==
    /\ m.method = "STOP"
    /\ stopped' = stopped \cup RemovedIds(active_request.list)
                           \cup {r.id : r \in {recog} \ {NULL}}
    /\ recog_state_change("IDLE")
    /\ LET kept == recog_pending_requests_remove(active_request.list)
       IN  \/ /\ kept = {}
              /\ queue' = {}
              /\ recog_response_dispatch(m, <<>>)
           \/ \E pending_request \in kept :
                /\ IsFront(pending_request, kept)
                /\ queue' = kept \ {pending_request}
                /\ recog_response_dispatch(m, <<Resume(pending_request)>>)
    /\ UNCHANGED is_pending

\* All other responses go to the client as they are.
recog_response_other(m) ==
    /\ m.method \notin {"RECOGNIZE", "STOP"}
    /\ recog_response_dispatch(m, <<>>)
    /\ UNCHANGED <<state, is_pending, recog, queue, stopped>>

\* A response that does not match the request waiting for one is dropped.
Expected(m) == active_request # NULL /\ active_request.id = m.id

DropMessage ==
    UNCHANGED <<recog_vars, session_request, request_queue, session_vars, calls,
                to_engine, log, stopped>>

recog_response_state_update(m) ==
    \/ ~Expected(m) /\ DropMessage
    \/ Expected(m) /\ recog_response_recognize(m)
    \/ Expected(m) /\ recog_response_stop(m)
    \/ Expected(m) /\ recog_response_other(m)

-----------------------------------------------------------------------------
(* Events from the engine: recog_event_state_update *)

InProgress(m) == recog # NULL /\ recog.id = m.id

recog_event_start_of_input(m) ==
    /\ m.method = "START-OF-INPUT"
    /\ InProgress(m)
    /\ OnEventDispatch(m.id, "IN-PROGRESS")
    /\ UNCHANGED <<recog_vars, session_request, request_queue, session_vars,
                   calls, to_engine, stopped>>

WaitingForStop == active_request # NULL /\ active_request.method = "STOP"

\* Mutant: a completion is not ignored while a STOP is waited for.
recognition_complete_despite_stop(m) ==
    /\ m.method = "RECOGNITION-COMPLETE"
    /\ InProgress(m)
    /\ recog_state_change("RECOGNIZED")
    /\ OnEventDispatch(m.id, "COMPLETE")
    /\ UNCHANGED <<is_pending, active_request, queue, to_engine,
                   session_request, request_queue, session_vars, calls, stopped>>

recog_event_recognition_complete(m) ==
    /\ m.method = "RECOGNITION-COMPLETE"
    /\ InProgress(m)
    /\ ~WaitingForStop
    /\ recog_state_change("RECOGNIZED")
    /\ OnEventDispatch(m.id, "COMPLETE")
    /\ \/ /\ queue = {}
          /\ UNCHANGED <<is_pending, active_request, queue, to_engine>>
       \/ \E pending_request \in queue :
            /\ IsFront(pending_request, queue)
            /\ queue' = queue \ {pending_request}
            /\ is_pending' = TRUE
            /\ active_request' = pending_request
            /\ SendToEngine(pending_request)
    /\ UNCHANGED <<session_request, request_queue, session_vars, calls,
                   stopped>>

\* Events of other requests, and a completion that crosses a STOP, are
\* ignored.
Ignored(m) ==
    \/ ~InProgress(m)
    \/ m.method = "RECOGNITION-COMPLETE" /\ WaitingForStop

recog_event_state_update(m) ==
    \/ recog_event_start_of_input(m)
    \/ recog_event_recognition_complete(m)
    \/ Ignored(m) /\ DropMessage

-----------------------------------------------------------------------------
(* Deactivation of the session *)

\* An in-progress RECOGNIZE is stopped by an internal request whose id is one
\* higher than the id of the RECOGNIZE.
recog_state_deactivate(m) ==
    /\ m = TerminateMsg
    /\ active' = FALSE
    /\ UNCHANGED <<state, is_pending, recog, queue, session_request,
                   request_queue, log, stopped, from_engine, next_id>>
    /\ calls' = Tail(calls)
    /\ IF state = "RECOGNIZING" /\ recog # NULL
       THEN LET stop == [id |-> recog.id + 1, method |-> "STOP",
                         list |-> recog.list]
            IN  /\ active_request' = stop
                /\ to_engine' = Append(to_engine, stop)
                /\ session_state' = "DEACTIVATING"
                /\ subrequest_count' = 1
                /\ UNCHANGED <<is_open, removals>>
       ELSE /\ mrcp_server_session_terminate_process
            /\ UNCHANGED active_request

-----------------------------------------------------------------------------
(* Steps of the server task *)

\* mrcp_server_signaling_message_dispatch for the innermost nested call.
DispatchSignaling ==
    /\ calls # <<>>
    /\ Head(calls).op = "dispatch"
    /\ LET m == Head(calls).msg
       IN  \/ /\ m # TerminateMsg
              /\ recog_request_state_update(m)
              /\ UNCHANGED <<active, from_engine, next_id>>
           \/ recog_state_deactivate(m)

\* The end of recog_response_stop.
ResumePending ==
    /\ calls # <<>>
    /\ Head(calls).op = "resume"
    /\ is_pending' = TRUE
    /\ recog_request_dispatch(Head(calls).msg, Tail(calls))
    /\ UNCHANGED <<state, recog, queue, active, from_engine, next_id, stopped>>

\* The server task takes a response or an event of the engine.
mrcp_server_on_engine_channel_message ==
    /\ ServerIdle
    /\ from_engine # <<>>
    /\ session_state # "TERMINATED"
    /\ from_engine' = Tail(from_engine)
    /\ UNCHANGED <<active, next_id>>
    /\ LET m == Head(from_engine)
       IN  \/ m.type = "RESPONSE" /\ recog_response_state_update(m)
           \/ m.type = "EVENT" /\ recog_event_state_update(m)

ServerStep ==
    \/ DispatchSignaling
    \/ ResumePending
    \/ mrcp_server_on_engine_channel_message
    \/ mrcp_server_on_engine_channel_close /\ UNCHANGED recog_vars
    \/ OtherPartRemoved /\ UNCHANGED recog_vars

-----------------------------------------------------------------------------
(* The client and the engine, as far as every engine shares it *)

\* What the client knows of a request it has sent.
Finished(i) ==
    \/ i \in stopped
    \/ log[i] # <<>> /\ log[i][Len(log[i])][2] = "COMPLETE"

MaySend(method) ==
    method = "RECOGNIZE" /\ ~QueuesRecognize =>
        \A i \in Ids : i < next_id => Finished(i)

ClientStep ==
    /\ \/ \E method \in Methods :
            /\ MaySend(method)
            /\ \E list \in IF method = "STOP" THEN StopLists ELSE {{}} :
                 ClientRequest(method, list)
       \/ ClientTerminate
    /\ UNCHANGED recog_vars

\* mrcp_engine_channel_message_send and its siblings, from any thread.
Send(m) == from_engine' = Append(from_engine, m)

\* What an engine step leaves alone.
EngineOnly ==
    UNCHANGED <<recog_vars, session_request, request_queue, session_vars, active,
                calls, next_id, log, stopped>>

=============================================================================
