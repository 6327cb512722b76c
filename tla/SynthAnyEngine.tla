--------------------------- MODULE SynthAnyEngine ---------------------------
(***************************************************************************)
(* The server's synthesizer channel with ANY engine that keeps the plugin  *)
(* rules: one response to each request, and one SPEAK-COMPLETE for a SPEAK *)
(* that was not stopped.  As in the plugins, the speech of a SPEAK can end *)
(* while a request about it is still in the engine's queue.                *)
(***************************************************************************)
EXTENDS SynthStateMachine

CONSTANTS
    MaxMarkers,     \* bound: SPEECH-MARKER events the engine sends
    SpeakMayFail    \* does the engine ever refuse a SPEAK?

ASSUME EngineAssumption == MaxMarkers \in Nat /\ SpeakMayFail \in BOOLEAN

VARIABLES
    owed,       \* requests the engine has taken and not answered
    working,    \* SPEAK requests the engine is working on
    markers     \* SPEECH-MARKER events so far

engine_vars == <<owed, working, markers>>

vars == <<server_vars, engine_vars>>

EngineOnly ==
    UNCHANGED <<synth_vars, session_request, request_queue, session_vars, active,
                calls, next_id, log, stopped>>

Send(m) == from_engine' = Append(from_engine, m)

Respond(r, rstate, ok) == Send(SynthMessage("RESPONSE", r.id, r.method, rstate, ok))

Event(r, method, rstate) == Send(SynthMessage("EVENT", r.id, method, rstate, TRUE))

\* The engine's task takes the next message of its queue.
EngineReceive ==
    /\ to_engine # <<>>
    /\ to_engine' = Tail(to_engine)
    /\ IF Head(to_engine) = CloseMsg
       THEN /\ Send(SynthMessage("CLOSED", 0, "CLOSE", "COMPLETE", TRUE))
            /\ UNCHANGED owed
       ELSE /\ owed' = owed \cup {Head(to_engine)}
            /\ UNCHANGED from_engine
    /\ UNCHANGED <<working, markers>>
    /\ EngineOnly

StartSpeaking(r) ==
    /\ r.method = "SPEAK"
    /\ Respond(r, "IN-PROGRESS", TRUE)
    /\ working' = working \cup {r}

\* Any other request is done, or refused.
Answer(r) ==
    /\ r.method = "SPEAK" => SpeakMayFail
    /\ \E ok \in BOOLEAN :
         /\ r.method \in StopMethods => ok
         /\ r.method = "SPEAK" => ~ok
         /\ Respond(r, "COMPLETE", ok)
    /\ working' = IF r.method \in StopMethods THEN {} ELSE working

EngineRespond ==
    /\ \E r \in owed :
         /\ owed' = owed \ {r}
         /\ StartSpeaking(r) \/ Answer(r)
    /\ UNCHANGED <<to_engine, markers>>
    /\ EngineOnly

EngineMarker ==
    /\ markers < MaxMarkers
    /\ markers' = markers + 1
    /\ \E r \in working : Event(r, "SPEECH-MARKER", "IN-PROGRESS")
    /\ UNCHANGED <<to_engine, owed, working>>
    /\ EngineOnly

EngineComplete ==
    /\ \E r \in working :
         /\ Event(r, "SPEAK-COMPLETE", "COMPLETE")
         /\ working' = working \ {r}
    /\ UNCHANGED <<to_engine, owed, markers>>
    /\ EngineOnly

EngineStep == EngineReceive \/ EngineRespond \/ EngineMarker \/ EngineComplete

Init ==
    /\ ServerInit
    /\ owed = {} /\ working = {} /\ markers = 0

Next ==
    \/ ServerStep /\ UNCHANGED engine_vars
    \/ EngineStep
    \/ ClientStep /\ UNCHANGED engine_vars

Spec == Init /\ [][Next]_vars

\* The server task and the engine's task keep running, the engine keeps rule
\* 3, and speech comes to an end.  Nothing is assumed of the client.
FairSpec ==
    /\ Spec
    /\ WF_vars(ServerStep /\ UNCHANGED engine_vars)
    /\ WF_vars(EngineReceive)
    /\ WF_vars(EngineRespond)
    /\ WF_vars(EngineComplete)

-----------------------------------------------------------------------------
(* Properties *)

\* Every variable keeps its type.
SynthTypeOK ==
    /\ state \in {"IDLE", "SPEAKING", "PAUSED"}
    /\ speaker \in Request \cup {NULL}
    /\ active_request \in Request \cup {NULL}
    /\ is_pending \in BOOLEAN
    /\ \A r \in queue : r \in Request /\ r.method = "SPEAK"
    /\ session_state \in SessionStates
    /\ owed \subseteq Request /\ working \subseteq Request

HeadMessage == Head(from_engine)

\* The engine's message the server is about to process answers a request with
\* one of these methods, and is the response waited for.
Answering(methods) ==
    /\ from_engine # <<>>
    /\ HeadMessage.type = "RESPONSE"
    /\ HeadMessage.method \in methods
    /\ Expected(HeadMessage)

\* synth_response_stop and synth_response_barge_in_occurred read the id of the
\* SPEAK in progress without a test: there is one, although SPEAK-COMPLETE can
\* cross the request.
StopResponseHasSpeaker == Answering(StopMethods) => speaker # NULL

\* So do synth_response_pause and synth_response_resume on success, for the
\* SPEAK that was in progress when the request went out ("speaking or paused
\* state").
PauseResponseHasSpeaker ==
    Answering({"PAUSE", "RESUME"}) /\ HeadMessage.ok => speaker # NULL

\* The state is idle exactly when no SPEAK is in progress, whatever order
\* completions, pauses and stops come in.
IdleMeansNoSpeaker == state = "IDLE" <=> speaker = NULL

Responses(i) == Cardinality({k \in DOMAIN log[i] : log[i][k][1] = "response"})

\* The client gets at most one response to a request, also when a pending
\* SPEAK is answered by the engine later.
OneResponse == \A i \in Ids : Responses(i) <= 1

\* A SPEAK that a STOP or BARGE-IN-OCCURRED response lists as stopped gets no
\* event afterwards.
StoppedSpeakIsSilent ==
    [][\A i \in stopped \cap Ids : log'[i] = log[i]]_vars

\* What MRCP_REQUEST_STATE_PENDING promises: "The job has been placed on a
\* queue and will be processed in first-in-first-out order".  A pending SPEAK
\* leaves the queue sooner or later unless the session ends.
PendingProcessed ==
    \A i \in Ids : (\E r \in queue : r.id = i)
                       ~> ((\A r \in queue : r.id # i) \/ TerminateRequested)

=============================================================================
