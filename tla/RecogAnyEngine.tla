--------------------------- MODULE RecogAnyEngine ---------------------------
(***************************************************************************)
(* The server's recognizer channel with ANY engine that keeps the          *)
(* "Mandatory rules concerning plugin implementation" at the head of the   *)
(* plugins: one and only one response to each request, sent when the       *)
(* engine likes and from whichever thread.  RecogDemoEngine, the plugin    *)
(* with its threads, is shown to implement this specification.             *)
(***************************************************************************)
EXTENDS RecogStateMachine

CONSTANT
    MaxInputs   \* bound: the START-OF-INPUT events of one RECOGNIZE

ASSUME EngineAssumption == MaxInputs \in Nat

VARIABLES
    owed,         \* requests the engine has taken and not answered
    working,      \* RECOGNIZE requests the engine is working on
    inputs        \* START-OF-INPUT events since the last one was taken up

engine_vars == <<owed, working, inputs>>

vars == <<server_vars, engine_vars>>

-----------------------------------------------------------------------------
(* The engine *)

EngineInit ==
    /\ owed = {}
    /\ working = {}
    /\ inputs = 0

\* The engine's task takes the next message of its queue.
EngineReceive ==
    /\ to_engine # <<>>
    /\ to_engine' = Tail(to_engine)
    /\ IF Head(to_engine) = CloseMsg
       THEN Send(EngineMessage("CLOSED", 0, "CLOSE", "COMPLETE"))
            /\ UNCHANGED owed
       ELSE owed' = owed \cup {Head(to_engine)} /\ UNCHANGED from_engine
    /\ UNCHANGED <<working, inputs>>
    /\ EngineOnly

\* A RECOGNIZE is taken up, or fails at once.  A STOP is answered when the
\* engine has dropped what it was doing.
EngineRespond ==
    /\ \E r \in owed :
         /\ owed' = owed \ {r}
         /\ \/ /\ r.method = "RECOGNIZE"
               /\ Send(EngineMessage("RESPONSE", r.id, r.method, "IN-PROGRESS"))
               /\ working' = working \cup {r}
               /\ inputs' = 0
            \/ /\ Send(EngineMessage("RESPONSE", r.id, r.method, "COMPLETE"))
               /\ working' = IF r.method = "STOP" THEN {} ELSE working
               /\ UNCHANGED inputs
    /\ UNCHANGED to_engine
    /\ EngineOnly

EngineStartOfInput ==
    /\ inputs < MaxInputs
    /\ inputs' = inputs + 1
    /\ \E r \in working :
         Send(EngineMessage("EVENT", r.id, "START-OF-INPUT", "IN-PROGRESS"))
    /\ UNCHANGED <<to_engine, owed, working>>
    /\ EngineOnly

EngineComplete ==
    /\ \E r \in working :
         /\ Send(EngineMessage("EVENT", r.id, "RECOGNITION-COMPLETE",
                               "COMPLETE"))
         /\ working' = working \ {r}
    /\ UNCHANGED <<to_engine, owed, inputs>>
    /\ EngineOnly

EngineStep ==
    \/ EngineReceive
    \/ EngineRespond
    \/ EngineStartOfInput
    \/ EngineComplete

-----------------------------------------------------------------------------
Init == ServerInit /\ EngineInit

\* The session is over.
Terminated ==
    /\ session_state = "TERMINATED"
    /\ UNCHANGED vars

Next ==
    \/ ServerStep /\ UNCHANGED engine_vars
    \/ EngineStep
    \/ ClientStep /\ UNCHANGED engine_vars
    \/ Terminated

Spec == Init /\ [][Next]_vars

\* The server task and the engine's tasks keep running, and the engine keeps
\* rule 3.  Nothing is assumed of the client, or of when an utterance ends.
Fairness ==
    /\ WF_vars(ServerStep /\ UNCHANGED engine_vars)
    /\ WF_vars(EngineReceive)
    /\ WF_vars(EngineRespond)

FairSpec == Spec /\ Fairness

-----------------------------------------------------------------------------
(* Properties *)

\* Every variable keeps its type.
TypeOK ==
    /\ ServerTypeOK
    /\ owed \subseteq Request
    /\ working \subseteq Request
    /\ inputs \in 0 .. MaxInputs

\* recog_request_stop reads the id of the in-progress request without a test:
\* there is one whenever it does.  And a STOP waits for its response only
\* while a RECOGNIZE is in progress, whatever completes in between.
StopNeedsRecognize ==
    /\ state = "RECOGNIZING" => recog # NULL
    /\ WaitingForStop => state = "RECOGNIZING"

\* recog_response_stop reads it without a test too, for any STOP response that
\* matches the request waiting for one.
StopResponseHasRecognize ==
    \A i \in DOMAIN from_engine :
        LET m == from_engine[i]
        IN  m.type = "RESPONSE" /\ m.method = "STOP" /\ Expected(m) =>
                recog # NULL

\* The client never gets two responses to one request.
AtMostOneResponse ==
    \A i \in Ids : \A j, k \in DOMAIN log[i] :
        log[i][j][1] = "response" /\ log[i][k][1] = "response" => j = k

\* A RECOGNIZE has been queued.  From then on the state machine may forget a
\* request (see PendingInOrder), and the session may wait for ever.
Queued == \E i \in Ids : \E k \in DOMAIN log[i] : log[i][k][2] = "PENDING"

\* COMPLETE is the last word about a request: no event, response or STOP
\* listing follows it.
NothingAfterComplete ==
    \A i \in Ids : \A k \in DOMAIN log[i] :
        log[i][k][2] = "COMPLETE" => k = Len(log[i])

\* A request a STOP response lists as stopped gets no event afterwards.
StoppedIsSilent ==
    [][\A i \in stopped \cap Ids : log'[i] = log[i]]_vars

\* The session ends only after the engine has closed the channel and every
\* other part is gone: no stray response ends it early.
TerminatedLast ==
    session_state = "TERMINATED" =>
        /\ removals = 0
        /\ ~is_open
        /\ \A i \in DOMAIN to_engine : to_engine[i] # CloseMsg
        /\ \A i \in DOMAIN from_engine : from_engine[i].type # "CLOSED"

\* Each request gets its response unless the session is being ended or a
\* RECOGNIZE has been queued.
RequestsAnswered ==
    \A i \in Ids : (next_id > i) ~> (log[i] # <<>> \/ TerminateRequested \/ Queued)

\* A session whose end is requested does end, unless a RECOGNIZE was queued.
TerminateCompletes ==
    TerminateRequested ~> (session_state = "TERMINATED" \/ Queued)

\* What MRCP_REQUEST_STATE_PENDING promises (mrcp_start_line.h): "The job has
\* been placed on a queue and will be processed in first-in-first-out order".
PendingInOrder ==
    state = "RECOGNIZING" =>
        \A pending_request \in queue : recog.id < pending_request.id

=============================================================================
