------------------------ MODULE RecogAnyEngineProofs ------------------------
(***************************************************************************)
(* Proofs about the server's recognizer channel with any engine, for every *)
(* set of methods, number of requests and number of parts of a session.    *)
(***************************************************************************)
EXTENDS RecogAnyEngine, SequenceTheorems, TLAPS

\* The heart of the inductive invariant: a STOP is in flight only while a
\* RECOGNIZE is in progress.
StopInv ==
    /\ SessionTypeOK
    /\ TeardownTypeOK
    /\ RecogTypeOK
    /\ active_request \in Request \cup {NULL}
    /\ state = "RECOGNIZING" => recog # NULL
    /\ WaitingForStop => state = "RECOGNIZING"

\* The types of the variables the handlers of the server do not change.
RestTypeOK ==
    /\ active \in BOOLEAN
    /\ from_engine \in Seq(EngineMessages)
    /\ next_id \in 1 .. MaxRequests + 1
    /\ owed \subseteq Request
    /\ working \subseteq Request
    /\ inputs \in 0 .. MaxInputs

IInv == StopInv /\ RestTypeOK

-----------------------------------------------------------------------------
(* Facts about sequences *)

\* Putting an element in front of a sequence.
LEMMA ConsType ==
    ASSUME NEW S, NEW e \in S, NEW s \in Seq(S)
    PROVE  <<e>> \o s \in Seq(S)
  <1>1. <<e>> \in Seq(S)
    OBVIOUS
  <1> QED
    BY <1>1, ConcatProperties

\* Taking the first element off a sequence.
LEMMA PopType ==
    ASSUME NEW S, NEW s \in Seq(S), s # <<>>
    PROVE  Head(s) \in S /\ Tail(s) \in Seq(S)
  BY HeadTailProperties

-----------------------------------------------------------------------------
(* Facts about messages *)

\* A null pointer is no request and not the end of the session.
LEMMA NullIsNoRequest == NULL \notin Request /\ NULL # TerminateMsg
  BY ChannelAssumption DEF Request, Ids, TerminateMsg

\* The messages the server makes up are no client requests.
LEMMA ControlIsNoRequest == TerminateMsg \notin Request /\ CloseMsg \notin Request
  BY ChannelAssumption DEF Request, TerminateMsg, CloseMsg

-----------------------------------------------------------------------------
(* The dispatch helpers keep the types *)

\* Sending to the client.
LEMMA LoggedType ==
    ASSUME SessionTypeOK, NEW id, NEW entry \in LogEntries
    PROVE  Logged(id, entry) \in [Ids -> Seq(LogEntries)]
  <1> USE DEF SessionTypeOK, Logged
  <1>1. CASE id \in Ids
    BY <1>1, AppendProperties
  <1>2. CASE id \notin Ids
    BY Zenon, <1>2
  <1> QED
    BY <1>1, <1>2

\* Taking the session down.
LEMMA TerminateProcessType ==
    ASSUME TeardownTypeOK, mrcp_server_session_terminate_process
    PROVE  TeardownTypeOK'
  <1> USE ChannelAssumption DEF TeardownTypeOK, SessionStates,
      mrcp_server_session_terminate_process
  <1>1. to_engine' \in Seq(Request \cup {CloseMsg})
    OBVIOUS
  <1>2. /\ subrequest_count' \in 0 .. OtherParts + 1
        /\ removals' \in 0 .. OtherParts
    OBVIOUS
  <1>3. is_open' \in BOOLEAN /\ session_state' \in SessionStates
    BY Zenon
  <1> QED
    BY <1>1, <1>2, <1>3

\* One sub-request of the session is done.
LEMMA SubrequestRemoveType ==
    ASSUME TeardownTypeOK, mrcp_server_session_subrequest_remove
    PROVE  TeardownTypeOK'
  <1> USE ChannelAssumption DEF TeardownTypeOK, SessionStates
  <1>1. CASE mrcp_server_session_terminate_process
    BY <1>1, TerminateProcessType
  <1>2. CASE /\ subrequest_count > 0
             /\ subrequest_count' = subrequest_count - 1
             /\ session_state' = IF session_state = "TERMINATING"
                                    /\ subrequest_count = 1
                                 THEN "TERMINATED" ELSE session_state
             /\ UNCHANGED <<removals, is_open, to_engine>>
    BY <1>2
  <1>3. CASE UNCHANGED <<session_vars, to_engine>>
    BY <1>3 DEF session_vars
  <1> QED
    BY <1>1, <1>2, <1>3 DEF mrcp_server_session_subrequest_remove

\* A response leaves no request waiting for one.
LEMMA ResponseDispatchType ==
    ASSUME SessionTypeOK, TeardownTypeOK,
           NEW m \in EngineMessages, NEW rest \in Seq(Frames),
           recog_response_dispatch(m, rest)
    PROVE  SessionTypeOK' /\ TeardownTypeOK' /\ active_request' = NULL
  <1>1. CASE active
    <2>1. OnResponseDispatch(m, rest) /\ UNCHANGED <<session_vars, to_engine>>
      BY <1>1 DEF recog_response_dispatch
    <2>2. log' \in [Ids -> Seq(LogEntries)]
      <3>1. <<"response", m.rstate>> \in LogEntries
        BY DEF EngineMessages, LogEntries
      <3> QED
        BY SMTT(30), <2>1, <3>1, LoggedType DEF OnResponseDispatch
    <2>3. /\ session_request' \in Request \cup {TerminateMsg, NULL}
          /\ request_queue' \in Seq(Request \cup {TerminateMsg})
      <3>1. CASE request_queue = <<>>
        BY <2>1, <3>1 DEF OnResponseDispatch, SessionTypeOK
      <3>2. CASE request_queue # <<>>
        BY Zenon, <2>1, <3>2, PopType DEF OnResponseDispatch, SessionTypeOK
      <3> QED
        BY <3>1, <3>2
    <2>4. calls' \in Seq(Frames)
      <3>1. CASE request_queue = <<>>
        BY <2>1, <3>1 DEF OnResponseDispatch
      <3>2. CASE request_queue # <<>>
        <4>1. Head(request_queue) \in Request \cup {TerminateMsg}
          BY <3>2 DEF SessionTypeOK
        <4>2. Dispatch(Head(request_queue)) \in Frames
          BY <4>1 DEF Dispatch, Frames
        <4> QED
          BY Zenon, <2>1, <3>2, <4>2, ConsType DEF OnResponseDispatch
      <3> QED
        BY <3>1, <3>2
    <2> QED
      BY <2>1, <2>2, <2>3, <2>4 DEF session_vars, SessionTypeOK, TeardownTypeOK,
         recog_response_dispatch
  <1>2. CASE ~active
    BY <1>2, SubrequestRemoveType DEF recog_response_dispatch, SessionTypeOK
  <1> QED
    BY <1>1, <1>2

\* A request dispatched to the engine becomes the one waiting for a response.
LEMMA RequestDispatchType ==
    ASSUME SessionTypeOK, TeardownTypeOK,
           NEW m \in Request, NEW rest \in Seq(Frames),
           recog_request_dispatch(m, rest)
    PROVE  SessionTypeOK' /\ TeardownTypeOK' /\ active_request' = m
  BY DEF recog_request_dispatch, SendToEngine, SessionTypeOK, TeardownTypeOK,
     session_vars

\* A response of the state machine itself.
LEMMA ImmediateType ==
    ASSUME SessionTypeOK, TeardownTypeOK, calls # <<>>,
           NEW m \in Request, NEW rstate \in RequestStates,
           ImmediateResponse(m, rstate)
    PROVE  SessionTypeOK' /\ TeardownTypeOK' /\ active_request' = NULL
  <1>1. EngineMessage("RESPONSE", m.id, m.method, rstate) \in EngineMessages
    BY DEF EngineMessage, EngineMessages, Request
  <1>2. Tail(calls) \in Seq(Frames)
    BY PopType DEF SessionTypeOK
  <1> QED
    BY Zenon, <1>1, <1>2, ResponseDispatchType DEF ImmediateResponse

\* What a STOP does to the pending queue.
LEMMA RemoveType ==
    ASSUME RecogTypeOK, NEW list
    PROVE  /\ recog_pending_requests_remove(list) \subseteq RecognizeRequests
           /\ RemovedIds(list) \subseteq Nat
  <1>1. \A r \in queue : r \in RecognizeRequests /\ r.id \in Nat
    BY DEF RecogTypeOK, RecognizeRequests, Request
  <1> QED
    BY <1>1 DEF recog_pending_requests_remove, RemovedIds

-----------------------------------------------------------------------------
(* The handlers keep the invariant *)

\* The initial state is typed and nothing is in flight.
LEMMA InitInv == Init => IInv
  <1> USE ChannelAssumption, EngineAssumption
  <1> SUFFICES ASSUME Init PROVE IInv
    OBVIOUS
  <1> USE DEF Init, ServerInit, mrcp_server_session_create,
      mrcp_recog_state_machine_create
  <1>a. session_request \in Request \cup {TerminateMsg, NULL}
    OBVIOUS
  <1>b. /\ request_queue \in Seq(Request \cup {TerminateMsg})
        /\ calls \in Seq(Frames)
        /\ to_engine \in Seq(Request \cup {CloseMsg})
        /\ from_engine \in Seq(EngineMessages)
    OBVIOUS
  <1>c. session_state \in SessionStates /\ state \in RecogStates
    BY DEF SessionStates, RecogStates
  <1>d. /\ subrequest_count \in 0 .. OtherParts + 1
        /\ removals \in 0 .. OtherParts
        /\ next_id \in 1 .. MaxRequests + 1
    OBVIOUS
  <1>e. active \in BOOLEAN /\ is_open \in BOOLEAN /\ is_pending \in BOOLEAN
    BY Zenon
  <1>f. log \in [Ids -> Seq(LogEntries)]
    OBVIOUS
  <1> QED
    BY <1>a, <1>b, <1>c, <1>d, <1>e, <1>f DEF IInv, StopInv, RestTypeOK,
       SessionTypeOK, TeardownTypeOK, RecogTypeOK, EngineInit, WaitingForStop

\* Client requests.
LEMMA RequestInv ==
    ASSUME StopInv, calls # <<>>, NEW m \in Request,
           recog_request_state_update(m)
    PROVE  StopInv'
  <1> USE NullIsNoRequest DEF StopInv, WaitingForStop
  <1>t. Tail(calls) \in Seq(Frames)
    BY PopType DEF SessionTypeOK
  <1>s. "COMPLETE" \in RequestStates /\ "PENDING" \in RequestStates
    BY DEF RequestStates
  <1>1. CASE recog_request_direct(m)
    <2>1. m.method # "STOP"
      BY <1>1 DEF recog_request_direct, DirectMethods
    <2> QED
      BY Zenon, <1>1, <1>t, <2>1, RequestDispatchType DEF recog_request_direct, RecogTypeOK
  <1>2. CASE recog_request_define_grammar(m)
    <2>1. CASE state = "RECOGNIZING"
      BY <1>2, <1>s, <2>1, ImmediateType DEF recog_request_define_grammar,
         RecogTypeOK
    <2>2. CASE state # "RECOGNIZING"
      BY Zenon, <1>2, <1>t, <2>2, RequestDispatchType DEF recog_request_define_grammar,
         RecogTypeOK, recog_state_change, RecogStates
    <2> QED
      BY <2>1, <2>2
  <1>3. CASE recog_request_recognize(m)
    <2>1. CASE state = "RECOGNIZING"
      BY <1>3, <1>s, <2>1, ImmediateType DEF recog_request_recognize, RecogTypeOK,
         RecognizeRequests
    <2>2. CASE state # "RECOGNIZING"
      BY Zenon, <1>3, <1>t, <2>2, RequestDispatchType DEF recog_request_recognize,
         RecogTypeOK
    <2> QED
      BY <2>1, <2>2
  <1>4. CASE recog_request_get_result(m)
    <2>1. CASE state = "RECOGNIZED"
      BY Zenon, <1>4, <1>t, <2>1, RequestDispatchType DEF recog_request_get_result,
         RecogTypeOK
    <2>2. CASE state # "RECOGNIZED"
      BY <1>4, <1>s, <2>2, ImmediateType DEF recog_request_get_result, RecogTypeOK
    <2> QED
      BY <2>1, <2>2
  <1>5. CASE recog_request_recognition_start_timers(m)
    <2>1. CASE state = "RECOGNIZING"
      BY Zenon, <1>5, <1>t, <2>1, RequestDispatchType
         DEF recog_request_recognition_start_timers, RecogTypeOK
    <2>2. CASE state # "RECOGNIZING"
      BY <1>5, <1>s, <2>2, ImmediateType
         DEF recog_request_recognition_start_timers, RecogTypeOK
    <2> QED
      BY <2>1, <2>2
  <1>6. CASE recog_request_stop(m)
    <2>1. CASE state = "RECOGNIZING" /\ Selected(recog, m.list)
      BY Zenon, <1>6, <1>t, <2>1, RequestDispatchType DEF recog_request_stop, RecogTypeOK
    <2>2. CASE ~(state = "RECOGNIZING" /\ Selected(recog, m.list))
      <3>1. queue' \subseteq RecognizeRequests /\ stopped' \subseteq Nat
        BY Zenon, <1>6, <2>2, RemoveType DEF recog_request_stop, RecogTypeOK
      <3> QED
        BY <1>6, <1>s, <2>2, <3>1, ImmediateType DEF recog_request_stop,
           RecogTypeOK, recog_state_change, RecogStates
    <2> QED
      BY <2>1, <2>2
  <1> QED
    BY <1>1, <1>2, <1>3, <1>4, <1>5, <1>6 DEF recog_request_state_update

\* Responses of the engine.
LEMMA ResponseInv ==
    ASSUME StopInv, ServerIdle, NEW m \in EngineMessages,
           recog_response_state_update(m)
    PROVE  StopInv'
  <1> USE NullIsNoRequest DEF StopInv, WaitingForStop
  <1>e. <<>> \in Seq(Frames)
    OBVIOUS
  <1>1. CASE DropMessage
    BY <1>1 DEF DropMessage, recog_vars, session_vars, SessionTypeOK,
       TeardownTypeOK, RecogTypeOK
  <1>2. CASE Expected(m) /\ recog_response_recognize(m)
    <2>1. active_request \in Request
      BY <1>2 DEF Expected
    <2>2. RecogTypeOK' /\ (state' = "RECOGNIZING" => recog' # NULL)
      BY Zenon, <1>2, <2>1 DEF recog_response_recognize, RecogTypeOK, RecogStates
    <2>3. state = "RECOGNIZING" => state' = "RECOGNIZING"
      BY <1>2 DEF recog_response_recognize
    <2>4. CASE is_pending
      <3>1. UNCHANGED <<active_request, session_request, request_queue, calls,
                        session_vars, to_engine, log>>
        BY <1>2, <2>4 DEF recog_response_recognize
      <3> QED
        BY <2>2, <2>3, <3>1 DEF SessionTypeOK, TeardownTypeOK, session_vars
    <2>5. CASE ~is_pending
      <3>1. recog_response_dispatch(m, <<>>)
        BY <1>2, <2>5 DEF recog_response_recognize
      <3> QED
        BY Zenon, <1>e, <2>2, <3>1, ResponseDispatchType
    <2> QED
      BY <2>4, <2>5
  <1>3. CASE Expected(m) /\ recog_response_stop(m)
    <2>1. PICK rest \in Seq(Frames) : recog_response_dispatch(m, rest)
      <3> DEFINE kept == recog_pending_requests_remove(active_request.list)
      <3>1. CASE kept = {}
        BY Zenon, <1>3, <1>e, <3>1 DEF recog_response_stop
      <3>2. CASE kept # {}
        <4>1. PICK r \in kept : recog_response_dispatch(m, <<Resume(r)>>)
          BY <1>3, <3>2 DEF recog_response_stop
        <4>2. Resume(r) \in Frames
          BY RemoveType DEF Resume, Frames
        <4>3. <<Resume(r)>> \in Seq(Frames)
          BY <4>2
        <4> QED
          BY Zenon, <4>1, <4>3
      <3> QED
        BY <3>1, <3>2
    <2>2. queue' \subseteq RecognizeRequests
      BY Zenon, <1>3, RemoveType DEF recog_response_stop
    <2>3. stopped' \subseteq Nat
      <3>1. \A r \in {recog} \ {NULL} : r.id \in Nat
        BY DEF RecogTypeOK, Request
      <3> QED
        BY Zenon, <1>3, <3>1, RemoveType DEF recog_response_stop, RecogTypeOK
    <2>4. state' = "IDLE" /\ recog' = NULL /\ is_pending' = is_pending
      BY <1>3 DEF recog_response_stop, recog_state_change
    <2> QED
      BY <2>1, <2>2, <2>3, <2>4, ResponseDispatchType DEF RecogTypeOK, RecogStates
  <1>4. CASE Expected(m) /\ recog_response_other(m)
    BY Zenon, <1>4, <1>e, ResponseDispatchType DEF recog_response_other, RecogTypeOK
  <1> QED
    BY <1>1, <1>2, <1>3, <1>4 DEF recog_response_state_update

\* Events of the engine.
LEMMA EventInv ==
    ASSUME StopInv, NEW m \in EngineMessages, recog_event_state_update(m)
    PROVE  StopInv'
  <1> USE NullIsNoRequest DEF StopInv, WaitingForStop
  <1>1. CASE DropMessage
    BY <1>1 DEF DropMessage, recog_vars, session_vars, SessionTypeOK,
       TeardownTypeOK, RecogTypeOK
  <1>l. ASSUME NEW rstate \in RequestStates, OnEventDispatch(m.id, rstate)
        PROVE  log' \in [Ids -> Seq(LogEntries)]
    <2>1. <<"event", rstate>> \in LogEntries
      BY DEF LogEntries
    <2> QED
      BY Zenon, <1>l, <2>1, LoggedType DEF OnEventDispatch, SessionTypeOK
  <1>2. CASE recog_event_start_of_input(m)
    <2>1. log' \in [Ids -> Seq(LogEntries)]
      BY <1>2, <1>l DEF recog_event_start_of_input, RequestStates
    <2> QED
      BY <1>2, <2>1 DEF recog_event_start_of_input, recog_vars, session_vars,
         SessionTypeOK, TeardownTypeOK, RecogTypeOK
  <1>3. CASE recog_event_recognition_complete(m)
    <2>1. log' \in [Ids -> Seq(LogEntries)]
      BY <1>3, <1>l DEF recog_event_recognition_complete, RequestStates
    <2>2. SessionTypeOK'
      BY <1>3, <2>1 DEF recog_event_recognition_complete, SessionTypeOK
    <2>3. state' = "RECOGNIZED" /\ recog' = recog /\ stopped' = stopped
      BY <1>3 DEF recog_event_recognition_complete, recog_state_change
    <2>4. CASE queue = {} /\ UNCHANGED <<is_pending, active_request, queue,
                                         to_engine>>
      BY <1>3, <2>2, <2>3, <2>4 DEF recog_event_recognition_complete,
         session_vars, TeardownTypeOK, RecogTypeOK, RecogStates
    <2>5. ASSUME NEW r \in queue,
                 queue' = queue \ {r}, is_pending' = TRUE,
                 active_request' = r, SendToEngine(r)
          PROVE  StopInv'
      <3>1. r \in Request /\ r.method = "RECOGNIZE"
        BY DEF RecogTypeOK, RecognizeRequests
      <3>2. TeardownTypeOK'
        BY <1>3, <2>5, <3>1 DEF recog_event_recognition_complete, session_vars,
           TeardownTypeOK, SendToEngine
      <3> QED
        BY <2>2, <2>3, <2>5, <3>1, <3>2 DEF RecogTypeOK, RecogStates
    <2> QED
      BY Zenon, <1>3, <2>4, <2>5 DEF recog_event_recognition_complete
  <1> QED
    BY <1>1, <1>2, <1>3 DEF recog_event_state_update

\* The end of the session.
LEMMA DeactivateInv ==
    ASSUME StopInv, calls # <<>>, NEW m, recog_state_deactivate(m)
    PROVE  StopInv'
  <1> USE NullIsNoRequest DEF StopInv, WaitingForStop
  <1>1. SessionTypeOK'
    BY PopType DEF recog_state_deactivate, SessionTypeOK
  <1>2. RecogTypeOK' /\ state' = state /\ recog' = recog
    BY DEF recog_state_deactivate, RecogTypeOK
  <1>3. CASE state = "RECOGNIZING" /\ recog # NULL
    <2> DEFINE stop == [id |-> recog.id + 1, method |-> "STOP",
                        list |-> recog.list]
    <2>1. stop \in Request
      BY <1>3 DEF RecogTypeOK, Request
    <2>2. /\ active_request' = stop
          /\ to_engine' = Append(to_engine, stop)
          /\ session_state' = "DEACTIVATING"
          /\ subrequest_count' = 1
          /\ UNCHANGED <<is_open, removals>>
      BY <1>3 DEF recog_state_deactivate
    <2>3. TeardownTypeOK'
      BY <2>1, <2>2, ChannelAssumption DEF TeardownTypeOK, SessionStates
    <2> QED
      BY <1>1, <1>2, <1>3, <2>1, <2>2, <2>3
  <1>4. CASE ~(state = "RECOGNIZING" /\ recog # NULL)
    <2>1. mrcp_server_session_terminate_process /\ UNCHANGED active_request
      BY <1>4 DEF recog_state_deactivate
    <2> QED
      BY <1>1, <1>2, <2>1, TerminateProcessType
  <1> QED
    BY <1>3, <1>4

-----------------------------------------------------------------------------
(* The steps keep the invariant *)

\* Every step of the server task.
LEMMA ServerStepInv ==
    ASSUME IInv, ServerStep, UNCHANGED engine_vars
    PROVE  IInv'
  <1> USE DEF IInv, engine_vars
  <1>f. calls # <<>> => Head(calls) \in Frames
    BY PopType DEF StopInv, SessionTypeOK
  <1>1. CASE DispatchSignaling
    <2> DEFINE m == Head(calls).msg
    <2>1. CASE /\ m # TerminateMsg
               /\ recog_request_state_update(m)
               /\ UNCHANGED <<active, from_engine, next_id>>
      <3>1. m \in Request
        BY <1>1, <1>f, <2>1 DEF DispatchSignaling, Frames, RecognizeRequests
      <3> QED
        BY <1>1, <2>1, <3>1, RequestInv DEF DispatchSignaling, RestTypeOK
    <2>2. CASE recog_state_deactivate(m)
      BY Zenon, <1>1, <2>2, DeactivateInv DEF DispatchSignaling, RestTypeOK,
         recog_state_deactivate
    <2> QED
      BY <1>1, <2>1, <2>2 DEF DispatchSignaling
  <1>2. CASE ResumePending
    <2>1. /\ Head(calls).msg \in Request
          /\ Head(calls).msg.method = "RECOGNIZE"
      BY <1>2, <1>f DEF ResumePending, Frames, RecognizeRequests
    <2>2. Tail(calls) \in Seq(Frames)
      BY <1>2, PopType DEF ResumePending, StopInv, SessionTypeOK
    <2>3. StopInv'
      BY Zenon, <1>2, <2>1, <2>2, RequestDispatchType, NullIsNoRequest
         DEF ResumePending, StopInv, RecogTypeOK, WaitingForStop
    <2> QED
      BY <1>2, <2>3 DEF ResumePending, RestTypeOK
  <1>3. CASE mrcp_server_on_engine_channel_message
    <2>1. /\ Head(from_engine) \in EngineMessages
          /\ Tail(from_engine) \in Seq(EngineMessages)
      BY <1>3, PopType DEF mrcp_server_on_engine_channel_message, RestTypeOK
    <2>2. StopInv'
      BY <1>3, <2>1, ResponseInv, EventInv
         DEF mrcp_server_on_engine_channel_message
    <2> QED
      BY <1>3, <2>1, <2>2 DEF mrcp_server_on_engine_channel_message, RestTypeOK
  <1>4. CASE mrcp_server_on_engine_channel_close /\ UNCHANGED recog_vars
    <2>1. Tail(from_engine) \in Seq(EngineMessages)
      BY <1>4, PopType DEF mrcp_server_on_engine_channel_close, RestTypeOK
    <2>2. TeardownTypeOK'
      BY <1>4, SubrequestRemoveType DEF mrcp_server_on_engine_channel_close, StopInv
    <2> QED
      BY <1>4, <2>1, <2>2 DEF mrcp_server_on_engine_channel_close, recog_vars,
         StopInv, RestTypeOK, SessionTypeOK, RecogTypeOK, WaitingForStop
  <1>5. CASE OtherPartRemoved /\ UNCHANGED recog_vars
    <2>1. TeardownTypeOK'
      BY <1>5, ChannelAssumption DEF OtherPartRemoved, StopInv, TeardownTypeOK,
         SessionStates
    <2> QED
      BY <1>5, <2>1 DEF OtherPartRemoved, recog_vars, StopInv, RestTypeOK,
         SessionTypeOK, RecogTypeOK, WaitingForStop
  <1> QED
    BY <1>1, <1>2, <1>3, <1>4, <1>5 DEF ServerStep

\* Every step of the engine.
LEMMA EngineStepInv ==
    ASSUME IInv, EngineStep
    PROVE  IInv'
  <1> USE DEF IInv
  <1>o. ASSUME EngineOnly, to_engine' \in Seq(Request \cup {CloseMsg})
        PROVE  StopInv' /\ active' = active /\ next_id' = next_id
    BY <1>o DEF EngineOnly, StopInv, recog_vars, session_vars, SessionTypeOK,
       TeardownTypeOK, RecogTypeOK, WaitingForStop
  <1>q. to_engine \in Seq(Request \cup {CloseMsg})
    BY DEF StopInv, TeardownTypeOK
  <1>m. ASSUME NEW r \in Request
        PROVE  /\ \A rstate \in RequestStates :
                    EngineMessage("RESPONSE", r.id, r.method, rstate)
                      \in EngineMessages
               /\ EngineMessage("EVENT", r.id, "START-OF-INPUT", "IN-PROGRESS")
                    \in EngineMessages
               /\ EngineMessage("EVENT", r.id, "RECOGNITION-COMPLETE", "COMPLETE")
                    \in EngineMessages
    BY DEF EngineMessage, EngineMessages, Request, RequestStates
  <1>1. CASE EngineReceive
    <2>1. /\ Head(to_engine) \in Request \cup {CloseMsg}
          /\ Tail(to_engine) \in Seq(Request \cup {CloseMsg})
      BY <1>1, <1>q, PopType DEF EngineReceive
    <2>2. EngineMessage("CLOSED", 0, "CLOSE", "COMPLETE") \in EngineMessages
      BY DEF EngineMessage, EngineMessages, RequestStates
    <2>3. from_engine' \in Seq(EngineMessages) /\ owed' \subseteq Request
      <3>1. CASE Head(to_engine) = CloseMsg
        <4>1. /\ from_engine' = Append(from_engine,
                                EngineMessage("CLOSED", 0, "CLOSE", "COMPLETE"))
              /\ owed' = owed
          BY <1>1, <3>1 DEF EngineReceive, Send
        <4> QED
          BY <2>2, <4>1 DEF RestTypeOK
      <3>2. CASE Head(to_engine) # CloseMsg
        BY <1>1, <2>1, <3>2 DEF EngineReceive, RestTypeOK
      <3> QED
        BY <3>1, <3>2
    <2> QED
      BY <1>1, <1>o, <2>1, <2>3 DEF EngineReceive, RestTypeOK
  <1>2. CASE EngineRespond
    <2>1. PICK r \in owed :
            /\ owed' = owed \ {r}
            /\ \/ /\ Send(EngineMessage("RESPONSE", r.id, r.method, "IN-PROGRESS"))
                  /\ working' = working \cup {r}
                  /\ inputs' = 0
               \/ /\ Send(EngineMessage("RESPONSE", r.id, r.method, "COMPLETE"))
                  /\ working' = IF r.method = "STOP" THEN {} ELSE working
                  /\ UNCHANGED inputs
      BY <1>2 DEF EngineRespond
    <2>2. r \in Request
      BY DEF RestTypeOK
    <2>3. from_engine' \in Seq(EngineMessages)
      BY <1>m, <2>1, <2>2 DEF Send, RestTypeOK, RequestStates
    <2>4. owed' \subseteq Request /\ working' \subseteq Request
      BY <2>1, <2>2 DEF RestTypeOK
    <2>5. inputs' \in 0 .. MaxInputs
      BY <2>1, EngineAssumption DEF RestTypeOK
    <2> QED
      BY <1>2, <1>o, <1>q, <2>3, <2>4, <2>5 DEF EngineRespond, RestTypeOK
  <1>3. CASE EngineStartOfInput
    <2>1. PICK r \in working :
            Send(EngineMessage("EVENT", r.id, "START-OF-INPUT", "IN-PROGRESS"))
      BY <1>3 DEF EngineStartOfInput
    <2>2. from_engine' \in Seq(EngineMessages)
      BY <1>m, <2>1 DEF Send, RestTypeOK
    <2>3. inputs' \in 0 .. MaxInputs
      BY <1>3, EngineAssumption DEF EngineStartOfInput, RestTypeOK
    <2> QED
      BY <1>3, <1>o, <1>q, <2>2, <2>3 DEF EngineStartOfInput, RestTypeOK
  <1>4. CASE EngineComplete
    <2>1. PICK r \in working :
            /\ Send(EngineMessage("EVENT", r.id, "RECOGNITION-COMPLETE", "COMPLETE"))
            /\ working' = working \ {r}
      BY <1>4 DEF EngineComplete
    <2>2. from_engine' \in Seq(EngineMessages)
      BY <1>m, <2>1 DEF Send, RestTypeOK
    <2> QED
      BY <1>4, <1>o, <1>q, <2>1, <2>2 DEF EngineComplete, RestTypeOK
  <1> QED
    BY <1>1, <1>2, <1>3, <1>4 DEF EngineStep

\* The client puts a request, or the end of the session, in front of the
\* session.
LEMMA ClientStepInv ==
    ASSUME IInv, ClientStep, UNCHANGED engine_vars
    PROVE  IInv'
  <1> USE DEF IInv, engine_vars
  <1>p. ASSUME NEW m \in Request \cup {TerminateMsg},
               mrcp_server_signaling_message_process(m), UNCHANGED log
        PROVE  SessionTypeOK'
    <2>1. <<Dispatch(m)>> \in Seq(Frames)
      BY DEF Dispatch, Frames
    <2>2. CASE session_request # NULL
      <3>1. /\ request_queue' = Append(request_queue, m)
            /\ UNCHANGED <<session_request, calls, log>>
        BY <1>p, <2>2 DEF mrcp_server_signaling_message_process
      <3>2. request_queue' \in Seq(Request \cup {TerminateMsg})
        BY <3>1, AppendProperties DEF StopInv, SessionTypeOK
      <3> QED
        BY <3>1, <3>2 DEF StopInv, SessionTypeOK
    <2>3. CASE session_request = NULL
      BY Zenon, <1>p, <2>1, <2>3 DEF mrcp_server_signaling_message_process, StopInv,
         SessionTypeOK
    <2> QED
      BY <2>2, <2>3
  <1>1. ASSUME NEW method \in Methods,
               NEW list \in IF method = "STOP" THEN StopLists ELSE {{}},
               ClientRequest(method, list), UNCHANGED recog_vars
        PROVE  IInv'
    <2> DEFINE m == [id |-> next_id, method |-> method, list |-> list]
    <2>1. m \in Request
      BY RecogAssumption, ChannelAssumption DEF Request, RestTypeOK
    <2>2. SessionTypeOK'
      <3>1. mrcp_server_signaling_message_process(m) /\ UNCHANGED log
        BY <1>1 DEF ClientRequest
      <3>2. m \in Request \cup {TerminateMsg}
        BY <2>1
      <3> HIDE DEF m
      <3> QED
        BY <1>p, <3>1, <3>2
    <2>3. next_id' \in 1 .. MaxRequests + 1
      BY <1>1, ChannelAssumption DEF ClientRequest, RestTypeOK
    <2> QED
      BY <1>1, <2>2, <2>3 DEF ClientRequest, StopInv, RestTypeOK, recog_vars,
         session_vars, TeardownTypeOK, RecogTypeOK, WaitingForStop
  <1>2. CASE ClientTerminate /\ UNCHANGED recog_vars
    <2>1. SessionTypeOK'
      <3>1. /\ mrcp_server_signaling_message_process(TerminateMsg)
            /\ UNCHANGED log
        BY <1>2 DEF ClientTerminate
      <3>2. TerminateMsg \in Request \cup {TerminateMsg}
        OBVIOUS
      <3> QED
        BY <1>p, <3>1, <3>2
    <2> QED
      BY <1>2, <2>1 DEF ClientTerminate, StopInv, RestTypeOK, recog_vars,
         session_vars, TeardownTypeOK, RecogTypeOK, WaitingForStop
  <1> QED
    BY <1>1, <1>2 DEF ClientStep

-----------------------------------------------------------------------------
(* Theorems *)

\* Every step, whoever takes it.
LEMMA NextInv == IInv /\ [Next]_vars => IInv'
  <1> SUFFICES ASSUME IInv, [Next]_vars PROVE IInv'
    OBVIOUS
  <1>1. CASE UNCHANGED vars
    BY <1>1 DEF IInv, vars, server_vars, channel_vars, recog_vars, engine_vars,
       StopInv, RestTypeOK, SessionTypeOK, TeardownTypeOK, RecogTypeOK,
       WaitingForStop
  <1>2. CASE Next
    BY <1>1, <1>2, ServerStepInv, EngineStepInv, ClientStepInv DEF Next, Terminated
  <1> QED
    BY <1>1, <1>2

\* The invariant holds in every reachable state.
LEMMA InvAlways == Spec => []IInv
  BY InitInv, NextInv, PTL DEF Spec

\* The server and the engine never leave their types, whatever the client, the
\* engine and the scheduler do.
THEOREM TypeCorrect == Spec => []TypeOK
  <1>1. IInv => TypeOK
    BY DEF IInv, StopInv, RestTypeOK, TypeOK, ServerTypeOK
  <1> QED
    BY <1>1, InvAlways, PTL

\* recog_request_stop never reads through a null pointer, and a STOP is in
\* flight only while the RECOGNIZE it stops is in progress, for every number
\* of requests and every engine that keeps the rules.
THEOREM StopSafe == Spec => []StopNeedsRecognize
  <1>1. IInv => StopNeedsRecognize
    BY DEF IInv, StopInv, StopNeedsRecognize
  <1> QED
    BY <1>1, InvAlways, PTL

=============================================================================
