---------------------------- MODULE ServerChannel ----------------------------
(***************************************************************************)
(* The part of an MRCP server session that carries the control messages of *)
(* one channel: mrcp_server_session.c between the client on one side and a *)
(* resource state machine (RecogStateMachine, SynthStateMachine) on the    *)
(* other, with the message queues to and from the engine plugin.           *)
(*                                                                         *)
(* Everything here runs on the single server task.  A session processes    *)
(* one client request at a time (session_request) and queues the others;   *)
(* sending a response dispatches the next queued request from INSIDE the   *)
(* call that sends the response.  That re-entrancy is the variable calls:  *)
(* the nested calls that the server task still has to run, innermost       *)
(* first, before it may take the next message of its own queue.            *)
(***************************************************************************)
EXTENDS Naturals, Sequences, FiniteSets

CONSTANTS
    NULL,          \* a null pointer
    Methods,       \* the methods the client uses
    MaxRequests,   \* bound: the number of requests the client sends
    OtherParts     \* parts of the session besides the engine channel that are
                   \* taken down one by one: control channel, topology, streams

ASSUME ChannelAssumption ==
    /\ MaxRequests \in Nat \ {0}
    /\ OtherParts \in Nat
    /\ NULL \notin [id : Nat, method : Methods \cup {"STOP", "TERMINATE"},
                    list : SUBSET Nat]
    /\ Methods \cap {"TERMINATE", "CLOSE"} = {}

VARIABLES
    session_request,   \* session->active_request
    request_queue,     \* session->request_queue
    session_state,     \* session->state
    subrequest_count,  \* session->subrequest_count
    removals,          \* other parts whose removal is not confirmed yet
    active,            \* state_machine->base.active
    is_open,           \* engine_channel->is_open
    calls,             \* nested calls the server task still has to run
    to_engine,         \* message queue of the engine's task
    from_engine,       \* engine messages in the server task's queue
    next_id,           \* request-id of the client's next request
    log,               \* per request: the messages sent to the client
    stopped            \* requests listed as stopped by a STOP response

channel_vars == <<session_request, request_queue, session_state,
                  subrequest_count, removals, active, is_open, calls,
                  to_engine, from_engine, next_id, log, stopped>>

session_vars == <<session_state, subrequest_count, removals, is_open>>

-----------------------------------------------------------------------------
(* Messages *)

Ids == 1 .. MaxRequests

\* Requests of the client and the one the server makes up itself.
Request == [id : Nat, method : Methods \cup {"STOP"}, list : SUBSET Ids]

TerminateMsg == [id |-> 0, method |-> "TERMINATE", list |-> {}]

CloseMsg == [id |-> 0, method |-> "CLOSE", list |-> {}]

RequestStates == {"COMPLETE", "IN-PROGRESS", "PENDING"}

\* What the client gets: responses and events, with their request state.
LogEntries == {"response", "event"} \X RequestStates

EngineMessage(type, id, method, rstate) ==
    [type |-> type, id |-> id, method |-> method, rstate |-> rstate]

SessionStates == {"INITIALIZING", "DEACTIVATING", "TERMINATING", "TERMINATED"}

\* The calls that can be suspended: the dispatch of a signaling message, and
\* the rest of a handler that has a pending request to process.
Dispatch(m) == [op |-> "dispatch", msg |-> m]

Resume(r) == [op |-> "resume", msg |-> r]

ServerIdle == calls = <<>>

-----------------------------------------------------------------------------
(* mrcp_server_session.c *)

mrcp_server_session_create ==
    /\ session_request = NULL
    /\ request_queue = <<>>
    /\ session_state = "INITIALIZING"
    /\ subrequest_count = 0
    /\ removals = 0
    /\ active = TRUE
    /\ is_open = TRUE
    /\ calls = <<>>
    /\ to_engine = <<>>
    /\ from_engine = <<>>
    /\ next_id = 1
    /\ log = [i \in Ids |-> <<>>]
    /\ stopped = {}

\* A request becomes the active one, or waits behind the active one.
mrcp_server_signaling_message_process(m) ==
    IF session_request # NULL
    THEN /\ request_queue' = Append(request_queue, m)
         /\ UNCHANGED <<session_request, calls>>
    ELSE /\ session_request' = m
         /\ calls' = <<Dispatch(m)>>
         /\ UNCHANGED request_queue

\* A request sent by the state machine reaches the engine's task while the
\* engine channel exists.
SendToEngine(m) ==
    to_engine' = IF session_state = "TERMINATED" THEN to_engine
                 ELSE Append(to_engine, m)

\* Mutant: the sub-requests of the deactivation are not forgotten first.
terminate_process_no_reset ==
    LET closing == IF is_open THEN 1 ELSE 0
    IN  /\ subrequest_count' = subrequest_count + OtherParts + closing
        /\ removals' = OtherParts
        /\ is_open' = FALSE
        /\ to_engine' = IF is_open THEN Append(to_engine, CloseMsg)
                        ELSE to_engine
        /\ session_state' = IF OtherParts + closing = 0 THEN "TERMINATED"
                            ELSE "TERMINATING"

\* Every part of the session is asked to go away, the engine channel if it is
\* open; with nothing to wait for the session is over at once.
mrcp_server_session_terminate_process ==
    LET closing == IF is_open THEN 1 ELSE 0
    IN  /\ subrequest_count' = OtherParts + closing
        /\ removals' = OtherParts
        /\ is_open' = FALSE
        /\ to_engine' = IF is_open THEN Append(to_engine, CloseMsg)
                        ELSE to_engine
        /\ session_state' = IF OtherParts + closing = 0 THEN "TERMINATED"
                            ELSE "TERMINATING"

\* Mutant: the first part that is gone ends the session.
subrequest_remove_any ==
    /\ subrequest_count' = IF subrequest_count > 0 THEN subrequest_count - 1
                           ELSE 0
    /\ session_state' = IF session_state = "TERMINATING" THEN "TERMINATED"
                        ELSE session_state
    /\ UNCHANGED <<removals, is_open, to_engine>>

mrcp_server_session_subrequest_remove ==
    \/ /\ subrequest_count > 0
       /\ session_state = "DEACTIVATING"
       /\ subrequest_count = 1
       /\ mrcp_server_session_terminate_process
    \/ /\ subrequest_count > 0
       /\ ~(session_state = "DEACTIVATING" /\ subrequest_count = 1)
       /\ subrequest_count' = subrequest_count - 1
       /\ session_state' = IF session_state = "TERMINATING"
                              /\ subrequest_count = 1
                           THEN "TERMINATED" ELSE session_state
       /\ UNCHANGED <<removals, is_open, to_engine>>
    \/ /\ subrequest_count = 0
       /\ UNCHANGED <<session_vars, to_engine>>

\* mrcp_server_control_message_send, mrcp_session_control_response: the
\* message goes to the client.
Logged(id, entry) == [log EXCEPT ![id] = Append(@, entry)]

\* Mutant: the next request is dispatched and stays in the queue.
OnResponseDispatch_no_pop(m, rest) ==
    /\ log' = Logged(m.id, <<"response", m.rstate>>)
    /\ UNCHANGED request_queue
    /\ IF request_queue = <<>>
       THEN session_request' = NULL /\ calls' = rest
       ELSE /\ session_request' = Head(request_queue)
            /\ calls' = <<Dispatch(Head(request_queue))>> \o rest

\* Mutant: the requests waiting in the queue are not looked at.
OnResponseDispatch_no_next(m, rest) ==
    /\ log' = Logged(m.id, <<"response", m.rstate>>)
    /\ session_request' = NULL
    /\ calls' = rest
    /\ UNCHANGED request_queue

\* state_machine_on_message_dispatch, the response branch: the response goes
\* to the client and the next queued request is dispatched at once, before
\* the calls in rest.
OnResponseDispatch(m, rest) ==
    /\ log' = Logged(m.id, <<"response", m.rstate>>)
    /\ IF request_queue = <<>>
       THEN /\ session_request' = NULL
            /\ calls' = rest
            /\ UNCHANGED request_queue
       ELSE /\ session_request' = Head(request_queue)
            /\ request_queue' = Tail(request_queue)
            /\ calls' = <<Dispatch(Head(request_queue))>> \o rest

\* state_machine_on_message_dispatch, the event branch; *_event_dispatch of
\* the state machines drops events once the machine is deactivated.
OnEventDispatch(id, rstate) ==
    log' = IF active THEN Logged(id, <<"event", rstate>>) ELSE log

-----------------------------------------------------------------------------
(* Inputs of the server task that do not depend on the resource *)

\* The client sends its next request; the transport delivers it to the
\* server task (mrcp_server_on_channel_message).
ClientRequest(method, list) ==
    /\ ServerIdle
    /\ next_id <= MaxRequests
    /\ session_state # "TERMINATED"
    /\ next_id' = next_id + 1
    /\ mrcp_server_signaling_message_process(
           [id |-> next_id, method |-> method, list |-> list])
    /\ UNCHANGED <<session_vars, active, to_engine, from_engine, log, stopped>>

\* The client ends the session, or its connection is lost and the signaling
\* agent ends it (mrcp_server_on_disconnect): either way one TERMINATE.
TerminateRequested ==
    \/ session_request = TerminateMsg
    \/ \E i \in DOMAIN request_queue : request_queue[i] = TerminateMsg

ClientTerminate ==
    /\ ServerIdle
    /\ ~TerminateRequested
    /\ mrcp_server_signaling_message_process(TerminateMsg)
    /\ UNCHANGED <<session_vars, active, to_engine, from_engine, next_id, log,
                   stopped>>

\* The engine has closed the channel.
mrcp_server_on_engine_channel_close ==
    /\ ServerIdle
    /\ from_engine # <<>>
    /\ Head(from_engine).type = "CLOSED"
    /\ from_engine' = Tail(from_engine)
    /\ mrcp_server_session_subrequest_remove
    /\ UNCHANGED <<session_request, request_queue, active, calls, next_id,
                   log, stopped>>

\* One of the other parts is gone (mrcp_server_on_channel_remove,
\* mrcp_server_on_termination_subtract, the reply to MPF_RESET_ASSOCIATIONS).
OtherPartRemoved ==
    /\ ServerIdle
    /\ removals > 0
    /\ session_state = "TERMINATING"
    /\ subrequest_count > 0
    /\ subrequest_count' = subrequest_count - 1
    /\ removals' = removals - 1
    /\ session_state' = IF subrequest_count = 1 THEN "TERMINATED"
                        ELSE session_state
    /\ UNCHANGED <<is_open, to_engine, session_request, request_queue, active,
                   calls, from_engine, next_id, log, stopped>>
=============================================================================
