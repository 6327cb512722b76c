---------------------------- MODULE ServerSession ----------------------------
(***************************************************************************)
(* A session of the MRCPv2 server (mrcp_server_session.c).  The thread of  *)
(* the server handles one signaling message of a session at a time: an     *)
(* offer, a control request or the termination; others wait in a queue.    *)
(* Each step of an offer or of the termination is a number of subrequests  *)
(* to the connection agent, the media engine and the engines of the        *)
(* resources, which answer on their own threads; the last answer starts    *)
(* the next step.                                                          *)
(*                                                                         *)
(* An offer is a sequence of control media, each with a resource and with  *)
(* a port that is on or off, and one audio media.  A resource has an       *)
(* engine, has an engine that takes no more channels, or is unknown.       *)
(***************************************************************************)
EXTENDS Integers, Sequences, FiniteSets

LOCAL INSTANCE SequencesExt

CONSTANTS
    Offers,                  \* offers of the client
    MAX_MPF_MESSAGE_COUNT,   \* commands in a message to the media engine
    MaxOffers,               \* bound: how many offers the client makes
    MaxRequests              \* bound: how many control requests it sends

Resources == {"available", "exhausted", "unknown"}
Media == [resource : Resources, port : BOOLEAN]

ASSUME ServerSessionAssumption ==
    /\ Offers \subseteq Seq(Media)
    /\ MAX_MPF_MESSAGE_COUNT \in Nat \ {0}
    /\ MaxOffers \in Nat /\ MaxRequests \in Nat

VARIABLES
    session,   \* the session, with what it has asked of others
    client     \* the client and its signaling agent

vars == <<session, client>>

None == <<>>

\* Signaling messages.  A control request is one that the state machine of the
\* channel answers itself, or one for the engine.
Offer(o) == <<"offer", o>>
Control(i, kind) == <<"control", i, kind>>
Terminate == <<"terminate">>

\* What the session asks of others: agent is what the connection agent has to
\* do, media the commands for the media engine, engine[i] what the engine of
\* the i-th channel has to do.
NewSession ==
    [state |-> "none", active_request |-> None, request_queue |-> <<>>,
     subrequest_count |-> 0, offer |-> None, answer |-> "none", last_offer |-> None,
     last_answer |-> "none", answers |-> <<>>, channels |-> <<>>, slot |-> "none",
     agent |-> <<>>, media |-> <<>>, engine |-> <<>>]

\* waiting is an offer without an answer, answered is the last offer that was
\* accepted; bye is set when the server asks for the end of the call.
NewClient == [offers |-> 0, requests |-> 0, waiting |-> None, answered |-> None,
              bye |-> FALSE, terminated |-> FALSE]

Init == session = NewSession /\ client = NewClient

\* A channel of the session.  Its state machine is active while a request such
\* as RECOGNIZE is in progress.
NewChannel(resource) ==
    [engine |-> IF resource = "available" THEN "closed" ELSE "none",
     waiting_for_channel |-> FALSE, waiting_for_termination |-> FALSE, active |-> FALSE]

RECURSIVE mrcp_server_signaling_message_dispatch(_)

-----------------------------------------------------------------------------
(* Subrequests *)

mrcp_server_session_state_set(s, state) ==
    [s EXCEPT !.subrequest_count = 0, !.state = state]

Channels(s) == DOMAIN s.channels
WithEngine(s) == {i \in Channels(s) : s.channels[i].engine # "none"}

\* A command for each channel of I, in order.
EachOf(command, I) ==
    LET indices == SetToSortSeq(I, <)
    IN  [k \in DOMAIN indices |-> <<command, indices[k]>>]

\* The channels with those of I changed by Op.
Changed(channels, I, Op(_)) ==
    [i \in DOMAIN channels |-> IF i \in I THEN Op(channels[i]) ELSE channels[i]]

AskAgent(s, command, I) ==
    [s EXCEPT !.agent = @ \o EachOf(command, I),
              !.channels = Changed(@, I, LAMBDA ch : [ch EXCEPT !.waiting_for_channel = TRUE]),
              !.subrequest_count = @ + Cardinality(I)]

\* Commands to the media engine, with one for the terminations of I and one
\* for the RTP termination.
AskMedia(s, commands, I) ==
    [s EXCEPT !.media = @ \o commands,
              !.channels = Changed(@, I, LAMBDA ch : [ch EXCEPT !.waiting_for_termination = TRUE]),
              !.slot = "waiting",
              !.subrequest_count = @ + Len(commands)]

AskEngines(s, request, I) ==
    [s EXCEPT !.engine = Changed(@, I, LAMBDA requests : Append(requests, request)),
              !.subrequest_count = @ + Cardinality(I)]

mrcp_engine_channel_virtual_open(s, I) ==
    LET closed == {i \in I : s.channels[i].engine = "closed"}
    IN  [AskEngines(s, "open", closed) EXCEPT
            !.channels = Changed(@, closed, LAMBDA ch : [ch EXCEPT !.engine = "open"])]

\* Mutant: a close that is not counted.
virtual_close_uncounted(s, I) ==
    LET open == {i \in I : s.channels[i].engine = "open"}
    IN  [s EXCEPT !.engine = Changed(@, open, LAMBDA requests : Append(requests, "close")),
                  !.channels = Changed(@, open, LAMBDA ch : [ch EXCEPT !.engine = "closed"])]

mrcp_engine_channel_virtual_close(s, I) ==
    LET open == {i \in I : s.channels[i].engine = "open"}
    IN  [AskEngines(s, "close", open) EXCEPT
            !.channels = Changed(@, open, LAMBDA ch : [ch EXCEPT !.engine = "closed"])]

-----------------------------------------------------------------------------
(* Offers *)

\* Wherever a request is answered, the next one is taken from the queue.
NextRequest(s) ==
    IF s.request_queue = <<>> THEN [s EXCEPT !.active_request = None]
    ELSE mrcp_server_signaling_message_dispatch(
             [s EXCEPT !.active_request = Head(s.request_queue), !.request_queue = Tail(@)])

\* Mutant: the request stays the active one.
answer_send_keep_active(s) ==
    [s EXCEPT !.answers = Append(@, <<s.offer, s.answer>>),
              !.last_offer = s.offer, !.last_answer = s.answer,
              !.offer = None, !.answer = "none"]

\* The answer goes to the client, with the offer it is for.
mrcp_server_session_answer_send(s) ==
    NextRequest([s EXCEPT !.answers = Append(@, <<s.offer, s.answer>>),
                          !.last_offer = s.offer, !.last_answer = s.answer,
                          !.offer = None, !.answer = "none"])

\* Mutant: the answer does not wait for the engines.
channels_update_no_wait(s) ==
    LET on == {i \in WithEngine(s) : i <= Len(s.offer) /\ s.offer[i].port}
    IN  mrcp_server_session_answer_send(
            mrcp_engine_channel_virtual_open(
                mrcp_server_session_state_set(s, "initializing"), on))

\* Once the media is set up the engines are opened and closed.
mrcp_server_engine_channels_update(s) ==
    LET offered == {i \in WithEngine(s) : i <= Len(s.offer)}
        on == {i \in offered : s.offer[i].port}
        asked == mrcp_engine_channel_virtual_close(
                     mrcp_engine_channel_virtual_open(
                         mrcp_server_session_state_set(s, "initializing"), on),
                     offered \ on)
    IN  IF asked.subrequest_count = 0 THEN mrcp_server_session_answer_send(asked) ELSE asked

\* The channels of new media.  There is none for an unknown resource.
mrcp_server_channel_create(s, media) ==
    LET known == SelectSeq(media, LAMBDA m : m.resource # "unknown")
    IN  [s EXCEPT
            !.channels = @ \o [k \in DOMAIN known |-> NewChannel(known[k].resource)],
            !.engine = @ \o [k \in DOMAIN known |-> <<>>],
            !.answer = IF \E k \in DOMAIN media : media[k].resource # "available"
                       THEN "failed" ELSE @]

mrcp_server_control_media_offer_process(s) ==
    LET count == Len(s.channels)
        media == SubSeq(s.offer, count + 1, Len(s.offer))
        added == mrcp_server_channel_create(s, media)
        existing == {i \in Channels(s) : i <= Len(s.offer)}
        new == Channels(added) \ Channels(s)
    IN  AskAgent(AskAgent(added, "modify", existing), "add", new)

mrcp_server_session_offer_process(s, o) ==
    LET received == [s EXCEPT !.offer = o, !.answer = "OK"]
        generating == mrcp_server_session_state_set(received, "generating")
        control == mrcp_server_control_media_offer_process(generating)
        new == WithEngine(control) \ WithEngine(s)
        commands == <<<<"reset">>>> \o EachOf("add", new) \o <<<<"rtp">>>>
                        \o EachOf("associate", WithEngine(control)) \o <<<<"apply">>>>
    IN  IF o = s.last_offer
        THEN mrcp_server_session_answer_send([received EXCEPT !.answer = s.last_answer])
        ELSE AskMedia(control, commands, new)

-----------------------------------------------------------------------------
(* Termination *)

\* Channels and engine channels are destroyed, and the client is told.
mrcp_server_session_terminate_send(s) == [s EXCEPT !.state = "terminated"]

\* Mutant: the engine channels are not closed.
terminate_process_no_close(s) ==
    AskMedia(AskAgent(mrcp_server_session_state_set(s, "terminating"), "remove", Channels(s)),
             <<<<"reset">>>> \o EachOf("subtract", WithEngine(s)) \o <<<<"rtp">>>>,
             WithEngine(s))

mrcp_server_session_terminate_process(s) ==
    LET commands == <<<<"reset">>>> \o EachOf("subtract", WithEngine(s)) \o <<<<"rtp">>>>
    IN  AskMedia(mrcp_engine_channel_virtual_close(
                     AskAgent(mrcp_server_session_state_set(s, "terminating"),
                              "remove", Channels(s)),
                     WithEngine(s)),
                 commands, WithEngine(s))

\* Mutant: a session with nothing to stop waits all the same.
deactivate_always_wait(s) ==
    AskEngines(mrcp_server_session_state_set(s, "deactivating"), "stop",
               {i \in Channels(s) : s.channels[i].active})

\* First the requests in progress are stopped.
mrcp_server_session_deactivate(s) ==
    LET asked == AskEngines(mrcp_server_session_state_set(s, "deactivating"), "stop",
                            {i \in Channels(s) : s.channels[i].active})
    IN  IF asked.subrequest_count = 0 THEN mrcp_server_session_terminate_process(asked)
        ELSE asked

-----------------------------------------------------------------------------
(* Signaling messages and answers of the others, on the thread of the server *)

\* A request for a channel without an engine is left alone.
mrcp_server_on_message_receive(s, i, kind) ==
    IF kind = "local" THEN NextRequest(s)
    ELSE IF i \in WithEngine(s) THEN [s EXCEPT !.engine[i] = Append(@, "request")]
    ELSE s

mrcp_server_signaling_message_dispatch(s) ==
    LET message == s.active_request
    IN  CASE message[1] = "offer" -> mrcp_server_session_offer_process(s, message[2])
          [] message[1] = "control" -> mrcp_server_on_message_receive(s, message[2], message[3])
          [] message[1] = "terminate" -> mrcp_server_session_deactivate(s)

mrcp_server_signaling_message_process(message) ==
    session' = IF session.active_request # None
               THEN [session EXCEPT !.request_queue = Append(@, message)]
               ELSE mrcp_server_signaling_message_dispatch(
                        [session EXCEPT !.active_request = message])

\* n subrequests are answered.
mrcp_server_session_subrequest_remove(s, n) ==
    LET left == [s EXCEPT !.subrequest_count = @ - n]
    IN  IF n = 0 \/ s.subrequest_count < n THEN s
        ELSE IF left.subrequest_count > 0 THEN left
        ELSE CASE s.state = "generating" -> mrcp_server_engine_channels_update(left)
               [] s.state = "initializing" -> mrcp_server_session_answer_send(left)
               [] s.state = "deactivating" -> mrcp_server_session_terminate_process(left)
               [] s.state = "terminating" -> mrcp_server_session_terminate_send(left)
               [] OTHER -> left

Alive == session.state # "terminated"

mrcp_server_on_channel_modify ==
    /\ Alive
    /\ session.agent # <<>>
    /\ LET i == Head(session.agent)[2]
           n == IF session.channels[i].waiting_for_channel THEN 1 ELSE 0
       IN  session' = mrcp_server_session_subrequest_remove(
                          [session EXCEPT !.agent = Tail(@),
                                          !.channels[i].waiting_for_channel = FALSE], n)
    /\ UNCHANGED client

\* The answers to the commands of one message.
mrcp_server_mpf_message_process ==
    LET size == IF Len(session.media) < MAX_MPF_MESSAGE_COUNT THEN Len(session.media)
                ELSE MAX_MPF_MESSAGE_COUNT
        answered == SubSeq(session.media, 1, size)
        Waited(c) == CASE c[1] \in {"add", "subtract"} -> session.channels[c[2]].waiting_for_termination
                       [] c[1] = "rtp" -> session.slot = "waiting"
                       [] OTHER -> TRUE
        Answered(i) == \E k \in DOMAIN answered : answered[k] \in {<<"add", i>>, <<"subtract", i>>}
    IN  /\ Alive
        /\ session.media # <<>>
        /\ session' = mrcp_server_session_subrequest_remove(
               [session EXCEPT
                   !.media = SubSeq(@, size + 1, Len(@)),
                   !.slot = IF \E k \in DOMAIN answered : answered[k] = <<"rtp">>
                            THEN "ready" ELSE @,
                   !.channels = Changed(@, {i \in DOMAIN @ : Answered(i)},
                                        LAMBDA ch : [ch EXCEPT !.waiting_for_termination = FALSE])],
               Len(SelectSeq(answered, Waited)))
        /\ UNCHANGED client

\* The engine of the i-th channel has done the first of its requests.
EngineDone(i, request) ==
    /\ Alive
    /\ session.engine[i] # <<>> /\ Head(session.engine[i]) = request
    /\ UNCHANGED client

Taken(i) == [session EXCEPT !.engine[i] = Tail(@)]

mrcp_server_on_engine_channel_open(i, status) ==
    /\ EngineDone(i, "open")
    /\ session' = mrcp_server_session_subrequest_remove(
                      [Taken(i) EXCEPT !.answer = IF status THEN @ ELSE "failed"], 1)

mrcp_server_on_engine_channel_close(i) ==
    /\ EngineDone(i, "close")
    /\ session' = mrcp_server_session_subrequest_remove(Taken(i), 1)

\* The state machine has been deactivated.
state_machine_on_deactivate(i) ==
    /\ EngineDone(i, "stop")
    /\ session' = mrcp_server_session_subrequest_remove(
                      [Taken(i) EXCEPT !.channels[i].active = FALSE], 1)

\* The response to a request; the request may be in progress now.
state_machine_on_message_dispatch(i, active) ==
    /\ EngineDone(i, "request")
    /\ session' = NextRequest([Taken(i) EXCEPT !.channels[i].active = active])

\* The request in progress is complete.
Complete(i) ==
    /\ Alive
    /\ session.channels[i].active
    /\ session' = [session EXCEPT !.channels[i].active = FALSE]
    /\ UNCHANGED client

-----------------------------------------------------------------------------
(* The client, with the signaling agent *)

\* A call has one offer at a time, and is over if the first one is rejected.
ReceiveOffer(o) ==
    /\ Alive /\ ~client.terminated
    /\ client.waiting = None
    /\ client.offers = 0 \/ client.answered # None
    /\ client.offers < MaxOffers
    /\ client' = [client EXCEPT !.offers = @ + 1, !.waiting = o]
    /\ mrcp_server_signaling_message_process(Offer(o))

ReceiveAnswer ==
    /\ Alive
    /\ session.answers # <<>>
    /\ client' = [client EXCEPT
           !.waiting = None,
           !.answered = IF Head(session.answers)[2] = "OK" THEN Head(session.answers)[1] ELSE @]
    /\ session' = [session EXCEPT !.answers = Tail(@)]

\* A request for a channel of the offer that was accepted last.
mrcp_server_on_channel_message(i, kind) ==
    /\ Alive
    /\ i \in DOMAIN client.answered /\ client.answered[i].port
    /\ client.requests < MaxRequests
    /\ client' = [client EXCEPT !.requests = @ + 1]
    /\ mrcp_server_signaling_message_process(Control(i, kind))

\* The agent is asked to end the call of a lost connection.
mrcp_server_on_disconnect ==
    /\ Alive /\ ~client.bye
    /\ client.answered # None
    /\ session.state \notin {"deactivating", "terminating"}
    /\ client' = [client EXCEPT !.bye = TRUE]
    /\ UNCHANGED session

\* The call is over, once.
CallTerminated ==
    /\ Alive /\ ~client.terminated
    /\ client.offers > 0
    /\ client' = [client EXCEPT !.terminated = TRUE]
    /\ mrcp_server_signaling_message_process(Terminate)

Replies ==
    \/ mrcp_server_on_channel_modify
    \/ mrcp_server_mpf_message_process
    \/ \E i \in Channels(session) :
           \/ \E status \in BOOLEAN : mrcp_server_on_engine_channel_open(i, status)
           \/ mrcp_server_on_engine_channel_close(i)
           \/ state_machine_on_deactivate(i)
           \/ \E active \in BOOLEAN : state_machine_on_message_dispatch(i, active)

Next ==
    \/ Replies
    \/ \E i \in Channels(session) : Complete(i)
    \/ ReceiveAnswer
    \/ \E o \in Offers : ReceiveOffer(o)
    \/ \E i \in Channels(session), kind \in {"local", "engine"} :
           mrcp_server_on_channel_message(i, kind)
    \/ mrcp_server_on_disconnect
    \/ CallTerminated

ReplyDue ==
    Alive /\ (\/ session.agent # <<>>
              \/ session.media # <<>>
              \/ \E i \in Channels(session) : session.engine[i] # <<>>)

ByeDue == Alive /\ client.bye /\ ~client.terminated

\* The others answer, and the agent ends a call that it is asked to end: weak
\* fairness of Replies and CallTerminated, with what enables each written out.
Fairness ==
    /\ []<>~ReplyDue \/ []<><<Replies>>_vars
    /\ []<>~ByeDue \/ []<><<CallTerminated>>_vars

Spec == Init /\ [][Next]_vars /\ Fairness

-----------------------------------------------------------------------------
(* Properties *)

Asked == {"open", "close", "stop", "request"}

TypeOK ==
    /\ session.state \in {"none", "generating", "initializing", "deactivating",
                          "terminating", "terminated"}
    /\ session.subrequest_count \in Nat
    /\ session.offer \in Offers \cup {None} /\ session.last_offer \in Offers \cup {None}
    /\ session.answer \in {"none", "OK", "failed"}
    /\ session.answers \in Seq(Offers \X {"OK", "failed"})
    /\ session.slot \in {"none", "waiting", "ready"}
    /\ session.channels \in
           Seq([engine : {"none", "closed", "open"}, waiting_for_channel : BOOLEAN,
                waiting_for_termination : BOOLEAN, active : BOOLEAN])
    /\ session.engine \in [Channels(session) -> Seq(Asked)]
    /\ client.waiting \in Offers \cup {None} /\ client.answered \in Offers \cup {None}

\* The subrequests that the engines have been sent.
EngineSubrequests ==
    FoldSeq(LAMBDA requests, n : n + Len(SelectSeq(requests, LAMBDA r : r # "request")),
            0, session.engine)

\* The count is the number of subrequests that are not answered, over all the
\* threads that answer them: the next step never starts too early or never.
SubrequestsCounted ==
    session.subrequest_count = Len(session.agent) + Len(session.media) + EngineSubrequests

\* Answers that are written into the answer to the client (session->answer)
\* come only while there is one.
RepliesFindAnswer ==
    session.answer = "none" =>
        /\ \A k \in DOMAIN session.agent : session.agent[k][1] = "remove"
        /\ \A k \in DOMAIN session.media : session.media[k] = <<"rtp">> => session.state = "terminating"
        /\ \A i \in Channels(session) : \A k \in DOMAIN session.engine[i] :
               session.engine[i][k] # "open"

\* The offer the client waits for is in one place: in the queue, active, or
\* answered; so each offer has one answer.
OfferAnsweredOnce ==
    LET inQueue == {k \in DOMAIN session.request_queue : session.request_queue[k][1] = "offer"}
        active == session.active_request # None /\ session.active_request[1] = "offer"
    IN  Cardinality(inQueue) + Len(session.answers) + (IF active THEN 1 ELSE 0)
            = IF client.waiting # None THEN 1 ELSE 0

\* When the session is destroyed nobody is going to answer it any more, and
\* its engine channels are closed.
NothingOutlivesSession ==
    session.state = "terminated" =>
        /\ session.agent = <<>> /\ session.media = <<>>
        /\ \A i \in Channels(session) :
               session.engine[i] = <<>> /\ session.channels[i].engine # "open"

\* The active request is one that nobody handles.
Stuck ==
    /\ session.active_request # None /\ session.active_request[1] = "control"
    /\ session.active_request[2] \notin WithEngine(session)

\* A session whose call is over is destroyed in the end, and so is one whose
\* connection is lost, unless a request to a channel without engine blocks it.
SessionEnds ==
    (client.terminated \/ client.bye) ~> (session.state = "terminated" \/ Stuck)

\* "resource exists, but no implementation (plugin) found": an offer is only
\* accepted if each of its channels that are on has an engine.
AcceptedIsUsable ==
    \A k \in DOMAIN session.answers :
        session.answers[k][2] = "OK" =>
            \A i \in DOMAIN session.answers[k][1] :
                session.answers[k][1][i].port => i \in WithEngine(session)

=============================================================================
