--------------------------- MODULE ClientConnection ---------------------------
(***************************************************************************)
(* The MRCPv2 connection agent of the client (mrcp_client_connection.c).   *)
(* One poller task connects to the server, shares connections among the    *)
(* control channels of the sessions, sends their requests and hands each   *)
(* of them one answer: the response of the server or, when the response    *)
(* takes too long, the connection is lost or sending fails, a failure that *)
(* the agent makes up.  A session has one request under way at a time.     *)
(*                                                                         *)
(* The server may answer late or never, and may disconnect at any time.    *)
(* Data arrives in whole messages, several of them at a time; events of    *)
(* the server, which the agent passes on, are left out.                    *)
(***************************************************************************)
EXTENDS PollerTask, FiniteSetsExt

CONSTANTS
    Channels,              \* control channels, one per session
    Conns,                 \* memory of connections
    NoConn,                \* NULL
    offer_new_connection,  \* settings of the agent
    request_timeout,
    MaxRequests            \* bound: how many requests a channel sends

ASSUME ClientConnectionAssumption ==
    /\ Timers = Channels
    /\ NoConn \notin Conns
    /\ offer_new_connection \in BOOLEAN
    /\ request_timeout \in Nat /\ RESCHEDULE + request_timeout < WORD
    /\ MaxRequests \in [Channels -> Nat]

VARIABLES
    channel,           \* the control channels
    connection,        \* the connections
    connection_list,   \* agent->connection_list
    msgs,              \* messages of the sessions to the agent
    requests,          \* the requests the server has got on a connection
    responses          \* its responses under way on the connection

network == <<requests, responses>>
agentVars == <<channel, connection, connection_list, msgs, network>>
vars == <<agentVars, pollerVars>>

None == 0
Disconnect == 0

\* stage is how far the session has got with the channel, request is the
\* request that it waits for, and inbox is what it has been sent: answers to
\* its requests, and Disconnect.
NewChannel == [stage |-> "new", type |-> "NEW", connection |-> NoConn, removed |-> FALSE,
               active_request |-> None, request |-> None, last |-> None,
               inbox |-> <<>>, disconnected |-> FALSE]

\* An open connection has a socket, a closed one has none.  rx_stream is what
\* the receive buffer holds before the place where the next data goes.
NoConnection == [state |-> "free", access_count |-> 0, channel_table |-> {},
                 rx_stream |-> <<>>]

Init ==
    /\ channel = [ch \in Channels |-> NewChannel]
    /\ connection = [c \in Conns |-> NoConnection]
    /\ connection_list = <<>>
    /\ msgs = <<>>
    /\ requests = [c \in Conns |-> {}]
    /\ responses = [c \in Conns |-> <<>>]
    /\ apt_poller_task_create

-----------------------------------------------------------------------------
(* The sessions, on the thread of the client *)

\* A message of a session to the agent.
Signal(ch, changed) ==
    /\ channel' = [channel EXCEPT ![ch] = changed]
    /\ msgs' = Append(msgs, ch)
    /\ UNCHANGED <<connection, connection_list, network, pollerVars>>

mrcp_client_control_channel_add(ch) ==
    /\ channel[ch].stage = "new"
    /\ Signal(ch, [channel[ch] EXCEPT !.stage = "adding"])

\* The server has answered the offer; it may insist on a new connection.
mrcp_client_control_channel_modify(ch, type) ==
    /\ channel[ch].stage = "added"
    /\ type = "EXISTING" => channel[ch].type = "EXISTING"
    /\ Signal(ch, [channel[ch] EXCEPT !.stage = "modifying", !.type = type])

mrcp_client_control_message_send(ch) ==
    LET id == channel[ch].last + 1
    IN  /\ channel[ch].stage = "ready"
        /\ channel[ch].request = None
        /\ ~channel[ch].disconnected
        /\ id <= MaxRequests[ch]
        /\ Signal(ch, [channel[ch] EXCEPT !.request = id, !.last = id])

\* A session is terminated when it waits for nothing.
mrcp_client_control_channel_remove(ch) ==
    /\ channel[ch].stage = "ready"
    /\ channel[ch].request = None
    /\ Signal(ch, [channel[ch] EXCEPT !.stage = "removing"])

\* The session takes what it has been sent.
mrcp_client_on_message_receive(ch) ==
    /\ channel[ch].inbox # <<>>
    /\ channel' = [channel EXCEPT
           ![ch].inbox = Tail(@),
           ![ch].disconnected = @ \/ Head(channel[ch].inbox) = Disconnect,
           ![ch].request = IF Head(channel[ch].inbox) = Disconnect THEN @ ELSE None]
    /\ UNCHANGED <<connection, connection_list, msgs, network, pollerVars>>

\* Mutant: only the session's own channel goes.
channel_destroy_keep_connection(ch) ==
    /\ channel[ch].stage = "removed"
    /\ channel[ch].inbox = <<>>
    /\ channel' = [channel EXCEPT ![ch] = [NewChannel EXCEPT !.stage = "destroyed"]]
    /\ UNCHANGED <<connection, connection_list, msgs, network, pollerVars>>

\* The last channel of a connection takes the connection with it.  Another
\* session has another channel, with an identifier of its own.
mrcp_client_control_channel_destroy(ch) ==
    LET c == channel[ch].connection
    IN  /\ channel[ch].stage = "removed"
        /\ channel[ch].inbox = <<>>
        /\ channel' = [channel EXCEPT ![ch] = [NewChannel EXCEPT !.stage = "destroyed"]]
        /\ connection' = IF c # NoConn /\ channel[ch].removed
                         THEN [connection EXCEPT ![c] = NoConnection] ELSE connection
        /\ UNCHANGED <<connection_list, msgs, network, pollerVars>>

Sessions ==
    \E ch \in Channels :
        \/ mrcp_client_control_channel_add(ch)
        \/ \E type \in {"NEW", "EXISTING"} : mrcp_client_control_channel_modify(ch, type)
        \/ mrcp_client_control_message_send(ch)
        \/ mrcp_client_control_channel_remove(ch)
        \/ mrcp_client_on_message_receive(ch)
        \/ mrcp_client_control_channel_destroy(ch)

-----------------------------------------------------------------------------
(* Messages of the sessions, in the agent *)

mrcp_client_agent_channel_add(ch) ==
    /\ channel[ch].stage = "adding"
    /\ channel' = [channel EXCEPT
           ![ch].stage = "added",
           ![ch].type = IF offer_new_connection \/ connection_list = <<>>
                        THEN "NEW" ELSE "EXISTING"]
    /\ UNCHANGED <<connection, connection_list, network, pollerVars>>

mrcp_connection_channel_add(ch, c, opened) ==
    /\ connection' = [connection EXCEPT
           ![c].state = IF opened THEN "open" ELSE @,
           ![c].channel_table = @ \cup {ch},
           ![c].access_count = @ + 1]
    /\ channel' = [channel EXCEPT ![ch].stage = "ready", ![ch].connection = c,
                                  ![ch].type = "EXISTING"]

\* Connecting may fail.  A channel without a connection is ready all the same;
\* the session learns of the failure and its requests are cancelled.
mrcp_client_agent_connection_create(ch) ==
    \/ /\ channel' = [channel EXCEPT ![ch].stage = "ready"]
       /\ UNCHANGED <<connection, connection_list>>
    \/ \E c \in Conns :
           /\ connection[c].state = "free"
           /\ connection_list' = Append(connection_list, c)
           /\ mrcp_connection_channel_add(ch, c, TRUE)

\* There is one server, so every connection of the list is one to it.
mrcp_client_agent_channel_modify(ch) ==
    /\ channel[ch].stage = "modifying"
    /\ IF channel[ch].type = "EXISTING" /\ connection_list # <<>>
       THEN /\ mrcp_connection_channel_add(ch, Head(connection_list), FALSE)
            /\ connection_list' = connection_list
       ELSE mrcp_client_agent_connection_create(ch)
    /\ UNCHANGED <<network, pollerVars>>

\* What a connection has under way is lost with its socket.
CloseSocket(c) ==
    /\ requests' = [requests EXCEPT ![c] = {}]
    /\ responses' = [responses EXCEPT ![c] = <<>>]

\* The connection goes with its last channel, marked to be destroyed with it.
mrcp_client_agent_channel_remove(ch) ==
    LET c == channel[ch].connection
        last == c # NoConn /\ connection[c].access_count = 1
    IN  /\ channel[ch].stage = "removing"
        /\ channel' = [channel EXCEPT ![ch].stage = "removed",
                                      ![ch].connection = IF last THEN c ELSE NoConn,
                                      ![ch].removed = last]
        /\ connection' = IF c = NoConn THEN connection
                         ELSE [connection EXCEPT ![c].channel_table = @ \ {ch},
                                                 ![c].access_count = @ - 1,
                                                 ![c].state = IF last THEN "closed" ELSE @]
        /\ IF last
           THEN /\ connection_list' = Unlinked(connection_list, PositionOf(connection_list, c))
                /\ CloseSocket(c)
           ELSE UNCHANGED <<connection_list, network>>
        /\ UNCHANGED pollerVars

\* Mutant: the request stays active.
request_cancel_keep_active(chan, id) == [chan EXCEPT !.inbox = Append(@, id)]

\* The channel once its request is cancelled.
mrcp_client_agent_request_cancel(chan, id) ==
    [chan EXCEPT !.inbox = Append(@, id), !.active_request = None]

\* Sending fails without a socket, and may fail with one.
mrcp_client_agent_messsage_send(ch) ==
    LET c == channel[ch].connection
        id == channel[ch].request
    IN  /\ channel[ch].stage = "ready"
        /\ \/ /\ channel' = [channel EXCEPT
                     ![ch] = mrcp_client_agent_request_cancel(@, id)]
              /\ UNCHANGED <<requests, queue>>
           \/ /\ c # NoConn /\ connection[c].state = "open"
              /\ requests' = [requests EXCEPT ![c] = @ \cup {<<ch, id>>}]
              /\ channel' = [channel EXCEPT ![ch].active_request = id]
              /\ queue' = apt_timer_set(queue, ch, request_timeout)
        /\ UNCHANGED <<connection, connection_list, responses, phase, waited>>

mrcp_client_agent_msg_process ==
    /\ phase = "handle"
    /\ msgs # <<>>
    /\ msgs' = Tail(msgs)
    /\ \/ mrcp_client_agent_channel_add(Head(msgs))
       \/ mrcp_client_agent_channel_modify(Head(msgs))
       \/ mrcp_client_agent_channel_remove(Head(msgs))
       \/ mrcp_client_agent_messsage_send(Head(msgs))

-----------------------------------------------------------------------------
(* The server and the sockets *)

\* The server answers a request.
Respond(c) ==
    /\ \E m \in requests[c] :
           /\ requests' = [requests EXCEPT ![c] = @ \ {m}]
           /\ responses' = [responses EXCEPT ![c] = Append(@, m)]
    /\ UNCHANGED <<channel, connection, connection_list, msgs, pollerVars>>

\* Mutant: the timers go on.
leave_request_timers(q, chs) == q

KillRequestTimers(q, chs) == FoldSet(LAMBDA ch, r : apt_timer_kill(r, ch), q, chs)

\* mrcp_client_message_handler accepts a response to the active request and
\* ignores one for no channel of the connection; any other is unexpected.
Expected(c, m) ==
    /\ m[1] \in connection[c].channel_table
    /\ channel[m[1]].active_request = m[2]

mrcp_client_message_handler(c, buf) ==
    LET unexpected == {i \in 1 .. Len(buf) :
                          /\ buf[i][1] \in connection[c].channel_table
                          /\ Expected(c, buf[i]) => \E j \in 1 .. i - 1 : buf[j] = buf[i]}
        stop == IF unexpected = {} THEN Len(buf) + 1
                ELSE CHOOSE i \in unexpected : \A j \in unexpected : i <= j
        answered == {buf[i] : i \in {k \in 1 .. stop - 1 : Expected(c, buf[k])}}
    IN  [answered |-> {m[1] : m \in answered},
         rest |-> IF unexpected = {} THEN <<>> ELSE SubSeq(buf, 1, stop)]

\* Data is received behind what rx_stream holds, and all of it is parsed.
\* Handling stops at an unexpected response, and then the buffer is not
\* scrolled: the next data is received right behind that response.
mrcp_client_poller_signal_process(c, n) ==
    LET buf == connection[c].rx_stream \o SubSeq(responses[c], 1, n)
        handled == mrcp_client_message_handler(c, buf)
    IN  /\ phase = "handle"
        /\ connection[c].state = "open"
        /\ n \in 1 .. Len(responses[c])
        /\ responses' = [responses EXCEPT ![c] = SubSeq(@, n + 1, Len(@))]
        /\ connection' = [connection EXCEPT ![c].rx_stream = handled.rest]
        /\ channel' = [ch \in Channels |->
               IF ch \in handled.answered
               THEN [channel[ch] EXCEPT !.inbox = Append(@, channel[ch].active_request),
                                        !.active_request = None]
               ELSE channel[ch]]
        /\ queue' = KillRequestTimers(queue, handled.answered)
        /\ UNCHANGED <<connection_list, msgs, requests, phase, waited>>

\* A channel of a lost connection has its request cancelled or is told.
mrcp_client_agent_disconnect_raise(c) ==
    LET table == connection[c].channel_table
    IN  /\ channel' = [ch \in Channels |->
               IF ch \notin table THEN channel[ch]
               ELSE IF channel[ch].active_request # None
               THEN mrcp_client_agent_request_cancel(channel[ch], channel[ch].active_request)
               ELSE [channel[ch] EXCEPT !.inbox = Append(@, Disconnect)]]
        /\ queue' = KillRequestTimers(queue,
                        {ch \in table : channel[ch].active_request # None})

\* The connection loses its socket but stays in the list.
PeerDisconnected(c) ==
    /\ phase = "handle"
    /\ connection[c].state = "open"
    /\ connection' = [connection EXCEPT ![c].state = "closed"]
    /\ CloseSocket(c)
    /\ mrcp_client_agent_disconnect_raise(c)
    /\ UNCHANGED <<connection_list, msgs, phase, waited>>

Server ==
    \E c \in Conns :
        \/ Respond(c)
        \/ \E n \in 1 .. Len(responses[c]) : mrcp_client_poller_signal_process(c, n)
        \/ PeerDisconnected(c)

-----------------------------------------------------------------------------
(* Timers *)

\* Mutant: the timer goes but the request stays.
timer_proc_no_cancel(ch) ==
    /\ phase = "fire"
    /\ FirstIsDue(queue) /\ Head(queue.head) = ch
    /\ queue' = TakeFirst(queue)
    /\ UNCHANGED <<channel, connection, connection_list, msgs, network, phase, waited>>

mrcp_client_timer_proc(ch) ==
    /\ phase = "fire"
    /\ FirstIsDue(queue) /\ Head(queue.head) = ch
    /\ queue' = TakeFirst(queue)
    /\ channel' = IF channel[ch].active_request = None THEN channel
                  ELSE [channel EXCEPT
                           ![ch] = mrcp_client_agent_request_cancel(@, @.active_request)]
    /\ UNCHANGED <<connection, connection_list, msgs, network, phase, waited>>

Wait(time) == Poll(time) /\ UNCHANGED agentVars

Loop ==
    \/ \E time \in 0 .. request_timeout : Wait(time)
    \/ (Advance \/ EndAdvance) /\ UNCHANGED agentVars
    \/ \E ch \in Channels : mrcp_client_timer_proc(ch)

Next == Sessions \/ Loop \/ mrcp_client_agent_msg_process \/ Server

\* The thread of the agent runs, a message that has woken it up is handled,
\* time passes, and the client takes what it is sent.
Fairness ==
    /\ WF_vars(Loop)
    /\ SF_vars(mrcp_client_agent_msg_process)
    /\ SF_vars(\E time \in 1 .. request_timeout : Wait(time))
    /\ WF_vars(\E ch \in Channels : mrcp_client_on_message_receive(ch))

Spec == Init /\ [][Next]_vars /\ Fairness

-----------------------------------------------------------------------------
(* Properties *)

Message == Channels \X (Nat \ {None})

Channel ==
    [stage : {"new", "adding", "added", "modifying", "ready", "removing", "removed",
              "destroyed"},
     type : {"NEW", "EXISTING"}, connection : Conns \cup {NoConn}, removed : BOOLEAN,
     active_request : Nat, request : Nat, last : Nat, inbox : Seq(Nat),
     disconnected : BOOLEAN]

Connection == [state : {"free", "open", "closed"}, access_count : Nat,
               channel_table : SUBSET Channels, rx_stream : Seq(Message)]

TypeOK ==
    /\ PollerTypeOK
    /\ channel \in [Channels -> Channel]
    /\ connection \in [Conns -> Connection]
    /\ connection_list \in Seq(Conns)
    /\ msgs \in Seq(Channels)
    /\ requests \in [Conns -> SUBSET Message]
    /\ responses \in [Conns -> Seq(Message)]

\* The request a session waits for is in one place: on its way to the agent,
\* active there, or answered and on its way back.  So no request is answered
\* twice or not at all, whatever races between the response, the timeout, the
\* loss of the connection and a failure to send.
AnsweredOnce ==
    \A ch \in Channels :
        LET r == channel[ch].request
            Answers == {i \in DOMAIN channel[ch].inbox : channel[ch].inbox[i] # Disconnect}
            sending == channel[ch].stage = "ready" /\ \E i \in DOMAIN msgs : msgs[i] = ch
            active == channel[ch].active_request # None
        IN  /\ r = None <=> (Answers = {} /\ ~sending /\ ~active)
            /\ r # None => /\ Cardinality(Answers) = IF sending \/ active THEN 0 ELSE 1
                           /\ ~(sending /\ active)
            /\ active => channel[ch].active_request = r
            /\ \A i \in Answers : channel[ch].inbox[i] = r

\* The request timers that are set are those of the active requests; none
\* outlives its channel.
TimersOfRequests ==
    RingHolds(queue, IF request_timeout = 0 THEN {}
                     ELSE {ch \in Channels : channel[ch].active_request # None})

\* Connections are shared and destroyed on another thread than the agent's:
\* the list holds exactly those with channels, access_count counts them, one
\* without is held by the single channel that is to destroy it, and no
\* channel and no request in the network refers to memory that is free.
ConnectionsHeld ==
    /\ \A c \in Conns :
           LET users == {ch \in Channels : channel[ch].connection = c}
               marked == {ch \in users : channel[ch].removed}
           IN  /\ connection[c].channel_table = users \ marked
               /\ connection[c].access_count = Cardinality(users \ marked)
               /\ Cardinality(marked) =
                      IF connection[c].state # "free" /\ users \ marked = {} THEN 1 ELSE 0
               /\ (\E i \in DOMAIN connection_list : connection_list[i] = c)
                      <=> users \ marked # {}
               /\ connection[c].state = "free" => users = {}
               /\ connection[c].state # "open" => requests[c] = {} /\ responses[c] = <<>>
    /\ \A i, j \in DOMAIN connection_list :
           i # j => connection_list[i] # connection_list[j]

\* Every request is answered in the end, even if the server never answers it,
\* while the connection comes and goes and other channels use it.
NoRequestWaitsForever ==
    \A ch \in Channels : channel[ch].request # None ~> channel[ch].request = None

\* "scroll remaining stream": a response that is received while its request is
\* active is delivered.
ResponsesDelivered ==
    [][\A c \in Conns : \A n \in 1 .. Len(responses[c]) :
          mrcp_client_poller_signal_process(c, n) =>
              \A i \in 1 .. n : Expected(c, responses[c][i]) =>
                  channel'[responses[c][i][1]].active_request = None]_vars

=============================================================================
