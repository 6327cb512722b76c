--------------------------- MODULE ServerConnection ---------------------------
(***************************************************************************)
(* The MRCPv2 connection agent of the server (mrcp_server_connection.c).   *)
(* One poller task accepts the TCP connections of the clients, assigns the *)
(* control channels of the sessions to them, and closes a connection that  *)
(* its peer has closed or that has been inactive for too long.  A closed   *)
(* connection lives on until its last control channel is gone; then the    *)
(* thread of the sessions destroys it together with that channel.          *)
(***************************************************************************)
EXTENDS PollerTask

CONSTANTS
    Channels,               \* control channels, one per session
    Conns,                  \* memory of connections
    NoConn,                 \* NULL
    inactivity_timeout,     \* settings of the agent; termination_timeout
    termination_timeout     \* may be 0, for no timer

ASSUME ServerConnectionAssumption ==
    /\ Timers = Conns \X {"inactivity", "termination"}
    /\ NoConn \notin Conns
    /\ inactivity_timeout \in Nat \ {0} /\ termination_timeout \in Nat

VARIABLES
    channel,           \* the control channels
    pending,           \* agent->pending_channel_table
    connection,        \* the connections
    msgs,              \* messages of the sessions to the agent
    since              \* time since the last message of an open connection

agentVars == <<channel, pending, connection, msgs, since>>
vars == <<agentVars, pollerVars>>

Inactivity(c) == <<c, "inactivity">>
Termination(c) == <<c, "termination">>

\* stage is how far the session has got with the channel; told says that
\* on_disconnect was raised for it.
NewChannel == [stage |-> "new", connection |-> NoConn, removed |-> FALSE, told |-> FALSE]

\* An accepted connection is open, one without a socket is closed.
NoConnection == [state |-> "free", access_count |-> 0, channel_table |-> {}]

Init ==
    /\ channel = [ch \in Channels |-> NewChannel]
    /\ pending = {}
    /\ connection = [c \in Conns |-> NoConnection]
    /\ msgs = <<>>
    /\ since = [c \in Conns |-> 0]
    /\ apt_poller_task_create

-----------------------------------------------------------------------------
(* The sessions, on the thread of the server *)

Signal(ch, stage, next) ==
    /\ channel[ch].stage = stage
    /\ channel' = [channel EXCEPT ![ch].stage = next]
    /\ msgs' = Append(msgs, ch)
    /\ UNCHANGED <<pending, connection, since, pollerVars>>

mrcp_server_control_channel_add(ch) == Signal(ch, "new", "adding")

\* A session is terminated by its client, or because it was told.
mrcp_server_control_channel_remove(ch) == Signal(ch, "added", "removing")

\* Mutant: only the session's own channel goes.
channel_destroy_keep_connection(ch) ==
    /\ channel[ch].stage = "removed"
    /\ channel' = [channel EXCEPT ![ch] = NewChannel]
    /\ UNCHANGED <<pending, connection, msgs, since, pollerVars>>

\* The last channel of a closed connection takes the connection with it.
mrcp_server_control_channel_destroy(ch) ==
    LET c == channel[ch].connection
    IN  /\ channel[ch].stage = "removed"
        /\ channel' = [channel EXCEPT ![ch] = NewChannel]
        /\ connection' = IF c # NoConn /\ channel[ch].removed
                         THEN [connection EXCEPT ![c] = NoConnection] ELSE connection
        /\ UNCHANGED <<pending, msgs, since, pollerVars>>

Sessions ==
    \E ch \in Channels :
        \/ mrcp_server_control_channel_add(ch)
        \/ mrcp_server_control_channel_remove(ch)
        \/ mrcp_server_control_channel_destroy(ch)

-----------------------------------------------------------------------------
(* Messages of the sessions, in the agent *)

mrcp_server_agent_channel_add(ch) ==
    /\ channel[ch].stage = "adding"
    /\ pending' = pending \cup {ch}
    /\ channel' = [channel EXCEPT ![ch].stage = "added"]
    /\ UNCHANGED <<connection, since, pollerVars>>

\* Mutant: the termination timer of a marked connection is left running.
keep_termination_timer(q, c) == q

KillTermination(q, c) == apt_timer_kill(q, Termination(c))

mrcp_server_agent_channel_remove(ch) ==
    LET c == channel[ch].connection
        last == c # NoConn /\ connection[c].access_count = 1 /\ connection[c].state = "closed"
    IN  /\ channel[ch].stage = "removing"
        /\ pending' = IF c = NoConn THEN pending \ {ch} ELSE pending
        /\ connection' = IF c = NoConn THEN connection
                         ELSE [connection EXCEPT ![c].channel_table = @ \ {ch},
                                                 ![c].access_count = @ - 1]
        /\ channel' = [channel EXCEPT ![ch].stage = "removed",
                                      ![ch].connection = IF last THEN c ELSE NoConn,
                                      ![ch].removed = last]
        /\ queue' = IF last THEN KillTermination(queue, c) ELSE queue
        /\ UNCHANGED <<since, phase, waited>>

mrcp_server_agent_msg_process ==
    /\ phase = "handle"
    /\ msgs # <<>>
    /\ msgs' = Tail(msgs)
    /\ \/ mrcp_server_agent_channel_add(Head(msgs))
       \/ mrcp_server_agent_channel_remove(Head(msgs))

-----------------------------------------------------------------------------
(* Sockets *)

\* A connection nobody waits for is rejected.
mrcp_server_agent_connection_accept(c) ==
    /\ phase = "handle"
    /\ connection[c].state = "free"
    /\ pending # {}
    /\ connection' = [connection EXCEPT ![c].state = "open"]
    /\ queue' = apt_timer_set(queue, Inactivity(c), inactivity_timeout)
    /\ since' = [since EXCEPT ![c] = 0]
    /\ UNCHANGED <<channel, pending, msgs, phase, waited>>

mrcp_connection_channel_add(c, ch) ==
    [connection EXCEPT ![c].channel_table = @ \cup {ch}, ![c].access_count = @ + 1]

\* A message for a channel of the connection, or for a pending channel,
\* which it assigns to the connection.
mrcp_server_message_handler(c, ch) ==
    LET known == ch \in connection[c].channel_table
    IN  /\ phase = "handle"
        /\ connection[c].state = "open"
        /\ known \/ ch \in pending
        /\ pending' = pending \ {ch}
        /\ connection' = IF known THEN connection ELSE mrcp_connection_channel_add(c, ch)
        /\ channel' = [channel EXCEPT ![ch].connection = c]
        /\ queue' = apt_timer_set(queue, Inactivity(c), inactivity_timeout)
        /\ since' = [since EXCEPT ![c] = 0]
        /\ UNCHANGED <<msgs, phase, waited>>

mrcp_connection_disconnect_raise(c) ==
    channel' = [ch \in Channels |->
                   IF ch \in connection[c].channel_table
                   THEN [channel[ch] EXCEPT !.told = TRUE] ELSE channel[ch]]

\* Mutant: nobody is told.
close_silently(c, timedout, q) == queue' = q /\ channel' = channel

\* The channels of a connection that has timed out are told at once, those
\* of one closed by its peer after the termination timeout.
Tell(c, timedout, q) ==
    IF timedout THEN queue' = q /\ mrcp_connection_disconnect_raise(c)
    ELSE /\ queue' = apt_timer_set(q, Termination(c), termination_timeout)
         /\ channel' = channel

\* Mutant: the connection is destroyed although channels use it.
close_and_destroy(c, timedout, q) ==
    /\ since' = [since EXCEPT ![c] = 0]
    /\ connection' = [connection EXCEPT ![c] = NoConnection]
    /\ queue' = apt_timer_kill(q, Inactivity(c))
    /\ channel' = channel

mrcp_server_agent_connection_close(c, timedout, q) ==
    LET killed == apt_timer_kill(q, Inactivity(c))
    IN  /\ since' = [since EXCEPT ![c] = 0]
        /\ IF connection[c].access_count = 0
           THEN /\ connection' = [connection EXCEPT ![c] = NoConnection]
                /\ queue' = killed
                /\ channel' = channel
           ELSE /\ connection' = [connection EXCEPT ![c].state = "closed"]
                /\ Tell(c, timedout, killed)

PeerDisconnected(c) ==
    /\ phase = "handle"
    /\ connection[c].state = "open"
    /\ mrcp_server_agent_connection_close(c, FALSE, queue)
    /\ UNCHANGED <<pending, msgs, phase, waited>>

-----------------------------------------------------------------------------
(* Timers *)

mrcp_server_inactivity_timer_proc(c) ==
    /\ phase = "fire"
    /\ FirstIsDue(queue) /\ Head(queue.head) = Inactivity(c)
    /\ mrcp_server_agent_connection_close(c, TRUE, TakeFirst(queue))
    /\ UNCHANGED <<pending, msgs, phase, waited>>

mrcp_server_termination_timer_proc(c) ==
    /\ phase = "fire"
    /\ FirstIsDue(queue) /\ Head(queue.head) = Termination(c)
    /\ queue' = TakeFirst(queue)
    /\ mrcp_connection_disconnect_raise(c)
    /\ UNCHANGED <<pending, connection, msgs, since, phase, waited>>

\* Time passes while the agent waits.  Beyond MaxSince it is not counted.
MaxSince == inactivity_timeout + 1

Wait(time) ==
    /\ Poll(time)
    /\ since' = [c \in Conns |->
                    IF connection[c].state # "open" THEN 0
                    ELSE IF since[c] + time > MaxSince THEN MaxSince ELSE since[c] + time]
    /\ UNCHANGED <<channel, pending, connection, msgs>>

\* The agent never waits for longer than the longest timeout.
MaxWait ==
    IF termination_timeout > inactivity_timeout THEN termination_timeout ELSE inactivity_timeout

Loop ==
    \/ \E time \in 0 .. MaxWait : Wait(time)
    \/ (Advance \/ EndAdvance) /\ UNCHANGED agentVars
    \/ \E c \in Conns : \/ mrcp_server_inactivity_timer_proc(c)
                        \/ mrcp_server_termination_timer_proc(c)

Peers ==
    \E c \in Conns : \/ mrcp_server_agent_connection_accept(c)
                     \/ PeerDisconnected(c)
                     \/ \E ch \in Channels : mrcp_server_message_handler(c, ch)

Next == Sessions \/ Loop \/ mrcp_server_agent_msg_process \/ Peers

\* The thread of the agent runs, a message that has woken it up is handled,
\* and time passes; a session that is told of the disconnect terminates
\* (mrcp_server_on_disconnect), and one that is terminated goes on to the end.
Fairness ==
    /\ WF_vars(Loop)
    /\ SF_vars(mrcp_server_agent_msg_process)
    /\ SF_vars(\E time \in 1 .. MaxWait : Wait(time))
    /\ \A ch \in Channels :
           /\ WF_vars(channel[ch].told /\ mrcp_server_control_channel_remove(ch))
           /\ WF_vars(mrcp_server_control_channel_destroy(ch))

Spec == Init /\ [][Next]_vars /\ Fairness

-----------------------------------------------------------------------------
(* Properties *)

TypeOK ==
    /\ PollerTypeOK
    /\ channel \in [Channels ->
           [stage : {"new", "adding", "added", "removing", "removed"},
            connection : Conns \cup {NoConn}, removed : BOOLEAN, told : BOOLEAN]]
    /\ pending \in SUBSET Channels
    /\ connection \in [Conns -> [state : {"free", "open", "closed"}, access_count : Nat,
                                  channel_table : SUBSET Channels]]
    /\ msgs \in Seq(Channels)
    /\ since \in [Conns -> 0 .. MaxSince]

Allocated == {c \in Conns : connection[c].state # "free"}

\* No control channel refers to a connection that has been destroyed,
\* although channels are destroyed on another thread than the agent's.
NothingDangles ==
    \A ch \in Channels : channel[ch].connection \in Allocated \cup {NoConn}

\* Closed by its peer, and its channels have not been told yet.
Terminating(c) ==
    /\ connection[c].state = "closed"
    /\ connection[c].channel_table # {}
    /\ \A ch \in connection[c].channel_table : ~channel[ch].told

\* The ring is sorted and holds the inactivity timer of every open connection
\* and the termination timer of every one that is terminating, and no timer
\* else: in particular none of a connection that has been destroyed.
TimersOfConnections ==
    RingHolds(queue, {Inactivity(c) : c \in {d \in Conns : connection[d].state = "open"}}
                     \cup {Termination(c) : c \in {d \in Conns : Terminating(d)}})

\* A channel is in one place only, and access_count counts the channels of a
\* connection, so that a closed connection is destroyed by its last channel
\* and by no other: it has a channel left, or exactly one that is marked.
DestroyedByItsLast ==
    /\ \A c \in Conns :
           /\ connection[c].access_count = Cardinality(connection[c].channel_table)
           /\ connection[c].channel_table =
                  {ch \in Channels : channel[ch].connection = c /\ ~channel[ch].removed}
           /\ connection[c].state = "closed" =>
                  Cardinality({ch \in Channels : channel[ch].connection = c /\ channel[ch].removed})
                      = IF connection[c].access_count = 0 THEN 1 ELSE 0
    /\ \A ch \in pending : channel[ch].connection = NoConn /\ channel[ch].stage # "new"

\* An open connection is never inactive for longer than the timeout.
NeverLate ==
    \A c \in Conns : connection[c].state = "open" => since[c] <= inactivity_timeout

\* A connection that has been closed is destroyed in the end: its channels
\* are told, their sessions terminate, and the last one takes it along.
ClosedIsDestroyed ==
    \A c \in Conns : connection[c].state = "closed" ~> connection[c].state = "free"

=============================================================================
