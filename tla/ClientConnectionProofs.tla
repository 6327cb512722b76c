----------------------- MODULE ClientConnectionProofs -----------------------
(***************************************************************************)
(* What the connection agent of the client keeps, for any number of        *)
(* channels, connections and requests.                                     *)
(***************************************************************************)
EXTENDS ClientConnection, TimerQueueProofs, FiniteSetTheorems

-----------------------------------------------------------------------------
(* The inductive invariant *)

NoAnswer(inbox) == \A i \in 1 .. Len(inbox) : inbox[i] = Disconnect

OneAnswer(inbox, r) ==
    \E i \in 1 .. Len(inbox) :
        inbox[i] = r /\ \A j \in 1 .. Len(inbox) : j # i => inbox[j] = Disconnect

\* A session has one message under way, and what it waits for is in one place.
ChannelSound(chan, queued) ==
    /\ chan.stage \in {"adding", "modifying", "removing"} => queued
    /\ queued => chan.stage \in {"adding", "modifying", "removing", "ready"}
    /\ chan.stage # "ready" => chan.request = None
    /\ chan.request = None =>
           /\ chan.active_request = None
           /\ NoAnswer(chan.inbox)
           /\ chan.stage = "ready" => ~queued
    /\ chan.request # None =>
           \/ queued /\ chan.active_request = None /\ NoAnswer(chan.inbox)
           \/ ~queued /\ chan.active_request = chan.request /\ NoAnswer(chan.inbox)
           \/ ~queued /\ chan.active_request = None /\ OneAnswer(chan.inbox, chan.request)

AgentTypeOK ==
    /\ channel \in [Channels -> Channel]
    /\ connection \in [Conns -> Connection]
    /\ connection_list \in Seq(Conns)
    /\ msgs \in Seq(Channels)
    /\ requests \in [Conns -> SUBSET Message]
    /\ responses \in [Conns -> Seq(Message)]

RequestsSound ==
    /\ IsInjective(msgs)
    /\ \A ch \in Channels : ChannelSound(channel[ch], ch \in Range(msgs))

Users(chans, c) == {ch \in Channels : chans[ch].connection = c /\ ~chans[ch].removed}
Marked(chans, c) == {ch \in Channels : chans[ch].connection = c /\ chans[ch].removed}

\* A channel has a connection from the answer to its offer until it is removed,
\* and then only if it is to destroy the connection.
HoldsSound(chan) ==
    /\ chan.connection # NoConn => chan.stage \in {"ready", "removing", "removed"}
    /\ chan.removed <=> chan.stage = "removed" /\ chan.connection # NoConn

ConnectionSound(c) ==
    /\ connection[c].channel_table = Users(channel, c)
    /\ IsFiniteSet(Users(channel, c))
    /\ connection[c].access_count = Cardinality(Users(channel, c))
    /\ IF connection[c].state # "free" /\ Users(channel, c) = {}
       THEN \E ch \in Channels : Marked(channel, c) = {ch}
       ELSE Marked(channel, c) = {}
    /\ c \in Range(connection_list) <=> Users(channel, c) # {}
    /\ connection[c].state = "free" => Users(channel, c) = {}
    /\ connection[c].state = "open" => Users(channel, c) # {}
    /\ connection[c].state # "open" => requests[c] = {} /\ responses[c] = <<>>

ConnectionsSound ==
    /\ \A ch \in Channels : HoldsSound(channel[ch])
    /\ \A c \in Conns : ConnectionSound(c)
    /\ IsInjective(connection_list)

Active == {ch \in Channels : channel[ch].active_request # None}

SetTimers == IF request_timeout = 0 THEN {} ELSE Active

\* The ring holds the timers of S, none overdue by more than low allows, and
\* none with more time left than the timeout.
QueueSound(q, S, low) ==
    /\ q \in Queue
    /\ RingHolds(q, S)
    /\ q.elapsed_time < RESCHEDULE
    /\ \A t \in S : /\ q.elapsed_time + low <= q.scheduled_time[t]
                    /\ q.scheduled_time[t] <= q.elapsed_time + request_timeout

TimersSound ==
    /\ phase \in {"poll", "handle", "fire"}
    /\ waited \in {Unlimited} \cup (0 .. request_timeout)
    /\ phase # "handle" => waited = Unlimited
    /\ QueueSound(queue, SetTimers,
           IF phase = "fire" THEN 0 ELSE IF waited > 1 THEN waited ELSE 1)

IInv == AgentTypeOK /\ RequestsSound /\ ConnectionsSound /\ TimersSound

-----------------------------------------------------------------------------
(* Sequences *)

\* A queue without repetitions gets one element more.
LEMMA AppendElements ==
    ASSUME NEW T, NEW s \in Seq(T), NEW e \in T
    PROVE  /\ Append(s, e) \in Seq(T)
           /\ Range(Append(s, e)) = Range(s) \cup {e}
           /\ IsInjective(s) /\ e \notin Range(s) => IsInjective(Append(s, e))
  <1> DEFINE A == Append(s, e)
  <1>1. /\ Len(s) \in Nat /\ DOMAIN s = 1 .. Len(s)
        /\ A \in Seq(T) /\ DOMAIN A = 1 .. Len(s) + 1
        /\ \A i \in 1 .. Len(s) : A[i] = s[i]
        /\ A[Len(s) + 1] = e
    BY AppendProperties, LenProperties
  <1> HIDE DEF A
  <1>2. Range(A) = Range(s) \cup {e}
    <2>1. ASSUME NEW x \in Range(A)
          PROVE  x \in Range(s) \cup {e}
      BY <1>1 DEF Range
    <2>2. ASSUME NEW x \in Range(s)
          PROVE  x \in Range(A)
      BY <1>1 DEF Range
    <2>3. e \in Range(A)
      BY <1>1 DEF Range
    <2> QED
      BY <2>1, <2>2, <2>3
  <1>3. ASSUME IsInjective(s), e \notin Range(s)
        PROVE  IsInjective(A)
    <2>1. \A i \in 1 .. Len(s) : s[i] # e
      BY <1>1, <1>3 DEF Range
    <2> QED
      BY <1>1, <1>3, <2>1 DEF IsInjective
  <1> QED
    BY <1>1, <1>2, <1>3 DEF A

\* The same, of the list of connections.
LEMMA ListGrows ==
    \A s \in Seq(Conns), c \in Conns :
        IsInjective(s) /\ c \notin Range(s) =>
            /\ Append(s, c) \in Seq(Conns)
            /\ Range(Append(s, c)) = Range(s) \cup {c}
            /\ IsInjective(Append(s, c))
  BY AppendElements

\* A queue without repetitions loses its first element.
LEMMA TailElements ==
    ASSUME NEW T, NEW s \in Seq(T), s # <<>>, IsInjective(s)
    PROVE  /\ Head(s) \in Range(s) /\ Head(s) \in T
           /\ Tail(s) \in Seq(T)
           /\ Range(Tail(s)) = Range(s) \ {Head(s)}
           /\ IsInjective(Tail(s))
  <1> DEFINE t == Tail(s)
             h == Head(s)
  <1>1. /\ Len(s) \in Nat /\ Len(s) > 0 /\ DOMAIN s = 1 .. Len(s)
        /\ h = s[1] /\ h \in T
        /\ t \in Seq(T) /\ DOMAIN t = 1 .. Len(s) - 1
        /\ \A i \in 1 .. Len(s) - 1 : t[i] = s[i + 1]
    BY HeadTailProperties, LenProperties, EmptySeq
  <1> HIDE DEF t, h
  <1>2. \A i, j \in 1 .. Len(s) : i # j => s[i] # s[j]
    BY <1>1 DEF IsInjective
  <1>3. h \in Range(s)
    BY <1>1 DEF Range
  <1>4. ASSUME NEW x \in Range(t)
        PROVE  x \in Range(s) \ {h}
    <2>1. PICK i \in 1 .. Len(s) - 1 : x = t[i]
      BY <1>1 DEF Range
    <2>2. i + 1 \in 1 .. Len(s) /\ 1 \in 1 .. Len(s) /\ i + 1 # 1 /\ x = s[i + 1]
      BY <1>1, <2>1
    <2> QED
      BY <1>1, <1>2, <2>2 DEF Range
  <1>5. ASSUME NEW x \in Range(s) \ {h}
        PROVE  x \in Range(t)
    <2>1. PICK i \in 1 .. Len(s) : x = s[i]
      BY <1>1 DEF Range
    <2>2. i - 1 \in 1 .. Len(s) - 1 /\ t[i - 1] = s[i]
      BY <1>1, <2>1
    <2> QED
      BY <1>1, <2>1, <2>2 DEF Range
  <1>6. IsInjective(t)
    <2>1. ASSUME NEW i \in 1 .. Len(s) - 1, NEW j \in 1 .. Len(s) - 1, t[i] = t[j]
          PROVE  i = j
      <3>1. i + 1 \in 1 .. Len(s) /\ j + 1 \in 1 .. Len(s) /\ s[i + 1] = s[j + 1]
        BY <1>1, <2>1
      <3> QED
        BY <1>2, <3>1
    <2> QED
      BY <1>1, <2>1 DEF IsInjective
  <1> QED
    BY <1>1, <1>3, <1>4, <1>5, <1>6 DEF t, h

\* A ring without repetitions loses one of its elements.
LEMMA UnlinkedElements ==
    ASSUME NEW T, NEW s \in Seq(T), IsInjective(s), NEW e \in Range(s)
    PROVE  LET u == Unlinked(s, PositionOf(s, e))
           IN  u \in Seq(T) /\ Range(u) = Range(s) \ {e} /\ IsInjective(u)
  <1> DEFINE p == PositionOf(s, e)
             u == Unlinked(s, p)
  <1>1. Len(s) \in Nat /\ DOMAIN s = 1 .. Len(s)
    BY LenProperties
  <1>2. p \in 1 .. Len(s) /\ s[p] = e
    BY <1>1 DEF Range, PositionOf
  <1>3. u \in Seq(T) /\ Len(u) = Len(s) - 1
        /\ \A k \in 1 .. Len(s) - 1 : u[k] = IF k < p THEN s[k] ELSE s[k + 1]
    <2> HIDE DEF p
    <2> QED
      BY <1>2, UnlinkedProperties
  <1>4. DOMAIN u = 1 .. Len(s) - 1
    BY <1>3, LenProperties
  <1>5. \A i, j \in 1 .. Len(s) : i # j => s[i] # s[j]
    BY <1>1 DEF IsInjective
  <1> HIDE DEF p, u
  <1>6. ASSUME NEW x \in Range(u)
        PROVE  x \in Range(s) \ {e}
    <2>1. PICK k \in 1 .. Len(s) - 1 : x = u[k]
      BY <1>4 DEF Range
    <2>2. PICK i \in 1 .. Len(s) : i # p /\ x = s[i]
      BY <1>1, <1>2, <1>3, <2>1
    <2> QED
      BY <1>1, <1>2, <1>5, <2>2 DEF Range
  <1>7. ASSUME NEW x \in Range(s) \ {e}
        PROVE  x \in Range(u)
    <2>1. PICK i \in 1 .. Len(s) : x = s[i]
      BY <1>1 DEF Range
    <2> DEFINE k == IF i < p THEN i ELSE i - 1
    <2>2. k \in 1 .. Len(s) - 1 /\ u[k] = s[i]
      BY <1>1, <1>2, <1>3, <2>1
    <2> HIDE DEF k
    <2> QED
      BY <1>4, <2>1, <2>2 DEF Range
  <1>8. IsInjective(u)
    <2>1. ASSUME NEW i \in 1 .. Len(s) - 1, NEW j \in 1 .. Len(s) - 1, u[i] = u[j]
          PROVE  i = j
      <3> DEFINE a == IF i < p THEN i ELSE i + 1
                 b == IF j < p THEN j ELSE j + 1
      <3>1. a \in 1 .. Len(s) /\ b \in 1 .. Len(s) /\ s[a] = s[b]
        BY <1>1, <1>2, <1>3, <2>1
      <3>2. a = b
        <4> HIDE DEF a, b
        <4> QED
          BY <1>5, <3>1
      <3> QED
        BY <1>2, <3>2
    <2> QED
      BY <1>4, <2>1 DEF IsInjective
  <1> QED
    BY <1>3, <1>6, <1>7, <1>8 DEF u, p

-----------------------------------------------------------------------------
(* What a session is sent *)

\* One thing more is sent to the session.
LEMMA InboxAppend ==
    ASSUME NEW s \in Seq(Nat), NoAnswer(s), NEW r \in Nat
    PROVE  /\ Append(s, r) \in Seq(Nat)
           /\ OneAnswer(Append(s, r), r)
           /\ NoAnswer(Append(s, Disconnect))
  <1>1. ASSUME NEW e \in Nat
        PROVE  /\ Append(s, e) \in Seq(Nat)
               /\ Len(Append(s, e)) = Len(s) + 1
               /\ \A i \in 1 .. Len(s) : Append(s, e)[i] = Disconnect
               /\ Append(s, e)[Len(s) + 1] = e
    BY AppendProperties DEF NoAnswer
  <1>2. Len(s) \in Nat /\ Disconnect \in Nat
    BY LenProperties DEF Disconnect
  <1>3. NoAnswer(Append(s, Disconnect))
    BY <1>1, <1>2 DEF NoAnswer
  <1>4. OneAnswer(Append(s, r), r)
    <2> DEFINE A == Append(s, r)
    <2>1. Len(s) + 1 \in 1 .. Len(A) /\ A[Len(s) + 1] = r
          /\ \A j \in 1 .. Len(A) : j # Len(s) + 1 => A[j] = Disconnect
      BY <1>1, <1>2
    <2> HIDE DEF A
    <2>2. OneAnswer(A, r)
      BY <2>1 DEF OneAnswer
    <2> QED
      BY <2>2 DEF A
  <1> QED
    BY <1>1, <1>3, <1>4

\* That the connection is lost may be sent behind an answer.
LEMMA InboxAppendDisconnect ==
    ASSUME NEW s \in Seq(Nat), NEW r \in Nat, OneAnswer(s, r)
    PROVE  /\ Append(s, Disconnect) \in Seq(Nat)
           /\ OneAnswer(Append(s, Disconnect), r)
  <1> DEFINE A == Append(s, Disconnect)
             n == Len(s)
  <1>1. Disconnect \in Nat
    BY DEF Disconnect
  <1>2. A \in Seq(Nat) /\ Len(A) = n + 1 /\ n \in Nat
    BY <1>1, AppendProperties, LenProperties
  <1>3. (\A k \in 1 .. n : A[k] = s[k]) /\ A[n + 1] = Disconnect
    BY <1>1, AppendProperties
  <1>4. PICK i \in 1 .. n : s[i] = r /\ \A j \in 1 .. n : j # i => s[j] = Disconnect
    BY DEF OneAnswer
  <1> HIDE DEF A, n
  <1>5. i \in 1 .. n + 1 /\ A[i] = r
    BY <1>2, <1>3, <1>4
  <1>6. ASSUME NEW k \in 1 .. n + 1, k # i
        PROVE  A[k] = Disconnect
    <2>1. k \in 1 .. n \/ k = n + 1
      BY <1>2
    <2> QED
      BY <1>3, <1>4, <1>6, <2>1
  <1>7. OneAnswer(A, r)
    BY <1>2, <1>5, <1>6 DEF OneAnswer
  <1> QED
    BY <1>2, <1>7 DEF A

\* The session takes the first thing it has been sent.
LEMMA InboxTail ==
    ASSUME NEW s \in Seq(Nat), s # <<>>
    PROVE  /\ Tail(s) \in Seq(Nat) /\ Head(s) \in Nat
           /\ NoAnswer(s) => Head(s) = Disconnect /\ NoAnswer(Tail(s))
           /\ \A r \in Nat : OneAnswer(s, r) =>
                  IF Head(s) = Disconnect THEN r # Disconnect => OneAnswer(Tail(s), r)
                  ELSE Head(s) = r /\ NoAnswer(Tail(s))
  <1> DEFINE t == Tail(s)
  <1>1. /\ Len(s) \in Nat /\ Len(s) > 0 /\ Head(s) = s[1] /\ Head(s) \in Nat
        /\ t \in Seq(Nat) /\ Len(t) = Len(s) - 1
        /\ \A i \in 1 .. Len(t) : t[i] = s[i + 1]
    BY HeadTailProperties, LenProperties, EmptySeq
  <1> HIDE DEF t
  <1>2. NoAnswer(s) => s[1] = Disconnect /\ NoAnswer(t)
    BY <1>1 DEF NoAnswer
  <1>3. ASSUME NEW r \in Nat, OneAnswer(s, r)
        PROVE  IF s[1] = Disconnect THEN r # Disconnect => OneAnswer(t, r)
               ELSE s[1] = r /\ NoAnswer(t)
    <2>1. PICK i \in 1 .. Len(s) :
              s[i] = r /\ \A j \in 1 .. Len(s) : j # i => s[j] = Disconnect
      BY <1>3 DEF OneAnswer
    <2>2. CASE i = 1
      <3>1. s[1] = r /\ \A j \in 1 .. Len(t) : t[j] = Disconnect
        BY SMTT(30), <1>1, <2>1, <2>2
      <3> QED
        BY <3>1 DEF NoAnswer
    <2>3. CASE i # 1
      <3>1. s[1] = Disconnect
        BY <1>1, <2>1, <2>3
      <3>2. i - 1 \in 1 .. Len(t) /\ t[i - 1] = r
        BY SMTT(30), <1>1, <2>1, <2>3
      <3>3. ASSUME NEW j \in 1 .. Len(t), j # i - 1
            PROVE  t[j] = Disconnect
        <4>1. j + 1 \in 1 .. Len(s) /\ j + 1 # i /\ t[j] = s[j + 1]
          BY <1>1, <3>3
        <4> QED
          BY <2>1, <4>1
      <3>4. OneAnswer(t, r)
        BY Zenon, <3>2, <3>3 DEF OneAnswer
      <3> QED
        BY <3>1, <3>4
    <2> QED
      BY <2>2, <2>3
  <1> QED
    BY <1>1, <1>2, <1>3 DEF t

-----------------------------------------------------------------------------
(* Timers of several channels *)

\* Induction on the natural numbers, for a set of them.
LEMMA AllNumbers ==
    ASSUME NEW T \in SUBSET Nat, 0 \in T, \A n \in T : n + 1 \in T
    PROVE  T = Nat
  <1> DEFINE B == Nat \ T
  <1>1. SUFFICES ASSUME B # {}
                 PROVE  FALSE
    BY Zenon
  <1>2. PICK m \in B : \A x \in B : m <= x
    <2>1. B \in SUBSET Nat
      OBVIOUS
    <2> HIDE DEF B
    <2> QED
      BY Zenon, <1>1, <2>1, LeastNumber
  <1>3. m \in Nat /\ m # 0 /\ m - 1 \in Nat /\ m - 1 < m
    OBVIOUS
  <1>4. m - 1 \notin B
    BY <1>2, <1>3
  <1> QED
    BY <1>2, <1>3, <1>4

\* Killing a timer of a sound queue.
LEMMA KillOneSound ==
    ASSUME NEW q, NEW S \in SUBSET Timers, NEW low \in Nat \ {0}, QueueSound(q, S, low),
           NEW t \in Timers
    PROVE  QueueSound(apt_timer_kill(q, t), S \ {t}, low)
  <1> DEFINE r == apt_timer_kill(q, t)
  <1>1. /\ q \in Queue /\ RingHolds(q, S) /\ q.elapsed_time \in Nat
        /\ q.elapsed_time < RESCHEDULE
        /\ q.scheduled_time \in [Timers -> Nat]
        /\ RESCHEDULE \in Nat \ {0}
    BY TimerQueueAssumption DEF QueueSound, Queue
  <1>2. \A u \in S : q.scheduled_time[u] # 0
    BY <1>1 DEF QueueSound
  <1>3. /\ r \in Queue
        /\ RingHolds(r, S \ {t})
        /\ S \ {t} # {} => r.elapsed_time = q.elapsed_time
        /\ r.elapsed_time \in {0, q.elapsed_time}
        /\ r.scheduled_time = [q.scheduled_time EXCEPT ![t] = 0]
    BY Zenon, <1>1, <1>2, KillProperties
  <1> HIDE DEF r
  <1>4. r.elapsed_time < RESCHEDULE
    BY <1>1, <1>3
  <1>5. ASSUME NEW u \in S \ {t}
        PROVE  /\ r.elapsed_time + low <= r.scheduled_time[u]
               /\ r.scheduled_time[u] <= r.elapsed_time + request_timeout
    <2>1. r.scheduled_time[u] = q.scheduled_time[u] /\ r.elapsed_time = q.elapsed_time
      BY <1>1, <1>3
    <2>2. /\ q.elapsed_time + low <= q.scheduled_time[u]
          /\ q.scheduled_time[u] <= q.elapsed_time + request_timeout
      BY DEF QueueSound
    <2> QED
      BY <2>1, <2>2
  <1> QED
    BY <1>3, <1>4, <1>5 DEF QueueSound, r

\* A set of channels gets smaller by one channel at a time.
LEMMA OneLess ==
    ASSUME NEW chs, IsFiniteSet(chs)
    PROVE  \A c \in SUBSET chs :
               /\ Cardinality(c) \in Nat
               /\ Cardinality(c) <= Cardinality(chs)
               /\ Cardinality(c) = 0 <=> c = {}
               /\ \A x \in c : /\ c \ {x} \in SUBSET chs
                               /\ Cardinality(c \ {x}) = Cardinality(c) - 1
  <1> SUFFICES ASSUME NEW c \in SUBSET chs
               PROVE  /\ Cardinality(c) \in Nat
                      /\ Cardinality(c) <= Cardinality(chs)
                      /\ Cardinality(c) = 0 <=> c = {}
                      /\ \A x \in c : /\ c \ {x} \in SUBSET chs
                                      /\ Cardinality(c \ {x}) = Cardinality(c) - 1
    OBVIOUS
  <1>1. IsFiniteSet(c) /\ Cardinality(c) <= Cardinality(chs)
    BY FS_Subset
  <1>2. Cardinality(c) \in Nat /\ (Cardinality(c) = 0 <=> c = {})
    BY <1>1, FS_CardinalityType, FS_EmptySet
  <1>3. \A x \in c : Cardinality(c \ {x}) = Cardinality(c) - 1
    BY <1>1, FS_RemoveElement
  <1> QED
    BY <1>1, <1>2, <1>3

\* f is the queue once the timers of a set of channels have been killed, that
\* of one of them after those of the others.
IsKilling(f, q, chs) ==
    /\ f[{}] = q
    /\ \A c \in SUBSET chs : c # {} =>
           \E x \in c : f[c] = apt_timer_kill(f[c \ {x}], x)

\* The timers of several channels are killed one after the other.
LEMMA KillSteps ==
    ASSUME NEW q, NEW chs, IsFiniteSet(chs)
    PROVE  \E f : IsKilling(f, q, chs) /\ KillRequestTimers(q, chs) = f[chs]
  <1> DEFINE One(c) == CHOOSE x \in c : TRUE
             Body(f, c) == IF c = {} THEN q ELSE apt_timer_kill(f[c \ {One(c)}], One(c))
             Up(n) == {c \in SUBSET chs : Cardinality(c) <= n}
             T == {n \in Nat : \E f : f = [c \in Up(n) |-> Body(f, c)]}
  <1>1. \A c \in SUBSET chs :
            /\ Cardinality(c) \in Nat
            /\ Cardinality(c) <= Cardinality(chs)
            /\ Cardinality(c) = 0 <=> c = {}
            /\ c # {} => /\ One(c) \in c
                         /\ c \ {One(c)} \in SUBSET chs
                         /\ Cardinality(c \ {One(c)}) = Cardinality(c) - 1
    <2>1. \A c \in SUBSET chs : c # {} => One(c) \in c
      OBVIOUS
    <2> HIDE DEF One
    <2> QED
      BY Zenon, <2>1, OneLess
  <1>2. 0 \in T
    <2> DEFINE f == [c \in Up(0) |-> q]
    <2>1. ASSUME NEW c \in Up(0)
          PROVE  c = {}
      <3> HIDE DEF T, One, Body
      <3>1. c \in SUBSET chs /\ Cardinality(c) <= 0
        OBVIOUS
      <3>2. Cardinality(c) \in Nat /\ (Cardinality(c) = 0 <=> c = {})
        BY Zenon, <3>1, <1>1
      <3> QED
        BY <3>1, <3>2
    <2>2. f = [c \in Up(0) |-> Body(f, c)]
      <3> HIDE DEF Up, One
      <3> QED
        BY Zenon, <2>1
    <2> HIDE DEF f, Body, Up
    <2> QED
      BY <2>2
  <1>3. ASSUME NEW n \in T
        PROVE  n + 1 \in T
    <2>1. PICK f : f = [c \in Up(n) |-> Body(f, c)]
      BY Zenon
    <2>2. n \in Nat /\ n + 1 \in Nat
      OBVIOUS
    <2> DEFINE g == [c \in Up(n + 1) |-> Body(f, c)]
    <2>3. Up(n) \subseteq Up(n + 1)
      <3> HIDE DEF T, One, Body
      <3>1. \A c \in SUBSET chs : Cardinality(c) \in Nat
        BY Zenon, <1>1
      <3> QED
        BY <2>2, <3>1
    <2>4. \A c \in Up(n + 1) : c # {} => c \ {One(c)} \in Up(n)
      <3> HIDE DEF One
      <3> QED
        BY <1>1, <2>2
    <2>5. \A c \in Up(n) : g[c] = f[c]
      <3> HIDE DEF Up, Body
      <3>1. \A c \in Up(n) : g[c] = Body(f, c)
        BY Zenon, <2>3
      <3> QED
        BY Zenon, <2>1, <3>1
    <2>6. \A c \in Up(n + 1) : Body(g, c) = Body(f, c)
      <3> HIDE DEF g, Up, One
      <3> QED
        BY Zenon, <2>4, <2>5
    <2>7. g = [c \in Up(n + 1) |-> Body(g, c)]
      <3> HIDE DEF Body, Up
      <3> QED
        BY Zenon, <2>6
    <2> HIDE DEF g, Body, Up
    <2> QED
      BY Zenon, <2>2, <2>7
  <1>4. T = Nat
    <2>1. T \in SUBSET Nat
      OBVIOUS
    <2> HIDE DEF T
    <2> QED
      BY <1>2, <1>3, <2>1, AllNumbers
  <1>5. \E f : f = [c \in SUBSET chs |-> Body(f, c)]
    <2>1. Up(Cardinality(chs)) = SUBSET chs /\ Cardinality(chs) \in Nat
      <3> HIDE DEF One
      <3> QED
        BY Zenon, <1>1
    <2>2. Cardinality(chs) \in T
      BY Zenon, <1>4, <2>1
    <2> HIDE DEF Body, Up
    <2> QED
      BY Zenon, <2>1, <2>2
  <1> DEFINE F == CHOOSE h : h = [c \in SUBSET chs |-> Body(h, c)]
  <1>6. F = [c \in SUBSET chs |-> Body(F, c)]
    <2> HIDE DEF Body
    <2> QED
      BY Zenon, <1>5
  <1>7. KillRequestTimers(q, chs) = F[chs]
    BY Zenon DEF KillRequestTimers, FoldSet, MapThenFoldSet
  <1> HIDE DEF F
  <1>8. \A c \in SUBSET chs : F[c] = Body(F, c)
    <2> HIDE DEF Body
    <2> QED
      BY Zenon, <1>6
  <1>9. \A c \in SUBSET chs : c # {} => One(c) \in c
    OBVIOUS
  <1> HIDE DEF One
  <1>10. F[{}] = q
    BY Zenon, <1>8
  <1>11. \A c \in SUBSET chs : c # {} => F[c] = apt_timer_kill(F[c \ {One(c)}], One(c))
    BY Zenon, <1>8
  <1> QED
    BY Zenon, <1>7, <1>9, <1>10, <1>11 DEF IsKilling

\* Killing the timers of several channels of a sound queue.
LEMMA KillSound ==
    ASSUME NEW q, NEW S \in SUBSET Timers, NEW low \in Nat \ {0}, QueueSound(q, S, low),
           NEW chs \in SUBSET Timers, IsFiniteSet(chs)
    PROVE  QueueSound(KillRequestTimers(q, chs), S \ chs, low)
  <1>1. PICK f : IsKilling(f, q, chs) /\ KillRequestTimers(q, chs) = f[chs]
    BY Zenon, KillSteps
  <1> DEFINE T == {n \in Nat : \A c \in SUBSET chs :
                                   Cardinality(c) = n => QueueSound(f[c], S \ c, low)}
  <1>2. 0 \in T
    <2>1. \A c \in SUBSET chs : Cardinality(c) = 0 => c = {}
      BY Zenon, OneLess
    <2>2. S \ {} = S
      OBVIOUS
    <2> QED
      BY Zenon, <1>1, <2>1, <2>2 DEF IsKilling
  <1>3. ASSUME NEW n \in T
        PROVE  n + 1 \in T
    <2>1. n \in Nat
      OBVIOUS
    <2>2. ASSUME NEW c \in SUBSET chs, Cardinality(c) = n + 1
          PROVE  QueueSound(f[c], S \ c, low)
      <3>1. c # {}
        <4>1. Cardinality(c) = 0 <=> c = {}
          BY Zenon, OneLess
        <4> QED
          BY <2>1, <2>2, <4>1
      <3>2. PICK x \in c : f[c] = apt_timer_kill(f[c \ {x}], x)
        BY Zenon, <1>1, <3>1 DEF IsKilling
      <3> DEFINE d == c \ {x}
      <3>3. d \in SUBSET chs /\ Cardinality(d) = n
        <4>1. \A e \in c : c \ {e} \in SUBSET chs /\ Cardinality(c \ {e}) = Cardinality(c) - 1
          BY Zenon, OneLess
        <4> QED
          BY <2>1, <2>2, <4>1
      <3>4. QueueSound(f[d], S \ d, low)
        BY Zenon, <3>3
      <3>5. (S \ d) \ {x} = S \ c /\ S \ d \in SUBSET Timers /\ x \in Timers
        OBVIOUS
      <3> HIDE DEF d
      <3>6. QueueSound(apt_timer_kill(f[d], x), (S \ d) \ {x}, low)
        BY Zenon, <3>4, <3>5, KillOneSound
      <3> QED
        BY Zenon, <3>2, <3>5, <3>6 DEF d
    <2> QED
      BY <2>1, <2>2
  <1>4. T = Nat
    <2>1. T \in SUBSET Nat
      OBVIOUS
    <2> HIDE DEF T
    <2> QED
      BY <1>2, <1>3, <2>1, AllNumbers
  <1>5. Cardinality(chs) \in T
    BY Zenon, <1>4, FS_CardinalityType
  <1> QED
    BY <1>1, <1>5

-----------------------------------------------------------------------------
(* What the steps have in common *)

\* One channel changes, and with it perhaps its message.
LEMMA ChannelStep ==
    ASSUME AgentTypeOK, RequestsSound, NEW ch \in Channels, NEW new \in Channel,
           channel' = [channel EXCEPT ![ch] = new],
           IsInjective(msgs'),
           \A o \in Channels \ {ch} : o \in Range(msgs') <=> o \in Range(msgs),
           ChannelSound(new, ch \in Range(msgs'))
    PROVE  channel' \in [Channels -> Channel] /\ RequestsSound'
  <1>1. channel \in [Channels -> Channel]
    BY DEF AgentTypeOK
  <1>2. /\ channel' \in [Channels -> Channel]
        /\ channel'[ch] = new
        /\ \A o \in Channels \ {ch} : channel'[o] = channel[o]
    BY Zenon, <1>1
  <1>3. ASSUME NEW o \in Channels
        PROVE  ChannelSound(channel'[o], o \in Range(msgs'))
    <2>1. CASE o = ch
      BY Zenon, <1>2, <2>1
    <2>2. CASE o # ch
      <3>1. ChannelSound(channel[o], o \in Range(msgs))
        BY Zenon DEF RequestsSound
      <3>2. channel'[o] = channel[o] /\ (o \in Range(msgs') <=> o \in Range(msgs))
        BY Zenon, <1>2, <2>2
      <3> QED
        BY Zenon, <3>1, <3>2 DEF ChannelSound
    <2> QED
      BY Zenon, <2>1, <2>2
  <1> QED
    BY Zenon, <1>2, <1>3 DEF RequestsSound

\* No channel gets or gives up a connection.
LEMMA SameHolders ==
    ASSUME ConnectionsSound,
           \A ch \in Channels : /\ channel'[ch].connection = channel[ch].connection
                                /\ channel'[ch].removed = channel[ch].removed
                                /\ HoldsSound(channel'[ch]),
           connection_list' = connection_list,
           \A c \in Conns :
               /\ connection'[c].channel_table = connection[c].channel_table
               /\ connection'[c].access_count = connection[c].access_count
               /\ connection'[c].state = "free" <=> connection[c].state = "free"
               /\ connection'[c].state = "open" => connection[c].state = "open"
               /\ connection'[c].state # "open" => requests'[c] = {} /\ responses'[c] = <<>>
    PROVE  ConnectionsSound'
  <1>1. ASSUME NEW c \in Conns
        PROVE  ConnectionSound(c)'
    <2>1. Users(channel', c) = Users(channel, c) /\ Marked(channel', c) = Marked(channel, c)
      BY Zenon DEF Users, Marked
    <2>2. ConnectionSound(c)
      BY Zenon DEF ConnectionsSound
    <2> QED
      BY Zenon, <2>1, <2>2 DEF ConnectionSound
  <1> QED
    BY Zenon, <1>1 DEF ConnectionsSound

\* The same requests are active, and the agent does not touch its queue.
LEMMA SameActive ==
    ASSUME TimersSound,
           \A ch \in Channels : channel'[ch].active_request = channel[ch].active_request,
           UNCHANGED pollerVars
    PROVE  TimersSound'
  <1>1. SetTimers' = SetTimers
    BY Zenon DEF SetTimers, Active
  <1> QED
    BY Zenon, <1>1 DEF TimersSound, pollerVars, QueueSound

\* A step of a session, or of the agent on its behalf, that is about one
\* channel and leaves connections and timers alone.
LEMMA QuietStep ==
    ASSUME IInv, NEW ch \in Channels, NEW new \in Channel,
           channel' = [channel EXCEPT ![ch] = new],
           msgs' \in Seq(Channels), IsInjective(msgs'),
           \A o \in Channels \ {ch} : o \in Range(msgs') <=> o \in Range(msgs),
           ChannelSound(new, ch \in Range(msgs')), HoldsSound(new),
           new.connection = channel[ch].connection, new.removed = channel[ch].removed,
           new.active_request = channel[ch].active_request,
           UNCHANGED <<connection, connection_list, network, pollerVars>>
    PROVE  IInv'
  <1>1. AgentTypeOK /\ RequestsSound /\ ConnectionsSound /\ TimersSound
    BY DEF IInv
  <1>2. channel' \in [Channels -> Channel] /\ RequestsSound'
    BY Zenon, <1>1, ChannelStep
  <1>3. /\ connection' = connection /\ connection_list' = connection_list
        /\ requests' = requests /\ responses' = responses /\ UNCHANGED pollerVars
    BY Zenon DEF network
  <1>4. AgentTypeOK'
    BY Zenon, <1>1, <1>2, <1>3 DEF AgentTypeOK
  <1>5. \A o \in Channels : /\ channel'[o].connection = channel[o].connection
                            /\ channel'[o].removed = channel[o].removed
                            /\ HoldsSound(channel'[o])
                            /\ channel'[o].active_request = channel[o].active_request
    <2>1. \A o \in Channels : HoldsSound(channel[o])
      BY Zenon, <1>1 DEF ConnectionsSound
    <2>2. channel'[ch] = new /\ \A o \in Channels \ {ch} : channel'[o] = channel[o]
      BY Zenon, <1>1 DEF AgentTypeOK
    <2> QED
      BY Zenon, <2>1, <2>2
  <1>6. ConnectionsSound'
    <2>1. \A c \in Conns :
              connection[c].state # "open" => requests[c] = {} /\ responses[c] = <<>>
      BY Zenon, <1>1 DEF ConnectionsSound, ConnectionSound
    <2> QED
      BY Zenon, <1>1, <1>3, <1>5, <2>1, SameHolders
  <1>7. TimersSound'
    BY Zenon, <1>1, <1>3, <1>5, SameActive
  <1> QED
    BY Zenon, <1>2, <1>4, <1>6, <1>7 DEF IInv

\* A message of a session that has none under way.
LEMMA SignalStep ==
    ASSUME IInv, NEW ch \in Channels, NEW new \in Channel, Signal(ch, new),
           ch \notin Range(msgs), ChannelSound(new, TRUE), HoldsSound(new),
           new.connection = channel[ch].connection, new.removed = channel[ch].removed,
           new.active_request = channel[ch].active_request
    PROVE  IInv'
  <1>1. msgs \in Seq(Channels) /\ IsInjective(msgs)
    BY DEF IInv, AgentTypeOK, RequestsSound
  <1>2. /\ channel' = [channel EXCEPT ![ch] = new]
        /\ msgs' = Append(msgs, ch)
        /\ UNCHANGED <<connection, connection_list, network, pollerVars>>
    BY Zenon DEF Signal
  <1>3. msgs' \in Seq(Channels) /\ IsInjective(msgs')
        /\ Range(msgs') = Range(msgs) \cup {ch}
    <2>1. ch \notin Range(msgs)
      BY Zenon
    <2>2. /\ Append(msgs, ch) \in Seq(Channels) /\ IsInjective(Append(msgs, ch))
          /\ Range(Append(msgs, ch)) = Range(msgs) \cup {ch}
      BY <1>1, <2>1, AppendElements
    <2> QED
      BY Zenon, <1>2, <2>2
  <1>4. /\ \A o \in Channels \ {ch} : o \in Range(msgs') <=> o \in Range(msgs)
        /\ (ch \in Range(msgs')) = TRUE
    BY Zenon, <1>3
  <1>5. ChannelSound(new, ch \in Range(msgs'))
    BY Zenon, <1>4
  <1> QED
    BY Zenon, <1>2, <1>3, <1>4, <1>5, QuietStep

-----------------------------------------------------------------------------
(* The steps of the sessions *)

\* What is known of one channel.
LEMMA ChannelFacts ==
    ASSUME IInv, NEW ch \in Channels
    PROVE  /\ channel[ch] \in Channel
           /\ ChannelSound(channel[ch], ch \in Range(msgs))
           /\ HoldsSound(channel[ch])
  BY Zenon DEF IInv, AgentTypeOK, RequestsSound, ConnectionsSound

\* A session adds its channel.
LEMMA AddStep ==
    ASSUME IInv, NEW ch \in Channels, mrcp_client_control_channel_add(ch)
    PROVE  IInv'
  <1> DEFINE old == channel[ch]
             new == [old EXCEPT !.stage = "adding"]
  <1>1. old \in Channel /\ ChannelSound(old, ch \in Range(msgs)) /\ HoldsSound(old)
    BY Zenon, ChannelFacts
  <1>2. old.stage = "new" /\ Signal(ch, new)
    BY DEF mrcp_client_control_channel_add
  <1> HIDE DEF old
  <1>3. /\ new \in Channel /\ new.stage = "adding"
        /\ new.request = old.request /\ new.active_request = old.active_request
        /\ new.inbox = old.inbox
        /\ new.connection = old.connection /\ new.removed = old.removed
    BY Zenon, <1>1 DEF Channel
  <1> HIDE DEF new
  <1>4. ch \notin Range(msgs)
    BY <1>1, <1>2 DEF ChannelSound
  <1>5. ChannelSound(new, TRUE) /\ HoldsSound(new)
    BY <1>1, <1>2, <1>3 DEF ChannelSound, HoldsSound
  <1> QED
    BY Zenon, <1>2, <1>3, <1>4, <1>5, SignalStep DEF old

\* A session passes on the answer to its offer.
LEMMA ModifyStep ==
    ASSUME IInv, NEW ch \in Channels, NEW type \in {"NEW", "EXISTING"},
           mrcp_client_control_channel_modify(ch, type)
    PROVE  IInv'
  <1> DEFINE old == channel[ch]
             new == [old EXCEPT !.stage = "modifying", !.type = type]
  <1>1. old \in Channel /\ ChannelSound(old, ch \in Range(msgs)) /\ HoldsSound(old)
    BY Zenon, ChannelFacts
  <1>2. old.stage = "added" /\ Signal(ch, new)
    BY Zenon DEF mrcp_client_control_channel_modify
  <1> HIDE DEF old
  <1>3. /\ new \in Channel /\ new.stage = "modifying"
        /\ new.request = old.request /\ new.active_request = old.active_request
        /\ new.inbox = old.inbox
        /\ new.connection = old.connection /\ new.removed = old.removed
    BY Zenon, <1>1 DEF Channel
  <1> HIDE DEF new
  <1>4. ch \notin Range(msgs)
    BY <1>1, <1>2 DEF ChannelSound
  <1>5. ChannelSound(new, TRUE) /\ HoldsSound(new)
    BY <1>1, <1>2, <1>3 DEF ChannelSound, HoldsSound
  <1> QED
    BY Zenon, <1>2, <1>3, <1>4, <1>5, SignalStep DEF old

\* A session sends a request.
LEMMA SendStep ==
    ASSUME IInv, NEW ch \in Channels, mrcp_client_control_message_send(ch)
    PROVE  IInv'
  <1> DEFINE old == channel[ch]
             id == old.last + 1
             new == [old EXCEPT !.request = id, !.last = id]
  <1>1. old \in Channel /\ ChannelSound(old, ch \in Range(msgs)) /\ HoldsSound(old)
    BY Zenon, ChannelFacts
  <1>2. old.stage = "ready" /\ old.request = None /\ Signal(ch, new)
    BY Zenon DEF mrcp_client_control_message_send
  <1> HIDE DEF old
  <1>3. id \in Nat /\ id # None
    <2>1. old.last \in Nat
      BY Zenon, <1>1 DEF Channel
    <2> QED
      BY <2>1 DEF None
  <1> HIDE DEF id
  <1>4. /\ new \in Channel /\ new.stage = old.stage
        /\ new.request = id /\ new.active_request = old.active_request
        /\ new.inbox = old.inbox
        /\ new.connection = old.connection /\ new.removed = old.removed
    BY Zenon, <1>1, <1>3 DEF Channel
  <1> HIDE DEF new
  <1>5. ch \notin Range(msgs)
    BY Zenon, <1>1, <1>2 DEF ChannelSound
  <1>6. ChannelSound(new, TRUE) /\ HoldsSound(new)
    BY Zenon, <1>1, <1>2, <1>3, <1>4 DEF ChannelSound, HoldsSound
  <1> QED
    BY Zenon, <1>2, <1>4, <1>5, <1>6, SignalStep DEF old

\* A session that waits for nothing is terminated.
LEMMA RemoveStep ==
    ASSUME IInv, NEW ch \in Channels, mrcp_client_control_channel_remove(ch)
    PROVE  IInv'
  <1> DEFINE old == channel[ch]
             new == [old EXCEPT !.stage = "removing"]
  <1>1. old \in Channel /\ ChannelSound(old, ch \in Range(msgs)) /\ HoldsSound(old)
    BY Zenon, ChannelFacts
  <1>2. old.stage = "ready" /\ old.request = None /\ Signal(ch, new)
    BY Zenon DEF mrcp_client_control_channel_remove
  <1> HIDE DEF old
  <1>3. /\ new \in Channel /\ new.stage = "removing"
        /\ new.request = old.request /\ new.active_request = old.active_request
        /\ new.inbox = old.inbox
        /\ new.connection = old.connection /\ new.removed = old.removed
    BY Zenon, <1>1 DEF Channel
  <1> HIDE DEF new
  <1>4. ch \notin Range(msgs)
    BY Zenon, <1>1, <1>2 DEF ChannelSound
  <1>5. ChannelSound(new, TRUE) /\ HoldsSound(new)
    BY <1>1, <1>2, <1>3 DEF ChannelSound, HoldsSound
  <1> QED
    BY Zenon, <1>2, <1>3, <1>4, <1>5, SignalStep DEF old

\* A session takes what it has been sent.
LEMMA ReceiveStep ==
    ASSUME IInv, NEW ch \in Channels, mrcp_client_on_message_receive(ch)
    PROVE  IInv'
  <1> DEFINE old == channel[ch]
             first == Head(old.inbox)
             new == [old EXCEPT !.inbox = Tail(@),
                                !.disconnected = @ \/ first = Disconnect,
                                !.request = IF first = Disconnect THEN @ ELSE None]
  <1>1. /\ old \in Channel /\ ChannelSound(old, ch \in Range(msgs)) /\ HoldsSound(old)
        /\ channel \in [Channels -> Channel]
    BY Zenon, ChannelFacts DEF IInv, AgentTypeOK
  <1>2. /\ old.inbox # <<>>
        /\ channel' = [channel EXCEPT ![ch] = new]
        /\ UNCHANGED <<connection, connection_list, msgs, network, pollerVars>>
    BY Zenon, <1>1 DEF mrcp_client_on_message_receive, Channel
  <1> HIDE DEF old
  <1>3. old.inbox \in Seq(Nat) /\ old.request \in Nat
    BY Zenon, <1>1 DEF Channel
  <1>4. /\ Tail(old.inbox) \in Seq(Nat)
        /\ NoAnswer(old.inbox) => first = Disconnect /\ NoAnswer(Tail(old.inbox))
        /\ OneAnswer(old.inbox, old.request) =>
               IF first = Disconnect
               THEN old.request # Disconnect => OneAnswer(Tail(old.inbox), old.request)
               ELSE first = old.request /\ NoAnswer(Tail(old.inbox))
    BY Zenon, <1>2, <1>3, InboxTail
  <1> HIDE DEF first
  <1>5. None = Disconnect /\ None \in Nat /\ (old.disconnected \/ first = Disconnect) \in BOOLEAN
    BY DEF None, Disconnect
  <1>6. /\ new \in Channel /\ new.stage = old.stage
        /\ new.request = IF first = Disconnect THEN old.request ELSE None
        /\ new.active_request = old.active_request
        /\ new.inbox = Tail(old.inbox)
        /\ new.connection = old.connection /\ new.removed = old.removed
    BY Zenon, <1>1, <1>3, <1>4, <1>5 DEF Channel
  <1> HIDE DEF new
  <1>7. HoldsSound(new)
    BY Zenon, <1>1, <1>6 DEF HoldsSound
  <1>8. ChannelSound(new, ch \in Range(msgs))
    <2>1. CASE first = Disconnect
      BY <1>1, <1>4, <1>5, <1>6, <2>1 DEF ChannelSound
    <2>2. CASE first # Disconnect
      BY <1>1, <1>4, <1>5, <1>6, <2>2 DEF ChannelSound
    <2> QED
      BY <2>1, <2>2
  <1>9. msgs \in Seq(Channels) /\ IsInjective(msgs) /\ msgs' = msgs
    BY Zenon, <1>2 DEF IInv, AgentTypeOK, RequestsSound
  <1>10. UNCHANGED <<connection, connection_list, network, pollerVars>>
    BY Zenon, <1>2 DEF network
  <1> QED
    BY Zenon, <1>2, <1>6, <1>7, <1>8, <1>9, <1>10, QuietStep DEF old

\* One channel changes: what this means for the users of each connection.
LEMMA HolderChange ==
    ASSUME channel \in [Channels -> Channel], NEW ch \in Channels, NEW new,
           channel' = [channel EXCEPT ![ch] = new], NEW d
    PROVE  /\ new.connection = d /\ ~new.removed => Users(channel', d) = Users(channel, d) \cup {ch}
           /\ new.connection # d \/ new.removed => Users(channel', d) = Users(channel, d) \ {ch}
           /\ new.connection = d /\ new.removed => Marked(channel', d) = Marked(channel, d) \cup {ch}
           /\ new.connection # d \/ ~new.removed => Marked(channel', d) = Marked(channel, d) \ {ch}
  <1>1. channel'[ch] = new /\ \A o \in Channels \ {ch} : channel'[o] = channel[o]
    BY Zenon
  <1> QED
    BY <1>1 DEF Users, Marked

\* The session destroys its channel, and with it the connection if the channel
\* was the last one.
LEMMA DestroyStep ==
    ASSUME IInv, NEW ch \in Channels, mrcp_client_control_channel_destroy(ch)
    PROVE  IInv'
  <1> DEFINE old == channel[ch]
             c == old.connection
             new == [NewChannel EXCEPT !.stage = "destroyed"]
  <1>1. /\ old \in Channel /\ ChannelSound(old, ch \in Range(msgs)) /\ HoldsSound(old)
        /\ channel \in [Channels -> Channel]
    BY Zenon, ChannelFacts DEF IInv, AgentTypeOK
  <1>2. /\ old.stage = "removed" /\ old.inbox = <<>>
        /\ channel' = [channel EXCEPT ![ch] = new]
        /\ connection' = IF c # NoConn /\ old.removed
                         THEN [connection EXCEPT ![c] = NoConnection] ELSE connection
        /\ connection_list' = connection_list /\ msgs' = msgs
        /\ requests' = requests /\ responses' = responses
        /\ UNCHANGED pollerVars
    BY Zenon DEF mrcp_client_control_channel_destroy, network
  <1>3. None \in Nat /\ <<>> \in Seq(Nat)
    BY DEF None
  <1>4. /\ new \in Channel /\ new.stage = "destroyed"
        /\ new.request = None /\ new.active_request = None /\ new.inbox = <<>>
        /\ new.connection = NoConn /\ new.removed = FALSE
    BY Zenon, <1>3 DEF Channel, NewChannel
  <1> HIDE DEF new
  <1>5. /\ AgentTypeOK /\ RequestsSound /\ ConnectionsSound /\ TimersSound
        /\ connection \in [Conns -> Connection] /\ NoConn \notin Conns
        /\ c \in Conns \cup {NoConn}
    BY Zenon, <1>1, ClientConnectionAssumption DEF IInv, AgentTypeOK, Channel
  <1>6. channel' \in [Channels -> Channel] /\ RequestsSound'
    <2>1. NoAnswer(<<>>)
      BY DEF NoAnswer
    <2>2. ChannelSound(new, ch \in Range(msgs))
      BY Zenon, <1>1, <1>2, <1>4, <2>1 DEF ChannelSound
    <2>3. IsInjective(msgs)
      BY Zenon, <1>5 DEF RequestsSound
    <2> QED
      BY Zenon, <1>2, <1>4, <1>5, <2>2, <2>3, ChannelStep
  <1>7. AgentTypeOK'
    <2>1. NoConnection \in Connection
      BY DEF NoConnection, Connection
    <2>2. connection' \in [Conns -> Connection]
      BY Zenon, <1>2, <1>5, <2>1
    <2> QED
      BY Zenon, <1>2, <1>5, <1>6, <2>2 DEF AgentTypeOK
  <1>8. \A o \in Channels : /\ HoldsSound(channel'[o])
                            /\ channel'[o].active_request = channel[o].active_request
    <2>1. old.active_request = None
      BY Zenon, <1>1, <1>2 DEF ChannelSound
    <2>2. \A o \in Channels : HoldsSound(channel[o])
      BY Zenon, <1>5 DEF ConnectionsSound
    <2>3. HoldsSound(new)
      BY Zenon, <1>4 DEF HoldsSound
    <2>4. channel'[ch] = new /\ \A o \in Channels \ {ch} : channel'[o] = channel[o]
      BY Zenon, <1>1, <1>2
    <2> QED
      BY Zenon, <1>4, <2>1, <2>2, <2>3, <2>4
  <1>9. ASSUME NEW d \in Conns
        PROVE  ConnectionSound(d)'
    <2>1. Users(channel', d) = Users(channel, d) \ {ch} /\ Marked(channel', d) = Marked(channel, d) \ {ch}
      <3>1. new.connection # d
        BY Zenon, <1>4, <1>5
      <3>2. channel' = [channel EXCEPT ![ch] = new]
        BY Zenon, <1>2
      <3> QED
        BY Zenon, <1>1, <3>1, <3>2, HolderChange
    <2>2. ch \notin Users(channel, d)
      BY Zenon, <1>1, <1>2, <1>5 DEF Users, HoldsSound
    <2>3. ConnectionSound(d)
      BY Zenon, <1>5 DEF ConnectionsSound
    <2>4. Users(channel', d) = Users(channel, d)
      BY Zenon, <2>1, <2>2
    <2>5. CASE d = c /\ old.removed
      <3>1. ch \in Marked(channel, d)
        BY Zenon, <2>5 DEF Marked
      <3>2. /\ Users(channel, d) = {} /\ connection[d].state # "free"
            /\ \E o \in Channels : Marked(channel, d) = {o}
        BY Zenon, <2>3, <3>1 DEF ConnectionSound
      <3>3. Marked(channel', d) = {}
        BY Zenon, <2>1, <3>1, <3>2
      <3>4. connection'[d] = NoConnection
        BY Zenon, <1>2, <1>5, <2>5
      <3>5. connection'[d].state = "free" /\ connection'[d].channel_table = {}
            /\ connection'[d].access_count = 0
        BY <3>4 DEF NoConnection
      <3>6. requests[d] = {} /\ responses[d] = <<>>
        BY Zenon, <2>3, <3>2 DEF ConnectionSound
      <3>7. Cardinality({}) = 0 /\ IsFiniteSet({})
        BY FS_EmptySet
      <3> QED
        BY Zenon, <1>2, <2>3, <2>4, <3>2, <3>3, <3>5, <3>6, <3>7 DEF ConnectionSound
    <2>6. CASE ~(d = c /\ old.removed)
      <3>1. connection'[d] = connection[d]
        BY Zenon, <1>2, <1>5, <2>6
      <3>2. ch \notin Marked(channel, d)
        BY Zenon, <2>6 DEF Marked
      <3>3. Marked(channel', d) = Marked(channel, d)
        BY Zenon, <2>1, <3>2
      <3> QED
        BY Zenon, <1>2, <2>3, <2>4, <3>1, <3>3 DEF ConnectionSound
    <2> QED
      BY Zenon, <2>5, <2>6
  <1>10. ConnectionsSound'
    BY Zenon, <1>2, <1>5, <1>8, <1>9 DEF ConnectionsSound
  <1>11. TimersSound'
    BY Zenon, <1>2, <1>5, <1>8, SameActive
  <1> QED
    BY Zenon, <1>6, <1>7, <1>10, <1>11 DEF IInv

-----------------------------------------------------------------------------
(* The steps of the agent *)

\* The agent takes the first message of its queue.
LEMMA FirstMessage ==
    ASSUME IInv, msgs # <<>>
    PROVE  /\ Head(msgs) \in Channels /\ Head(msgs) \in Range(msgs)
           /\ Tail(msgs) \in Seq(Channels) /\ IsInjective(Tail(msgs))
           /\ Head(msgs) \notin Range(Tail(msgs))
           /\ \A o \in Channels \ {Head(msgs)} : o \in Range(Tail(msgs)) <=> o \in Range(msgs)
  <1>1. msgs \in Seq(Channels) /\ IsInjective(msgs)
    BY Zenon DEF IInv, AgentTypeOK, RequestsSound
  <1>2. /\ Head(msgs) \in Range(msgs) /\ Head(msgs) \in Channels
        /\ Tail(msgs) \in Seq(Channels)
        /\ Range(Tail(msgs)) = Range(msgs) \ {Head(msgs)}
        /\ IsInjective(Tail(msgs))
    BY Zenon, <1>1, TailElements
  <1> QED
    BY Zenon, <1>2

\* The agent adds a channel.
LEMMA AgentAddStep ==
    ASSUME IInv, msgs # <<>>, msgs' = Tail(msgs), mrcp_client_agent_channel_add(Head(msgs))
    PROVE  IInv'
  <1> DEFINE ch == Head(msgs)
             old == channel[ch]
             type == IF offer_new_connection \/ connection_list = <<>>
                     THEN "NEW" ELSE "EXISTING"
             new == [old EXCEPT !.stage = "added", !.type = type]
  <1>1. /\ ch \in Channels /\ ch \notin Range(msgs')
        /\ msgs' \in Seq(Channels) /\ IsInjective(msgs')
        /\ \A o \in Channels \ {ch} : o \in Range(msgs') <=> o \in Range(msgs)
    BY Zenon, FirstMessage
  <1> HIDE DEF ch
  <1>2. /\ old \in Channel /\ ChannelSound(old, ch \in Range(msgs)) /\ HoldsSound(old)
        /\ channel \in [Channels -> Channel]
    BY Zenon, <1>1, ChannelFacts DEF IInv, AgentTypeOK
  <1>3. /\ old.stage = "adding" /\ channel' = [channel EXCEPT ![ch] = new]
        /\ UNCHANGED <<connection, connection_list, network, pollerVars>>
    BY Zenon, <1>2 DEF mrcp_client_agent_channel_add, Channel, ch
  <1>4. type \in {"NEW", "EXISTING"}
    BY Zenon
  <1> HIDE DEF old, type
  <1>5. /\ new \in Channel /\ new.stage = "added"
        /\ new.request = old.request /\ new.active_request = old.active_request
        /\ new.inbox = old.inbox
        /\ new.connection = old.connection /\ new.removed = old.removed
    BY Zenon, <1>2, <1>4 DEF Channel
  <1> HIDE DEF new
  <1>6. ChannelSound(new, ch \in Range(msgs')) /\ HoldsSound(new)
    BY <1>1, <1>2, <1>3, <1>5 DEF ChannelSound, HoldsSound
  <1> QED
    BY Zenon, <1>1, <1>3, <1>5, <1>6, QuietStep DEF old

\* A channel gets a connection: one that is opened, or one that is shared.
Usable(c, opened) ==
    IF opened THEN connection[c].state = "free" ELSE Users(channel, c) # {}

Holding(ch, c, opened) ==
    /\ channel[ch].stage = "modifying"
    /\ mrcp_connection_channel_add(ch, c, opened)
    /\ Usable(c, opened)
    /\ Range(connection_list') = Range(connection_list) \cup {c}
    /\ IsInjective(connection_list')
    /\ UNCHANGED network

Held(ch, c) ==
    /\ ConnectionsSound'
    /\ connection' \in [Conns -> Connection]
    /\ channel' = [channel EXCEPT ![ch] =
           [channel[ch] EXCEPT !.stage = "ready", !.connection = c, !.type = "EXISTING"]]

\* A channel that waits for the answer to its offer has no connection.
LEMMA HoldStep ==
    ASSUME IInv, NEW ch \in Channels, NEW c \in Conns, NEW opened \in BOOLEAN,
           Holding(ch, c, opened)
    PROVE  Held(ch, c)
  <1> USE DEF Holding, network
  <1> DEFINE old == channel[ch]
             new == [old EXCEPT !.stage = "ready", !.connection = c, !.type = "EXISTING"]
             held == [connection[c] EXCEPT !.state = IF opened THEN "open" ELSE @,
                                           !.channel_table = @ \cup {ch},
                                           !.access_count = @ + 1]
  <1>1. /\ old \in Channel /\ HoldsSound(old) /\ channel \in [Channels -> Channel]
        /\ connection \in [Conns -> Connection] /\ ConnectionsSound
        /\ NoConn \notin Conns
    BY Zenon, ChannelFacts, ClientConnectionAssumption DEF IInv, AgentTypeOK
  <1>2. channel' = [channel EXCEPT ![ch] = new]
    BY Zenon, <1>1 DEF mrcp_connection_channel_add, Channel
  <1>3. connection' = [connection EXCEPT ![c] = held]
    BY Zenon, <1>1 DEF mrcp_connection_channel_add, Connection
  <1>4. /\ connection[c] \in Connection
        /\ connection[c].channel_table = Users(channel, c) /\ IsFiniteSet(Users(channel, c))
        /\ connection[c].access_count = Cardinality(Users(channel, c))
    BY Zenon, <1>1 DEF ConnectionsSound, ConnectionSound
  <1>5. /\ held.state = IF opened THEN "open" ELSE connection[c].state
        /\ held.channel_table = Users(channel, c) \cup {ch}
        /\ held.access_count = connection[c].access_count + 1
        /\ held \in Connection
    <2>1. /\ connection[c].access_count \in Nat
          /\ connection[c].state \in {"free", "open", "closed"}
          /\ connection[c].channel_table \in SUBSET Channels
      BY Zenon, <1>4 DEF Connection
    <2>2. /\ connection[c].access_count + 1 \in Nat
          /\ connection[c].channel_table \cup {ch} \in SUBSET Channels
          /\ (IF opened THEN "open" ELSE connection[c].state) \in {"free", "open", "closed"}
      BY <2>1
    <2> QED
      BY Zenon, <1>4, <2>2 DEF Connection
  <1>6. /\ new \in Channel /\ new.stage = "ready"
        /\ new.connection = c /\ new.removed = old.removed
    BY Zenon, <1>1 DEF Channel
  <1>7. old.connection = NoConn /\ ~old.removed
    BY Zenon, <1>1 DEF HoldsSound
  <1> HIDE DEF old, new, held
  <1>8. \A d \in Conns : ch \notin Users(channel, d) /\ ch \notin Marked(channel, d)
    BY Zenon, <1>1, <1>7 DEF Users, Marked, old
  <1>9. \A o \in Channels : HoldsSound(channel'[o])
    <2>1. HoldsSound(new)
      BY Zenon, <1>6, <1>7 DEF HoldsSound
    <2>2. channel'[ch] = new /\ \A o \in Channels \ {ch} : channel'[o] = channel[o]
      BY Zenon, <1>1, <1>2
    <2> QED
      BY Zenon, <1>1, <2>1, <2>2 DEF ConnectionsSound
  <1>10. ASSUME NEW d \in Conns, d # c
         PROVE  ConnectionSound(d)'
    <2>1. /\ Users(channel', d) = Users(channel, d) \ {ch}
          /\ Marked(channel', d) = Marked(channel, d) \ {ch}
      <3>1. new.connection # d
        BY Zenon, <1>6, <1>10
      <3>2. channel'[ch] = new /\ \A o \in Channels \ {ch} : channel'[o] = channel[o]
        BY Zenon, <1>1, <1>2
      <3> QED
        BY <3>1, <3>2 DEF Users, Marked
    <2>2. Users(channel', d) = Users(channel, d) /\ Marked(channel', d) = Marked(channel, d)
      BY Zenon, <1>8, <2>1
    <2>3. ConnectionSound(d) /\ connection'[d] = connection[d]
      BY Zenon, <1>1, <1>3, <1>10 DEF ConnectionsSound
    <2>4. d \in Range(connection_list') <=> d \in Range(connection_list)
      BY Zenon, <1>10
    <2> QED
      BY Zenon, <2>2, <2>3, <2>4 DEF ConnectionSound
  <1>11. ConnectionSound(c)'
    <2>1. /\ Users(channel', c) = Users(channel, c) \cup {ch}
          /\ Marked(channel', c) = Marked(channel, c) \ {ch}
      <3>1. new.connection = c /\ ~new.removed
        BY Zenon, <1>6, <1>7
      <3>2. channel'[ch] = new /\ \A o \in Channels \ {ch} : channel'[o] = channel[o]
        BY Zenon, <1>1, <1>2
      <3> QED
        BY <3>1, <3>2 DEF Users, Marked
    <2>2. ConnectionSound(c) /\ connection'[c] = held
      BY Zenon, <1>1, <1>3 DEF ConnectionsSound
    <2>3. Marked(channel, c) = {}
      BY Zenon, <2>2 DEF ConnectionSound, Usable
    <2>4. /\ IsFiniteSet(Users(channel', c))
          /\ Cardinality(Users(channel', c)) = Cardinality(Users(channel, c)) + 1
      BY <1>4, <1>8, <2>1, FS_AddElement
    <2>5. Users(channel', c) # {} /\ Marked(channel', c) = {}
      BY Zenon, <2>1, <2>3
    <2>6. /\ held.state # "free"
          /\ held.state # "open" => requests[c] = {} /\ responses[c] = <<>>
      BY Zenon, <1>5, <2>2 DEF ConnectionSound, Usable
    <2>7. c \in Range(connection_list')
      BY Zenon
    <2>8. /\ held.channel_table = Users(channel', c)
          /\ held.access_count = Cardinality(Users(channel', c))
      BY <1>4, <1>5, <2>1, <2>4
    <2> QED
      BY Zenon, <2>2, <2>4, <2>5, <2>6, <2>7, <2>8 DEF ConnectionSound
  <1>12. ConnectionsSound'
    BY Zenon, <1>9, <1>10, <1>11 DEF ConnectionsSound
  <1>13. connection' \in [Conns -> Connection]
    BY Zenon, <1>1, <1>3, <1>5
  <1> QED
    BY Zenon, <1>2, <1>12, <1>13 DEF new, old, Held

\* The agent gives the channel a connection that it has or that it opens, or none.
LEMMA AgentModifyStep ==
    ASSUME IInv, msgs # <<>>, msgs' = Tail(msgs), mrcp_client_agent_channel_modify(Head(msgs))
    PROVE  IInv'
  <1> DEFINE ch == Head(msgs)
             old == channel[ch]
  <1>1. /\ ch \in Channels /\ ch \notin Range(msgs')
        /\ msgs' \in Seq(Channels) /\ IsInjective(msgs')
        /\ \A o \in Channels \ {ch} : o \in Range(msgs') <=> o \in Range(msgs)
    BY Zenon, FirstMessage
  <1>2. /\ old.stage = "modifying"
        /\ IF old.type = "EXISTING" /\ connection_list # <<>>
           THEN /\ mrcp_connection_channel_add(ch, Head(connection_list), FALSE)
                /\ connection_list' = connection_list
           ELSE mrcp_client_agent_connection_create(ch)
        /\ requests' = requests /\ responses' = responses /\ UNCHANGED pollerVars
    BY Zenon DEF mrcp_client_agent_channel_modify, network
  <1> HIDE DEF ch
  <1>3. /\ old \in Channel /\ ChannelSound(old, ch \in Range(msgs)) /\ HoldsSound(old)
        /\ AgentTypeOK /\ RequestsSound /\ ConnectionsSound /\ TimersSound
        /\ channel \in [Channels -> Channel]
        /\ connection_list \in Seq(Conns) /\ IsInjective(connection_list)
    BY Zenon, <1>1, ChannelFacts DEF IInv, AgentTypeOK, ConnectionsSound
  <1>4. ASSUME NEW c \in Conns, NEW opened \in BOOLEAN,
               mrcp_connection_channel_add(ch, c, opened),
               Usable(c, opened),
               Range(connection_list') = Range(connection_list) \cup {c},
               IsInjective(connection_list'), connection_list' \in Seq(Conns)
        PROVE  IInv'
    <2> DEFINE new == [old EXCEPT !.stage = "ready", !.connection = c, !.type = "EXISTING"]
    <2>1. /\ ConnectionsSound'
          /\ connection' \in [Conns -> Connection]
          /\ channel' = [channel EXCEPT ![ch] = new]
      <3>1. ch \in Channels /\ Holding(ch, c, opened)
        BY Zenon, <1>1, <1>2, <1>4 DEF Holding, network
      <3>2. Held(ch, c)
        BY Zenon, <1>4, <3>1, HoldStep
      <3> QED
        BY Zenon, <3>2 DEF Held
    <2>2. /\ new \in Channel /\ new.stage = "ready"
          /\ new.request = old.request /\ new.active_request = old.active_request
          /\ new.inbox = old.inbox
      BY Zenon, <1>3 DEF Channel
    <2> HIDE DEF new
    <2>3. ChannelSound(new, ch \in Range(msgs'))
      BY Zenon, <1>1, <1>2, <1>3, <2>2 DEF ChannelSound
    <2>4. channel' \in [Channels -> Channel] /\ RequestsSound'
      BY Zenon, <1>1, <1>3, <2>1, <2>2, <2>3, ChannelStep
    <2>5. \A o \in Channels : channel'[o].active_request = channel[o].active_request
      <3>1. channel'[ch] = new /\ \A o \in Channels \ {ch} : channel'[o] = channel[o]
        BY Zenon, <1>1, <1>3, <2>1
      <3> QED
        BY Zenon, <2>2, <3>1
    <2>6. TimersSound'
      BY Zenon, <1>2, <1>3, <2>5, SameActive
    <2>7. AgentTypeOK'
      BY Zenon, <1>1, <1>2, <1>3, <1>4, <2>1, <2>4 DEF AgentTypeOK
    <2> QED
      BY Zenon, <2>1, <2>4, <2>6, <2>7 DEF IInv
  <1>5. CASE old.type = "EXISTING" /\ connection_list # <<>>
    <2> DEFINE c == Head(connection_list)
    <2>1. c \in Conns /\ c \in Range(connection_list)
      BY Zenon, <1>3, <1>5, TailElements
    <2>2. mrcp_connection_channel_add(ch, c, FALSE) /\ connection_list' = connection_list
      BY Zenon, <1>2, <1>5
    <2> HIDE DEF c
    <2>3. Usable(c, FALSE)
      BY Zenon, <1>3, <2>1 DEF ConnectionsSound, ConnectionSound, Usable
    <2>4. Range(connection_list') = Range(connection_list) \cup {c}
      BY Zenon, <2>1, <2>2
    <2>5. FALSE \in BOOLEAN
      OBVIOUS
    <2> QED
      BY Zenon, <1>3, <1>4, <2>1, <2>2, <2>3, <2>4, <2>5
  <1>6. ASSUME NEW c \in Conns, connection[c].state = "free",
               connection_list' = Append(connection_list, c),
               mrcp_connection_channel_add(ch, c, TRUE)
        PROVE  IInv'
    <2>1. c \notin Range(connection_list)
      BY Zenon, <1>3, <1>6 DEF ConnectionsSound, ConnectionSound
    <2>2. /\ connection_list' \in Seq(Conns)
          /\ Range(connection_list') = Range(connection_list) \cup {c}
          /\ IsInjective(connection_list')
      <3>1. connection_list \in Seq(Conns) /\ IsInjective(connection_list)
        BY Zenon, <1>3
      <3>2. /\ Append(connection_list, c) \in Seq(Conns)
            /\ Range(Append(connection_list, c)) = Range(connection_list) \cup {c}
            /\ IsInjective(Append(connection_list, c))
        BY <1>6, <2>1, <3>1, ListGrows
      <3> QED
        BY Zenon, <1>6, <3>2
    <2>3. TRUE \in BOOLEAN /\ Usable(c, TRUE)
      BY <1>6 DEF Usable
    <2> QED
      BY Zenon, <1>4, <1>6, <2>2, <2>3
  <1>7. ASSUME channel' = [channel EXCEPT ![ch].stage = "ready"],
               UNCHANGED <<connection, connection_list>>
        PROVE  IInv'
    <2> DEFINE new == [old EXCEPT !.stage = "ready"]
    <2>1. channel' = [channel EXCEPT ![ch] = new]
      BY Zenon, <1>7
    <2>2. /\ new \in Channel /\ new.stage = "ready"
          /\ new.request = old.request /\ new.active_request = old.active_request
          /\ new.inbox = old.inbox
          /\ new.connection = old.connection /\ new.removed = old.removed
      BY Zenon, <1>3 DEF Channel
    <2> HIDE DEF new
    <2>3. ChannelSound(new, ch \in Range(msgs')) /\ HoldsSound(new)
      BY Zenon, <1>1, <1>2, <1>3, <2>2 DEF ChannelSound, HoldsSound
    <2>4. UNCHANGED <<connection, connection_list, network, pollerVars>>
      BY Zenon, <1>2, <1>7 DEF network
    <2> QED
      BY Zenon, <1>1, <2>1, <2>2, <2>3, <2>4, QuietStep
  <1>8. CASE ~(old.type = "EXISTING" /\ connection_list # <<>>)
    BY Zenon, <1>2, <1>6, <1>7, <1>8 DEF mrcp_client_agent_connection_create
  <1> QED
    BY Zenon, <1>5, <1>8

\* The agent removes a channel, and with the last one the connection.
LEMMA AgentRemoveStep ==
    ASSUME IInv, msgs # <<>>, msgs' = Tail(msgs), mrcp_client_agent_channel_remove(Head(msgs))
    PROVE  IInv'
  <1>0. PICK ch, c : ch = Head(msgs) /\ c = channel[ch].connection
    BY Zenon
  <1> DEFINE old == channel[ch]
             last == c # NoConn /\ connection[c].access_count = 1
             new == [old EXCEPT !.stage = "removed",
                                !.connection = IF last THEN c ELSE NoConn,
                                !.removed = last]
  <1>1. /\ ch \in Channels /\ ch \notin Range(msgs')
        /\ msgs' \in Seq(Channels) /\ IsInjective(msgs')
        /\ \A o \in Channels \ {ch} : o \in Range(msgs') <=> o \in Range(msgs)
    BY Zenon, <1>0, FirstMessage
  <1>2. mrcp_client_agent_channel_remove(ch)
    BY Zenon, <1>0
  <1>3. /\ old \in Channel /\ ChannelSound(old, ch \in Range(msgs)) /\ HoldsSound(old)
        /\ AgentTypeOK /\ RequestsSound /\ ConnectionsSound /\ TimersSound
        /\ channel \in [Channels -> Channel]
        /\ connection \in [Conns -> Connection] /\ NoConn \notin Conns
        /\ c \in Conns \cup {NoConn}
        /\ connection_list \in Seq(Conns) /\ IsInjective(connection_list)
    BY Zenon, <1>0, <1>1, ChannelFacts, ClientConnectionAssumption
       DEF IInv, AgentTypeOK, ConnectionsSound, Channel
  <1>4. old.stage = "removing" /\ channel' = [channel EXCEPT ![ch] = new] /\ UNCHANGED pollerVars
    <2>1. /\ old.stage = "removing" /\ UNCHANGED pollerVars
          /\ channel' = [channel EXCEPT ![ch].stage = "removed",
                                        ![ch].connection = IF last THEN c ELSE NoConn,
                                        ![ch].removed = last]
      BY Zenon, <1>0, <1>2 DEF mrcp_client_agent_channel_remove
    <2> HIDE DEF last
    <2> QED
      BY Zenon, <1>3, <2>1 DEF Channel
  <1>5. last \in BOOLEAN /\ (IF last THEN c ELSE NoConn) \in Conns \cup {NoConn}
    BY Zenon, <1>3
  <1>6. /\ new \in Channel /\ new.stage = "removed"
        /\ new.request = old.request /\ new.active_request = old.active_request
        /\ new.inbox = old.inbox
        /\ new.connection = IF last THEN c ELSE NoConn
        /\ new.removed = last
    <2> HIDE DEF old, last
    <2> QED
      BY Zenon, <1>3, <1>5 DEF Channel
  <1>7. old.removed = FALSE
    <2>1. old.removed \in BOOLEAN
      BY Zenon, <1>3 DEF Channel
    <2> QED
      BY Zenon, <1>3, <1>4, <2>1 DEF HoldsSound
  <1> HIDE DEF new
  <1>8. channel' \in [Channels -> Channel] /\ RequestsSound'
    <2>1. ChannelSound(new, ch \in Range(msgs'))
      BY Zenon, <1>1, <1>3, <1>4, <1>6 DEF ChannelSound
    <2> QED
      BY Zenon, <1>1, <1>3, <1>4, <1>6, <2>1, ChannelStep
  <1>9. \A o \in Channels : /\ HoldsSound(channel'[o])
                            /\ channel'[o].active_request = channel[o].active_request
    <2>1. HoldsSound(new)
      BY Zenon, <1>3, <1>6 DEF HoldsSound
    <2>2. channel'[ch] = new /\ \A o \in Channels \ {ch} : channel'[o] = channel[o]
      BY Zenon, <1>1, <1>3, <1>4
    <2> QED
      BY Zenon, <1>3, <1>6, <2>1, <2>2 DEF ConnectionsSound
  <1>10. TimersSound'
    BY Zenon, <1>3, <1>4, <1>9, SameActive
  <1>13. channel \in [Channels -> Channel] /\ ch \in Channels
    BY Zenon, <1>1, <1>3
  <1>11. CASE c = NoConn
    <2>1. /\ connection' = connection /\ connection_list' = connection_list
          /\ requests' = requests /\ responses' = responses
      BY Zenon, <1>0, <1>2, <1>11 DEF mrcp_client_agent_channel_remove, network
    <2>2. AgentTypeOK'
      BY Zenon, <1>1, <1>3, <1>8, <2>1 DEF AgentTypeOK
    <2>3. \A o \in Channels : /\ channel'[o].connection = channel[o].connection
                              /\ channel'[o].removed = channel[o].removed
      <3>1. new.connection = old.connection /\ new.removed = old.removed
        BY Zenon, <1>0, <1>6, <1>7, <1>11
      <3>2. channel'[ch] = new /\ \A o \in Channels \ {ch} : channel'[o] = channel[o]
        BY Zenon, <1>1, <1>3, <1>4
      <3> QED
        BY Zenon, <3>1, <3>2
    <2>4. \A d \in Conns :
              connection[d].state # "open" => requests[d] = {} /\ responses[d] = <<>>
      BY Zenon, <1>3 DEF ConnectionsSound, ConnectionSound
    <2>5. ConnectionsSound'
      BY Zenon, <1>3, <1>9, <2>1, <2>3, <2>4, SameHolders
    <2> QED
      BY Zenon, <1>8, <1>10, <2>2, <2>5 DEF IInv
  <1>12. CASE c # NoConn
    <2> DEFINE held == [connection[c] EXCEPT !.channel_table = @ \ {ch},
                                             !.access_count = @ - 1,
                                             !.state = IF last THEN "closed" ELSE @]
    <2>1. c \in Conns /\ connection[c] \in Connection
      BY Zenon, <1>3, <1>12
    <2>2. connection' = [connection EXCEPT ![c] = held]
      <3>1. connection' = [connection EXCEPT ![c].channel_table = @ \ {ch},
                                             ![c].access_count = @ - 1,
                                             ![c].state = IF last THEN "closed" ELSE @]
        BY Zenon, <1>0, <1>2, <1>12 DEF mrcp_client_agent_channel_remove
      <3> HIDE DEF last
      <3> QED
        BY Zenon, <1>3, <2>1, <3>1 DEF Connection
    <2>3. /\ ConnectionSound(c) /\ ch \in Users(channel, c)
          /\ connection[c].channel_table = Users(channel, c)
          /\ connection[c].access_count = Cardinality(Users(channel, c))
          /\ IsFiniteSet(Users(channel, c)) /\ Marked(channel, c) = {}
      BY Zenon, <1>0, <1>1, <1>3, <1>7, <2>1 DEF ConnectionsSound, ConnectionSound, Users
    <2>4. /\ IsFiniteSet(Users(channel, c) \ {ch})
          /\ Cardinality(Users(channel, c)) \in Nat
          /\ Cardinality(Users(channel, c) \ {ch}) = Cardinality(Users(channel, c)) - 1
          /\ Cardinality(Users(channel, c) \ {ch}) \in Nat
      BY <2>3, FS_RemoveElement, FS_CardinalityType
    <2>5. last <=> Users(channel, c) \ {ch} = {}
      <3>1. Cardinality(Users(channel, c) \ {ch}) = 0 <=> Users(channel, c) \ {ch} = {}
        BY Zenon, <2>4, FS_EmptySet
      <3>2. last <=> Cardinality(Users(channel, c)) = 1
        BY Zenon, <1>12, <2>3
      <3> HIDE DEF last
      <3> QED
        BY <2>4, <3>1, <3>2
    <2>6. /\ held.state = IF last THEN "closed" ELSE connection[c].state
          /\ held.channel_table = Users(channel, c) \ {ch}
          /\ held.access_count = Cardinality(Users(channel, c) \ {ch})
          /\ held \in Connection
      <3>1. /\ connection[c].state \in {"free", "open", "closed"}
            /\ connection[c].channel_table \in SUBSET Channels
        BY Zenon, <2>1 DEF Connection
      <3>2. /\ connection[c].access_count - 1 \in Nat
            /\ connection[c].access_count - 1 = Cardinality(Users(channel, c) \ {ch})
            /\ connection[c].channel_table \ {ch} = Users(channel, c) \ {ch}
            /\ connection[c].channel_table \ {ch} \in SUBSET Channels
            /\ (IF last THEN "closed" ELSE connection[c].state) \in {"free", "open", "closed"}
        <4> HIDE DEF last
        <4> QED
          BY <2>3, <2>4, <3>1
      <3> HIDE DEF last
      <3> QED
        BY Zenon, <2>1, <3>2 DEF Connection
    <2> HIDE DEF held
    <2>7. connection' \in [Conns -> Connection] /\ connection'[c] = held
          /\ \A d \in Conns \ {c} : connection'[d] = connection[d]
      BY Zenon, <1>3, <2>1, <2>2, <2>6
    <2>8. /\ connection_list' \in Seq(Conns) /\ IsInjective(connection_list')
          /\ Range(connection_list') = IF last THEN Range(connection_list) \ {c}
                                       ELSE Range(connection_list)
          /\ requests' = IF last THEN [requests EXCEPT ![c] = {}] ELSE requests
          /\ responses' = IF last THEN [responses EXCEPT ![c] = <<>>] ELSE responses
      <3>1. CASE last
        <4>1. c \in Range(connection_list)
          BY Zenon, <2>3 DEF ConnectionSound
        <4>2. /\ connection_list' = Unlinked(connection_list, PositionOf(connection_list, c))
              /\ requests' = [requests EXCEPT ![c] = {}]
              /\ responses' = [responses EXCEPT ![c] = <<>>]
          BY Zenon, <1>0, <1>2, <3>1 DEF mrcp_client_agent_channel_remove, CloseSocket
        <4>3. /\ connection_list' \in Seq(Conns) /\ IsInjective(connection_list')
              /\ Range(connection_list') = Range(connection_list) \ {c}
          <5>1. connection_list \in Seq(Conns) /\ IsInjective(connection_list)
            BY Zenon, <1>3
          <5>2. connection_list' = Unlinked(connection_list, PositionOf(connection_list, c))
            BY Zenon, <4>2
          <5> QED
            BY Zenon, <4>1, <5>1, <5>2, UnlinkedElements
        <4> QED
          BY Zenon, <3>1, <4>2, <4>3
      <3>2. CASE ~last
        <4>1. /\ connection_list' = connection_list
              /\ requests' = requests /\ responses' = responses
          BY Zenon, <1>0, <1>2, <3>2 DEF mrcp_client_agent_channel_remove, network
        <4> QED
          BY Zenon, <1>3, <3>2, <4>1
      <3> QED
        BY Zenon, <3>1, <3>2
    <2>9. /\ requests' \in [Conns -> SUBSET Message]
          /\ responses' \in [Conns -> Seq(Message)]
          /\ \A d \in Conns \ {c} : requests'[d] = requests[d] /\ responses'[d] = responses[d]
          /\ last => requests'[c] = {} /\ responses'[c] = <<>>
          /\ ~last => requests'[c] = requests[c] /\ responses'[c] = responses[c]
      <3>1. requests \in [Conns -> SUBSET Message] /\ responses \in [Conns -> Seq(Message)]
        BY Zenon, <1>3 DEF AgentTypeOK
      <3>2. {} \in SUBSET Message /\ <<>> \in Seq(Message)
        OBVIOUS
      <3> HIDE DEF last
      <3> QED
        BY Zenon, <2>1, <2>8, <3>1, <3>2
    <2>10. AgentTypeOK'
      BY Zenon, <1>1, <1>8, <2>7, <2>8, <2>9 DEF AgentTypeOK
    <2>11. ASSUME NEW d \in Conns, d # c
           PROVE  ConnectionSound(d)'
      <3>1. /\ Users(channel', d) = Users(channel, d) \ {ch}
            /\ Marked(channel', d) = Marked(channel, d) \ {ch}
        <4>1. new.connection # d
          BY Zenon, <1>3, <1>6, <2>11
        <4>2. channel' = [channel EXCEPT ![ch] = new]
          BY Zenon, <1>4
        <4> QED
          BY Zenon, <1>13, <4>1, <4>2, HolderChange
      <3>2. ch \notin Users(channel, d) /\ ch \notin Marked(channel, d)
        BY Zenon, <1>0, <2>11 DEF Users, Marked
      <3>3. Users(channel', d) = Users(channel, d) /\ Marked(channel', d) = Marked(channel, d)
        BY Zenon, <3>1, <3>2
      <3>4. ConnectionSound(d) /\ connection'[d] = connection[d]
            /\ requests'[d] = requests[d] /\ responses'[d] = responses[d]
        BY Zenon, <1>3, <2>7, <2>9, <2>11 DEF ConnectionsSound
      <3>5. d \in Range(connection_list') <=> d \in Range(connection_list)
        BY Zenon, <2>8, <2>11
      <3> QED
        BY Zenon, <3>3, <3>4, <3>5 DEF ConnectionSound
    <2>12. ConnectionSound(c)'
      <3>1. Users(channel', c) = Users(channel, c) \ {ch}
        <4>1. new.connection # c \/ new.removed
          BY Zenon, <1>6, <1>12
        <4>2. channel' = [channel EXCEPT ![ch] = new]
          BY Zenon, <1>4
        <4> QED
          BY Zenon, <1>13, <4>1, <4>2, HolderChange
      <3>2. channel' = [channel EXCEPT ![ch] = new]
        BY Zenon, <1>4
      <3>3. CASE last
        <4>1. Marked(channel', c) = Marked(channel, c) \cup {ch}
          <5>1. new.connection = c /\ new.removed
            BY Zenon, <1>6, <3>3
          <5> QED
            BY Zenon, <1>13, <3>2, <5>1, HolderChange
        <4>2. Marked(channel', c) = {ch} /\ Users(channel', c) = {}
          BY Zenon, <2>3, <2>5, <3>1, <3>3, <4>1
        <4>3. connection'[c].state = "closed" /\ c \notin Range(connection_list')
          BY Zenon, <2>6, <2>7, <2>8, <3>3
        <4> HIDE DEF last
        <4> QED
          BY Zenon, <1>1, <2>4, <2>6, <2>7, <2>9, <3>1, <3>3, <4>2, <4>3 DEF ConnectionSound
      <3>4. CASE ~last
        <4>1. Marked(channel', c) = Marked(channel, c) \ {ch}
          <5>1. new.connection # c
            BY Zenon, <1>6, <1>12, <3>4
          <5> QED
            BY Zenon, <1>13, <3>2, <5>1, HolderChange
        <4>2. Marked(channel', c) = {} /\ Users(channel', c) # {}
          BY Zenon, <2>3, <2>5, <3>1, <3>4, <4>1
        <4>3. /\ connection'[c].state = connection[c].state
              /\ c \in Range(connection_list') <=> c \in Range(connection_list)
          BY Zenon, <2>6, <2>7, <2>8, <3>4
        <4> HIDE DEF last
        <4> QED
          BY Zenon, <2>3, <2>4, <2>6, <2>7, <2>9, <3>1, <3>4, <4>2, <4>3 DEF ConnectionSound
      <3> QED
        BY Zenon, <3>3, <3>4
    <2>13. ConnectionsSound'
      BY Zenon, <1>9, <2>8, <2>11, <2>12 DEF ConnectionsSound
    <2> QED
      BY Zenon, <1>8, <1>10, <2>10, <2>13 DEF IInv
  <1> QED
    BY Zenon, <1>11, <1>12

\* A cancelled request is answered, and nothing else of its channel changes.
LEMMA CancelFacts ==
    ASSUME NEW chan \in Channel, NoAnswer(chan.inbox), NEW id \in Nat, id = chan.request
    PROVE  LET new == mrcp_client_agent_request_cancel(chan, id)
           IN  /\ new \in Channel /\ new.stage = chan.stage /\ new.request = chan.request
               /\ new.active_request = None
               /\ new.connection = chan.connection /\ new.removed = chan.removed
               /\ OneAnswer(new.inbox, chan.request)
  <1> DEFINE new == mrcp_client_agent_request_cancel(chan, id)
  <1>1. chan.inbox \in Seq(Nat) /\ chan.request \in Nat
    BY Zenon DEF Channel
  <1>2. Append(chan.inbox, id) \in Seq(Nat) /\ OneAnswer(Append(chan.inbox, id), chan.request)
    BY Zenon, <1>1, InboxAppend
  <1>3. None \in Nat
    BY DEF None
  <1>4. /\ new \in Channel /\ new.stage = chan.stage /\ new.request = chan.request
        /\ new.active_request = None
        /\ new.connection = chan.connection /\ new.removed = chan.removed
        /\ new.inbox = Append(chan.inbox, id)
    BY Zenon, <1>2, <1>3 DEF mrcp_client_agent_request_cancel, Channel
  <1> HIDE DEF new
  <1>5. OneAnswer(new.inbox, chan.request)
    BY Zenon, <1>2, <1>4
  <1> QED
    BY Zenon, <1>4, <1>5 DEF new

\* A timer is set while the agent handles what is ready.
LEMMA SetSound ==
    ASSUME NEW S \in SUBSET Timers, NEW low \in 0 .. request_timeout,
           NEW q, QueueSound(q, S, low), NEW t \in Timers \ S, request_timeout # 0
    PROVE  QueueSound(apt_timer_set(q, t, request_timeout), S \cup {t}, low)
  <1> DEFINE r == apt_timer_set(q, t, request_timeout)
  <1>1. /\ q \in Queue /\ RingHolds(q, S) /\ q.elapsed_time \in Nat
        /\ q.elapsed_time < RESCHEDULE
        /\ q.scheduled_time \in [Timers -> Nat]
        /\ RESCHEDULE \in Nat /\ WORD \in Nat
        /\ request_timeout \in Nat \ {0} /\ RESCHEDULE + request_timeout < WORD
    BY TimerQueueAssumption, ClientConnectionAssumption DEF QueueSound, Queue
  <1>2. /\ q \in Queue /\ RingHolds(q, S) /\ request_timeout \in Nat \ {0}
        /\ q.elapsed_time + request_timeout < WORD
    BY <1>1
  <1>3. /\ r \in Queue /\ RingHolds(r, S \cup {t})
        /\ r.elapsed_time = q.elapsed_time
        /\ r.scheduled_time = [q.scheduled_time EXCEPT ![t] = q.elapsed_time + request_timeout]
    <2>1. PICK n : n = request_timeout
      BY Zenon
    <2>2. /\ q \in Queue /\ RingHolds(q, S) /\ n \in Nat \ {0}
          /\ q.elapsed_time + n < WORD
      BY <1>2, <2>1
    <2>3. LET s == apt_timer_set(q, t, n)
          IN  /\ s \in Queue /\ RingHolds(s, S \cup {t})
              /\ s.elapsed_time = q.elapsed_time
              /\ s.scheduled_time = [q.scheduled_time EXCEPT ![t] = q.elapsed_time + n]
      BY <2>2, SetProperties
    <2> QED
      BY Zenon, <2>1, <2>3
  <1> HIDE DEF r
  <1>4. ASSUME NEW u \in S \cup {t}
        PROVE  /\ r.elapsed_time + low <= r.scheduled_time[u]
               /\ r.scheduled_time[u] <= r.elapsed_time + request_timeout
    <2>1. CASE u = t
      <3>1. r.scheduled_time[u] = q.elapsed_time + request_timeout
        BY Zenon, <1>1, <1>3, <2>1
      <3> QED
        BY <1>1, <1>3, <3>1
    <2>2. CASE u # t
      <3>1. u \in S /\ u \in Timers /\ r.scheduled_time[u] = q.scheduled_time[u]
        BY Zenon, <1>1, <1>3, <2>2
      <3> QED
        BY <1>3, <3>1 DEF QueueSound
    <2> QED
      BY Zenon, <2>1, <2>2
  <1> QED
    BY Zenon, <1>1, <1>3, <1>4 DEF QueueSound, r

\* The agent sends a request, or cancels it when it cannot.
LEMMA AgentSendStep ==
    ASSUME IInv, phase = "handle", msgs # <<>>, msgs' = Tail(msgs),
           mrcp_client_agent_messsage_send(Head(msgs))
    PROVE  IInv'
  <1>0. PICK ch, id, c : /\ ch = Head(msgs) /\ id = channel[ch].request
                         /\ c = channel[ch].connection
    BY Zenon
  <1> DEFINE old == channel[ch]
  <1>1. /\ ch \in Channels /\ ch \in Range(msgs) /\ ch \notin Range(msgs')
        /\ msgs' \in Seq(Channels) /\ IsInjective(msgs')
        /\ \A o \in Channels \ {ch} : o \in Range(msgs') <=> o \in Range(msgs)
    BY Zenon, <1>0, FirstMessage
  <1>2. /\ old.stage = "ready"
        /\ \/ /\ channel' = [channel EXCEPT ![ch] = mrcp_client_agent_request_cancel(@, id)]
              /\ UNCHANGED <<requests, queue>>
           \/ /\ c # NoConn /\ connection[c].state = "open"
              /\ requests' = [requests EXCEPT ![c] = @ \cup {<<ch, id>>}]
              /\ channel' = [channel EXCEPT ![ch].active_request = id]
              /\ queue' = apt_timer_set(queue, ch, request_timeout)
        /\ UNCHANGED <<connection, connection_list, responses, phase, waited>>
    BY Zenon, <1>0 DEF mrcp_client_agent_messsage_send
  <1>3. /\ old \in Channel /\ ChannelSound(old, ch \in Range(msgs)) /\ HoldsSound(old)
        /\ AgentTypeOK /\ RequestsSound /\ ConnectionsSound /\ TimersSound
        /\ channel \in [Channels -> Channel]
    BY Zenon, <1>1, ChannelFacts DEF IInv, AgentTypeOK
  <1>4. /\ old.request # None /\ old.active_request = None /\ NoAnswer(old.inbox)
        /\ id \in Nat /\ id # None /\ id = old.request
    BY Zenon, <1>0, <1>1, <1>2, <1>3 DEF ChannelSound, Channel
  <1>5. CASE /\ channel' = [channel EXCEPT ![ch] = mrcp_client_agent_request_cancel(@, id)]
             /\ UNCHANGED <<requests, queue>>
    <2> DEFINE new == mrcp_client_agent_request_cancel(old, id)
    <2>1. channel' = [channel EXCEPT ![ch] = new]
      BY Zenon, <1>5
    <2>2. UNCHANGED <<connection, connection_list, network, pollerVars>>
      BY Zenon, <1>2, <1>5 DEF network, pollerVars
    <2>3. /\ new \in Channel /\ new.stage = old.stage /\ new.request = old.request
          /\ new.active_request = None
          /\ new.connection = old.connection /\ new.removed = old.removed
          /\ OneAnswer(new.inbox, old.request)
      <3>1. old \in Channel /\ NoAnswer(old.inbox) /\ id \in Nat /\ id = old.request
        BY Zenon, <1>3, <1>4
      <3> HIDE DEF old
      <3> QED
        BY Zenon, <3>1, CancelFacts
    <2> HIDE DEF new
    <2>4. ChannelSound(new, ch \in Range(msgs')) /\ HoldsSound(new)
      BY Zenon, <1>1, <1>2, <1>3, <1>4, <2>3 DEF ChannelSound, HoldsSound
    <2>5. /\ new.connection = old.connection /\ new.removed = old.removed
          /\ new.active_request = old.active_request /\ new \in Channel
      BY Zenon, <1>4, <2>3
    <2> QED
      BY Zenon, <1>1, <2>1, <2>2, <2>4, <2>5, QuietStep
  <1>6. CASE /\ c # NoConn /\ connection[c].state = "open"
             /\ requests' = [requests EXCEPT ![c] = @ \cup {<<ch, id>>}]
             /\ channel' = [channel EXCEPT ![ch].active_request = id]
             /\ queue' = apt_timer_set(queue, ch, request_timeout)
    <2> DEFINE new == [old EXCEPT !.active_request = id]
    <2>1. channel' = [channel EXCEPT ![ch] = new]
      BY Zenon, <1>3, <1>6 DEF Channel
    <2>2. /\ new \in Channel /\ new.stage = old.stage /\ new.request = old.request
          /\ new.active_request = id /\ new.inbox = old.inbox
          /\ new.connection = old.connection /\ new.removed = old.removed
      <3> HIDE DEF old
      <3> QED
        BY Zenon, <1>3, <1>4 DEF Channel
    <2> HIDE DEF new
    <2>3. ChannelSound(new, ch \in Range(msgs')) /\ HoldsSound(new)
      BY Zenon, <1>1, <1>2, <1>3, <1>4, <2>2 DEF ChannelSound, HoldsSound
    <2>4. channel' \in [Channels -> Channel] /\ RequestsSound'
      BY Zenon, <1>1, <1>3, <2>1, <2>2, <2>3, ChannelStep
    <2>5. channel'[ch] = new /\ \A o \in Channels \ {ch} : channel'[o] = channel[o]
      BY Zenon, <1>1, <1>3, <2>1
    <2>6. c \in Conns
      BY Zenon, <1>0, <1>3, <1>6 DEF Channel
    <2>7. /\ requests' \in [Conns -> SUBSET Message]
          /\ \A d \in Conns \ {c} : requests'[d] = requests[d]
      <3>1. requests \in [Conns -> SUBSET Message]
        BY Zenon, <1>3 DEF AgentTypeOK
      <3>2. <<ch, id>> \in Message
        BY Zenon, <1>1, <1>4 DEF Message
      <3>3. requests[c] \cup {<<ch, id>>} \in SUBSET Message
        BY Zenon, <2>6, <3>1, <3>2
      <3>4. requests' = [requests EXCEPT ![c] = requests[c] \cup {<<ch, id>>}]
        BY Zenon, <1>6
      <3> QED
        BY Zenon, <2>6, <3>1, <3>3, <3>4
    <2>8. AgentTypeOK'
      BY Zenon, <1>1, <1>2, <1>3, <2>4, <2>7 DEF AgentTypeOK
    <2>9. ConnectionsSound'
      <3>1. \A o \in Channels : /\ channel'[o].connection = channel[o].connection
                                /\ channel'[o].removed = channel[o].removed
                                /\ HoldsSound(channel'[o])
        BY Zenon, <1>3, <2>2, <2>3, <2>5 DEF ConnectionsSound
      <3>2. \A d \in Conns : connection'[d].state # "open" =>
                                 requests'[d] = {} /\ responses'[d] = <<>>
        BY Zenon, <1>2, <1>3, <1>6, <2>7 DEF ConnectionsSound, ConnectionSound
      <3>3. connection' = connection /\ connection_list' = connection_list
        BY Zenon, <1>2
      <3> QED
        BY Zenon, <1>3, <3>1, <3>2, <3>3, SameHolders
    <2>10. TimersSound'
      <3> DEFINE low == IF waited > 1 THEN waited ELSE 1
      <3>1. phase' = phase /\ waited' = waited
        BY Zenon, <1>2
      <3>2. /\ QueueSound(queue, SetTimers, low) /\ waited \in {Unlimited} \cup (0 .. request_timeout)
        BY Zenon, <1>3 DEF TimersSound
      <3>3. QueueSound(queue', SetTimers', low)
        <4>1. CASE request_timeout = 0
          <5>1. queue' = queue
            BY Zenon, <1>6, <4>1 DEF apt_timer_set
          <5>2. SetTimers = {} /\ SetTimers' = {}
            BY Zenon, <4>1 DEF SetTimers
          <5> HIDE DEF low
          <5> QED
            BY Zenon, <3>2, <5>1, <5>2
        <4>2. CASE request_timeout # 0
          <5>1. low \in 0 .. request_timeout
            BY <3>2, <4>2, ClientConnectionAssumption DEF Unlimited
          <5>2. ch \in Timers \ SetTimers /\ SetTimers \in SUBSET Timers
            BY Zenon, <1>1, <1>4, ClientConnectionAssumption DEF SetTimers, Active
          <5>3. SetTimers' = SetTimers \cup {ch}
            BY Zenon, <1>1, <1>4, <2>2, <2>5, <4>2 DEF SetTimers, Active
          <5>4. queue' = apt_timer_set(queue, ch, request_timeout) /\ QueueSound(queue, SetTimers, low)
            BY Zenon, <1>6, <3>2
          <5> HIDE DEF low
          <5> QED
            BY Zenon, <4>2, <5>1, <5>2, <5>3, <5>4, SetSound
        <4> QED
          BY Zenon, <4>1, <4>2
      <3> QED
        BY Zenon, <1>3, <3>1, <3>2, <3>3 DEF TimersSound
    <2> QED
      BY Zenon, <2>4, <2>8, <2>9, <2>10 DEF IInv
  <1> QED
    BY Zenon, <1>2, <1>5, <1>6

-----------------------------------------------------------------------------
(* Steps of the server and of the sockets *)

\* A channel whose active request is answered, or cancelled.
LEMMA ActiveFacts ==
    ASSUME IInv, NEW ch \in Channels, channel[ch].active_request # None
    PROVE  LET old == channel[ch]
               new == mrcp_client_agent_request_cancel(old, old.active_request)
           IN  /\ new \in Channel /\ ChannelSound(new, ch \in Range(msgs)) /\ HoldsSound(new)
               /\ new.active_request = None
               /\ new.connection = old.connection /\ new.removed = old.removed
  <1> DEFINE old == channel[ch]
             id == old.active_request
             new == mrcp_client_agent_request_cancel(old, id)
  <1>1. /\ old \in Channel /\ ChannelSound(old, ch \in Range(msgs)) /\ HoldsSound(old)
        /\ id # None
    BY Zenon, ChannelFacts
  <1> HIDE DEF old
  <1>2. /\ old.request # None /\ id = old.request /\ NoAnswer(old.inbox)
        /\ ch \notin Range(msgs) /\ old.stage = "ready" /\ id \in Nat
    BY Zenon, <1>1 DEF ChannelSound, Channel
  <1>3. /\ new \in Channel /\ new.stage = old.stage /\ new.request = old.request
        /\ new.active_request = None
        /\ new.connection = old.connection /\ new.removed = old.removed
        /\ OneAnswer(new.inbox, old.request)
    <2> HIDE DEF id
    <2> QED
      BY Zenon, <1>1, <1>2, CancelFacts
  <1> HIDE DEF new
  <1>4. ChannelSound(new, ch \in Range(msgs)) /\ HoldsSound(new)
    BY Zenon, <1>1, <1>2, <1>3 DEF ChannelSound, HoldsSound
  <1> QED
    BY Zenon, <1>3, <1>4 DEF new, id, old

\* A channel that is told that its connection is lost.
LEMMA ToldFacts ==
    ASSUME IInv, NEW ch \in Channels
    PROVE  LET old == channel[ch]
               new == [old EXCEPT !.inbox = Append(@, Disconnect)]
           IN  /\ new \in Channel /\ ChannelSound(new, ch \in Range(msgs)) /\ HoldsSound(new)
               /\ new.active_request = old.active_request
               /\ new.connection = old.connection /\ new.removed = old.removed
  <1> DEFINE old == channel[ch]
             box == Append(old.inbox, Disconnect)
             new == [old EXCEPT !.inbox = Append(@, Disconnect)]
  <1>1. old \in Channel /\ ChannelSound(old, ch \in Range(msgs)) /\ HoldsSound(old)
    BY Zenon, ChannelFacts
  <1> HIDE DEF old
  <1>2. old.inbox \in Seq(Nat) /\ old.request \in Nat
    BY Zenon, <1>1 DEF Channel
  <1>3. /\ box \in Seq(Nat)
        /\ NoAnswer(old.inbox) => NoAnswer(box)
        /\ OneAnswer(old.inbox, old.request) => OneAnswer(box, old.request)
    <2>1. Disconnect \in Nat
      BY DEF Disconnect
    <2>2. box \in Seq(Nat)
      BY <1>2, <2>1, AppendProperties
    <2> QED
      BY Zenon, <1>2, <2>1, <2>2, InboxAppend, InboxAppendDisconnect
  <1>4. /\ new \in Channel /\ new.stage = old.stage /\ new.request = old.request
        /\ new.active_request = old.active_request
        /\ new.connection = old.connection /\ new.removed = old.removed
        /\ new.inbox = box
    BY Zenon, <1>1, <1>3 DEF Channel
  <1> HIDE DEF new, box
  <1>5. ChannelSound(new, ch \in Range(msgs)) /\ HoldsSound(new)
    BY Zenon, <1>1, <1>3, <1>4 DEF ChannelSound, HoldsSound
  <1> QED
    BY Zenon, <1>4, <1>5 DEF new, old

\* What the handlers of a socket do: requests that are done go, with their
\* timers, and no channel changes its connection.
LEMMA DoneStep ==
    ASSUME IInv, phase = "handle", NEW done \in SUBSET Channels, IsFiniteSet(done),
           channel' \in [Channels -> Channel],
           \A ch \in Channels :
               /\ channel'[ch].active_request =
                      IF ch \in done THEN None ELSE channel[ch].active_request
               /\ ChannelSound(channel'[ch], ch \in Range(msgs)),
           queue' = KillRequestTimers(queue, done), UNCHANGED <<msgs, phase, waited>>
    PROVE  RequestsSound' /\ TimersSound'
  <1> DEFINE low == IF waited > 1 THEN waited ELSE 1
  <1>1. RequestsSound /\ TimersSound
    BY Zenon DEF IInv
  <1>2. msgs' = msgs /\ phase' = phase /\ waited' = waited
    BY Zenon
  <1>3. RequestsSound'
    BY Zenon, <1>1, <1>2 DEF RequestsSound
  <1>4. /\ QueueSound(queue, SetTimers, low)
        /\ waited \in {Unlimited} \cup (0 .. request_timeout)
    BY Zenon, <1>1 DEF TimersSound
  <1>5. SetTimers \in SUBSET Timers /\ done \in SUBSET Timers /\ low \in Nat \ {0}
    BY <1>4, ClientConnectionAssumption DEF SetTimers, Active, Unlimited
  <1>6. SetTimers' = SetTimers \ done
    BY Zenon DEF SetTimers, Active
  <1> HIDE DEF low
  <1>7. QueueSound(queue', SetTimers', low)
    BY Zenon, <1>4, <1>5, <1>6, KillSound
  <1> QED
    BY Zenon, <1>1, <1>2, <1>3, <1>4, <1>7 DEF TimersSound, low

\* The server answers a request.
LEMMA RespondStep ==
    ASSUME IInv, NEW c \in Conns, Respond(c)
    PROVE  IInv'
  <1>1. PICK m \in requests[c] :
            /\ requests' = [requests EXCEPT ![c] = @ \ {m}]
            /\ responses' = [responses EXCEPT ![c] = Append(@, m)]
    BY Zenon DEF Respond
  <1>2. UNCHANGED <<channel, connection, connection_list, msgs, pollerVars>>
    BY Zenon DEF Respond
  <1>3. AgentTypeOK /\ RequestsSound /\ ConnectionsSound /\ TimersSound
    BY Zenon DEF IInv
  <1>4. requests \in [Conns -> SUBSET Message] /\ responses \in [Conns -> Seq(Message)]
    BY Zenon, <1>3 DEF AgentTypeOK
  <1>5. requests[c] \ {m} \in SUBSET Message /\ Append(responses[c], m) \in Seq(Message)
    BY <1>4, AppendProperties
  <1>6. /\ requests' \in [Conns -> SUBSET Message] /\ responses' \in [Conns -> Seq(Message)]
        /\ \A d \in Conns \ {c} : requests'[d] = requests[d] /\ responses'[d] = responses[d]
    BY Zenon, <1>1, <1>4, <1>5
  <1>7. AgentTypeOK'
    BY Zenon, <1>2, <1>3, <1>6 DEF AgentTypeOK
  <1>8. RequestsSound'
    BY Zenon, <1>2, <1>3 DEF RequestsSound
  <1>9. ConnectionsSound'
    <2>1. connection[c].state = "open"
      BY Zenon, <1>1, <1>3 DEF ConnectionsSound, ConnectionSound
    <2>2. \A d \in Conns : connection[d].state # "open" =>
                               requests'[d] = {} /\ responses'[d] = <<>>
      BY Zenon, <1>3, <1>6, <2>1 DEF ConnectionsSound, ConnectionSound
    <2>3. \A ch \in Channels : HoldsSound(channel[ch])
      BY Zenon, <1>3 DEF ConnectionsSound
    <2> QED
      BY Zenon, <1>2, <1>3, <2>2, <2>3, SameHolders
  <1>10. TimersSound'
    BY Zenon, <1>2, <1>3, SameActive
  <1> QED
    BY Zenon, <1>7, <1>8, <1>9, <1>10 DEF IInv

\* What the message handler does with a buffer: it takes answers to active
\* requests of the connection's channels, and keeps whole messages.
LEMMA HandlerFacts ==
    ASSUME NEW c \in Conns, NEW buf \in Seq(Message)
    PROVE  LET handled == mrcp_client_message_handler(c, buf)
           IN  /\ handled.rest \in Seq(Message)
               /\ \A ch \in handled.answered : /\ ch \in connection[c].channel_table
                                               /\ channel[ch].active_request # None
  <1> DEFINE unexpected == {i \in 1 .. Len(buf) :
                               /\ buf[i][1] \in connection[c].channel_table
                               /\ Expected(c, buf[i]) => \E j \in 1 .. i - 1 : buf[j] = buf[i]}
             stop == IF unexpected = {} THEN Len(buf) + 1
                     ELSE CHOOSE i \in unexpected : \A j \in unexpected : i <= j
             answered == {buf[i] : i \in {k \in 1 .. stop - 1 : Expected(c, buf[k])}}
             rest == IF unexpected = {} THEN <<>> ELSE SubSeq(buf, 1, stop)
             handled == mrcp_client_message_handler(c, buf)
  <1>1. handled.rest = rest /\ handled.answered = {m[1] : m \in answered}
    BY Zenon DEF mrcp_client_message_handler
  <1>2. Len(buf) \in Nat /\ \A i \in 1 .. Len(buf) : buf[i] \in Message
    BY LenProperties, ElementOfSeq
  <1>3. unexpected \in SUBSET (1 .. Len(buf))
    BY Zenon
  <1> HIDE DEF unexpected, handled
  <1>4. IF unexpected = {} THEN stop = Len(buf) + 1 ELSE stop \in 1 .. Len(buf)
    <2>1. CASE unexpected = {}
      BY Zenon, <2>1
    <2>2. CASE unexpected # {}
      <3>1. unexpected \in SUBSET Nat
        BY <1>2, <1>3
      <3>2. \E i \in unexpected : \A j \in unexpected : i <= j
        BY Zenon, <2>2, <3>1, LeastNumber
      <3>3. stop \in unexpected
        BY Zenon, <2>2, <3>2
      <3> HIDE DEF stop
      <3> QED
        BY Zenon, <1>3, <2>2, <3>3
    <2> QED
      BY Zenon, <2>1, <2>2
  <1>5. rest \in Seq(Message)
    <2>1. CASE unexpected = {}
      <3>1. rest = <<>> /\ <<>> \in Seq(Message)
        BY <2>1
      <3> QED
        BY Zenon, <3>1
    <2>2. CASE unexpected # {}
      <3>1. rest = SubSeq(buf, 1, stop) /\ stop \in 1 .. Len(buf)
        BY Zenon, <1>4, <2>2
      <3> HIDE DEF stop, rest
      <3>2. stop \in Int /\ \A i \in 1 .. stop : buf[i] \in Message
        BY <1>2, <3>1
      <3>3. SubSeq(buf, 1, stop) \in Seq(Message)
        BY <3>2, SubSeqProperties
      <3> QED
        BY Zenon, <3>1, <3>3
    <2> QED
      BY Zenon, <2>1, <2>2
  <1>6. ASSUME NEW ch \in handled.answered
        PROVE  ch \in connection[c].channel_table /\ channel[ch].active_request # None
    <2>1. PICK i \in 1 .. stop - 1 : ch = buf[i][1] /\ Expected(c, buf[i])
      <3> HIDE DEF stop
      <3> QED
        BY Zenon, <1>1
    <2> HIDE DEF stop
    <2>2. i \in 1 .. Len(buf)
      BY <1>2, <1>4
    <2>3. buf[i] \in Message
      BY Zenon, <1>2, <2>2
    <2>4. buf[i][2] # None
      BY <2>3 DEF Message
    <2> QED
      BY Zenon, <2>1, <2>4 DEF Expected
  <1> QED
    BY Zenon, <1>1, <1>5, <1>6 DEF handled

\* The agent receives what the server has sent on a connection.
LEMMA ReceivedStep ==
    ASSUME IInv, NEW c \in Conns, NEW n \in 1 .. Len(responses[c]),
           mrcp_client_poller_signal_process(c, n)
    PROVE  IInv'
  <1>0. PICK buf, handled :
            /\ buf = connection[c].rx_stream \o SubSeq(responses[c], 1, n)
            /\ handled = mrcp_client_message_handler(c, buf)
    BY Zenon
  <1>1. /\ phase = "handle" /\ connection[c].state = "open"
        /\ responses' = [responses EXCEPT ![c] = SubSeq(@, n + 1, Len(@))]
        /\ connection' = [connection EXCEPT ![c].rx_stream = handled.rest]
        /\ channel' = [ch \in Channels |->
               IF ch \in handled.answered
               THEN [channel[ch] EXCEPT !.inbox = Append(@, channel[ch].active_request),
                                        !.active_request = None]
               ELSE channel[ch]]
        /\ queue' = KillRequestTimers(queue, handled.answered)
        /\ UNCHANGED <<connection_list, msgs, requests, phase, waited>>
    BY Zenon, <1>0 DEF mrcp_client_poller_signal_process
  <1>2. /\ AgentTypeOK /\ ConnectionsSound /\ channel \in [Channels -> Channel]
        /\ connection \in [Conns -> Connection] /\ connection[c] \in Connection
        /\ responses \in [Conns -> Seq(Message)]
    BY Zenon DEF IInv, AgentTypeOK
  <1>3. connection[c].rx_stream \in Seq(Message) /\ responses[c] \in Seq(Message)
    BY Zenon, <1>2 DEF Connection
  <1>4. /\ Len(responses[c]) \in Nat /\ n \in Nat
        /\ \A i \in 1 .. Len(responses[c]) : responses[c][i] \in Message
    BY <1>3, LenProperties, ElementOfSeq
  <1>5. /\ SubSeq(responses[c], 1, n) \in Seq(Message)
        /\ SubSeq(responses[c], n + 1, Len(responses[c])) \in Seq(Message)
    <2>1. /\ \A i \in 1 .. n : responses[c][i] \in Message
          /\ \A i \in n + 1 .. Len(responses[c]) : responses[c][i] \in Message
      BY <1>4
    <2>2. 1 \in Int /\ n \in Int /\ n + 1 \in Int /\ Len(responses[c]) \in Int
      BY <1>4
    <2> QED
      BY Zenon, <2>1, <2>2, SubSeqProperties
  <1>6. buf \in Seq(Message)
    BY <1>0, <1>3, <1>5, ConcatProperties
  <1>7. /\ handled.rest \in Seq(Message)
        /\ \A ch \in handled.answered : /\ ch \in connection[c].channel_table
                                        /\ channel[ch].active_request # None
    BY Zenon, <1>0, <1>6, HandlerFacts
  <1>8. /\ connection[c].channel_table = Users(channel, c)
        /\ IsFiniteSet(Users(channel, c)) /\ Users(channel, c) \in SUBSET Channels
    BY Zenon, <1>2 DEF ConnectionsSound, ConnectionSound, Users
  <1>9. IsFiniteSet(handled.answered) /\ handled.answered \in SUBSET Channels
    <2>1. handled.answered \in SUBSET Users(channel, c)
      BY Zenon, <1>7, <1>8
    <2> QED
      BY Zenon, <1>8, <2>1, FS_Subset
  <1>10. ASSUME NEW ch \in Channels
         PROVE  /\ channel'[ch] \in Channel /\ HoldsSound(channel'[ch])
                /\ ChannelSound(channel'[ch], ch \in Range(msgs))
                /\ channel'[ch].active_request =
                       IF ch \in handled.answered THEN None ELSE channel[ch].active_request
                /\ channel'[ch].connection = channel[ch].connection
                /\ channel'[ch].removed = channel[ch].removed
    <2>1. CASE ch \in handled.answered
      <3>1. channel'[ch] = mrcp_client_agent_request_cancel(channel[ch], channel[ch].active_request)
        BY Zenon, <1>1, <2>1 DEF mrcp_client_agent_request_cancel
      <3>2. channel[ch].active_request # None
        BY Zenon, <1>7, <2>1
      <3> QED
        BY Zenon, <2>1, <3>1, <3>2, ActiveFacts
    <2>2. CASE ch \notin handled.answered
      <3>1. channel'[ch] = channel[ch]
        BY Zenon, <1>1, <2>2
      <3> QED
        BY Zenon, <2>2, <3>1, ChannelFacts
    <2> QED
      BY Zenon, <2>1, <2>2
  <1>11. channel' \in [Channels -> Channel]
    <2>1. channel' = [ch \in Channels |-> channel'[ch]]
      BY Zenon, <1>1
    <2> QED
      BY Zenon, <1>10, <2>1
  <1>12. RequestsSound' /\ TimersSound'
    <2>1. queue' = KillRequestTimers(queue, handled.answered) /\ UNCHANGED <<msgs, phase, waited>>
          /\ phase = "handle"
      BY Zenon, <1>1
    <2> QED
      BY Zenon, <1>9, <1>10, <1>11, <2>1, DoneStep
  <1>13. /\ connection' \in [Conns -> Connection]
         /\ \A d \in Conns : /\ connection'[d].state = connection[d].state
                             /\ connection'[d].channel_table = connection[d].channel_table
                             /\ connection'[d].access_count = connection[d].access_count
    <2> DEFINE new == [connection[c] EXCEPT !.rx_stream = handled.rest]
    <2>1. connection' = [connection EXCEPT ![c] = new]
      BY Zenon, <1>1, <1>2 DEF Connection
    <2>2. /\ new \in Connection /\ new.state = connection[c].state
          /\ new.channel_table = connection[c].channel_table
          /\ new.access_count = connection[c].access_count
      BY Zenon, <1>2, <1>7 DEF Connection
    <2> HIDE DEF new
    <2> QED
      BY Zenon, <1>2, <2>1, <2>2
  <1>14. /\ responses' \in [Conns -> Seq(Message)]
         /\ \A d \in Conns \ {c} : responses'[d] = responses[d]
    <2>1. responses' = [responses EXCEPT ![c] = SubSeq(responses[c], n + 1, Len(responses[c]))]
      BY Zenon, <1>1
    <2> QED
      BY Zenon, <1>2, <1>5, <2>1
  <1>15. AgentTypeOK'
    BY Zenon, <1>1, <1>2, <1>11, <1>13, <1>14 DEF AgentTypeOK
  <1>16. ConnectionsSound'
    <2>1. connection_list' = connection_list /\ requests' = requests
      BY Zenon, <1>1
    <2>2. \A d \in Conns : connection'[d].state # "open" =>
                               requests'[d] = {} /\ responses'[d] = <<>>
      BY Zenon, <1>1, <1>2, <1>13, <1>14, <2>1 DEF ConnectionsSound, ConnectionSound
    <2> QED
      BY Zenon, <1>2, <1>10, <1>13, <2>1, <2>2, SameHolders
  <1> QED
    BY Zenon, <1>12, <1>15, <1>16 DEF IInv

\* The server closes a connection, or it is lost.
LEMMA DisconnectedStep ==
    ASSUME IInv, NEW c \in Conns, PeerDisconnected(c)
    PROVE  IInv'
  <1>0. PICK table, done : /\ table = connection[c].channel_table
                           /\ done = {ch \in table : channel[ch].active_request # None}
    BY Zenon
  <1>1. /\ phase = "handle" /\ connection[c].state = "open"
        /\ connection' = [connection EXCEPT ![c].state = "closed"]
        /\ requests' = [requests EXCEPT ![c] = {}]
        /\ responses' = [responses EXCEPT ![c] = <<>>]
        /\ UNCHANGED <<connection_list, msgs, phase, waited>>
    BY Zenon DEF PeerDisconnected, CloseSocket
  <1>2. /\ channel' = [ch \in Channels |->
               IF ch \notin table THEN channel[ch]
               ELSE IF channel[ch].active_request # None
               THEN mrcp_client_agent_request_cancel(channel[ch], channel[ch].active_request)
               ELSE [channel[ch] EXCEPT !.inbox = Append(@, Disconnect)]]
        /\ queue' = KillRequestTimers(queue, done)
    BY Zenon, <1>0 DEF PeerDisconnected, mrcp_client_agent_disconnect_raise
  <1>3. /\ AgentTypeOK /\ ConnectionsSound /\ channel \in [Channels -> Channel]
        /\ connection \in [Conns -> Connection] /\ connection[c] \in Connection
        /\ requests \in [Conns -> SUBSET Message]
        /\ responses \in [Conns -> Seq(Message)]
    BY Zenon DEF IInv, AgentTypeOK
  <1>4. IsFiniteSet(done) /\ done \in SUBSET Channels
    <2>1. /\ done \in SUBSET Users(channel, c)
          /\ IsFiniteSet(Users(channel, c)) /\ Users(channel, c) \in SUBSET Channels
      BY Zenon, <1>0, <1>3 DEF ConnectionsSound, ConnectionSound, Users
    <2> QED
      BY Zenon, <2>1, FS_Subset
  <1>5. ASSUME NEW ch \in Channels
        PROVE  /\ channel'[ch] \in Channel /\ HoldsSound(channel'[ch])
               /\ ChannelSound(channel'[ch], ch \in Range(msgs))
               /\ channel'[ch].active_request =
                      IF ch \in done THEN None ELSE channel[ch].active_request
               /\ channel'[ch].connection = channel[ch].connection
               /\ channel'[ch].removed = channel[ch].removed
    <2>1. CASE ch \notin table
      <3>1. channel'[ch] = channel[ch] /\ ch \notin done
        BY Zenon, <1>0, <1>2, <2>1
      <3> QED
        BY Zenon, <3>1, ChannelFacts
    <2>2. CASE ch \in table /\ channel[ch].active_request # None
      <3>1. channel'[ch] = mrcp_client_agent_request_cancel(channel[ch], channel[ch].active_request)
        BY Zenon, <1>2, <2>2
      <3>2. ch \in done /\ channel[ch].active_request # None
        BY Zenon, <1>0, <2>2
      <3> QED
        BY Zenon, <3>1, <3>2, ActiveFacts
    <2>3. CASE ch \in table /\ channel[ch].active_request = None
      <3>1. channel'[ch] = [channel[ch] EXCEPT !.inbox = Append(@, Disconnect)]
        BY Zenon, <1>2, <2>3
      <3>2. ch \notin done
        BY Zenon, <1>0, <2>3
      <3> QED
        BY Zenon, <3>1, <3>2, ToldFacts
    <2> QED
      BY Zenon, <2>1, <2>2, <2>3
  <1>6. channel' \in [Channels -> Channel]
    <2>1. channel' = [ch \in Channels |-> channel'[ch]]
      BY Zenon, <1>2
    <2> QED
      BY Zenon, <1>5, <2>1
  <1>7. RequestsSound' /\ TimersSound'
    <2>1. queue' = KillRequestTimers(queue, done) /\ UNCHANGED <<msgs, phase, waited>>
          /\ phase = "handle"
      BY Zenon, <1>1, <1>2
    <2> QED
      BY Zenon, <1>4, <1>5, <1>6, <2>1, DoneStep
  <1>8. /\ connection' \in [Conns -> Connection] /\ connection'[c].state = "closed"
        /\ \A d \in Conns : /\ d # c => connection'[d].state = connection[d].state
                            /\ connection'[d].channel_table = connection[d].channel_table
                            /\ connection'[d].access_count = connection[d].access_count
    <2> DEFINE new == [connection[c] EXCEPT !.state = "closed"]
    <2>1. connection' = [connection EXCEPT ![c] = new]
      BY Zenon, <1>1, <1>3 DEF Connection
    <2>2. /\ new \in Connection /\ new.state = "closed"
          /\ new.channel_table = connection[c].channel_table
          /\ new.access_count = connection[c].access_count
      BY Zenon, <1>3 DEF Connection
    <2> HIDE DEF new
    <2> QED
      BY Zenon, <1>3, <2>1, <2>2
  <1>9. /\ requests' \in [Conns -> SUBSET Message] /\ responses' \in [Conns -> Seq(Message)]
        /\ requests'[c] = {} /\ responses'[c] = <<>>
        /\ \A d \in Conns \ {c} : requests'[d] = requests[d] /\ responses'[d] = responses[d]
    <2>1. {} \in SUBSET Message /\ <<>> \in Seq(Message)
      OBVIOUS
    <2> QED
      BY Zenon, <1>1, <1>3, <2>1
  <1>10. AgentTypeOK'
    BY Zenon, <1>1, <1>3, <1>6, <1>8, <1>9 DEF AgentTypeOK
  <1>11. ConnectionsSound'
    <2>1. connection_list' = connection_list
      BY Zenon, <1>1
    <2>2. ASSUME NEW d \in Conns
          PROVE  /\ connection'[d].state # "open" => requests'[d] = {} /\ responses'[d] = <<>>
                 /\ connection'[d].state = "free" <=> connection[d].state = "free"
      <3>1. CASE d = c
        <4>1. connection'[d].state # "free" /\ connection[d].state # "free"
          BY <1>1, <1>8, <3>1
        <4> QED
          BY Zenon, <1>9, <3>1, <4>1
      <3>2. CASE d # c
        BY Zenon, <1>3, <1>8, <1>9, <3>2 DEF ConnectionsSound, ConnectionSound
      <3> QED
        BY Zenon, <3>1, <3>2
    <2>3. \A d \in Conns : connection'[d].state = "open" => connection[d].state = "open"
      BY Zenon, <1>1, <1>8
    <2> QED
      BY Zenon, <1>3, <1>5, <1>8, <2>1, <2>2, <2>3, SameHolders
  <1> QED
    BY Zenon, <1>7, <1>10, <1>11 DEF IInv

-----------------------------------------------------------------------------
(* Steps of the loop *)

\* The timer of a request expires.
LEMMA TimerStep ==
    ASSUME IInv, NEW ch \in Channels, mrcp_client_timer_proc(ch)
    PROVE  IInv'
  <1> DEFINE new == mrcp_client_agent_request_cancel(channel[ch], channel[ch].active_request)
  <1>1. /\ phase = "fire" /\ FirstIsDue(queue) /\ Head(queue.head) = ch
        /\ queue' = TakeFirst(queue)
        /\ channel' = IF channel[ch].active_request = None THEN channel
                      ELSE [channel EXCEPT ![ch] = new]
        /\ UNCHANGED <<connection, connection_list, msgs, network, phase, waited>>
    BY Zenon DEF mrcp_client_timer_proc
  <1>2. /\ AgentTypeOK /\ RequestsSound /\ ConnectionsSound /\ TimersSound
        /\ channel \in [Channels -> Channel] /\ IsInjective(msgs)
    BY Zenon DEF IInv, AgentTypeOK, RequestsSound
  <1>3. QueueSound(queue, SetTimers, 0) /\ waited = Unlimited
    BY Zenon, <1>1, <1>2 DEF TimersSound
  <1>4. /\ queue \in Queue /\ RingHolds(queue, SetTimers) /\ ~IsEmpty(queue)
        /\ SetTimers \in SUBSET Timers
    BY Zenon, <1>1, <1>3, ClientConnectionAssumption
       DEF QueueSound, FirstIsDue, SetTimers, Active
  <1>5. /\ ch \in SetTimers /\ queue' \in Queue /\ RingHolds(queue', SetTimers \ {ch})
        /\ queue'.elapsed_time = queue.elapsed_time
        /\ queue'.scheduled_time = [queue.scheduled_time EXCEPT ![ch] = 0]
    BY Zenon, <1>1, <1>4, TakeFirstProperties
  <1>6. channel[ch].active_request # None
    BY Zenon, <1>5 DEF SetTimers, Active
  <1>7. channel' = [channel EXCEPT ![ch] = new]
    BY Zenon, <1>1, <1>6
  <1>8. /\ new \in Channel /\ ChannelSound(new, ch \in Range(msgs)) /\ HoldsSound(new)
        /\ new.active_request = None
        /\ new.connection = channel[ch].connection /\ new.removed = channel[ch].removed
    BY Zenon, <1>6, ActiveFacts
  <1> HIDE DEF new
  <1>9. msgs' = msgs /\ connection' = connection /\ connection_list' = connection_list
        /\ requests' = requests /\ responses' = responses /\ phase' = phase /\ waited' = waited
    BY Zenon, <1>1 DEF network
  <1>10. channel' \in [Channels -> Channel] /\ RequestsSound'
    <2>1. /\ IsInjective(msgs') /\ ChannelSound(new, ch \in Range(msgs'))
          /\ \A o \in Channels \ {ch} : o \in Range(msgs') <=> o \in Range(msgs)
      BY Zenon, <1>2, <1>8, <1>9
    <2> QED
      BY Zenon, <1>2, <1>7, <1>8, <2>1, ChannelStep
  <1>11. channel'[ch] = new /\ \A o \in Channels \ {ch} : channel'[o] = channel[o]
    BY Zenon, <1>2, <1>7
  <1>12. AgentTypeOK'
    BY Zenon, <1>2, <1>9, <1>10 DEF AgentTypeOK
  <1>13. ConnectionsSound'
    <2>1. \A o \in Channels : /\ channel'[o].connection = channel[o].connection
                              /\ channel'[o].removed = channel[o].removed
                              /\ HoldsSound(channel'[o])
      BY Zenon, <1>2, <1>8, <1>11 DEF ConnectionsSound
    <2>2. \A d \in Conns : connection[d].state # "open" =>
                               requests[d] = {} /\ responses[d] = <<>>
      BY Zenon, <1>2 DEF ConnectionsSound, ConnectionSound
    <2> QED
      BY Zenon, <1>2, <1>9, <2>1, <2>2, SameHolders
  <1>14. TimersSound'
    <2>1. SetTimers' = SetTimers \ {ch}
      BY Zenon, <1>8, <1>11 DEF SetTimers, Active
    <2>2. \A t \in SetTimers \ {ch} : queue'.scheduled_time[t] = queue.scheduled_time[t]
      <3>1. queue.scheduled_time \in [Timers -> 0 .. WORD - 1]
        BY Zenon, <1>4 DEF Queue
      <3> QED
        BY Zenon, <1>4, <1>5, <3>1
    <2>3. QueueSound(queue', SetTimers', 0)
      BY Zenon, <1>3, <1>5, <2>1, <2>2 DEF QueueSound
    <2> QED
      BY Zenon, <1>1, <1>2, <1>9, <2>3 DEF TimersSound
  <1> QED
    BY Zenon, <1>10, <1>12, <1>13, <1>14 DEF IInv

\* The loop leaves the agent's state to the handlers.
LEMMA LoopOnly ==
    ASSUME IInv, UNCHANGED agentVars, TimersSound'
    PROVE  IInv'
  <1>1. AgentTypeOK /\ RequestsSound /\ ConnectionsSound
    BY Zenon DEF IInv
  <1>2. /\ channel' = channel /\ connection' = connection /\ connection_list' = connection_list
        /\ msgs' = msgs /\ requests' = requests /\ responses' = responses
    BY Zenon DEF agentVars, network
  <1>3. AgentTypeOK' /\ RequestsSound'
    BY Zenon, <1>1, <1>2 DEF AgentTypeOK, RequestsSound
  <1>4. \A ch \in Channels : HoldsSound(channel[ch])
    BY Zenon, <1>1 DEF ConnectionsSound
  <1>5. \A c \in Conns :
            connection[c].state # "open" => requests[c] = {} /\ responses[c] = <<>>
    BY Zenon, <1>1 DEF ConnectionsSound, ConnectionSound
  <1>6. ConnectionsSound'
    BY Zenon, <1>1, <1>2, <1>4, <1>5, SameHolders
  <1> QED
    BY Zenon, <1>3, <1>6 DEF IInv

\* What a sound queue says in numbers; its first timer is due first.
LEMMA QueueFacts ==
    ASSUME NEW q, NEW S \in SUBSET Timers, NEW low \in Nat, QueueSound(q, S, low)
    PROVE  /\ q \in Queue /\ RingHolds(q, S) /\ q.elapsed_time \in Nat
           /\ q.elapsed_time < RESCHEDULE /\ RESCHEDULE \in Nat /\ WORD \in Nat
           /\ request_timeout \in Nat /\ RESCHEDULE + request_timeout < WORD
           /\ \A t \in S : /\ q.scheduled_time[t] \in Nat
                           /\ q.elapsed_time + low <= q.scheduled_time[t]
                           /\ q.scheduled_time[t] <= q.elapsed_time + request_timeout
           /\ IsEmpty(q) => S = {}
           /\ ~IsEmpty(q) => /\ Head(q.head) \in S
                             /\ \A t \in S : q.scheduled_time[Head(q.head)] <= q.scheduled_time[t]
  <1>1. /\ q \in Queue /\ RingHolds(q, S) /\ q.elapsed_time \in Nat
        /\ q.elapsed_time < RESCHEDULE /\ RESCHEDULE \in Nat /\ WORD \in Nat
        /\ request_timeout \in Nat /\ RESCHEDULE + request_timeout < WORD
        /\ q.scheduled_time \in [Timers -> Nat]
    BY TimerQueueAssumption, ClientConnectionAssumption DEF QueueSound, Queue
  <1>2. \A t \in S : /\ q.scheduled_time[t] \in Nat
                     /\ q.elapsed_time + low <= q.scheduled_time[t]
                     /\ q.scheduled_time[t] <= q.elapsed_time + request_timeout
    BY <1>1 DEF QueueSound
  <1>3. IsEmpty(q) => S = {}
    BY <1>1 DEF IsEmpty, RingHolds
  <1>4. ~IsEmpty(q) => /\ Head(q.head) \in S
                       /\ \A t \in S : q.scheduled_time[Head(q.head)] <= q.scheduled_time[t]
    BY Zenon, <1>1, TakeFirstProperties
  <1> QED
    BY Zenon, <1>1, <1>2, <1>3, <1>4

\* The agent waits, no longer than until its first timer is due.
LEMMA WaitStep ==
    ASSUME IInv, NEW time \in 0 .. request_timeout, Wait(time)
    PROVE  IInv'
  <1> DEFINE low == IF time > 1 THEN time ELSE 1
  <1>1. /\ phase = "poll" /\ phase' = "handle" /\ queue' = [queue EXCEPT !.reset = FALSE]
        /\ IF IsEmpty(queue) THEN waited' = Unlimited
           ELSE time <= Timeout(queue) /\ waited' = time
        /\ UNCHANGED agentVars /\ channel' = channel
    BY Zenon DEF Wait, Poll, apt_timer_queue_timeout_get, agentVars
  <1>2. TimersSound /\ SetTimers \in SUBSET Timers /\ SetTimers' = SetTimers
    BY Zenon, <1>1, ClientConnectionAssumption DEF IInv, SetTimers, Active
  <1>3. QueueSound(queue, SetTimers, 1)
    <2>1. waited = Unlimited
      BY Zenon, <1>1, <1>2 DEF TimersSound
    <2>2. ~(waited > 1)
      BY <2>1 DEF Unlimited
    <2> QED
      BY Zenon, <1>1, <1>2, <2>2 DEF TimersSound
  <1>4. /\ queue \in Queue /\ RingHolds(queue, SetTimers) /\ queue.elapsed_time \in Nat
        /\ queue.elapsed_time < RESCHEDULE /\ RESCHEDULE \in Nat /\ WORD \in Nat
        /\ request_timeout \in Nat /\ RESCHEDULE + request_timeout < WORD
        /\ \A t \in SetTimers : /\ queue.scheduled_time[t] \in Nat
                                /\ queue.elapsed_time + 1 <= queue.scheduled_time[t]
                                /\ queue.scheduled_time[t] <= queue.elapsed_time + request_timeout
        /\ IsEmpty(queue) => SetTimers = {}
        /\ ~IsEmpty(queue) =>
               /\ Head(queue.head) \in SetTimers
               /\ \A t \in SetTimers :
                      queue.scheduled_time[Head(queue.head)] <= queue.scheduled_time[t]
    <2>1. 1 \in Nat
      OBVIOUS
    <2> QED
      BY Zenon, <1>2, <1>3, <2>1, QueueFacts
  <1>5. /\ queue' \in Queue /\ queue'.head = queue.head
        /\ queue'.elapsed_time = queue.elapsed_time
        /\ queue'.scheduled_time = queue.scheduled_time
    BY Zenon, <1>1, <1>4 DEF Queue
  <1>6. RingHolds(queue', SetTimers)
    BY Zenon, <1>4, <1>5 DEF RingHolds
  <1>7. CASE IsEmpty(queue)
    <2>1. waited' = Unlimited /\ SetTimers' = {}
      BY Zenon, <1>1, <1>2, <1>4, <1>7
    <2>2. QueueSound(queue', SetTimers', 1)
      BY Zenon, <1>2, <1>4, <1>5, <1>6, <2>1 DEF QueueSound
    <2>3. ~(waited' > 1)
      BY <2>1 DEF Unlimited
    <2>4. TimersSound'
      <3>1. phase' # "fire" /\ phase' \in {"poll", "handle", "fire"}
        BY <1>1
      <3> QED
        BY Zenon, <1>1, <2>1, <2>2, <2>3, <3>1 DEF TimersSound
    <2> QED
      BY Zenon, <1>1, <2>4, LoopOnly
  <1>8. CASE ~IsEmpty(queue)
    <2>1. \A t \in SetTimers : queue.elapsed_time + low <= queue.scheduled_time[t]
      <3> DEFINE f == Head(queue.head)
                 s == queue.scheduled_time[f]
      <3>1. /\ time <= Timeout(queue) /\ Timeout(queue) = (s - queue.elapsed_time) % WORD
            /\ f \in SetTimers
        BY Zenon, <1>1, <1>4, <1>8 DEF Timeout
      <3>2. s \in Nat /\ s - queue.elapsed_time \in Nat /\ s - queue.elapsed_time < WORD
        <4> HIDE DEF f
        <4> QED
          BY <1>4, <3>1
      <3> HIDE DEF s
      <3>3. Timeout(queue) = s - queue.elapsed_time
        <4>1. PICK n : n = s - queue.elapsed_time
          BY Zenon
        <4>2. n % WORD = n
          BY <3>2, <4>1, WordFits
        <4> QED
          BY Zenon, <3>1, <4>1, <4>2
      <3>4. queue.elapsed_time + time <= s
        BY <1>4, <3>1, <3>2, <3>3
      <3>5. ASSUME NEW t \in SetTimers
            PROVE  queue.elapsed_time + low <= queue.scheduled_time[t]
        <4>1. s <= queue.scheduled_time[t]
          BY Zenon, <1>4, <1>8 DEF s
        <4>2. /\ queue.scheduled_time[t] \in Nat
              /\ queue.elapsed_time + 1 <= queue.scheduled_time[t]
          BY Zenon, <1>4
        <4> QED
          BY <1>4, <3>2, <3>4, <4>1, <4>2
      <3> QED
        BY Zenon, <3>5
    <2>2. waited' = time /\ QueueSound(queue', SetTimers', low)
      <3> HIDE DEF low
      <3> QED
        BY Zenon, <1>1, <1>2, <1>4, <1>5, <1>6, <1>8, <2>1 DEF QueueSound
    <2>3. phase' # "fire" /\ phase' \in {"poll", "handle", "fire"}
          /\ waited' \in {Unlimited} \cup (0 .. request_timeout)
      BY <1>1, <2>2
    <2>4. TimersSound'
      BY Zenon, <1>1, <2>2, <2>3 DEF TimersSound
    <2> QED
      BY Zenon, <1>1, <2>4, LoopOnly
  <1> QED
    BY Zenon, <1>7, <1>8

\* The queue advances by the time of the wait, if that was measured.
LEMMA AdvanceStep ==
    ASSUME IInv, Advance, UNCHANGED agentVars
    PROVE  IInv'
  <1> DEFINE low == IF waited > 1 THEN waited ELSE 1
  <1>1. /\ phase = "handle" /\ waited' = Unlimited /\ channel' = channel
        /\ IF waited # Unlimited /\ Advances(queue)
           THEN queue' = AdvanceTime(queue, waited) /\ phase' = "fire"
           ELSE queue' = queue /\ phase' = "poll"
    BY Zenon DEF Advance, agentVars
  <1>2. /\ TimersSound /\ SetTimers \in SUBSET Timers /\ SetTimers' = SetTimers
        /\ waited \in {Unlimited} \cup (0 .. request_timeout)
    BY Zenon, <1>1, ClientConnectionAssumption DEF IInv, SetTimers, Active, TimersSound
  <1>3. QueueSound(queue, SetTimers, low)
    BY Zenon, <1>1, <1>2 DEF TimersSound
  <1>4. low \in Nat /\ low >= 1 /\ (waited # Unlimited => low >= waited /\ waited \in Nat)
    BY <1>2, ClientConnectionAssumption DEF Unlimited
  <1> HIDE DEF low
  <1>5. /\ queue \in Queue /\ RingHolds(queue, SetTimers) /\ queue.elapsed_time \in Nat
        /\ queue.elapsed_time < RESCHEDULE /\ RESCHEDULE \in Nat /\ WORD \in Nat
        /\ request_timeout \in Nat /\ RESCHEDULE + request_timeout < WORD
        /\ \A t \in SetTimers : /\ queue.scheduled_time[t] \in Nat
                                /\ queue.elapsed_time + low <= queue.scheduled_time[t]
                                /\ queue.scheduled_time[t] <= queue.elapsed_time + request_timeout
    BY Zenon, <1>2, <1>3, <1>4, QueueFacts
  <1>6. CASE waited # Unlimited /\ Advances(queue)
    <2>1. queue' = AdvanceTime(queue, waited) /\ phase' = "fire"
      BY Zenon, <1>1, <1>6
    <2>2. /\ waited \in Nat /\ waited <= request_timeout
          /\ queue.elapsed_time + waited < WORD
          /\ \A u \in SetTimers : queue.scheduled_time[u] >= queue.elapsed_time + waited
      BY <1>2, <1>4, <1>5, <1>6
    <2>3. /\ queue' \in Queue /\ RingHolds(queue', SetTimers)
          /\ queue'.elapsed_time < RESCHEDULE
          /\ \A u \in SetTimers : queue'.scheduled_time[u] - queue'.elapsed_time
                                      = queue.scheduled_time[u] - queue.elapsed_time - waited
      <3>1. PICK d : d = waited
        BY Zenon
      <3>2. /\ d \in Nat /\ queue.elapsed_time + d < WORD
            /\ \A u \in SetTimers : queue.scheduled_time[u] >= queue.elapsed_time + d
        BY Zenon, <2>2, <3>1
      <3>3. LET r == AdvanceTime(queue, d)
            IN  /\ r \in Queue /\ RingHolds(r, SetTimers) /\ r.elapsed_time < RESCHEDULE
                /\ \A u \in SetTimers : r.scheduled_time[u] - r.elapsed_time
                                            = queue.scheduled_time[u] - queue.elapsed_time - d
        BY Zenon, <1>2, <1>5, <3>2, AdvanceTimeProperties
      <3> QED
        BY Zenon, <2>1, <3>1, <3>3
    <2>4. ASSUME NEW u \in SetTimers
          PROVE  /\ queue'.elapsed_time + 0 <= queue'.scheduled_time[u]
                 /\ queue'.scheduled_time[u] <= queue'.elapsed_time + request_timeout
      <3>1. queue'.elapsed_time \in Nat /\ queue'.scheduled_time \in [Timers -> Nat]
        BY <1>5, <2>3 DEF Queue
      <3>2. queue'.scheduled_time[u] \in Nat
        BY Zenon, <1>2, <3>1
      <3>3. queue'.scheduled_time[u] - queue'.elapsed_time
                = queue.scheduled_time[u] - queue.elapsed_time - waited
        BY Zenon, <2>3
      <3> QED
        BY SMTT(30), <1>5, <2>2, <3>1, <3>2, <3>3
    <2>5. QueueSound(queue', SetTimers', 0)
      BY Zenon, <1>2, <2>3, <2>4 DEF QueueSound
    <2>6. TimersSound'
      <3>1. phase' \in {"poll", "handle", "fire"}
        BY <2>1
      <3> QED
        BY Zenon, <1>1, <2>1, <2>5, <3>1 DEF TimersSound
    <2> QED
      BY Zenon, <2>6, LoopOnly
  <1>7. CASE ~(waited # Unlimited /\ Advances(queue))
    <2>1. queue' = queue /\ phase' = "poll"
      BY Zenon, <1>1, <1>7
    <2>2. QueueSound(queue, SetTimers, 1)
      <3>1. \A t \in SetTimers : queue.elapsed_time + 1 <= queue.scheduled_time[t]
        BY <1>4, <1>5
      <3> QED
        BY Zenon, <1>5, <3>1 DEF QueueSound
    <2>3. QueueSound(queue', SetTimers', 1)
      BY Zenon, <1>2, <2>1, <2>2
    <2>4. ~(waited' > 1)
      BY <1>1 DEF Unlimited
    <2>5. phase' # "fire" /\ phase' \in {"poll", "handle", "fire"}
      BY <2>1
    <2>6. TimersSound'
      BY Zenon, <1>1, <2>1, <2>3, <2>4, <2>5 DEF TimersSound
    <2> QED
      BY Zenon, <2>6, LoopOnly
  <1> QED
    BY Zenon, <1>6, <1>7

\* When no timer is due any more, each has some time left.
LEMMA EndAdvanceStep ==
    ASSUME IInv, EndAdvance, UNCHANGED agentVars
    PROVE  IInv'
  <1>1. /\ phase = "fire" /\ ~FirstIsDue(queue) /\ phase' = "poll"
        /\ queue' = queue /\ waited' = waited /\ channel' = channel
    BY Zenon DEF EndAdvance, agentVars
  <1>2. /\ TimersSound /\ SetTimers \in SUBSET Timers /\ SetTimers' = SetTimers
    BY Zenon, <1>1, ClientConnectionAssumption DEF IInv, SetTimers, Active
  <1>3. QueueSound(queue, SetTimers, 0) /\ waited = Unlimited
    BY Zenon, <1>1, <1>2 DEF TimersSound
  <1>4. /\ queue.elapsed_time \in Nat
        /\ \A t \in SetTimers : queue.scheduled_time[t] \in Nat
        /\ IsEmpty(queue) => SetTimers = {}
        /\ ~IsEmpty(queue) =>
               /\ Head(queue.head) \in SetTimers
               /\ \A t \in SetTimers :
                      queue.scheduled_time[Head(queue.head)] <= queue.scheduled_time[t]
    <2>1. 0 \in Nat
      OBVIOUS
    <2> QED
      BY Zenon, <1>2, <1>3, <2>1, QueueFacts
  <1>5. \A t \in SetTimers : queue.elapsed_time + 1 <= queue.scheduled_time[t]
    BY <1>1, <1>4 DEF FirstIsDue
  <1>6. QueueSound(queue, SetTimers, 1)
    BY Zenon, <1>3, <1>5 DEF QueueSound
  <1>7. QueueSound(queue', SetTimers', 1)
    BY Zenon, <1>1, <1>2, <1>6
  <1>8. ~(waited' > 1)
    BY <1>1, <1>3 DEF Unlimited
  <1>9. phase' # "fire" /\ phase' \in {"poll", "handle", "fire"}
    BY <1>1
  <1>10. TimersSound'
    BY Zenon, <1>1, <1>3, <1>7, <1>8, <1>9 DEF TimersSound
  <1> QED
    BY Zenon, <1>10, LoopOnly

-----------------------------------------------------------------------------
(* The invariant *)

\* The agent starts with no channel, no connection and no timer.
LEMMA InitIInv == Init => IInv
  <1> SUFFICES ASSUME Init
               PROVE  IInv
    BY Zenon
  <1>1. /\ channel = [ch \in Channels |-> NewChannel]
        /\ connection = [c \in Conns |-> NoConnection]
        /\ connection_list = <<>> /\ msgs = <<>>
        /\ requests = [c \in Conns |-> {}] /\ responses = [c \in Conns |-> <<>>]
        /\ queue = apt_timer_queue_create /\ phase = "poll" /\ waited = Unlimited
    BY Zenon DEF Init, apt_poller_task_create
  <1>2. /\ NewChannel \in Channel /\ NewChannel.stage = "new"
        /\ NewChannel.connection = NoConn /\ NewChannel.removed = FALSE
        /\ NewChannel.active_request = None /\ NewChannel.request = None
        /\ NewChannel.inbox = <<>>
    BY DEF NewChannel, Channel, None
  <1>3. /\ NoConnection \in Connection /\ NoConnection.state = "free"
        /\ NoConnection.access_count = 0 /\ NoConnection.channel_table = {}
    BY DEF NoConnection, Connection
  <1>4. AgentTypeOK
    BY <1>1, <1>2, <1>3 DEF AgentTypeOK
  <1>5. /\ IsInjective(<<>>) /\ Range(<<>>) = {} /\ NoAnswer(<<>>)
    BY DEF IsInjective, Range, NoAnswer
  <1>6. \A ch \in Channels : channel[ch] = NewChannel
    BY Zenon, <1>1
  <1>7. RequestsSound
    <2>1. ASSUME NEW ch \in Channels
          PROVE  ChannelSound(channel[ch], ch \in Range(msgs))
      BY <1>1, <1>2, <1>5, <1>6 DEF ChannelSound
    <2> QED
      BY Zenon, <1>1, <1>5, <2>1 DEF RequestsSound
  <1>8. ConnectionsSound
    <2>1. HoldsSound(NewChannel)
      BY <1>2 DEF HoldsSound
    <2>2. ASSUME NEW c \in Conns
          PROVE  ConnectionSound(c)
      <3>1. NoConn # c
        BY Zenon, ClientConnectionAssumption
      <3>2. Users(channel, c) = {} /\ Marked(channel, c) = {}
        BY Zenon, <1>2, <1>6, <3>1 DEF Users, Marked
      <3>3. IsFiniteSet({}) /\ Cardinality({}) = 0
        BY Zenon, FS_EmptySet
      <3>4. connection[c] = NoConnection /\ requests[c] = {} /\ responses[c] = <<>>
        BY Zenon, <1>1
      <3> QED
        BY Zenon, <1>1, <1>3, <1>5, <3>2, <3>3, <3>4 DEF ConnectionSound
    <2> QED
      BY Zenon, <1>1, <1>5, <1>6, <2>1, <2>2 DEF ConnectionsSound
  <1>9. TimersSound
    <2>1. SetTimers = {}
      BY Zenon, <1>2, <1>6 DEF SetTimers, Active
    <2>2. /\ queue \in Queue /\ queue.elapsed_time = 0 /\ queue.head = <<>>
          /\ \A t \in Timers : queue.scheduled_time[t] = 0
      BY <1>1, TimerQueueAssumption DEF apt_timer_queue_create, Queue
    <2>3. RingHolds(queue, {})
      BY <2>2 DEF RingHolds
    <2>4. QueueSound(queue, SetTimers, 1)
      BY <2>1, <2>2, <2>3, TimerQueueAssumption DEF QueueSound
    <2>5. phase # "fire" /\ phase \in {"poll", "handle", "fire"} /\ ~(waited > 1)
      BY <1>1 DEF Unlimited
    <2> QED
      BY Zenon, <1>1, <2>4, <2>5 DEF TimersSound
  <1> QED
    BY Zenon, <1>4, <1>7, <1>8, <1>9 DEF IInv

\* Every step of the sessions, the agent, the server and the loop keeps it.
LEMMA NextIInv == IInv /\ [Next]_vars => IInv'
  <1> SUFFICES ASSUME IInv, [Next]_vars
               PROVE  IInv'
    BY Zenon
  <1>1. CASE Sessions
    <2>1. PICK ch \in Channels :
              \/ mrcp_client_control_channel_add(ch)
              \/ \E type \in {"NEW", "EXISTING"} : mrcp_client_control_channel_modify(ch, type)
              \/ mrcp_client_control_message_send(ch)
              \/ mrcp_client_control_channel_remove(ch)
              \/ mrcp_client_on_message_receive(ch)
              \/ mrcp_client_control_channel_destroy(ch)
      BY Zenon, <1>1 DEF Sessions
    <2> QED
      BY Zenon, <2>1, AddStep, ModifyStep, SendStep, RemoveStep, ReceiveStep, DestroyStep
  <1>2. CASE mrcp_client_agent_msg_process
    <2>1. /\ phase = "handle" /\ msgs # <<>> /\ msgs' = Tail(msgs)
          /\ \/ mrcp_client_agent_channel_add(Head(msgs))
             \/ mrcp_client_agent_channel_modify(Head(msgs))
             \/ mrcp_client_agent_channel_remove(Head(msgs))
             \/ mrcp_client_agent_messsage_send(Head(msgs))
      BY Zenon, <1>2 DEF mrcp_client_agent_msg_process
    <2> QED
      BY Zenon, <2>1, AgentAddStep, AgentModifyStep, AgentRemoveStep, AgentSendStep
  <1>3. CASE Server
    <2>1. PICK c \in Conns :
              \/ Respond(c)
              \/ \E n \in 1 .. Len(responses[c]) : mrcp_client_poller_signal_process(c, n)
              \/ PeerDisconnected(c)
      BY Zenon, <1>3 DEF Server
    <2> QED
      BY Zenon, <2>1, RespondStep, ReceivedStep, DisconnectedStep
  <1>4. CASE Loop
    <2>1. \/ \E time \in 0 .. request_timeout : Wait(time)
          \/ Advance /\ UNCHANGED agentVars
          \/ EndAdvance /\ UNCHANGED agentVars
          \/ \E ch \in Channels : mrcp_client_timer_proc(ch)
      BY Zenon, <1>4 DEF Loop
    <2> QED
      BY Zenon, <2>1, WaitStep, AdvanceStep, EndAdvanceStep, TimerStep
  <1>5. CASE UNCHANGED vars
    <2>1. UNCHANGED agentVars /\ UNCHANGED pollerVars /\ channel' = channel
      BY Zenon, <1>5 DEF vars, agentVars
    <2>2. TimersSound'
      BY Zenon, <2>1, SameActive DEF IInv
    <2> QED
      BY Zenon, <2>1, <2>2, LoopOnly
  <1> QED
    BY Zenon, <1>1, <1>2, <1>3, <1>4, <1>5 DEF Next

\* So it holds in every state.
LEMMA AlwaysIInv == Spec => []IInv
  BY InitIInv, NextIInv, PTL DEF Spec

-----------------------------------------------------------------------------
(* The theorems *)

\* The state of the agent keeps its type.
THEOREM ClientTypeCorrect == Spec => []TypeOK
  <1>1. IInv => TypeOK
    <2> SUFFICES ASSUME IInv
                 PROVE  TypeOK
      BY Zenon
    <2>1. AgentTypeOK /\ TimersSound
      BY Zenon DEF IInv
    <2>2. queue \in Queue /\ phase \in {"poll", "handle", "fire"}
      BY Zenon, <2>1 DEF TimersSound, QueueSound
    <2>3. waited \in Int
      BY <2>1, ClientConnectionAssumption DEF TimersSound, Unlimited
    <2> QED
      BY Zenon, <2>1, <2>2, <2>3 DEF TypeOK, PollerTypeOK, AgentTypeOK
  <1> QED
    BY <1>1, AlwaysIInv, PTL

\* However responses, timeouts, disconnects and failures to send race, the
\* request a session waits for is in one place: no request is lost, and none
\* is answered twice.
THEOREM RequestsAnsweredOnce == Spec => []AnsweredOnce
  <1>1. IInv => AnsweredOnce
    <2> SUFFICES ASSUME IInv, NEW ch \in Channels
                 PROVE  LET r == channel[ch].request
                            Answers == {i \in DOMAIN channel[ch].inbox :
                                            channel[ch].inbox[i] # Disconnect}
                            sending == /\ channel[ch].stage = "ready"
                                       /\ \E i \in DOMAIN msgs : msgs[i] = ch
                            active == channel[ch].active_request # None
                        IN  /\ r = None <=> (Answers = {} /\ ~sending /\ ~active)
                            /\ r # None =>
                                   /\ Cardinality(Answers) = IF sending \/ active THEN 0 ELSE 1
                                   /\ ~(sending /\ active)
                            /\ active => channel[ch].active_request = r
                            /\ \A i \in Answers : channel[ch].inbox[i] = r
      BY Zenon DEF AnsweredOnce
    <2> DEFINE r == channel[ch].request
               box == channel[ch].inbox
               Answers == {i \in DOMAIN box : box[i] # Disconnect}
               queued == \E i \in DOMAIN msgs : msgs[i] = ch
               sending == channel[ch].stage = "ready" /\ queued
               active == channel[ch].active_request # None
    <2>1. /\ channel[ch] \in Channel /\ ChannelSound(channel[ch], ch \in Range(msgs))
      BY Zenon, ChannelFacts
    <2>2. box \in Seq(Nat) /\ r \in Nat
      BY Zenon, <2>1 DEF Channel
    <2>3. DOMAIN box = 1 .. Len(box)
      BY <2>2, LenProperties
    <2>4. queued <=> ch \in Range(msgs)
      BY Zenon DEF Range
    <2> HIDE DEF queued, box, r
    <2>5. NoAnswer(box) => Answers = {}
      BY Zenon, <2>3 DEF NoAnswer
    <2>6. r # None /\ OneAnswer(box, r) => \E i \in DOMAIN box : Answers = {i} /\ box[i] = r
      <3> SUFFICES ASSUME r # None, OneAnswer(box, r)
                   PROVE  \E i \in DOMAIN box : Answers = {i} /\ box[i] = r
        BY Zenon
      <3>1. PICK i \in 1 .. Len(box) :
                box[i] = r /\ \A j \in 1 .. Len(box) : j # i => box[j] = Disconnect
        BY Zenon DEF OneAnswer
      <3>2. r # Disconnect
        BY DEF None, Disconnect
      <3>3. Answers = {i}
        BY Zenon, <2>3, <3>1, <3>2
      <3> QED
        BY Zenon, <2>3, <3>1, <3>3
    <2>7. Cardinality({}) = 0 /\ \A i : Cardinality({i}) = 1
      BY Zenon, FS_EmptySet, FS_Singleton
    <2>8. \/ r = None /\ ~sending /\ ~active /\ NoAnswer(box)
          \/ r # None /\ sending /\ ~active /\ NoAnswer(box)
          \/ r # None /\ ~sending /\ active /\ channel[ch].active_request = r /\ NoAnswer(box)
          \/ r # None /\ ~sending /\ ~active /\ OneAnswer(box, r)
      BY Zenon, <2>1, <2>4 DEF ChannelSound, r, box
    <2> HIDE DEF Answers, sending
    <2>9. /\ r = None <=> (Answers = {} /\ ~sending /\ ~active)
          /\ r # None => /\ Cardinality(Answers) = IF sending \/ active THEN 0 ELSE 1
                         /\ ~(sending /\ active)
          /\ active => channel[ch].active_request = r
          /\ \A i \in Answers : box[i] = r
      <3>1. CASE ~(r # None /\ ~sending /\ ~active /\ OneAnswer(box, r))
        BY Zenon, <2>5, <2>7, <2>8, <3>1
      <3>2. CASE r # None /\ ~sending /\ ~active /\ OneAnswer(box, r)
        <4>1. PICK i \in DOMAIN box : Answers = {i} /\ box[i] = r
          BY Zenon, <2>6, <3>2
        <4> QED
          BY Zenon, <2>7, <3>2, <4>1
      <3> QED
        BY Zenon, <2>8, <3>1, <3>2
    <2> USE DEF Answers, sending, queued, box, r
    <2> QED
      BY Zenon, <2>9
  <1> QED
    BY <1>1, AlwaysIInv, PTL

\* The timers that are set are those of the active requests: an answer, a
\* cancellation or the loss of the connection always takes the timer along.
THEOREM TimersFollowRequests == Spec => []TimersOfRequests
  <1>1. IInv => TimersOfRequests
    BY Zenon DEF IInv, TimersSound, QueueSound, SetTimers, Active, TimersOfRequests
  <1> QED
    BY <1>1, AlwaysIInv, PTL

\* A connection is in the list exactly while channels use it, access_count
\* counts them, and when the last is gone one channel, and only one, is left
\* to destroy it.
THEOREM ConnectionsAlwaysHeld == Spec => []ConnectionsHeld
  <1>1. IInv => ConnectionsHeld
    <2> SUFFICES ASSUME IInv
                 PROVE  ConnectionsHeld
      BY Zenon
    <2>1. ConnectionsSound /\ connection_list \in Seq(Conns)
      BY Zenon DEF IInv, AgentTypeOK
    <2>2. ASSUME NEW c \in Conns
          PROVE  LET users == {ch \in Channels : channel[ch].connection = c}
                     marked == {ch \in users : channel[ch].removed}
                 IN  /\ connection[c].channel_table = users \ marked
                     /\ connection[c].access_count = Cardinality(users \ marked)
                     /\ Cardinality(marked) =
                            IF connection[c].state # "free" /\ users \ marked = {} THEN 1 ELSE 0
                     /\ (\E i \in DOMAIN connection_list : connection_list[i] = c)
                            <=> users \ marked # {}
                     /\ connection[c].state = "free" => users = {}
                     /\ connection[c].state # "open" => requests[c] = {} /\ responses[c] = <<>>
      <3> DEFINE users == {ch \in Channels : channel[ch].connection = c}
                 marked == {ch \in users : channel[ch].removed}
      <3>1. ConnectionSound(c)
        BY Zenon, <2>1 DEF ConnectionsSound
      <3>2. /\ users \ marked = Users(channel, c) /\ marked = Marked(channel, c)
            /\ users = Users(channel, c) \cup Marked(channel, c)
        BY Zenon DEF Users, Marked
      <3>3. (\E i \in DOMAIN connection_list : connection_list[i] = c)
                <=> c \in Range(connection_list)
        BY Zenon DEF Range
      <3>4. Cardinality({}) = 0 /\ \A i : Cardinality({i}) = 1
        BY Zenon, FS_EmptySet, FS_Singleton
      <3>5. Cardinality(Marked(channel, c)) =
                IF connection[c].state # "free" /\ Users(channel, c) = {} THEN 1 ELSE 0
        BY Zenon, <3>1, <3>4 DEF ConnectionSound
      <3>6. connection[c].state = "free" => users = {}
        BY Zenon, <3>1, <3>2 DEF ConnectionSound
      <3> HIDE DEF users, marked
      <3>7. /\ connection[c].channel_table = users \ marked
            /\ connection[c].access_count = Cardinality(users \ marked)
            /\ Cardinality(marked) =
                   IF connection[c].state # "free" /\ users \ marked = {} THEN 1 ELSE 0
            /\ (\E i \in DOMAIN connection_list : connection_list[i] = c)
                   <=> users \ marked # {}
            /\ connection[c].state # "open" => requests[c] = {} /\ responses[c] = <<>>
        BY Zenon, <3>1, <3>2, <3>3, <3>5 DEF ConnectionSound
      <3> QED
        BY Zenon, <3>6, <3>7 DEF users, marked
    <2>3. \A i, j \in DOMAIN connection_list :
              i # j => connection_list[i] # connection_list[j]
      BY Zenon, <2>1 DEF ConnectionsSound, IsInjective
    <2> QED
      BY Zenon, <2>2, <2>3 DEF ConnectionsHeld
  <1> QED
    BY <1>1, AlwaysIInv, PTL

=============================================================================
