------------------------- MODULE RecogAnswersProofs -------------------------
(***************************************************************************)
(* Proofs about the answers to the requests of a recognizer channel: there *)
(* is at most one to each, nothing follows a STOP, and no answer ends the  *)
(* session early.                                                          *)
(***************************************************************************)
EXTENDS RecogAnyEngineProofs

-----------------------------------------------------------------------------
(* What is on its way through the engine *)

Answer == {m \in EngineMessages : m.type = "RESPONSE"}
Closed == {EngineMessage("CLOSED", 0, "CLOSE", "COMPLETE")}

\* What a request and its answer have in common.
Pair(m) == <<m.id, m.method>>

\* The pairs of the messages of a queue that belong to K.
Pairs(s, K) == {Pair(s[i]) : i \in {j \in 1 .. Len(s) : s[j] \in K}}

\* No two of them have the same id.
Distinct(s, K) ==
    \A i, j \in 1 .. Len(s) : s[i] \in K /\ s[j] \in K /\ s[i].id = s[j].id => i = j

Apart(P, Q) == \A p \in P, q \in Q : p[1] # q[1]

OwedPairs(o) == {Pair(r) : r \in o}

\* The requests that are sent to the engine, taken by it, or answered by it.
OutOf(to, o, from) == Pairs(to, Request) \cup OwedPairs(o) \cup Pairs(from, Answer)

\* Each is in one place, once.
PipeSound(to, o, from) ==
    /\ Distinct(to, Request)
    /\ Distinct(from, Answer)
    /\ \A r, s \in o : r.id = s.id => r = s
    /\ Apart(Pairs(to, Request), OwedPairs(o))
    /\ Apart(Pairs(to, Request), Pairs(from, Answer))
    /\ Apart(OwedPairs(o), Pairs(from, Answer))

Out == OutOf(to_engine, owed, from_engine)

IsOut(id) == \E p \in Out : p[1] = id

-----------------------------------------------------------------------------
(* Requests *)

\* As the client makes them.
Proper(r) ==
    /\ r \in Request
    /\ r.id >= 1
    /\ r.method = "RECOGNIZE" => r.list = {}

\* Pending requests that the machine sends when the call in front returns.
ResumedOf(c) == {c[k].msg : k \in {j \in 1 .. Len(c) : c[j].op = "resume"}}

Resumed == ResumedOf(calls)

Pending == queue \cup Resumed

Dispatching == calls # <<>> /\ Head(calls).op = "dispatch"

HasResponse(l) == \E k \in 1 .. Len(l) : l[k][1] = "response"

HasOneResponse(l) ==
    \A j, k \in 1 .. Len(l) : l[j][1] = "response" /\ l[k][1] = "response" => j = k

\* The client has the response.
Responded(i) == HasResponse(log[i])

Answered == {i \in Ids : Responded(i)}

\* The ids of all requests that the server has handled.
HandledOf(out, pending, stops, answered, rec) ==
    {p[1] : p \in out} \cup {r.id : r \in pending} \cup stops \cup answered
        \cup {r.id : r \in {rec} \ {NULL}}

Handled == HandledOf(Out, Pending, stopped, Answered, recog)

Above(n) == \A i \in Handled : i < n

FromClient(r) == r # NULL /\ r # TerminateMsg

\* The server task handles the request of the session, and then the pending
\* one that a STOP has left.
CallsSound ==
    /\ session_request = NULL => request_queue = <<>>
    /\ \/ calls = <<>>
       \/ session_request # NULL /\ calls = <<Dispatch(session_request)>>
       \/ /\ \E r \in Resumed :
                \/ calls = <<Resume(r)>>
                \/ session_request # NULL /\ calls = <<Dispatch(session_request), Resume(r)>>
          /\ state = "IDLE" /\ recog = NULL

\* The requests of the client are handled in their order.
ClientSound ==
    /\ Above(next_id)
    /\ FromClient(session_request) =>
           /\ Proper(session_request)
           /\ session_request.id < next_id
           /\ ~Responded(session_request.id)
           /\ Dispatching => Above(session_request.id)
    /\ \A i \in 1 .. Len(request_queue) : FromClient(request_queue[i]) =>
           /\ Proper(request_queue[i])
           /\ request_queue[i].id < next_id
           /\ Above(request_queue[i].id)
           /\ FromClient(session_request) => session_request.id < request_queue[i].id
           /\ \A j \in 1 .. i - 1 : FromClient(request_queue[j]) =>
                  request_queue[j].id < request_queue[i].id

\* A pending request has not been sent.
PendingSound ==
    /\ \A r \in Pending : Proper(r) /\ ~IsOut(r.id)
    /\ \A r, s \in Pending : r.id = s.id => r = s
    /\ Resumed \cap queue = {}

\* What waits for a response is the request of the session, or a pending one
\* whose response is not sent to the client.
ActiveSound ==
    active_request # NULL /\ IsOut(active_request.id) =>
        /\ Proper(active_request)
        /\ Pair(active_request) \in Out
        /\ \/ session_request = active_request /\ ~Dispatching
           \/ is_pending /\ active_request.method = "RECOGNIZE"

\* The request of the session, if it has been sent.
OfSession(p) == FromClient(session_request) /\ p[1] = session_request.id

\* Of the requests on their way, beside that of the session, the one that is
\* waited for is the last; the one in progress was later, and the pending ones
\* will be.
OrderSound ==
    \A p \in Out :
        \/ OfSession(p)
        \/ /\ \A r \in Pending : p[1] < r.id
           /\ state = "RECOGNIZING" => p[1] < recog.id
           /\ active_request # NULL /\ IsOut(active_request.id) =>
                  p[1] <= active_request.id

ResumedFirst == \A r \in Resumed, s \in queue : r.id < s.id

\* The request in progress is none of the others.
RecogSound ==
    recog # NULL =>
        /\ Proper(recog) /\ recog.method = "RECOGNIZE"
        /\ ~IsOut(recog.id)
        /\ \A r \in Pending : r.id # recog.id

\* No request that was stopped is sent, pending or in progress.
StoppedSound ==
    /\ \A p \in Out : p[1] \notin stopped
    /\ \A r \in Pending : r.id \notin stopped
    /\ recog # NULL => recog.id \notin stopped

\* While the session lives.
LiveSound ==
    /\ ClientSound
    /\ OrderSound
    /\ ResumedFirst
    /\ RecogSound
    /\ StoppedSound

\* While the machine may get a response, other than to a STOP of its own.
Clean ==
    \/ active
    \/ /\ session_state \in {"TERMINATING", "TERMINATED"}
       /\ ~(active_request = NULL /\ recog = NULL /\ calls = <<>>)

CleanSound ==
    /\ PipeSound(to_engine, owed, from_engine)
    /\ PendingSound
    /\ ActiveSound

-----------------------------------------------------------------------------
(* The end of the session *)

Closing == Pairs(to_engine, {CloseMsg}) \cup Pairs(from_engine, Closed)

\* The engine is told to close the channel once.
CloseSound ==
    /\ Distinct(to_engine, {CloseMsg})
    /\ Distinct(from_engine, Closed)
    /\ Apart(Pairs(to_engine, {CloseMsg}), Pairs(from_engine, Closed))
    /\ \A i \in 1 .. Len(from_engine) :
           from_engine[i].type = "CLOSED" => from_engine[i] \in Closed

\* The count of subrequests is right.
TeardownSound ==
    /\ active <=> session_state = "INITIALIZING"
    /\ session_state \in {"INITIALIZING", "DEACTIVATING"} =>
           /\ removals = 0 /\ is_open /\ Closing = {}
           /\ subrequest_count = IF active THEN 0 ELSE 1
    /\ session_state \in {"TERMINATING", "TERMINATED"} =>
           /\ ~is_open
           /\ subrequest_count = removals + IF Closing = {} THEN 0 ELSE 1
           /\ session_state = "TERMINATED" <=> subrequest_count = 0
    /\ ~active => session_request = TerminateMsg /\ ~Dispatching

\* The machine waits for the response to its own STOP, and nothing else can
\* be taken for it.
DeactivationSound ==
    session_state = "DEACTIVATING" =>
        /\ calls = <<>>
        /\ WaitingForStop
        /\ active_request.list = {}
        /\ \A p \in Out : p[1] = active_request.id => p[2] = "STOP"

OneResponse == \A i \in Ids : HasOneResponse(log[i])

\* The inductive invariant, beside the one for the types.
AnswersInv ==
    /\ CallsSound
    /\ CloseSound
    /\ TeardownSound
    /\ DeactivationSound
    /\ OneResponse
    /\ Clean => CleanSound
    /\ active => LiveSound
-----------------------------------------------------------------------------
(* Queues of messages *)

\* The parts of a pair.
LEMMA PairParts == \A m : Pair(m)[1] = m.id /\ Pair(m)[2] = m.method
  BY DEF Pair

\* A message is put into a queue.
LEMMA PairsAppend ==
    ASSUME NEW S, NEW s \in Seq(S), NEW e \in S, NEW K
    PROVE  /\ Pairs(Append(s, e), K) =
                  IF e \in K THEN Pairs(s, K) \cup {Pair(e)} ELSE Pairs(s, K)
           /\ Distinct(s, K) /\ (e \in K => \A p \in Pairs(s, K) : p[1] # e.id) =>
                  Distinct(Append(s, e), K)
  <1> DEFINE A == Append(s, e)
  <1>1. /\ Len(s) \in Nat /\ Len(A) = Len(s) + 1
        /\ \A i \in 1 .. Len(s) : A[i] = s[i]
        /\ A[Len(s) + 1] = e
    BY AppendProperties, LenProperties
  <1> HIDE DEF A
  <1>2. ASSUME NEW p \in Pairs(A, K)
        PROVE  p \in Pairs(s, K) \/ (e \in K /\ p = Pair(e))
    BY <1>1 DEF Pairs
  <1>3. ASSUME NEW p \in Pairs(s, K)
        PROVE  p \in Pairs(A, K)
    <2>1. PICK i \in 1 .. Len(s) : s[i] \in K /\ p = Pair(s[i])
      BY DEF Pairs
    <2>2. i \in 1 .. Len(A) /\ A[i] = s[i]
      BY <1>1
    <2> QED
      BY <2>1, <2>2 DEF Pairs
  <1>4. e \in K => Pair(e) \in Pairs(A, K)
    BY <1>1 DEF Pairs
  <1>5. ASSUME Distinct(s, K), e \in K => \A p \in Pairs(s, K) : p[1] # e.id
        PROVE  Distinct(A, K)
    <2>1. \A i \in 1 .. Len(s) : s[i] \in K /\ e \in K => s[i].id # e.id
      BY PairParts, <1>5 DEF Pairs
    <2> QED
      BY <1>1, <1>5, <2>1 DEF Distinct
  <1>6. Pairs(A, K) = IF e \in K THEN Pairs(s, K) \cup {Pair(e)} ELSE Pairs(s, K)
    <2>1. CASE e \in K
      BY Zenon, <1>2, <1>3, <1>4, <2>1
    <2>2. CASE e \notin K
      BY Zenon, <1>2, <1>3, <2>2
    <2> QED
      BY Zenon, <2>1, <2>2
  <1> QED
    BY <1>5, <1>6 DEF A

\* The first message is taken from a queue.
LEMMA PairsTail ==
    ASSUME NEW S, NEW s \in Seq(S), s # <<>>, NEW K
    PROVE  /\ Pairs(s, K) = IF Head(s) \in K
                            THEN Pairs(Tail(s), K) \cup {Pair(Head(s))}
                            ELSE Pairs(Tail(s), K)
           /\ Distinct(s, K) =>
                  /\ Distinct(Tail(s), K)
                  /\ Head(s) \in K => \A p \in Pairs(Tail(s), K) : p[1] # Head(s).id
  <1> DEFINE t == Tail(s)
             h == Head(s)
  <1>1. /\ Len(s) \in Nat /\ Len(s) > 0 /\ h = s[1]
        /\ Len(t) = Len(s) - 1
        /\ \A i \in 1 .. Len(s) - 1 : t[i] = s[i + 1]
    BY HeadTailProperties, LenProperties, EmptySeq
  <1> HIDE DEF t, h
  <1>2. ASSUME NEW p \in Pairs(s, K)
        PROVE  p \in Pairs(t, K) \/ (h \in K /\ p = Pair(h))
    <2>1. PICK i \in 1 .. Len(s) : s[i] \in K /\ p = Pair(s[i])
      BY DEF Pairs
    <2>2. CASE i = 1
      BY PairParts, <1>1, <2>1, <2>2
    <2>3. CASE i # 1
      <3>1. i - 1 \in 1 .. Len(t) /\ t[i - 1] = s[i]
        BY <1>1, <2>3
      <3> QED
        BY <2>1, <3>1 DEF Pairs
    <2> QED
      BY <2>2, <2>3
  <1>3. ASSUME NEW p \in Pairs(t, K)
        PROVE  \E i \in 2 .. Len(s) : s[i] \in K /\ p = Pair(s[i])
    <2>1. PICK i \in 1 .. Len(t) : t[i] \in K /\ p = Pair(t[i])
      BY DEF Pairs
    <2>2. i + 1 \in 2 .. Len(s) /\ t[i] = s[i + 1]
      BY <1>1
    <2> QED
      BY <2>1, <2>2
  <1>4. \A p \in Pairs(t, K) : p \in Pairs(s, K)
    BY <1>1, <1>3 DEF Pairs
  <1>5. h \in K => Pair(h) \in Pairs(s, K)
    BY <1>1 DEF Pairs
  <1>6. ASSUME Distinct(s, K)
        PROVE  Distinct(t, K)
    <2>1. ASSUME NEW i \in 1 .. Len(t), NEW j \in 1 .. Len(t),
                 t[i] \in K, t[j] \in K, t[i].id = t[j].id
          PROVE  i = j
      <3>1. /\ i + 1 \in 1 .. Len(s) /\ j + 1 \in 1 .. Len(s)
            /\ t[i] = s[i + 1] /\ t[j] = s[j + 1]
        BY <1>1
      <3>2. i + 1 = j + 1
        BY <1>6, <2>1, <3>1 DEF Distinct
      <3> QED
        BY <1>1, <3>2
    <2> QED
      BY <2>1 DEF Distinct
  <1>7. ASSUME Distinct(s, K), h \in K, NEW p \in Pairs(t, K)
        PROVE  p[1] # h.id
    <2>1. PICK i \in 2 .. Len(s) : s[i] \in K /\ p = Pair(s[i])
      BY <1>3
    <2>2. s[i].id # s[1].id
      BY <1>1, <1>7, <2>1 DEF Distinct
    <2> QED
      BY PairParts, <1>1, <2>1, <2>2
  <1>8. Pairs(s, K) = IF h \in K THEN Pairs(t, K) \cup {Pair(h)} ELSE Pairs(t, K)
    <2>1. CASE h \in K
      BY Zenon, <1>2, <1>4, <1>5, <2>1
    <2>2. CASE h \notin K
      BY Zenon, <1>2, <1>4, <2>2
    <2> QED
      BY Zenon, <2>1, <2>2
  <1> QED
    BY <1>6, <1>7, <1>8 DEF t, h

-----------------------------------------------------------------------------
(* The way of a request through the engine *)

\* The kinds of messages.
LEMMA MessageKinds ==
    /\ CloseMsg \notin Request
    /\ \A m \in Closed : m \in EngineMessages /\ m \notin Answer
    /\ \A id, method, rstate : EngineMessage("EVENT", id, method, rstate) \notin Answer
    /\ \A id, method, rstate : EngineMessage("EVENT", id, method, rstate) \notin Closed
    /\ \A m \in Answer : m \notin Closed
  <1>1. CloseMsg \notin Request
    BY ControlIsNoRequest
  <1>2. \A m \in Closed : m \in EngineMessages /\ m \notin Answer
    BY DEF Closed, Answer, EngineMessage, EngineMessages, RequestStates
  <1>3. \A id, method, rstate : /\ EngineMessage("EVENT", id, method, rstate) \notin Answer
                                /\ EngineMessage("EVENT", id, method, rstate) \notin Closed
    BY DEF Closed, Answer, EngineMessage
  <1> QED
    BY <1>1, <1>2, <1>3

\* A request is sent.
LEMMA PipeSend ==
    ASSUME NEW to \in Seq(Request \cup {CloseMsg}), NEW o, NEW from, NEW r \in Request
    PROVE  /\ OutOf(Append(to, r), o, from) = OutOf(to, o, from) \cup {Pair(r)}
           /\ PipeSound(to, o, from) /\ (\A p \in OutOf(to, o, from) : p[1] # r.id) =>
                  PipeSound(Append(to, r), o, from)
  <1> DEFINE P == Pairs(to, Request)
             Q == Pairs(Append(to, r), Request)
  <1>1. /\ Q = P \cup {Pair(r)}
        /\ Distinct(to, Request) /\ (\A p \in P : p[1] # r.id) =>
               Distinct(Append(to, r), Request)
    <2>1. r \in Request \cup {CloseMsg}
      OBVIOUS
    <2> QED
      BY <2>1, PairsAppend
  <1> HIDE DEF P, Q
  <1>2. OutOf(Append(to, r), o, from) = OutOf(to, o, from) \cup {Pair(r)}
    BY <1>1 DEF OutOf, P, Q
  <1>3. ASSUME PipeSound(to, o, from), \A p \in OutOf(to, o, from) : p[1] # r.id
        PROVE  PipeSound(Append(to, r), o, from)
    <2>1. /\ \A p \in P : p[1] # r.id
          /\ \A p \in OwedPairs(o) : p[1] # r.id
          /\ \A p \in Pairs(from, Answer) : p[1] # r.id
      BY <1>3 DEF OutOf, P
    <2>2. Apart(P, OwedPairs(o)) /\ Apart(P, Pairs(from, Answer)) /\ Distinct(to, Request)
      BY <1>3 DEF PipeSound, P
    <2>3. Apart(Q, OwedPairs(o)) /\ Apart(Q, Pairs(from, Answer))
      BY PairParts, <1>1, <2>1, <2>2 DEF Apart
    <2> QED
      BY <1>1, <1>3, <2>1, <2>2, <2>3 DEF PipeSound, Q
  <1> QED
    BY <1>2, <1>3

\* The engine is told to close the channel.
LEMMA PipeClose ==
    ASSUME NEW to \in Seq(Request \cup {CloseMsg}), NEW o, NEW from
    PROVE  /\ OutOf(Append(to, CloseMsg), o, from) = OutOf(to, o, from)
           /\ PipeSound(to, o, from) => PipeSound(Append(to, CloseMsg), o, from)
  <1>1. CloseMsg \in Request \cup {CloseMsg} /\ CloseMsg \notin Request
    BY MessageKinds
  <1>2. /\ Pairs(Append(to, CloseMsg), Request) = Pairs(to, Request)
        /\ Distinct(to, Request) => Distinct(Append(to, CloseMsg), Request)
    BY <1>1, PairsAppend
  <1> QED
    BY <1>2 DEF OutOf, PipeSound

\* The server takes a message of the engine.
LEMMA PipeTake ==
    ASSUME NEW to, NEW o, NEW from \in Seq(EngineMessages), from # <<>>
    PROVE  LET m == Head(from)
               rest == OutOf(to, o, Tail(from))
           IN  /\ OutOf(to, o, from) =
                      IF m \in Answer THEN rest \cup {Pair(m)} ELSE rest
               /\ PipeSound(to, o, from) =>
                      /\ PipeSound(to, o, Tail(from))
                      /\ m \in Answer => \A p \in rest : p[1] # m.id
  <1> DEFINE m == Head(from)
             P == Pairs(from, Answer)
             Q == Pairs(Tail(from), Answer)
  <1>1. /\ P = IF m \in Answer THEN Q \cup {Pair(m)} ELSE Q
        /\ Distinct(from, Answer) =>
               /\ Distinct(Tail(from), Answer)
               /\ m \in Answer => \A p \in Q : p[1] # m.id
    BY PairsTail
  <1> HIDE DEF P, Q, m
  <1>2. OutOf(to, o, from) = IF m \in Answer THEN OutOf(to, o, Tail(from)) \cup {Pair(m)}
                             ELSE OutOf(to, o, Tail(from))
    BY <1>1 DEF OutOf, P, Q
  <1>3. ASSUME PipeSound(to, o, from)
        PROVE  /\ PipeSound(to, o, Tail(from))
               /\ m \in Answer => \A p \in OutOf(to, o, Tail(from)) : p[1] # m.id
    <2>1. /\ Distinct(from, Answer)
          /\ Apart(Pairs(to, Request), P) /\ Apart(OwedPairs(o), P)
      BY <1>3 DEF PipeSound, P
    <2>2. Apart(Pairs(to, Request), Q) /\ Apart(OwedPairs(o), Q)
      BY <1>1, <2>1 DEF Apart
    <2>3. PipeSound(to, o, Tail(from))
      BY <1>1, <1>3, <2>1, <2>2 DEF PipeSound, Q
    <2>4. ASSUME m \in Answer
          PROVE  /\ \A p \in Pairs(to, Request) : p[1] # m.id
                 /\ \A p \in OwedPairs(o) : p[1] # m.id
      BY PairParts, <1>1, <2>1, <2>4 DEF Apart
    <2> QED
      BY <1>1, <2>1, <2>3, <2>4 DEF OutOf, Q
  <1> QED
    BY <1>2, <1>3 DEF m

\* The engine takes a request from its queue.
LEMMA PipeReceive ==
    ASSUME NEW to \in Seq(Request \cup {CloseMsg}), to # <<>>, Head(to) \in Request,
           NEW o, NEW from
    PROVE  /\ OutOf(Tail(to), o \cup {Head(to)}, from) = OutOf(to, o, from)
           /\ PipeSound(to, o, from) => PipeSound(Tail(to), o \cup {Head(to)}, from)
  <1> DEFINE r == Head(to)
             P == Pairs(to, Request)
             Q == Pairs(Tail(to), Request)
  <1>1. /\ P = Q \cup {Pair(r)}
        /\ Distinct(to, Request) =>
               Distinct(Tail(to), Request) /\ \A p \in Q : p[1] # r.id
    BY PairsTail
  <1> HIDE DEF P, Q, r
  <1>2. OwedPairs(o \cup {r}) = OwedPairs(o) \cup {Pair(r)}
    BY DEF OwedPairs
  <1>3. OutOf(Tail(to), o \cup {r}, from) = OutOf(to, o, from)
    BY <1>1, <1>2 DEF OutOf, P, Q
  <1>4. ASSUME PipeSound(to, o, from)
        PROVE  PipeSound(Tail(to), o \cup {r}, from)
    <2>1. /\ Distinct(to, Request) /\ Apart(P, OwedPairs(o))
          /\ Apart(P, Pairs(from, Answer)) /\ Apart(OwedPairs(o), Pairs(from, Answer))
      BY <1>4 DEF PipeSound, P
    <2>2. /\ Apart(Q, OwedPairs(o \cup {r})) /\ Apart(Q, Pairs(from, Answer))
          /\ Apart(OwedPairs(o \cup {r}), Pairs(from, Answer))
      <3>1. Pair(r)[1] = r.id /\ Pair(r) \in P
        BY PairParts, <1>1
      <3>2. \A p \in Q : p[1] # r.id
        BY <1>1, <2>1
      <3> HIDE DEF r
      <3>3. Apart(Q, OwedPairs(o \cup {r}))
        BY <1>1, <1>2, <2>1, <3>1, <3>2 DEF Apart
      <3>4. Apart(Q, Pairs(from, Answer))
        BY Zenon, <1>1, <2>1 DEF Apart
      <3>5. Apart(OwedPairs(o \cup {r}), Pairs(from, Answer))
        BY Zenon, <1>2, <2>1, <3>1 DEF Apart
      <3> QED
        BY <3>3, <3>4, <3>5
    <2>3. \A s \in o : s.id # r.id
      <3>1. \A s \in o : Pair(s) \in OwedPairs(o)
        BY DEF OwedPairs
      <3> QED
        BY PairParts, <1>1, <2>1, <3>1 DEF Apart
    <2>4. \A s, t \in o \cup {r} : s.id = t.id => s = t
      BY <1>4, <2>3 DEF PipeSound
    <2> QED
      BY <1>1, <1>4, <2>1, <2>2, <2>4 DEF PipeSound, Q
  <1> QED
    BY <1>3, <1>4 DEF r

\* The engine takes the request to close the channel.
LEMMA PipeClosed ==
    ASSUME NEW to \in Seq(Request \cup {CloseMsg}), to # <<>>, Head(to) = CloseMsg,
           NEW o, NEW from
    PROVE  /\ OutOf(Tail(to), o, from) = OutOf(to, o, from)
           /\ PipeSound(to, o, from) => PipeSound(Tail(to), o, from)
  <1>1. Head(to) \notin Request
    BY MessageKinds
  <1>2. /\ Pairs(to, Request) = Pairs(Tail(to), Request)
        /\ Distinct(to, Request) => Distinct(Tail(to), Request)
    BY <1>1, PairsTail
  <1> QED
    BY <1>2 DEF OutOf, PipeSound

\* The engine answers a request.
LEMMA PipeRespond ==
    ASSUME NEW to, NEW o, NEW r \in o, NEW from \in Seq(EngineMessages),
           NEW m \in Answer, m.id = r.id, m.method = r.method
    PROVE  /\ OutOf(to, o \ {r}, Append(from, m)) = OutOf(to, o, from)
           /\ PipeSound(to, o, from) => PipeSound(to, o \ {r}, Append(from, m))
  <1> DEFINE P == Pairs(from, Answer)
             Q == Pairs(Append(from, m), Answer)
             O == OwedPairs(o)
             N == OwedPairs(o \ {r})
  <1>1. /\ Q = P \cup {Pair(r)}
        /\ Distinct(from, Answer) /\ (\A p \in P : p[1] # r.id) =>
               Distinct(Append(from, m), Answer)
    <2>1. m \in EngineMessages /\ Pair(m) = Pair(r)
      BY DEF Answer, Pair
    <2> QED
      BY <2>1, PairsAppend
  <1>2. O = N \cup {Pair(r)}
    BY DEF OwedPairs
  <1> HIDE DEF P, Q, O, N
  <1>3. OutOf(to, o \ {r}, Append(from, m)) = OutOf(to, o, from)
    BY <1>1, <1>2 DEF OutOf, P, Q, O, N
  <1>4. ASSUME PipeSound(to, o, from)
        PROVE  PipeSound(to, o \ {r}, Append(from, m))
    <2>1. /\ Distinct(from, Answer) /\ Apart(Pairs(to, Request), O)
          /\ Apart(Pairs(to, Request), P) /\ Apart(O, P)
      BY <1>4 DEF PipeSound, P, O
    <2>2. \A p \in P : p[1] # r.id
      BY PairParts, <1>2, <2>1 DEF Apart
    <2>3. \A p \in N : p[1] # r.id
      <3>1. \A s \in o \ {r} : s.id # r.id
        BY <1>4 DEF PipeSound
      <3> QED
        BY PairParts, <3>1 DEF N, OwedPairs
    <2>4. Apart(Pairs(to, Request), N) /\ Apart(Pairs(to, Request), Q) /\ Apart(N, Q)
      BY PairParts, <1>1, <1>2, <2>1, <2>3 DEF Apart
    <2> QED
      BY <1>1, <1>4, <2>1, <2>2, <2>4 DEF PipeSound, Q, N
  <1> QED
    BY <1>3, <1>4

\* The engine sends something else.
LEMMA PipeEvent ==
    ASSUME NEW to, NEW o, NEW from \in Seq(EngineMessages),
           NEW m \in EngineMessages, m \notin Answer
    PROVE  /\ OutOf(to, o, Append(from, m)) = OutOf(to, o, from)
           /\ PipeSound(to, o, from) => PipeSound(to, o, Append(from, m))
  <1>1. /\ Pairs(Append(from, m), Answer) = Pairs(from, Answer)
        /\ Distinct(from, Answer) => Distinct(Append(from, m), Answer)
    BY PairsAppend
  <1> QED
    BY <1>1 DEF OutOf, PipeSound

-----------------------------------------------------------------------------
(* Types *)

\* The ids of requests on their way are numbers.
LEMMA OutTypes ==
    ASSUME IInv
    PROVE  \A p \in Out : p[1] \in Nat
  <1>1. /\ to_engine \in Seq(Request \cup {CloseMsg}) /\ owed \subseteq Request
        /\ from_engine \in Seq(EngineMessages)
    BY DEF IInv, StopInv, TeardownTypeOK, RestTypeOK
  <1>2. \A p \in Pairs(to_engine, Request) : p[1] \in Nat
    BY PairParts DEF Pairs, Request
  <1>3. \A p \in OwedPairs(owed) : p[1] \in Nat
    BY <1>1, PairParts DEF OwedPairs, Request
  <1>4. \A p \in Pairs(from_engine, Answer) : p[1] \in Nat
    BY PairParts DEF Pairs, Answer, EngineMessages
  <1> QED
    BY <1>2, <1>3, <1>4 DEF Out, OutOf

\* What is pending is a RECOGNIZE.
LEMMA PendingTypes ==
    ASSUME IInv
    PROVE  Pending \subseteq RecognizeRequests /\ \A r \in Pending : r \in Request /\ r.id \in Nat
  <1>1. queue \subseteq RecognizeRequests /\ calls \in Seq(Frames)
    BY DEF IInv, StopInv, SessionTypeOK, RecogTypeOK
  <1>2. Resumed \subseteq RecognizeRequests
    <2>1. ASSUME NEW k \in 1 .. Len(calls), calls[k].op = "resume"
          PROVE  calls[k].msg \in RecognizeRequests
      <3>1. calls[k] \in Frames
        BY <1>1
      <3> QED
        BY <2>1, <3>1 DEF Frames
    <2> QED
      BY <2>1 DEF Resumed, ResumedOf
  <1>3. Pending \subseteq RecognizeRequests
    BY <1>1, <1>2 DEF Pending
  <1> QED
    BY <1>3 DEF RecognizeRequests, Request

\* The parts of HandledOf.
LEMMA HandledParts ==
    ASSUME NEW out, NEW pending, NEW stops, NEW answered, NEW rec
    PROVE  LET H == HandledOf(out, pending, stops, answered, rec)
           IN  /\ \A p \in out : p[1] \in H
               /\ \A r \in pending : r.id \in H
               /\ stops \subseteq H
               /\ answered \subseteq H
               /\ rec # NULL => rec.id \in H
               /\ \A X : /\ \A p \in out : p[1] \in X
                         /\ \A r \in pending : r.id \in X
                         /\ stops \subseteq X
                         /\ answered \subseteq X
                         /\ rec # NULL => rec.id \in X
                         => H \subseteq X
  BY Zenon DEF HandledOf

\* All ids are numbers.
LEMMA HandledTypes ==
    ASSUME IInv
    PROVE  Handled \subseteq Nat
  <1>1. stopped \subseteq Nat /\ recog \in Request \cup {NULL} /\ Ids \subseteq Nat
    BY ChannelAssumption DEF IInv, StopInv, RecogTypeOK, Ids
  <1>2. recog # NULL => recog.id \in Nat
    BY <1>1 DEF Request
  <1>3. Answered \subseteq Nat
    BY Zenon, <1>1 DEF Answered
  <1>4. /\ \A p \in Out : p[1] \in Nat
        /\ \A r \in Pending : r.id \in Nat
    BY Zenon, OutTypes, PendingTypes
  <1> QED
    BY Zenon, <1>1, <1>2, <1>3, <1>4, HandledParts DEF Handled

\* Requests of the client have an entry in the log.
LEMMA ClientIds ==
    ASSUME IInv, NEW r, Proper(r), r.id < next_id
    PROVE  r \in Request /\ r.id \in Ids
  BY ChannelAssumption DEF IInv, RestTypeOK, Proper, Request, Ids

-----------------------------------------------------------------------------
(* The log and the nested calls *)

\* One more entry of a log.
LEMMA EntryAppend ==
    ASSUME NEW l \in Seq(LogEntries), NEW e \in LogEntries
    PROVE  /\ HasResponse(Append(l, e)) <=> HasResponse(l) \/ e[1] = "response"
           /\ HasOneResponse(l) /\ (e[1] = "response" => ~HasResponse(l)) =>
                  HasOneResponse(Append(l, e))
  <1> DEFINE A == Append(l, e)
  <1>1. /\ Len(l) \in Nat /\ Len(A) = Len(l) + 1
        /\ \A k \in 1 .. Len(l) : A[k] = l[k]
        /\ A[Len(l) + 1] = e
    BY AppendProperties, LenProperties
  <1> HIDE DEF A
  <1>2. HasResponse(A) <=> HasResponse(l) \/ e[1] = "response"
    BY <1>1 DEF HasResponse
  <1>3. HasOneResponse(l) /\ (e[1] = "response" => ~HasResponse(l)) => HasOneResponse(A)
    BY <1>1 DEF HasResponse, HasOneResponse
  <1> QED
    BY <1>2, <1>3 DEF A

\* The client gets a response or an event.
LEMMA LogGrows ==
    ASSUME log \in [Ids -> Seq(LogEntries)], NEW id \in Ids,
           NEW kind \in {"response", "event"}, NEW rstate \in RequestStates,
           log' = Logged(id, <<kind, rstate>>)
    PROVE  /\ \A i \in Ids : i # id => log'[i] = log[i]
           /\ \A i \in Ids : Responded(i)' <=> Responded(i) \/ (kind = "response" /\ i = id)
           /\ OneResponse /\ (kind = "response" => ~Responded(id)) => OneResponse'
  <1> DEFINE e == <<kind, rstate>>
  <1>1. e \in LogEntries /\ e[1] = kind
    BY DEF LogEntries
  <1>2. \A i \in Ids : log'[i] = IF i = id THEN Append(log[id], e) ELSE log[i]
    BY Zenon DEF Logged
  <1>3. log[id] \in Seq(LogEntries)
    BY Zenon
  <1> HIDE DEF e
  <1>4. /\ HasResponse(log'[id]) <=> HasResponse(log[id]) \/ kind = "response"
        /\ HasOneResponse(log[id]) /\ (kind = "response" => ~HasResponse(log[id])) =>
               HasOneResponse(log'[id])
    <2>1. log'[id] = Append(log[id], e)
      BY Zenon, <1>2
    <2>2. /\ HasResponse(Append(log[id], e)) <=> HasResponse(log[id]) \/ e[1] = "response"
          /\ HasOneResponse(log[id]) /\ (e[1] = "response" => ~HasResponse(log[id])) =>
                 HasOneResponse(Append(log[id], e))
      BY Zenon, <1>1, <1>3, EntryAppend
    <2> QED
      BY Zenon, <1>1, <2>1, <2>2
  <1>5. \A i \in Ids : i # id => log'[i] = log[i]
    BY Zenon, <1>2
  <1>6. ASSUME NEW i \in Ids
        PROVE  Responded(i)' <=> Responded(i) \/ (kind = "response" /\ i = id)
    BY Zenon, <1>4, <1>5 DEF Responded
  <1>7. ASSUME OneResponse, kind = "response" => ~Responded(id)
        PROVE  OneResponse'
    BY Zenon, <1>4, <1>5, <1>7 DEF OneResponse, Responded
  <1> QED
    BY Zenon, <1>5, <1>6, <1>7

\* The shapes that calls has.
LEMMA CallShapes ==
    /\ ResumedOf(<<>>) = {}
    /\ \A m : /\ ResumedOf(<<Dispatch(m)>>) = {}
              /\ <<Dispatch(m)>> # <<>>
              /\ Head(<<Dispatch(m)>>) = Dispatch(m) /\ Tail(<<Dispatch(m)>>) = <<>>
    /\ \A r : /\ ResumedOf(<<Resume(r)>>) = {r}
              /\ <<Resume(r)>> # <<>>
              /\ Head(<<Resume(r)>>) = Resume(r) /\ Tail(<<Resume(r)>>) = <<>>
    /\ \A m, r : /\ ResumedOf(<<Dispatch(m), Resume(r)>>) = {r}
                 /\ <<Dispatch(m), Resume(r)>> # <<>>
                 /\ Head(<<Dispatch(m), Resume(r)>>) = Dispatch(m)
                 /\ Tail(<<Dispatch(m), Resume(r)>>) = <<Resume(r)>>
                 /\ <<Dispatch(m)>> \o <<Resume(r)>> = <<Dispatch(m), Resume(r)>>
    /\ \A m : /\ Dispatch(m).op = "dispatch" /\ Dispatch(m).msg = m
              /\ Resume(m).op = "resume" /\ Resume(m).msg = m
              /\ <<Dispatch(m)>> \o <<>> = <<Dispatch(m)>>
  <1> USE DEF ResumedOf, Dispatch, Resume
  <1>1. ResumedOf(<<>>) = {}
    OBVIOUS
  <1>2. \A m : ResumedOf(<<Dispatch(m)>>) = {}
    OBVIOUS
  <1>3. \A r : ResumedOf(<<Resume(r)>>) = {r}
    OBVIOUS
  <1>4. \A m, r : ResumedOf(<<Dispatch(m), Resume(r)>>) = {r}
    OBVIOUS
  <1>5. \A m : /\ Dispatch(m).op = "dispatch" /\ Dispatch(m).msg = m
               /\ Resume(m).op = "resume" /\ Resume(m).msg = m
    OBVIOUS
  <1> HIDE DEF ResumedOf, Dispatch, Resume
  <1>6. \A x : <<x>> # <<>> /\ Head(<<x>>) = x /\ Tail(<<x>>) = <<>> /\ <<x>> \o <<>> = <<x>>
    OBVIOUS
  <1>7. \A x, y : <<x, y>> # <<>> /\ Head(<<x, y>>) = x /\ Tail(<<x, y>>) = <<y>>
    OBVIOUS
  <1>8. ASSUME NEW x, NEW y
        PROVE  <<x>> \o <<y>> = <<x, y>>
    <2>1. <<x>> \in Seq({x, y}) /\ <<y>> \in Seq({x, y})
      OBVIOUS
    <2> DEFINE c == <<x>> \o <<y>>
    <2>2. c \in Seq({x, y}) /\ Len(c) = 2 /\ c[1] = x /\ c[2] = y
      BY <2>1, ConcatProperties
    <2> HIDE DEF c
    <2>3. c = <<x, y>>
      BY <2>2
    <2> QED
      BY <2>3 DEF c
  <1> QED
    BY Zenon, <1>1, <1>2, <1>3, <1>4, <1>5, <1>6, <1>7, <1>8

-----------------------------------------------------------------------------
(* The queue of the session *)

\* The server handles no request of the client, or the one of the session.
LEMMA ClientStays ==
    ASSUME IInv, ClientSound, UNCHANGED <<session_request, request_queue, next_id>>,
           \A i \in Handled' : i \in Handled
               \/ (FromClient(session_request) /\ ~Dispatching' /\ i = session_request.id),
           Dispatching' => Dispatching,
           FromClient(session_request) =>
               (Responded(session_request.id)' => Responded(session_request.id))
    PROVE  ClientSound'
  <1>1. ASSUME NEW n \in Nat, Above(n), FromClient(session_request) => session_request.id < n
        PROVE  Above(n)'
    BY <1>1 DEF Above
  <1>2. next_id \in Nat
    BY DEF IInv, RestTypeOK
  <1>3. ASSUME FromClient(session_request)
        PROVE  /\ Proper(session_request)' /\ session_request'.id < next_id'
               /\ ~Responded(session_request.id)'
               /\ Dispatching' => Above(session_request.id)'
    <2>1. /\ Proper(session_request) /\ session_request.id < next_id
          /\ ~Responded(session_request.id)
          /\ Dispatching => Above(session_request.id)
      BY Zenon, <1>3 DEF ClientSound
    <2>2. Dispatching' => Above(session_request.id)'
      BY <2>1 DEF Above
    <2>3. Proper(session_request)'
      BY <2>1 DEF Proper
    <2> QED
      BY <1>3, <2>1, <2>2, <2>3
  <1>4. Above(next_id)'
    <2>1. Above(next_id) /\ (FromClient(session_request) => session_request.id < next_id)
      BY Zenon DEF ClientSound
    <2> QED
      BY <1>2, <2>1 DEF Above
  <1>5. ASSUME NEW i \in 1 .. Len(request_queue), FromClient(request_queue[i])
        PROVE  Above(request_queue[i].id)'
    <2>1. /\ Proper(request_queue[i]) /\ Above(request_queue[i].id)
          /\ FromClient(session_request) => session_request.id < request_queue[i].id
      BY Zenon, <1>5 DEF ClientSound
    <2> QED
      BY <2>1 DEF Above
  <1> QED
    BY <1>3, <1>4, <1>5 DEF ClientSound, FromClient, Proper

\* The request of the session is answered, and the next one takes its place.
LEMMA NextRequest ==
    ASSUME IInv, ClientSound, FromClient(session_request), next_id' = next_id,
           IF request_queue = <<>>
           THEN session_request' = NULL /\ UNCHANGED request_queue
           ELSE /\ session_request' = Head(request_queue)
                /\ request_queue' = Tail(request_queue),
           \A i \in Handled' : i \in Handled \/ i = session_request.id,
           \A i \in Answered' : i \in Answered \/ i = session_request.id
    PROVE  ClientSound'
  <1>1. next_id \in Nat /\ request_queue \in Seq(Request \cup {TerminateMsg})
    BY DEF IInv, RestTypeOK, StopInv, SessionTypeOK
  <1>2. Proper(session_request) /\ session_request.id < next_id /\ Above(next_id)
    BY Zenon DEF ClientSound
  <1>3. Above(next_id)'
    BY <1>1, <1>2 DEF Above
  <1>4. CASE request_queue = <<>>
    BY <1>1, <1>3, <1>4 DEF ClientSound, FromClient
  <1>5. CASE request_queue # <<>>
    <2> DEFINE t == Tail(request_queue)
               h == Head(request_queue)
               q == request_queue
    <2>1. /\ Len(q) \in Nat /\ Len(q) > 0 /\ h = q[1]
          /\ Len(t) = Len(q) - 1
          /\ \A i \in 1 .. Len(q) - 1 : t[i] = q[i + 1]
      BY <1>1, <1>5, HeadTailProperties, LenProperties, EmptySeq
    <2>2. \A i \in 1 .. Len(q) : FromClient(q[i]) =>
              /\ Proper(q[i]) /\ q[i].id < next_id /\ Above(q[i].id)
              /\ session_request.id < q[i].id
              /\ \A j \in 1 .. i - 1 : FromClient(q[j]) => q[j].id < q[i].id
      BY Zenon DEF ClientSound
    <2>3. session_request' = h /\ request_queue' = t
      BY <1>5
    <2> HIDE DEF t, h, q
    <2>4. \A i \in 1 .. Len(q) : FromClient(q[i]) =>
              /\ \A k \in Handled' : k < q[i].id
              /\ q[i].id \in Ids => q[i].id \notin Answered'
      <3>1. ASSUME NEW i \in 1 .. Len(q), FromClient(q[i])
            PROVE  /\ \A k \in Handled' : k < q[i].id
                   /\ q[i].id \notin Answered'
        <4>1. /\ Proper(q[i]) /\ (\A k \in Handled : k < q[i].id)
              /\ session_request.id < q[i].id /\ q[i].id \in Nat /\ session_request.id \in Nat
          BY <1>2, <2>2, <3>1 DEF Above, Proper, Request
        <4>2. Answered \subseteq Handled
          BY Zenon, HandledParts DEF Handled
        <4>3. q[i].id \notin Answered
          BY <4>1, <4>2
        <4> QED
          BY <4>1, <4>3
      <3> QED
        BY <3>1
    <2>5. FromClient(h) =>
              /\ Proper(h) /\ h.id < next_id /\ (\A k \in Handled' : k < h.id)
              /\ h.id \in Ids => h.id \notin Answered'
      BY <2>1, <2>2, <2>4
    <2>6. FromClient(h) => h.id \in Ids
      BY Zenon, <2>5, ClientIds
    <2>7. ASSUME NEW i \in 1 .. Len(t), FromClient(t[i])
          PROVE  /\ Proper(t[i]) /\ t[i].id < next_id
                 /\ \A k \in Handled' : k < t[i].id
                 /\ FromClient(h) => h.id < t[i].id
                 /\ \A j \in 1 .. i - 1 : FromClient(t[j]) => t[j].id < t[i].id
      <3>1. i + 1 \in 1 .. Len(q) /\ t[i] = q[i + 1] /\ i \in Nat
        BY <2>1
      <3>2. /\ Proper(q[i + 1]) /\ q[i + 1].id < next_id
            /\ \A k \in Handled' : k < q[i + 1].id
            /\ \A j \in 1 .. i : FromClient(q[j]) => q[j].id < q[i + 1].id
        BY <2>2, <2>4, <2>7, <3>1
      <3>3. FromClient(h) => h.id < q[i + 1].id
        BY <2>1, <3>1, <3>2
      <3>4. \A j \in 1 .. i - 1 : FromClient(t[j]) => t[j].id < q[i + 1].id
        <4>1. ASSUME NEW j \in 1 .. i - 1
              PROVE  j + 1 \in 1 .. i /\ t[j] = q[j + 1]
          <5>1. j \in 1 .. Len(q) - 1 /\ j + 1 \in 1 .. i
            BY <2>1, <3>1
          <5> QED
            BY <2>1, <5>1
        <4> QED
          BY <3>2, <4>1
      <3> QED
        BY <3>1, <3>2, <3>3, <3>4
    <2>8. FromClient(session_request)' =>
              /\ Proper(session_request)' /\ session_request'.id < next_id'
              /\ ~Responded(session_request.id)'
              /\ Above(session_request.id)'
      BY <2>3, <2>5, <2>6 DEF FromClient, Proper, Above, Answered
    <2>9. \A i \in 1 .. Len(request_queue') : FromClient(request_queue'[i]) =>
              /\ Proper(request_queue'[i]) /\ request_queue'[i].id < next_id'
              /\ Above(request_queue[i].id)'
              /\ FromClient(session_request') => session_request'.id < request_queue'[i].id
              /\ \A j \in 1 .. i - 1 : FromClient(request_queue'[j]) =>
                     request_queue'[j].id < request_queue'[i].id
      BY <2>3, <2>7 DEF Above
    <2> QED
      BY <1>3, <2>8, <2>9 DEF ClientSound, FromClient, Proper
  <1> QED
    BY <1>4, <1>5

-----------------------------------------------------------------------------
(* Facts about a state *)

\* What it means that n is above all that is handled.
LEMMA AboveParts ==
    ASSUME NEW n, Above(n)
    PROVE  /\ \A p \in Out : p[1] < n
           /\ \A r \in Pending : r.id < n
           /\ \A i \in stopped : i < n
           /\ \A i \in Answered : i < n
           /\ recog # NULL => recog.id < n
  BY Zenon, HandledParts DEF Above, Handled

\* The server handles a request of the session.
LEMMA DispatchFacts ==
    ASSUME CallsSound, Dispatching
    PROVE  /\ session_request # NULL
           /\ Head(calls).msg = session_request
           /\ ResumedOf(Tail(calls)) = Resumed
           /\ \/ Tail(calls) = <<>> /\ Resumed = {}
              \/ /\ \E r \in Resumed : Tail(calls) = <<Resume(r)>>
                 /\ state = "IDLE" /\ recog = NULL
  <1>1. CASE calls = <<>>
    BY <1>1 DEF Dispatching
  <1>2. CASE session_request # NULL /\ calls = <<Dispatch(session_request)>>
    <2>1. /\ Head(calls) = Dispatch(session_request) /\ Tail(calls) = <<>>
          /\ ResumedOf(calls) = {} /\ ResumedOf(<<>>) = {}
          /\ Dispatch(session_request).msg = session_request
      BY Zenon, <1>2, CallShapes
    <2> QED
      BY Zenon, <1>2, <2>1 DEF Resumed
  <1>3. ASSUME NEW r, calls = <<Resume(r)>>
        PROVE  FALSE
    <2>1. Head(calls) = Resume(r) /\ Resume(r).op = "resume"
      BY Zenon, <1>3, CallShapes
    <2> QED
      BY Zenon, <2>1 DEF Dispatching
  <1>4. ASSUME NEW r \in Resumed, session_request # NULL, state = "IDLE" /\ recog = NULL,
               calls = <<Dispatch(session_request), Resume(r)>>
        PROVE  /\ Head(calls).msg = session_request
               /\ ResumedOf(Tail(calls)) = Resumed
               /\ Tail(calls) = <<Resume(r)>>
    <2>1. /\ Head(calls) = Dispatch(session_request) /\ Tail(calls) = <<Resume(r)>>
          /\ ResumedOf(calls) = {r} /\ ResumedOf(<<Resume(r)>>) = {r}
          /\ Dispatch(session_request).msg = session_request
      BY Zenon, <1>4, CallShapes
    <2> QED
      BY Zenon, <2>1 DEF Resumed
  <1> QED
    BY Zenon, <1>1, <1>2, <1>3, <1>4 DEF CallsSound

\* A pending request is in front.
LEMMA ResumeFacts ==
    ASSUME CallsSound, calls # <<>>, Head(calls).op = "resume"
    PROVE  /\ Resumed = {Head(calls).msg} /\ Tail(calls) = <<>>
           /\ state = "IDLE" /\ recog = NULL /\ ~Dispatching
  <1>1. ASSUME session_request # NULL, calls = <<Dispatch(session_request)>>
        PROVE  FALSE
    <2>1. Head(calls) = Dispatch(session_request) /\ Dispatch(session_request).op = "dispatch"
      BY Zenon, <1>1, CallShapes
    <2> QED
      BY Zenon, <2>1
  <1>2. ASSUME NEW r, calls = <<Dispatch(session_request), Resume(r)>>
        PROVE  FALSE
    <2>1. Head(calls) = Dispatch(session_request) /\ Dispatch(session_request).op = "dispatch"
      BY Zenon, <1>2, CallShapes
    <2> QED
      BY Zenon, <2>1
  <1>3. ASSUME NEW r, calls = <<Resume(r)>>
        PROVE  Resumed = {Head(calls).msg} /\ Tail(calls) = <<>>
    <2>1. /\ Head(calls) = Resume(r) /\ Resume(r).msg = r /\ Tail(calls) = <<>>
          /\ ResumedOf(calls) = {r}
      BY Zenon, <1>3, CallShapes
    <2> QED
      BY Zenon, <2>1 DEF Resumed
  <1>4. ~Dispatching
    BY Zenon DEF Dispatching
  <1> QED
    BY Zenon, <1>1, <1>2, <1>3, <1>4 DEF CallsSound

\* The server has no call to run.
LEMMA IdleFacts ==
    ASSUME ServerIdle
    PROVE  Resumed = {} /\ ~Dispatching /\ Pending = queue
  BY Zenon, CallShapes DEF ServerIdle, Resumed, Dispatching, Pending

\* The answer to the request to close the channel is not touched.
LEMMA QuietFrom ==
    ASSUME IInv, CloseSound,
           \/ from_engine' = from_engine
           \/ /\ from_engine # <<>> /\ Head(from_engine).type # "CLOSED"
              /\ from_engine' = Tail(from_engine)
    PROVE  /\ Pairs(from_engine', Closed) = Pairs(from_engine, Closed)
           /\ Distinct(from_engine', Closed)
           /\ \A i \in 1 .. Len(from_engine') :
                  from_engine'[i].type = "CLOSED" => from_engine'[i] \in Closed
  <1>1. from_engine \in Seq(EngineMessages)
    BY DEF IInv, RestTypeOK
  <1>2. /\ Distinct(from_engine, Closed)
        /\ \A i \in 1 .. Len(from_engine) :
               from_engine[i].type = "CLOSED" => from_engine[i] \in Closed
    BY Zenon DEF CloseSound
  <1>3. CASE from_engine' = from_engine
    BY Zenon, <1>2, <1>3
  <1>4. CASE /\ from_engine # <<>> /\ Head(from_engine).type # "CLOSED"
             /\ from_engine' = Tail(from_engine)
    <2>1. Head(from_engine) \notin Closed
      BY <1>4 DEF Closed, EngineMessage
    <2>2. /\ Pairs(Tail(from_engine), Closed) = Pairs(from_engine, Closed)
          /\ Distinct(Tail(from_engine), Closed)
      BY Zenon, <1>1, <1>2, <1>4, <2>1, PairsTail
    <2>3. /\ Len(Tail(from_engine)) = Len(from_engine) - 1 /\ Len(from_engine) \in Nat
          /\ \A i \in 1 .. Len(from_engine) - 1 :
                 Tail(from_engine)[i] = from_engine[i + 1] /\ i + 1 \in 1 .. Len(from_engine)
      BY <1>1, <1>4, HeadTailProperties, LenProperties
    <2>4. ASSUME NEW i \in 1 .. Len(from_engine'), from_engine'[i].type = "CLOSED"
          PROVE  from_engine'[i] \in Closed
      <3>1. i \in 1 .. Len(from_engine) - 1 /\ from_engine'[i] = Tail(from_engine)[i]
        BY Zenon, <1>4, <2>3
      <3>2. from_engine'[i] = from_engine[i + 1] /\ i + 1 \in 1 .. Len(from_engine)
        BY <2>3, <3>1
      <3> QED
        BY <1>2, <2>4, <3>2
    <2> QED
      BY Zenon, <1>4, <2>2, <2>4
  <1> QED
    BY <1>3, <1>4

\* Neither the request to close the channel nor the answer to it is touched.
LEMMA QuietClose ==
    ASSUME IInv, CloseSound,
           \/ to_engine' = to_engine
           \/ \E r \in Request : to_engine' = Append(to_engine, r),
           \/ from_engine' = from_engine
           \/ /\ from_engine # <<>> /\ Head(from_engine).type # "CLOSED"
              /\ from_engine' = Tail(from_engine)
    PROVE  CloseSound' /\ Closing' = Closing
  <1>1. to_engine \in Seq(Request \cup {CloseMsg})
    BY DEF IInv, StopInv, TeardownTypeOK
  <1>2. /\ Pairs(to_engine', {CloseMsg}) = Pairs(to_engine, {CloseMsg})
        /\ Distinct(to_engine', {CloseMsg})
    <2>1. Distinct(to_engine, {CloseMsg})
      BY Zenon DEF CloseSound
    <2>2. CASE to_engine' = to_engine
      BY Zenon, <2>1, <2>2
    <2>3. ASSUME NEW r \in Request, to_engine' = Append(to_engine, r)
          PROVE  /\ Pairs(to_engine', {CloseMsg}) = Pairs(to_engine, {CloseMsg})
                 /\ Distinct(to_engine', {CloseMsg})
      <3>1. r \in Request \cup {CloseMsg} /\ r \notin {CloseMsg}
        BY MessageKinds
      <3>2. /\ Pairs(Append(to_engine, r), {CloseMsg}) = Pairs(to_engine, {CloseMsg})
            /\ Distinct(Append(to_engine, r), {CloseMsg})
        BY <1>1, <2>1, <3>1, PairsAppend
      <3> QED
        BY Zenon, <2>3, <3>2
    <2> QED
      BY Zenon, <2>2, <2>3
  <1>3. /\ Pairs(from_engine', Closed) = Pairs(from_engine, Closed)
        /\ Distinct(from_engine', Closed)
        /\ \A i \in 1 .. Len(from_engine') :
               from_engine'[i].type = "CLOSED" => from_engine'[i] \in Closed
    BY Zenon, QuietFrom
  <1> QED
    BY Zenon, <1>2, <1>3 DEF CloseSound, Closing

\* A step of a session that lives and goes on living.
LEMMA LiveStep ==
    ASSUME IInv, AnswersInv, active, UNCHANGED <<session_vars, active>>,
           \/ to_engine' = to_engine
           \/ \E r \in Request : to_engine' = Append(to_engine, r),
           \/ from_engine' = from_engine
           \/ /\ from_engine # <<>> /\ Head(from_engine).type # "CLOSED"
              /\ from_engine' = Tail(from_engine),
           CallsSound', OneResponse', CleanSound', LiveSound'
    PROVE  AnswersInv'
  <1>1. CloseSound' /\ Closing' = Closing
    BY Zenon, QuietClose DEF AnswersInv
  <1>2. TeardownSound'
    <2>1. /\ session_state = "INITIALIZING" /\ removals = 0 /\ is_open /\ Closing = {}
          /\ subrequest_count = 0
      BY Zenon DEF AnswersInv, TeardownSound
    <2>2. /\ session_state' = "INITIALIZING" /\ removals' = 0 /\ is_open' /\ Closing' = {}
          /\ subrequest_count' = 0 /\ active'
      BY Zenon, <1>1, <2>1 DEF session_vars
    <2> QED
      BY <2>2 DEF TeardownSound
  <1>3. DeactivationSound'
    BY DEF AnswersInv, TeardownSound, DeactivationSound, session_vars
  <1> QED
    BY Zenon, <1>1, <1>2, <1>3 DEF AnswersInv

-----------------------------------------------------------------------------
(* Requests of the client *)

\* What the server knows of the request it handles: it is new.
LEMMA NewFacts ==
    ASSUME IInv, AnswersInv, Dispatching, session_request # TerminateMsg
    PROVE  /\ active /\ LiveSound /\ CleanSound /\ FromClient(session_request)
           /\ session_state = "INITIALIZING"
           /\ Proper(session_request) /\ session_request.id \in Ids
           /\ session_request.id \in Nat
           /\ ~Responded(session_request.id)
           /\ \A p \in Out : p[1] < session_request.id /\ p[1] \in Nat
           /\ \A r \in Pending : r.id < session_request.id /\ r.id \in Nat
           /\ \A i \in stopped : i < session_request.id
           /\ recog # NULL => recog.id < session_request.id
  <1>1. FromClient(session_request)
    BY Zenon, DispatchFacts DEF AnswersInv, FromClient
  <1>2. active /\ session_state = "INITIALIZING"
    BY Zenon DEF AnswersInv, TeardownSound
  <1>3. LiveSound /\ CleanSound
    BY Zenon, <1>2 DEF AnswersInv, Clean
  <1>4. /\ Proper(session_request) /\ session_request.id < next_id
        /\ ~Responded(session_request.id) /\ Above(session_request.id)
    BY Zenon, <1>1, <1>3 DEF LiveSound, ClientSound
  <1>5. session_request \in Request /\ session_request.id \in Ids
    BY Zenon, <1>4, ClientIds
  <1>6. session_request.id \in Nat
    BY <1>5 DEF Request
  <1> QED
    BY Zenon, <1>1, <1>2, <1>3, <1>4, <1>5, <1>6, AboveParts, OutTypes, PendingTypes

\* The request is sent to the engine.
LEMMA SendStep ==
    ASSUME IInv, IInv', AnswersInv, Dispatching, session_request # TerminateMsg,
           recog_request_dispatch(session_request, Tail(calls)),
           \/ UNCHANGED <<state, recog>>
           \/ state' = "IDLE" /\ recog' = NULL,
           UNCHANGED <<is_pending, queue, stopped, active, from_engine, next_id, owed>>
    PROVE  AnswersInv'
  <1> DEFINE m == session_request
  <1>1. /\ active /\ LiveSound /\ CleanSound /\ FromClient(m) /\ session_state = "INITIALIZING"
        /\ Proper(m) /\ m.id \in Ids /\ m.id \in Nat /\ ~Responded(m.id)
    BY Zenon, NewFacts
  <1>2. /\ \A p \in Out : p[1] < m.id /\ p[1] \in Nat
        /\ \A r \in Pending : r.id < m.id /\ r.id \in Nat
        /\ \A i \in stopped : i < m.id
        /\ recog # NULL => recog.id < m.id
    BY Zenon, NewFacts
  <1>3. /\ active_request' = m /\ to_engine' = Append(to_engine, m)
        /\ calls' = Tail(calls)
        /\ UNCHANGED <<session_request, request_queue, session_vars, log>>
    BY <1>1 DEF recog_request_dispatch, SendToEngine
  <1>4. m \in Request
    BY <1>1 DEF Proper
  <1>5. Pair(m)[1] = m.id
    BY Zenon, PairParts
  <1>6. Out' = Out \cup {Pair(m)} /\ PipeSound(to_engine, owed, from_engine)'
    <2>1. to_engine \in Seq(Request \cup {CloseMsg})
      BY DEF IInv, StopInv, TeardownTypeOK
    <2>2. PipeSound(to_engine, owed, from_engine)
      BY Zenon, <1>1 DEF CleanSound
    <2>3. \A p \in OutOf(to_engine, owed, from_engine) : p[1] # m.id
      BY <1>1, <1>2 DEF Out
    <2>4. /\ OutOf(Append(to_engine, m), owed, from_engine) =
                 OutOf(to_engine, owed, from_engine) \cup {Pair(m)}
          /\ PipeSound(Append(to_engine, m), owed, from_engine)
      BY <1>4, <2>1, <2>2, <2>3, PipeSend
    <2> QED
      BY Zenon, <1>3, <2>4 DEF Out
  <1>7. Resumed' = Resumed /\ Pending' = Pending /\ ~Dispatching'
    <2>1. ResumedOf(Tail(calls)) = Resumed
      BY Zenon, DispatchFacts DEF AnswersInv
    <2>2. \/ Tail(calls) = <<>>
          \/ \E r \in Resumed : Tail(calls) = <<Resume(r)>>
      BY Zenon, DispatchFacts DEF AnswersInv
    <2>3. ASSUME NEW r
          PROVE  Head(<<Resume(r)>>).op = "resume"
      <3>1. Head(<<Resume(r)>>) = Resume(r) /\ Resume(r).op = "resume"
        BY Zenon, CallShapes
      <3> QED
        BY Zenon, <3>1
    <2> QED
      BY Zenon, <1>3, <2>1, <2>2, <2>3 DEF Resumed, Pending, Dispatching
  <1>8. CallsSound'
    <2>1. m # NULL
      BY Zenon, <1>1 DEF FromClient
    <2>2. CASE Tail(calls) = <<>>
      BY Zenon, <1>3, <2>1, <2>2 DEF CallsSound
    <2>3. CASE /\ \E r \in Resumed : Tail(calls) = <<Resume(r)>>
               /\ state = "IDLE" /\ recog = NULL
      <3>1. state' = "IDLE" /\ recog' = NULL
        BY Zenon, <2>3
      <3>2. \E r \in Resumed' : calls' = <<Resume(r)>>
        BY Zenon, <1>3, <1>7, <2>3
      <3> QED
        BY Zenon, <1>3, <2>1, <3>1, <3>2 DEF CallsSound
    <2> QED
      BY Zenon, <2>2, <2>3, DispatchFacts DEF AnswersInv
  <1>9. OneResponse' /\ Answered' = Answered
    BY Zenon, <1>3 DEF AnswersInv, OneResponse, Answered, Responded
  <1> HIDE DEF m
  <1>10. PendingSound'
    BY SMTT(30), <1>2, <1>5, <1>6, <1>7, <1>1 DEF CleanSound, PendingSound, IsOut
  <1>11. ActiveSound'
    BY <1>1, <1>3, <1>6, <1>7 DEF ActiveSound, Proper, m
  <1>12. OrderSound'
    BY <1>1, <1>2, <1>3, <1>5, <1>6, <1>7 DEF LiveSound, OrderSound, OfSession, FromClient, m
  <1>13. ResumedFirst'
    BY SMTT(30), <1>1, <1>7 DEF LiveSound, ResumedFirst
  <1>14. RecogSound'
    BY <1>1, <1>2, <1>5, <1>6, <1>7 DEF LiveSound, RecogSound, IsOut, Proper
  <1>15. StoppedSound'
    BY <1>1, <1>2, <1>5, <1>6, <1>7 DEF LiveSound, StoppedSound
  <1>16. ClientSound'
    <2>1. \A i \in Handled' : i \in Handled \/ i = m.id
      <3> DEFINE X == Handled \cup {m.id}
      <3>1. /\ \A p \in Out : p[1] \in Handled
            /\ \A r \in Pending : r.id \in Handled
            /\ stopped \subseteq Handled /\ Answered \subseteq Handled
            /\ recog # NULL => recog.id \in Handled
        BY Zenon, HandledParts DEF Handled
      <3>2. /\ \A p \in Out' : p[1] \in X
            /\ \A r \in Pending' : r.id \in X
            /\ stopped' \subseteq X /\ Answered' \subseteq X
            /\ recog' # NULL => recog'.id \in X
        BY <1>5, <1>6, <1>7, <1>9, <3>1
      <3> HIDE DEF X
      <3>3. Handled' \subseteq X
        BY Zenon, <3>2, HandledParts DEF Handled
      <3> QED
        BY <3>3 DEF X
    <2>2. Responded(session_request.id)' => Responded(session_request.id)
      BY Zenon, <1>3 DEF Responded
    <2>3. ClientSound
      BY Zenon, <1>1 DEF LiveSound
    <2> QED
      BY Zenon, <1>1, <1>3, <1>7, <2>1, <2>2, <2>3, ClientStays DEF m
  <1> QED
    <2>1. CleanSound' /\ LiveSound'
      BY Zenon, <1>6, <1>10, <1>11, <1>12, <1>13, <1>14, <1>15, <1>16 DEF CleanSound, LiveSound
    <2>2. \E r \in Request : to_engine' = Append(to_engine, r)
      BY Zenon, <1>3, <1>4 DEF m
    <2>3. UNCHANGED <<session_vars, active>>
      BY Zenon, <1>3
    <2> QED
      BY Zenon, <1>1, <1>8, <1>9, <2>1, <2>2, <2>3, LiveStep

\* The response to the request of the session goes to the client, and the next
\* request is handled.
LEMMA NextCall ==
    ASSUME NEW m, NEW rest, rest = <<>> \/ \E r : rest = <<Resume(r)>>,
           OnResponseDispatch(m, rest)
    PROVE  /\ Resumed' = ResumedOf(rest)
           /\ \/ request_queue = <<>> /\ calls' = rest
              \/ request_queue # <<>> /\ rest = <<>> /\ calls' = <<Dispatch(Head(request_queue))>>
              \/ /\ request_queue # <<>>
                 /\ \E r : /\ rest = <<Resume(r)>>
                           /\ calls' = <<Dispatch(Head(request_queue)), Resume(r)>>
  <1>1. CASE request_queue = <<>>
    BY Zenon, <1>1 DEF OnResponseDispatch, Resumed
  <1>2. CASE request_queue # <<>> /\ rest = <<>>
    <2> DEFINE h == Head(request_queue)
    <2>1. calls' = <<Dispatch(h)>> \o rest
      BY Zenon, <1>2 DEF OnResponseDispatch
    <2> HIDE DEF h
    <2>2. calls' = <<Dispatch(h)>>
      BY Zenon, <1>2, <2>1, CallShapes
    <2>3. ResumedOf(<<Dispatch(h)>>) = {} /\ ResumedOf(<<>>) = {}
      BY Zenon, CallShapes
    <2>4. Resumed' = ResumedOf(rest)
      BY Zenon, <1>2, <2>2, <2>3 DEF Resumed
    <2> QED
      BY Zenon, <1>2, <2>2, <2>4 DEF h
  <1>3. ASSUME request_queue # <<>>, NEW r, rest = <<Resume(r)>>
        PROVE  /\ Resumed' = ResumedOf(rest)
               /\ calls' = <<Dispatch(Head(request_queue)), Resume(r)>>
    <2> DEFINE h == Head(request_queue)
    <2>1. calls' = <<Dispatch(h)>> \o rest
      BY Zenon, <1>3 DEF OnResponseDispatch
    <2> HIDE DEF h
    <2>2. calls' = <<Dispatch(h), Resume(r)>>
      BY Zenon, <1>3, <2>1, CallShapes
    <2>3. ResumedOf(<<Dispatch(h), Resume(r)>>) = {r} /\ ResumedOf(<<Resume(r)>>) = {r}
      BY Zenon, CallShapes
    <2>4. Resumed' = ResumedOf(rest)
      BY Zenon, <1>3, <2>2, <2>3 DEF Resumed
    <2> QED
      BY Zenon, <2>2, <2>4 DEF h
  <1> QED
    BY Zenon, <1>1, <1>2, <1>3

\* The request of the session is answered, by the machine or by the engine.
LEMMA AnswerStep ==
    ASSUME IInv, IInv', AnswersInv, active, FromClient(session_request),
           NEW m, m.id = session_request.id, m.rstate \in RequestStates,
           NEW rest, \/ rest = <<>>
                     \/ (\E r : rest = <<Resume(r)>>) /\ state' = "IDLE" /\ recog' = NULL,
           recog_response_dispatch(m, rest), UNCHANGED <<active, next_id>>,
           \/ from_engine' = from_engine
           \/ /\ from_engine # <<>> /\ Head(from_engine).type # "CLOSED"
              /\ from_engine' = Tail(from_engine),
           PipeSound(to_engine, owed, from_engine)',
           \A p \in Out' : p \in Out /\ p[1] # session_request.id,
           \A r \in Pending' : r \in Pending \/ r.id = session_request.id,
           \A i \in stopped' : i \in Handled,
           recog' # NULL => recog' = recog \/ recog'.id = session_request.id,
           PendingSound', ResumedFirst', RecogSound', StoppedSound',
           \A p \in Out', r \in Pending' : p[1] < r.id,
           state' = "RECOGNIZING" => \A p \in Out' : p[1] < recog'.id
    PROVE  AnswersInv'
  <1>1. /\ OnResponseDispatch(m, rest) /\ active_request' = NULL
        /\ UNCHANGED <<session_vars, to_engine>>
    BY Zenon DEF recog_response_dispatch
  <1>2. LiveSound /\ CleanSound
    BY Zenon DEF AnswersInv, Clean
  <1>3. Proper(session_request) /\ session_request.id < next_id /\ ~Responded(session_request.id)
    BY Zenon, <1>2 DEF LiveSound, ClientSound
  <1>4. session_request.id \in Ids
    BY Zenon, <1>3, ClientIds
  <1>5. /\ log \in [Ids -> Seq(LogEntries)]
        /\ log' = Logged(session_request.id, <<"response", m.rstate>>)
    BY Zenon, <1>1 DEF OnResponseDispatch, IInv, StopInv, SessionTypeOK
  <1>6. /\ \A i \in Ids : Responded(i)' <=> Responded(i) \/ i = session_request.id
        /\ OneResponse'
    <2>1. OneResponse
      BY Zenon DEF AnswersInv
    <2>2. "response" \in {"response", "event"}
      OBVIOUS
    <2> QED
      BY Zenon, <1>3, <1>4, <1>5, <2>1, <2>2, LogGrows
  <1>7. CallsSound'
    <2>1. request_queue # <<>> => Head(request_queue) # NULL
      BY NullIsNoRequest DEF IInv, StopInv, SessionTypeOK
    <2>2. session_request' = NULL => request_queue' = <<>>
      BY Zenon, <1>1, <2>1 DEF OnResponseDispatch
    <2>3. \/ calls' = <<>>
          \/ session_request' # NULL /\ calls' = <<Dispatch(session_request')>>
          \/ /\ \E r \in Resumed' :
                   \/ calls' = <<Resume(r)>>
                   \/ /\ session_request' # NULL
                      /\ calls' = <<Dispatch(session_request'), Resume(r)>>
             /\ state' = "IDLE" /\ recog' = NULL
      <3>1. rest = <<>> \/ \E r : rest = <<Resume(r)>>
        BY Zenon
      <3>2. request_queue # <<>> => session_request' = Head(request_queue)
        BY Zenon, <1>1 DEF OnResponseDispatch
      <3>3. /\ Resumed' = ResumedOf(rest)
            /\ \/ request_queue = <<>> /\ calls' = rest
               \/ request_queue # <<>> /\ rest = <<>> /\ calls' = <<Dispatch(Head(request_queue))>>
               \/ /\ request_queue # <<>>
                  /\ \E r : /\ rest = <<Resume(r)>>
                            /\ calls' = <<Dispatch(Head(request_queue)), Resume(r)>>
        BY Zenon, <1>1, <3>1, NextCall
      <3>4. CASE rest = <<>>
        <4>1. \A r : rest # <<Resume(r)>>
          BY Zenon, <3>4, CallShapes
        <4> QED
          BY Zenon, <2>1, <3>2, <3>3, <3>4, <4>1
      <3>5. ASSUME NEW r, rest = <<Resume(r)>>, state' = "IDLE" /\ recog' = NULL
            PROVE  \E s \in Resumed' :
                      \/ calls' = <<Resume(s)>>
                      \/ /\ session_request' # NULL
                         /\ calls' = <<Dispatch(session_request'), Resume(s)>>
        <4>1. rest # <<>> /\ ResumedOf(<<Resume(r)>>) = {r}
          BY Zenon, <3>5, CallShapes
        <4>2. Resumed' = {r}
          BY Zenon, <3>3, <3>5, <4>1
        <4>3. ASSUME NEW s, rest = <<Resume(s)>>
              PROVE  s = r
          <5>1. ResumedOf(<<Resume(s)>>) = {s}
            BY Zenon, CallShapes
          <5> QED
            BY Zenon, <3>5, <4>1, <4>3, <5>1
        <4> QED
          BY Zenon, <2>1, <3>2, <3>3, <3>5, <4>1, <4>2, <4>3
      <3> QED
        BY Zenon, <3>4, <3>5
    <2> QED
      BY Zenon, <2>2, <2>3 DEF CallsSound
  <1>8. ActiveSound' /\ OrderSound'
    BY Zenon, <1>1 DEF ActiveSound, OrderSound
  <1>9. ClientSound'
    <2> DEFINE X == Handled \cup {session_request.id}
    <2>1. /\ \A p \in Out : p[1] \in Handled
          /\ \A r \in Pending : r.id \in Handled
          /\ Answered \subseteq Handled
          /\ recog # NULL => recog.id \in Handled
      BY Zenon, HandledParts DEF Handled
    <2>2. \A i \in Answered' : i \in Answered \/ i = session_request.id
      BY Zenon, <1>6 DEF Answered
    <2>3. /\ \A p \in Out' : p[1] \in X
          /\ \A r \in Pending' : r.id \in X
          /\ stopped' \subseteq X /\ Answered' \subseteq X
          /\ recog' # NULL => recog'.id \in X
      BY Zenon, <2>1, <2>2
    <2> HIDE DEF X
    <2>4. Handled' \subseteq X
      BY Zenon, <2>3, HandledParts DEF Handled
    <2>5. \A i \in Handled' : i \in Handled \/ i = session_request.id
      BY Zenon, <2>4 DEF X
    <2>6. IF request_queue = <<>>
          THEN session_request' = NULL /\ UNCHANGED request_queue
          ELSE /\ session_request' = Head(request_queue)
               /\ request_queue' = Tail(request_queue)
      BY Zenon, <1>1 DEF OnResponseDispatch
    <2>7. ClientSound
      BY Zenon, <1>2 DEF LiveSound
    <2> QED
      BY Zenon, <2>2, <2>5, <2>6, <2>7, NextRequest
  <1> QED
    <2>1. CleanSound' /\ LiveSound'
      BY Zenon, <1>8, <1>9 DEF CleanSound, LiveSound
    <2>2. UNCHANGED <<session_vars, active>> /\ to_engine' = to_engine
      BY Zenon, <1>1
    <2> QED
      BY Zenon, <1>6, <1>7, <2>1, <2>2, LiveStep

\* The machine answers the request itself.
LEMMA ImmediateStep ==
    ASSUME IInv, IInv', AnswersInv, Dispatching, session_request # TerminateMsg,
           NEW rstate \in RequestStates, ImmediateResponse(session_request, rstate),
           \/ UNCHANGED <<state, recog>>
           \/ state' = "IDLE" /\ recog' = NULL,
           \/ /\ queue' = queue \cup {session_request} /\ UNCHANGED stopped
              /\ session_request.method = "RECOGNIZE" /\ state = "RECOGNIZING"
           \/ \E list : /\ queue' = recog_pending_requests_remove(list)
                        /\ stopped' = stopped \cup RemovedIds(list)
           \/ UNCHANGED <<queue, stopped>>,
           UNCHANGED <<active, from_engine, next_id, owed>>
    PROVE  AnswersInv'
  <1> DEFINE q == session_request
             m == EngineMessage("RESPONSE", q.id, q.method, rstate)
             rest == Tail(calls)
  <1>1. /\ active /\ LiveSound /\ CleanSound /\ FromClient(q)
        /\ Proper(q) /\ q.id \in Ids /\ q.id \in Nat
    BY Zenon, NewFacts
  <1>2. /\ \A p \in Out : p[1] < q.id /\ p[1] \in Nat
        /\ \A r \in Pending : r.id < q.id /\ r.id \in Nat
        /\ \A i \in stopped : i < q.id
        /\ recog # NULL => recog.id < q.id
    BY Zenon, NewFacts
  <1>3. m.id = q.id /\ m.rstate = rstate
    BY DEF EngineMessage
  <1>4. recog_response_dispatch(m, rest)
    BY Zenon DEF ImmediateResponse
  <1> HIDE DEF m
  <1>5. /\ OnResponseDispatch(m, rest) /\ active_request' = NULL
        /\ UNCHANGED <<session_vars, to_engine>>
    BY Zenon, <1>1, <1>4 DEF recog_response_dispatch
  <1>6. /\ Out' = Out
        /\ PipeSound(to_engine, owed, from_engine)'
    BY Zenon, <1>1, <1>5 DEF Out, CleanSound
  <1>7. \/ rest = <<>>
        \/ (\E r : rest = <<Resume(r)>>) /\ state' = "IDLE" /\ recog' = NULL
    BY Zenon, DispatchFacts DEF AnswersInv
  <1>8. Resumed' = Resumed
    <2>1. rest = <<>> \/ \E r : rest = <<Resume(r)>>
      BY Zenon, <1>7
    <2>2. Resumed' = ResumedOf(rest)
      BY Zenon, <1>5, <2>1, NextCall
    <2> QED
      BY Zenon, <2>2, DispatchFacts DEF AnswersInv
  <1>9. /\ \A r \in Pending : Proper(r) /\ ~IsOut(r.id)
        /\ \A r, s \in Pending : r.id = s.id => r = s
        /\ Resumed \cap queue = {}
        /\ \A p \in Out, r \in Pending : p[1] < r.id
        /\ state = "RECOGNIZING" => \A p \in Out : p[1] < recog.id
        /\ \A r \in Resumed, s \in queue : r.id < s.id
    <2>1. \A p \in Out : ~OfSession(p)
      BY <1>1, <1>2 DEF OfSession
    <2> QED
      BY Zenon, <1>1, <2>1 DEF CleanSound, PendingSound, LiveSound, OrderSound, ResumedFirst
  <1>10. /\ recog # NULL =>
                /\ Proper(recog) /\ recog.method = "RECOGNIZE" /\ ~IsOut(recog.id)
                /\ \A r \in Pending : r.id # recog.id
                /\ recog.id \notin stopped
         /\ \A p \in Out : p[1] \notin stopped
         /\ \A r \in Pending : r.id \notin stopped
    BY Zenon, <1>1 DEF LiveSound, RecogSound, StoppedSound
  <1>11. recog' # NULL => recog' = recog
    BY Zenon
  <1>12. state' = "RECOGNIZING" => \A p \in Out' : p[1] < recog'.id
    BY <1>6, <1>9
  <1>13. \A p \in Out' : p \in Out /\ p[1] # q.id
    BY <1>1, <1>2, <1>6
  <1>14. ~IsOut(q.id)
    BY <1>1, <1>2 DEF IsOut
  <1>15. \A i : IsOut(i)' <=> IsOut(i)
    BY Zenon, <1>6 DEF IsOut
  <1>16. ASSUME NEW s, \A r \in s : r \in Pending \/ r = q
         PROVE  \A r \in s : /\ Proper(r) /\ ~IsOut(r.id)
                             /\ \A p \in Out : p[1] < r.id
    BY Zenon, <1>1, <1>2, <1>9, <1>14, <1>16
  <1>17. CASE /\ queue' = queue \cup {q} /\ UNCHANGED stopped
              /\ q.method = "RECOGNIZE" /\ state = "RECOGNIZING"
    <2>1. Resumed = {} /\ Resumed' = {}
      BY Zenon, <1>8, <1>17, DispatchFacts DEF AnswersInv
    <2>2. Pending' = Pending \cup {q}
      BY Zenon, <1>17, <2>1 DEF Pending
    <2>3. PendingSound'
      <3>1. \A r \in Pending' : Proper(r) /\ ~IsOut(r.id)'
        BY Zenon, <1>15, <1>16, <2>2
      <3>2. \A r, s \in Pending' : r.id = s.id => r = s
        BY <1>1, <1>2, <1>9, <2>2
      <3> QED
        BY Zenon, <2>1, <3>1, <3>2 DEF PendingSound, Proper
    <2>4. ResumedFirst'
      BY Zenon, <2>1 DEF ResumedFirst
    <2>5. recog # NULL => \A r \in Pending' : r.id # recog.id
      BY <1>1, <1>2, <1>10, <2>2
    <2>6. RecogSound'
      BY Zenon, <1>10, <1>11, <1>15, <2>5 DEF RecogSound, Proper
    <2>7. \A r \in Pending' : r.id \notin stopped
      BY <1>1, <1>2, <1>10, <2>2
    <2>8. StoppedSound'
      BY Zenon, <1>6, <1>10, <1>11, <1>17, <2>7 DEF StoppedSound
    <2>9. \A p \in Out', r \in Pending' : p[1] < r.id
      BY Zenon, <1>6, <1>16, <2>2
    <2>10. \A i \in stopped' : i \in Handled
      BY Zenon, <1>17, HandledParts DEF Handled
    <2>11. \A r \in Pending' : r \in Pending \/ r.id = q.id
      BY Zenon, <2>2
    <2> QED
      BY Zenon, <1>1, <1>3, <1>4, <1>6, <1>7, <1>11, <1>12, <1>13, <2>3, <2>4, <2>6, <2>8,
         <2>9, <2>10, <2>11, AnswerStep
  <1>18. ASSUME queue' \subseteq queue,
                NEW ids, stopped' = stopped \cup ids,
                \A i \in ids : \E r \in queue : r.id = i /\ r \notin queue'
         PROVE  AnswersInv'
    <2>1. Pending' \subseteq Pending
      BY Zenon, <1>8, <1>18 DEF Pending
    <2>2. \A r \in queue : r \in Pending
      BY Zenon DEF Pending
    <2>3. PendingSound'
      <3>1. \A r \in Pending' : Proper(r) /\ ~IsOut(r.id)'
        BY Zenon, <1>15, <1>9, <2>1
      <3>2. \A r, s \in Pending' : r.id = s.id => r = s
        BY Zenon, <1>9, <2>1
      <3>3. Resumed' \cap queue' = {}
        BY Zenon, <1>8, <1>9, <1>18
      <3> QED
        BY Zenon, <3>1, <3>2, <3>3 DEF PendingSound, Proper
    <2>4. ResumedFirst'
      BY Zenon, <1>8, <1>9, <1>18 DEF ResumedFirst
    <2>5. recog # NULL => \A r \in Pending' : r.id # recog.id
      BY Zenon, <1>10, <2>1
    <2>6. RecogSound'
      BY Zenon, <1>10, <1>11, <1>15, <2>5 DEF RecogSound, Proper
    <2>7. StoppedSound'
      <3>1. \A p \in Out' : p[1] \notin stopped'
        <4>1. \A i \in ids : ~IsOut(i)
          BY <1>9, <1>18, <2>2
        <4>2. \A p \in Out : p[1] \notin ids
          BY Zenon, <4>1 DEF IsOut
        <4> QED
          BY Zenon, <1>6, <1>10, <1>18, <4>2
      <3>2. ASSUME NEW r \in Pending', r.id \in ids
            PROVE  FALSE
        <4>1. PICK s \in queue : s.id = r.id /\ s \notin queue'
          BY Zenon, <1>18, <3>2
        <4>2. s = r
          BY Zenon, <1>9, <2>1, <2>2, <4>1
        <4>3. r \in queue' \/ r \in Resumed
          BY Zenon, <1>8 DEF Pending
        <4> QED
          BY Zenon, <1>9, <4>1, <4>2, <4>3
      <3>3. \A r \in Pending' : r.id \notin stopped'
        BY Zenon, <1>10, <1>18, <2>1, <3>2
      <3>4. recog' # NULL => recog'.id \notin stopped'
        BY Zenon, <1>10, <1>11, <1>18, <2>2
      <3> QED
        BY Zenon, <3>1, <3>3, <3>4 DEF StoppedSound
    <2>8. \A p \in Out', r \in Pending' : p[1] < r.id
      BY Zenon, <1>6, <1>9, <2>1
    <2>9. \A i \in stopped' : i \in Handled
      <3>1. stopped \subseteq Handled /\ \A r \in Pending : r.id \in Handled
        BY Zenon, HandledParts DEF Handled
      <3> QED
        BY Zenon, <1>18, <2>2, <3>1
    <2>10. \A r \in Pending' : r \in Pending \/ r.id = q.id
      BY Zenon, <2>1
    <2> QED
      BY Zenon, <1>1, <1>3, <1>4, <1>6, <1>7, <1>11, <1>12, <1>13, <2>3, <2>4, <2>6, <2>7,
         <2>8, <2>9, <2>10, AnswerStep
  <1>19. ASSUME NEW list, queue' = recog_pending_requests_remove(list),
                stopped' = stopped \cup RemovedIds(list)
         PROVE  AnswersInv'
    <2>1. queue' \subseteq queue
      BY Zenon, <1>19 DEF recog_pending_requests_remove
    <2>2. \A i \in RemovedIds(list) : \E r \in queue : r.id = i /\ r \notin queue'
      BY Zenon, <1>19 DEF recog_pending_requests_remove, RemovedIds
    <2> QED
      BY Zenon, <1>18, <1>19, <2>1, <2>2
  <1>20. CASE UNCHANGED <<queue, stopped>>
    <2> DEFINE none == {}
    <2>1. queue' \subseteq queue /\ stopped' = stopped \cup none
      BY Zenon, <1>20
    <2>2. \A i \in none : \E r \in queue : r.id = i /\ r \notin queue'
      BY Zenon
    <2> HIDE DEF none
    <2> QED
      BY Zenon, <1>18, <2>1, <2>2
  <1> QED
    BY Zenon, <1>17, <1>19, <1>20

\* Every request of the client.
LEMMA RequestStep ==
    ASSUME IInv, IInv', AnswersInv, Dispatching, session_request # TerminateMsg,
           recog_request_state_update(session_request),
           UNCHANGED <<active, from_engine, next_id, owed>>
    PROVE  AnswersInv'
  <1> DEFINE m == session_request
  <1>1. "COMPLETE" \in RequestStates /\ "PENDING" \in RequestStates
    BY DEF RequestStates
  <1>2. CASE /\ recog_request_dispatch(m, Tail(calls))
             /\ UNCHANGED <<state, recog>> \/ (state' = "IDLE" /\ recog' = NULL)
             /\ UNCHANGED <<is_pending, queue, stopped>>
    BY Zenon, <1>2, SendStep
  <1>3. ASSUME NEW rstate \in RequestStates, ImmediateResponse(m, rstate),
               UNCHANGED <<state, recog>> \/ (state' = "IDLE" /\ recog' = NULL),
               \/ /\ queue' = queue \cup {m} /\ UNCHANGED stopped
                  /\ m.method = "RECOGNIZE" /\ state = "RECOGNIZING"
               \/ \E list : /\ queue' = recog_pending_requests_remove(list)
                            /\ stopped' = stopped \cup RemovedIds(list)
               \/ UNCHANGED <<queue, stopped>>
        PROVE  AnswersInv'
    BY Zenon, <1>3, ImmediateStep
  <1> HIDE DEF m
  <1>4. CASE recog_request_direct(m)
    BY Zenon, <1>2, <1>4 DEF recog_request_direct
  <1>5. CASE recog_request_define_grammar(m)
    BY Zenon, <1>1, <1>2, <1>3, <1>5 DEF recog_request_define_grammar, recog_state_change
  <1>6. CASE recog_request_recognize(m)
    BY Zenon, <1>1, <1>2, <1>3, <1>6 DEF recog_request_recognize
  <1>7. CASE recog_request_get_result(m)
    BY Zenon, <1>1, <1>2, <1>3, <1>7 DEF recog_request_get_result
  <1>8. CASE recog_request_recognition_start_timers(m)
    BY Zenon, <1>1, <1>2, <1>3, <1>8 DEF recog_request_recognition_start_timers
  <1>9. CASE recog_request_stop(m)
    BY Zenon, <1>1, <1>2, <1>3, <1>9 DEF recog_request_stop, recog_state_change
  <1> QED
    BY Zenon, <1>4, <1>5, <1>6, <1>7, <1>8, <1>9 DEF recog_request_state_update, m

-----------------------------------------------------------------------------
(* The end of the session *)

\* The parts of the session are asked to go away.
LEMMA TerminateProcessStep ==
    ASSUME IInv, IInv', CloseSound, is_open, Closing = {},
           mrcp_server_session_terminate_process,
           \/ from_engine' = from_engine
           \/ /\ from_engine # <<>> /\ Head(from_engine).type # "CLOSED"
              /\ from_engine' = Tail(from_engine)
    PROVE  /\ CloseSound' /\ Closing' # {}
           /\ session_state' = "TERMINATING" /\ ~is_open'
           /\ removals' = OtherParts /\ subrequest_count' = removals' + 1
           /\ to_engine' = Append(to_engine, CloseMsg)
  <1>1. OtherParts \in Nat
    BY ChannelAssumption
  <1>2. /\ session_state' = "TERMINATING" /\ ~is_open'
        /\ removals' = OtherParts /\ subrequest_count' = removals' + 1
        /\ to_engine' = Append(to_engine, CloseMsg)
    BY <1>1 DEF mrcp_server_session_terminate_process
  <1>3. to_engine \in Seq(Request \cup {CloseMsg}) /\ CloseMsg \in Request \cup {CloseMsg}
    BY DEF IInv, StopInv, TeardownTypeOK
  <1>4. Pairs(to_engine, {CloseMsg}) = {} /\ Pairs(from_engine, Closed) = {}
    BY Zenon DEF Closing
  <1>5. /\ Pairs(to_engine', {CloseMsg}) = {Pair(CloseMsg)}
        /\ Distinct(to_engine', {CloseMsg})
    <2>1. Distinct(to_engine, {CloseMsg}) /\ CloseMsg \in {CloseMsg}
      BY Zenon DEF CloseSound
    <2>2. \A p \in Pairs(to_engine, {CloseMsg}) : p[1] # CloseMsg.id
      BY Zenon, <1>4
    <2> DEFINE K == {CloseMsg}
               A == Append(to_engine, CloseMsg)
    <2> HIDE DEF K
    <2>3. /\ Pairs(A, K) = IF CloseMsg \in K THEN Pairs(to_engine, K) \cup {Pair(CloseMsg)}
                           ELSE Pairs(to_engine, K)
          /\ Distinct(to_engine, K)
                 /\ (CloseMsg \in K => \A p \in Pairs(to_engine, K) : p[1] # CloseMsg.id) =>
                 Distinct(A, K)
      BY Zenon, <1>3, PairsAppend
    <2>4. Pairs(A, K) = Pairs(to_engine, K) \cup {Pair(CloseMsg)} /\ Distinct(A, K)
      BY Zenon, <2>1, <2>2, <2>3 DEF K
    <2> QED
      BY Zenon, <1>2, <1>4, <2>4 DEF K
  <1>6. Closing' # {}
    BY Zenon, <1>5 DEF Closing
  <1>7. /\ Pairs(from_engine', Closed) = {}
        /\ Distinct(from_engine', Closed)
        /\ \A i \in 1 .. Len(from_engine') :
               from_engine'[i].type = "CLOSED" => from_engine'[i] \in Closed
    BY Zenon, <1>4, QuietFrom
  <1>8. CloseSound'
    BY Zenon, <1>5, <1>7 DEF CloseSound, Apart
  <1> QED
    BY Zenon, <1>2, <1>6, <1>8

\* The session is to be ended.
LEMMA DeactivateStep ==
    ASSUME IInv, IInv', AnswersInv, Dispatching, recog_state_deactivate(session_request),
           UNCHANGED owed
    PROVE  AnswersInv'
  <1>1. /\ session_request = TerminateMsg /\ ~active' /\ calls' = Tail(calls)
        /\ UNCHANGED <<state, is_pending, recog, queue, session_request,
                       request_queue, log, stopped, from_engine, next_id>>
    BY Zenon DEF recog_state_deactivate
  <1>2. active /\ is_open /\ Closing = {} /\ removals = 0 /\ CloseSound /\ CleanSound /\ LiveSound
    <2>1. active
      BY Zenon DEF AnswersInv, TeardownSound
    <2> QED
      BY Zenon, <2>1 DEF AnswersInv, TeardownSound, Clean
  <1>3. /\ session_request # NULL /\ ResumedOf(Tail(calls)) = Resumed
        /\ \/ Tail(calls) = <<>> /\ Resumed = {}
           \/ /\ \E r \in Resumed : Tail(calls) = <<Resume(r)>>
              /\ state = "IDLE" /\ recog = NULL
    BY Zenon, DispatchFacts DEF AnswersInv
  <1>4. Resumed' = Resumed /\ Pending' = Pending
    BY Zenon, <1>1, <1>3 DEF Resumed, Pending
  <1>5. ~Dispatching'
    <2>1. \A r : <<Resume(r)>> # <<>> /\ Head(<<Resume(r)>>) = Resume(r) /\ Resume(r).op = "resume"
      BY Zenon, CallShapes
    <2>2. CASE Tail(calls) = <<>>
      BY Zenon, <1>1, <2>2 DEF Dispatching
    <2>3. ASSUME NEW r, Tail(calls) = <<Resume(r)>>
          PROVE  ~Dispatching'
      BY Zenon, <1>1, <2>1, <2>3 DEF Dispatching
    <2> QED
      BY Zenon, <1>3, <2>2, <2>3
  <1>6. CallsSound'
    BY Zenon, <1>1, <1>3, <1>4 DEF AnswersInv, CallsSound
  <1>7. OneResponse'
    BY Zenon, <1>1 DEF AnswersInv, OneResponse
  <1>8. to_engine \in Seq(Request \cup {CloseMsg})
    BY DEF IInv, StopInv, TeardownTypeOK
  <1>9. CASE state = "RECOGNIZING" /\ recog # NULL
    <2> DEFINE stop == [id |-> recog.id + 1, method |-> "STOP", list |-> recog.list]
    <2>1. /\ active_request' = stop /\ to_engine' = Append(to_engine, stop)
          /\ session_state' = "DEACTIVATING" /\ subrequest_count' = 1
          /\ UNCHANGED <<is_open, removals>>
      BY Zenon, <1>9 DEF recog_state_deactivate
    <2>2. recog \in Request /\ recog.list = {} /\ recog.id \in Nat
      BY <1>2, <1>9 DEF LiveSound, RecogSound, Proper, Request
    <2>3. stop \in Request /\ stop.method = "STOP" /\ stop.list = {} /\ stop.id = recog.id + 1
      BY <2>2 DEF Request
    <2> HIDE DEF stop
    <2>4. CloseSound' /\ Closing' = Closing
      BY Zenon, <1>1, <1>2, <2>1, <2>3, QuietClose
    <2>5. TeardownSound'
      BY Zenon, <1>1, <1>2, <1>5, <2>1, <2>4 DEF TeardownSound
    <2>6. Out' = Out \cup {Pair(stop)}
      <3>1. OutOf(Append(to_engine, stop), owed, from_engine) =
                OutOf(to_engine, owed, from_engine) \cup {Pair(stop)}
        BY <1>8, <2>3, PipeSend
      <3> QED
        BY Zenon, <1>1, <2>1, <3>1 DEF Out
    <2>7. \A p \in Out : p[1] # stop.id
      <3>1. \A p \in Out : p[1] < recog.id /\ p[1] \in Nat
        BY Zenon, <1>1, <1>2, <1>9, OutTypes DEF LiveSound, OrderSound, OfSession, FromClient
      <3> QED
        BY <2>2, <2>3, <3>1
    <2>8. \A p \in Out' : p[1] = stop.id => p[2] = "STOP"
      BY Zenon, <2>3, <2>6, <2>7, PairParts
    <2>9. calls' = <<>>
      BY Zenon, <1>1, <1>3, <1>9
    <2>10. WaitingForStop'
      BY <2>1, <2>3, NullIsNoRequest DEF WaitingForStop
    <2>11. DeactivationSound'
      BY Zenon, <2>1, <2>3, <2>8, <2>9, <2>10 DEF DeactivationSound
    <2>12. ~Clean'
      BY Zenon, <1>1, <2>1 DEF Clean
    <2> QED
      BY Zenon, <1>1, <1>6, <1>7, <2>4, <2>5, <2>11, <2>12 DEF AnswersInv
  <1>10. CASE ~(state = "RECOGNIZING" /\ recog # NULL)
    <2>1. mrcp_server_session_terminate_process /\ UNCHANGED active_request
      BY Zenon, <1>10 DEF recog_state_deactivate
    <2>2. /\ CloseSound' /\ Closing' # {}
          /\ session_state' = "TERMINATING" /\ ~is_open'
          /\ removals' = OtherParts /\ subrequest_count' = removals' + 1
          /\ to_engine' = Append(to_engine, CloseMsg)
      BY Zenon, <1>1, <1>2, <2>1, TerminateProcessStep
    <2>3. TeardownSound'
      <3>1. removals' \in Nat
        BY <2>2, ChannelAssumption
      <3> QED
        BY <1>1, <1>5, <2>2, <3>1 DEF TeardownSound
    <2>4. Out' = Out /\ PipeSound(to_engine, owed, from_engine)'
      <3>1. PipeSound(to_engine, owed, from_engine)
        BY Zenon, <1>2 DEF CleanSound
      <3>2. /\ OutOf(Append(to_engine, CloseMsg), owed, from_engine) =
                   OutOf(to_engine, owed, from_engine)
            /\ PipeSound(Append(to_engine, CloseMsg), owed, from_engine)
        BY Zenon, <1>8, <3>1, PipeClose
      <3> QED
        BY Zenon, <1>1, <2>2, <3>2 DEF Out
    <2>5. \A i : IsOut(i)' <=> IsOut(i)
      BY Zenon, <2>4 DEF IsOut
    <2>6. PendingSound'
      <3>1. PendingSound
        BY Zenon, <1>2 DEF CleanSound
      <3> QED
        BY Zenon, <1>1, <1>4, <2>5, <3>1 DEF PendingSound, Proper
    <2>7. ActiveSound'
      <3>1. ActiveSound
        BY Zenon, <1>2 DEF CleanSound
      <3> QED
        BY Zenon, <1>1, <2>1, <2>4, <2>5, <3>1 DEF ActiveSound, Proper
    <2>8. CleanSound'
      BY Zenon, <2>4, <2>6, <2>7 DEF CleanSound
    <2>9. DeactivationSound'
      BY <2>2 DEF DeactivationSound
    <2> QED
      BY Zenon, <1>1, <1>6, <1>7, <2>2, <2>3, <2>8, <2>9 DEF AnswersInv
  <1> QED
    BY Zenon, <1>9, <1>10

\* A step of a session whose parts are going away.
LEMMA DyingStep ==
    ASSUME IInv, AnswersInv, ~active, session_state # "DEACTIVATING",
           UNCHANGED <<session_vars, active, session_request>>,
           \/ to_engine' = to_engine
           \/ \E r \in Request : to_engine' = Append(to_engine, r),
           \/ from_engine' = from_engine
           \/ /\ from_engine # <<>> /\ Head(from_engine).type # "CLOSED"
              /\ from_engine' = Tail(from_engine),
           CallsSound', ~Dispatching', OneResponse', CleanSound'
    PROVE  AnswersInv'
  <1>1. CloseSound' /\ Closing' = Closing
    BY Zenon, QuietClose DEF AnswersInv
  <1>2. UNCHANGED <<session_state, subrequest_count, removals, is_open>>
    BY Zenon DEF session_vars
  <1>3. TeardownSound'
    BY <1>1, <1>2 DEF AnswersInv, TeardownSound
  <1>4. DeactivationSound'
    BY Zenon, <1>2 DEF DeactivationSound
  <1> QED
    BY Zenon, <1>1, <1>3, <1>4 DEF AnswersInv

\* A pending request is sent to the engine: no other one is before it.
LEMMA SentStep ==
    ASSUME IInv, IInv', AnswersInv, Clean, session_state # "DEACTIVATING", ~Dispatching,
           NEW r \in Pending, Pending' = Pending \ {r},
           active => \A s \in Pending : s # r => r.id < s.id,
           active_request' = r, is_pending', calls' = <<>>, state' # "RECOGNIZING",
           UNCHANGED <<session_request, request_queue, session_vars, active, next_id, stopped,
                       recog>>,
           \/ Out' = Out
           \/ Out' = Out \cup {Pair(r)},
           PipeSound(to_engine, owed, from_engine)',
           \/ to_engine' = to_engine
           \/ \E s \in Request : to_engine' = Append(to_engine, s),
           \/ from_engine' = from_engine
           \/ /\ from_engine # <<>> /\ Head(from_engine).type # "CLOSED"
              /\ from_engine' = Tail(from_engine),
           Answered' = Answered, OneResponse'
    PROVE  AnswersInv'
  <1>1. CleanSound
    BY Zenon DEF AnswersInv
  <1>2. Resumed' = {} /\ ~Dispatching' /\ queue' = Pending \ {r}
    BY Zenon, CallShapes DEF Resumed, Dispatching, Pending
  <1>3. CallsSound'
    BY Zenon DEF AnswersInv, CallsSound
  <1>4. /\ Proper(r) /\ ~IsOut(r.id) /\ r.method = "RECOGNIZE"
        /\ \A s \in Pending : Proper(s) /\ ~IsOut(s.id)
        /\ \A s, t \in Pending : s.id = t.id => s = t
    BY Zenon, <1>1, PendingTypes DEF CleanSound, PendingSound, RecognizeRequests
  <1>5. Pair(r)[1] = r.id
    BY Zenon, PairParts
  <1>6. \A p \in Out' : p \in Out \/ p = Pair(r)
    BY Zenon
  <1>7. \A s \in Pending' : s \in Pending /\ s # r /\ s.id # r.id
    BY Zenon, <1>4
  <1>8. \A s \in Pending' : ~IsOut(s.id)'
    BY Zenon, <1>4, <1>5, <1>6, <1>7 DEF IsOut
  <1>9. CleanSound'
    <2>1. \A s \in Pending' : Proper(s)' /\ ~IsOut(s.id)'
      BY Zenon, <1>4, <1>7, <1>8 DEF Proper
    <2>2. \A s, t \in Pending' : s.id = t.id => s = t
      BY Zenon, <1>4, <1>7
    <2>3. PendingSound'
      BY Zenon, <1>2, <2>1, <2>2 DEF PendingSound
    <2>4. IsOut(r.id)' => Pair(r) \in Out'
      BY Zenon, <1>4 DEF IsOut
    <2>5. ActiveSound'
      BY Zenon, <1>4, <2>4 DEF ActiveSound, Proper
    <2> QED
      BY Zenon, <2>3, <2>5 DEF CleanSound
  <1>10. CASE active
    <2>1. LiveSound
      BY Zenon, <1>10 DEF AnswersInv
    <2>2. OrderSound'
      <3>1. ASSUME NEW p \in Out', ~OfSession(p)
            PROVE  (\A s \in Pending' : p[1] < s.id) /\ p[1] <= r.id
        <4>1. CASE p \in Out
          <5>1. (\A s \in Pending : p[1] < s.id) /\ p[1] \in Nat /\ r.id \in Nat
            BY Zenon, <2>1, <3>1, <4>1, OutTypes, PendingTypes DEF LiveSound, OrderSound
          <5> QED
            BY <1>7, <5>1
        <4>2. CASE p = Pair(r)
          <5>1. r.id \in Nat
            BY Zenon, PendingTypes
          <5> QED
            BY <1>5, <1>7, <1>10, <4>2, <5>1
        <4> QED
          BY Zenon, <1>6, <4>1, <4>2
      <3>2. \A p : OfSession(p)' <=> OfSession(p)
        BY Zenon DEF OfSession, FromClient
      <3> QED
        BY Zenon, <3>1, <3>2 DEF OrderSound
    <2>3. ResumedFirst'
      BY Zenon, <1>2 DEF ResumedFirst
    <2>4. RecogSound'
      <3>1. recog # NULL =>
                /\ Proper(recog) /\ recog.method = "RECOGNIZE" /\ ~IsOut(recog.id)
                /\ \A s \in Pending : s.id # recog.id
        BY Zenon, <2>1 DEF LiveSound, RecogSound
      <3>2. recog # NULL => ~IsOut(recog.id)'
        BY Zenon, <1>5, <1>6, <3>1 DEF IsOut
      <3> QED
        BY Zenon, <1>7, <3>1, <3>2 DEF RecogSound, Proper
    <2>5. StoppedSound'
      BY Zenon, <1>5, <1>6, <1>7, <2>1 DEF LiveSound, StoppedSound
    <2>6. ClientSound'
      <3>1. /\ \A p \in Out : p[1] \in Handled
            /\ \A s \in Pending : s.id \in Handled
            /\ stopped \subseteq Handled /\ Answered \subseteq Handled
            /\ recog # NULL => recog.id \in Handled
        BY Zenon, HandledParts DEF Handled
      <3> DEFINE X == Handled
      <3>2. /\ \A p \in Out' : p[1] \in X
            /\ \A s \in Pending' : s.id \in X
            /\ stopped' \subseteq X /\ Answered' \subseteq X
            /\ recog' # NULL => recog'.id \in X
        BY Zenon, <1>5, <1>6, <1>7, <3>1
      <3> HIDE DEF X
      <3>3. Handled' \subseteq X
        BY Zenon, <3>2, HandledParts DEF Handled
      <3>4. \A i \in Handled' : i \in Handled
        BY Zenon, <3>3 DEF X
      <3>5. ClientSound
        BY Zenon, <2>1 DEF LiveSound
      <3>6. FromClient(session_request) =>
                (Responded(session_request.id)' => Responded(session_request.id))
        <4>1. FromClient(session_request) => session_request.id \in Ids
          BY Zenon, <3>5, ClientIds DEF ClientSound
        <4> QED
          BY Zenon, <4>1 DEF Answered
      <3> QED
        BY Zenon, <1>2, <3>4, <3>5, <3>6, ClientStays
    <2>7. LiveSound'
      BY Zenon, <2>2, <2>3, <2>4, <2>5, <2>6 DEF LiveSound
    <2>8. UNCHANGED <<session_vars, active>>
      BY Zenon
    <2> QED
      BY Zenon, <1>3, <1>9, <1>10, <2>7, <2>8, LiveStep
  <1>11. CASE ~active
    <2>1. UNCHANGED <<session_vars, active, session_request>>
      BY Zenon
    <2> QED
      BY Zenon, <1>2, <1>3, <1>9, <1>11, <2>1, DyingStep
  <1> QED
    BY Zenon, <1>10, <1>11

\* The pending request that was kept by a STOP.
LEMMA ResumeStep ==
    ASSUME IInv, IInv', AnswersInv, ResumePending, UNCHANGED owed
    PROVE  AnswersInv'
  <1> DEFINE r == Head(calls).msg
  <1>1. /\ calls # <<>> /\ Head(calls).op = "resume" /\ is_pending'
        /\ active_request' = r /\ SendToEngine(r) /\ calls' = Tail(calls)
        /\ UNCHANGED <<session_request, request_queue, session_vars, log, state, recog, queue,
                       active, from_engine, next_id, stopped>>
    BY Zenon DEF ResumePending, recog_request_dispatch
  <1>2. /\ Resumed = {r} /\ Tail(calls) = <<>>
        /\ state = "IDLE" /\ recog = NULL /\ ~Dispatching
    BY Zenon, <1>1, ResumeFacts DEF AnswersInv
  <1> HIDE DEF r
  <1>3. session_state # "DEACTIVATING"
    BY Zenon, <1>1 DEF AnswersInv, DeactivationSound
  <1>4. Clean
    <2>1. session_state \in SessionStates
      BY Zenon DEF IInv, StopInv, TeardownTypeOK
    <2>2. session_state = "INITIALIZING" => active
      BY Zenon DEF AnswersInv, TeardownSound
    <2> QED
      BY <1>1, <1>3, <2>1, <2>2 DEF SessionStates, Clean
  <1>5. CleanSound
    BY Zenon, <1>4 DEF AnswersInv
  <1>6. r \in Pending /\ Pending' = Pending \ {r}
    <2>1. Resumed' = {}
      BY Zenon, <1>1, <1>2, CallShapes DEF Resumed
    <2>2. Resumed \cap queue = {}
      BY Zenon, <1>5 DEF CleanSound, PendingSound
    <2> QED
      BY Zenon, <1>1, <1>2, <2>1, <2>2 DEF Pending
  <1>7. r \in Request /\ ~IsOut(r.id) /\ r.id \in Nat
    BY Zenon, <1>5, <1>6, PendingTypes DEF CleanSound, PendingSound
  <1>8. active => \A s \in Pending : s # r => r.id < s.id
    BY Zenon, <1>2 DEF AnswersInv, LiveSound, ResumedFirst, Pending
  <1>9. /\ Out' = Out \/ Out' = Out \cup {Pair(r)}
        /\ PipeSound(to_engine, owed, from_engine)'
        /\ to_engine' = to_engine \/ to_engine' = Append(to_engine, r)
    <2>1. PipeSound(to_engine, owed, from_engine)
      BY Zenon, <1>5 DEF CleanSound
    <2>2. to_engine' = to_engine \/ to_engine' = Append(to_engine, r)
      BY Zenon, <1>1 DEF SendToEngine
    <2>3. CASE to_engine' = to_engine
      BY Zenon, <1>1, <2>1, <2>3 DEF Out
    <2>4. CASE to_engine' = Append(to_engine, r)
      <3>1. to_engine \in Seq(Request \cup {CloseMsg})
        BY DEF IInv, StopInv, TeardownTypeOK
      <3>2. \A p \in OutOf(to_engine, owed, from_engine) : p[1] # r.id
        BY Zenon, <1>7 DEF IsOut, Out
      <3>3. /\ OutOf(Append(to_engine, r), owed, from_engine) =
                   OutOf(to_engine, owed, from_engine) \cup {Pair(r)}
            /\ PipeSound(Append(to_engine, r), owed, from_engine)
        BY <1>7, <2>1, <3>1, <3>2, PipeSend
      <3> QED
        BY Zenon, <1>1, <2>4, <3>3 DEF Out
    <2> QED
      BY Zenon, <2>2, <2>3, <2>4
  <1>10. Answered' = Answered /\ OneResponse'
    BY Zenon, <1>1 DEF AnswersInv, OneResponse, Answered, Responded
  <1>11. \/ to_engine' = to_engine
         \/ \E s \in Request : to_engine' = Append(to_engine, s)
    BY Zenon, <1>7, <1>9
  <1>12. state' # "RECOGNIZING" /\ calls' = <<>>
    BY <1>1, <1>2
  <1>13. UNCHANGED <<session_request, request_queue, session_vars, active, next_id, stopped, recog>>
    BY Zenon, <1>1
  <1> QED
    BY Zenon, <1>1, <1>2, <1>3, <1>4, <1>6, <1>8, <1>9, <1>10, <1>11, <1>12, <1>13, SentStep

-----------------------------------------------------------------------------
(* Steps that change little *)

\* Nothing changes but what is on its way, and the client may get an event.
LEMMA QuietParts ==
    ASSUME IInv, IInv', AnswersInv,
           UNCHANGED <<session_request, request_queue, active, calls, next_id, stopped,
                       is_pending, active_request, recog, queue>>,
           state' = state \/ (ServerIdle /\ state' # "RECOGNIZING"),
           session_state' = "DEACTIVATING" <=> session_state = "DEACTIVATING",
           session_state' \in {"TERMINATING", "TERMINATED"} <=>
               session_state \in {"TERMINATING", "TERMINATED"},
           Out' \subseteq Out,
           \A p \in Out : active_request # NULL /\ p[1] = active_request.id => p \in Out',
           PipeSound(to_engine, owed, from_engine) => PipeSound(to_engine, owed, from_engine)',
           Answered' = Answered
    PROVE  /\ CallsSound' /\ DeactivationSound'
           /\ Clean' => CleanSound'
           /\ active' => LiveSound'
  <1>1. /\ Resumed' = Resumed /\ Pending' = Pending /\ Dispatching' = Dispatching
        /\ WaitingForStop' = WaitingForStop
    BY Zenon DEF Resumed, Pending, Dispatching, WaitingForStop
  <1>2. CallsSound'
    <2>1. CallsSound
      BY Zenon DEF AnswersInv
    <2>2. CASE state' = state
      BY Zenon, <1>1, <2>1, <2>2 DEF CallsSound
    <2>3. CASE ServerIdle
      BY Zenon, <2>1, <2>3 DEF CallsSound, ServerIdle
    <2> QED
      BY Zenon, <2>2, <2>3
  <1>3. DeactivationSound'
    BY Zenon, <1>1 DEF AnswersInv, DeactivationSound
  <1>4. \A i : IsOut(i)' => IsOut(i)
    BY Zenon DEF IsOut
  <1>5. ASSUME Clean'
        PROVE  CleanSound'
    <2>1. Clean
      BY Zenon, <1>5 DEF Clean
    <2>2. CleanSound
      BY Zenon, <2>1 DEF AnswersInv
    <2>3. PendingSound'
      BY Zenon, <1>1, <1>4, <2>2 DEF CleanSound, PendingSound, Proper
    <2>4. ActiveSound'
      <3>1. ASSUME active_request # NULL, IsOut(active_request.id)
            PROVE  /\ Proper(active_request) /\ Pair(active_request) \in Out'
                   /\ \/ session_request = active_request /\ ~Dispatching
                      \/ is_pending /\ active_request.method = "RECOGNIZE"
        BY Zenon, <2>2, <3>1, PairParts DEF CleanSound, ActiveSound
      <3> QED
        BY Zenon, <1>1, <1>4, <3>1 DEF ActiveSound, Proper
    <2> QED
      BY Zenon, <2>2, <2>3, <2>4 DEF CleanSound
  <1>6. ASSUME active'
        PROVE  LiveSound'
    <2>1. LiveSound
      BY Zenon, <1>6 DEF AnswersInv
    <2>2. OrderSound'
      <3>1. state' = "RECOGNIZING" => state = "RECOGNIZING"
        BY Zenon
      <3>2. \A p : OfSession(p)' <=> OfSession(p)
        BY Zenon DEF OfSession, FromClient
      <3> QED
        BY Zenon, <1>1, <1>4, <2>1, <3>1, <3>2 DEF LiveSound, OrderSound
    <2>3. ResumedFirst'
      BY Zenon, <1>1, <2>1 DEF LiveSound, ResumedFirst
    <2>4. RecogSound'
      BY Zenon, <1>1, <1>4, <2>1 DEF LiveSound, RecogSound, Proper
    <2>5. StoppedSound'
      BY Zenon, <1>1, <2>1 DEF LiveSound, StoppedSound
    <2>6. ClientSound'
      <3>1. /\ \A p \in Out : p[1] \in Handled
            /\ \A s \in Pending : s.id \in Handled
            /\ stopped \subseteq Handled /\ Answered \subseteq Handled
            /\ recog # NULL => recog.id \in Handled
        BY Zenon, HandledParts DEF Handled
      <3> DEFINE X == Handled
      <3>2. /\ \A p \in Out' : p[1] \in X
            /\ \A s \in Pending' : s.id \in X
            /\ stopped' \subseteq X /\ Answered' \subseteq X
            /\ recog' # NULL => recog'.id \in X
        BY Zenon, <1>1, <3>1
      <3> HIDE DEF X
      <3>3. Handled' \subseteq X
        BY Zenon, <3>2, HandledParts DEF Handled
      <3>4. \A i \in Handled' : i \in Handled
        BY Zenon, <3>3 DEF X
      <3>5. ClientSound
        BY Zenon, <2>1 DEF LiveSound
      <3>6. FromClient(session_request) =>
                (Responded(session_request.id)' => Responded(session_request.id))
        <4>1. FromClient(session_request) => session_request.id \in Ids
          BY Zenon, <3>5, ClientIds DEF ClientSound
        <4> QED
          BY Zenon, <4>1 DEF Answered
      <3> QED
        BY Zenon, <1>1, <3>4, <3>5, <3>6, ClientStays
    <2> QED
      BY Zenon, <2>2, <2>3, <2>4, <2>5, <2>6 DEF LiveSound
  <1> QED
    BY Zenon, <1>2, <1>3, <1>5, <1>6

\* And the parts of the session stay.
LEMMA QuietStep ==
    ASSUME IInv, IInv', AnswersInv,
           UNCHANGED <<session_request, request_queue, active, calls, next_id, stopped,
                       is_pending, active_request, recog, queue, session_vars>>,
           state' = state \/ (ServerIdle /\ state' # "RECOGNIZING"),
           Out' \subseteq Out,
           \A p \in Out : active_request # NULL /\ p[1] = active_request.id => p \in Out',
           PipeSound(to_engine, owed, from_engine) => PipeSound(to_engine, owed, from_engine)',
           CloseSound', Closing' = {} <=> Closing = {},
           Answered' = Answered, OneResponse'
    PROVE  AnswersInv'
  <1>1. /\ UNCHANGED <<session_request, request_queue, active, calls, next_id, stopped,
                       is_pending, active_request, recog, queue>>
        /\ session_state' = session_state /\ subrequest_count' = subrequest_count
        /\ removals' = removals /\ is_open' = is_open
    BY Zenon DEF session_vars
  <1>2. /\ CallsSound' /\ DeactivationSound'
        /\ Clean' => CleanSound'
        /\ active' => LiveSound'
    BY Zenon, <1>1, QuietParts
  <1>3. Dispatching' = Dispatching
    BY Zenon DEF Dispatching
  <1>4. TeardownSound'
    <2>1. TeardownSound
      BY Zenon DEF AnswersInv
    <2>2. CASE Closing = {}
      <3>1. Closing' = {}
        BY Zenon, <2>2
      <3> QED
        BY <1>1, <1>3, <2>1, <2>2, <3>1 DEF TeardownSound
    <2>3. CASE Closing # {}
      <3>1. Closing' # {}
        BY Zenon, <2>3
      <3> QED
        BY <1>1, <1>3, <2>1, <2>3, <3>1 DEF TeardownSound
    <2> QED
      BY Zenon, <2>2, <2>3
  <1> QED
    BY Zenon, <1>2, <1>4 DEF AnswersInv

-----------------------------------------------------------------------------
(* The engine *)

\* The engine sends a message.
LEMMA FromGrows ==
    ASSUME IInv, NEW m \in EngineMessages, m.type = "CLOSED" => m \in Closed,
           \A i \in 1 .. Len(from_engine) :
               from_engine[i].type = "CLOSED" => from_engine[i] \in Closed,
           from_engine' = Append(from_engine, m)
    PROVE  \A i \in 1 .. Len(from_engine') :
               from_engine'[i].type = "CLOSED" => from_engine'[i] \in Closed
  <1>1. from_engine \in Seq(EngineMessages)
    BY DEF IInv, RestTypeOK
  <1> DEFINE A == Append(from_engine, m)
  <1>2. /\ Len(from_engine) \in Nat /\ Len(A) = Len(from_engine) + 1
        /\ \A i \in 1 .. Len(from_engine) : A[i] = from_engine[i]
        /\ A[Len(from_engine) + 1] = m
    BY <1>1, AppendProperties, LenProperties
  <1> HIDE DEF A
  <1>3. \A i \in 1 .. Len(A) : A[i].type = "CLOSED" => A[i] \in Closed
    BY <1>2
  <1>4. from_engine' = A
    BY DEF A
  <1> QED
    BY Zenon, <1>3, <1>4

\* A message of the engine that is not about closing.
LEMMA QuietSend ==
    ASSUME IInv, CloseSound, UNCHANGED to_engine,
           NEW m \in EngineMessages, m.type # "CLOSED", from_engine' = Append(from_engine, m)
    PROVE  CloseSound' /\ Closing' = Closing
  <1>1. from_engine \in Seq(EngineMessages)
    BY DEF IInv, RestTypeOK
  <1>2. m \notin Closed
    BY DEF Closed, EngineMessage
  <1>3. Distinct(from_engine, Closed)
    BY Zenon DEF CloseSound
  <1>4. /\ Pairs(Append(from_engine, m), Closed) = Pairs(from_engine, Closed)
        /\ Distinct(Append(from_engine, m), Closed)
    BY <1>1, <1>2, <1>3, PairsAppend
  <1>5. \A i \in 1 .. Len(from_engine') :
            from_engine'[i].type = "CLOSED" => from_engine'[i] \in Closed
    BY Zenon, FromGrows DEF CloseSound
  <1> QED
    BY Zenon, <1>4, <1>5 DEF CloseSound, Closing

\* The engine closes the channel.
LEMMA CloseReceived ==
    ASSUME IInv, CloseSound, to_engine # <<>>, Head(to_engine) = CloseMsg,
           to_engine' = Tail(to_engine),
           from_engine' = Append(from_engine, EngineMessage("CLOSED", 0, "CLOSE", "COMPLETE"))
    PROVE  CloseSound' /\ Closing' # {} /\ Closing # {}
  <1> DEFINE c == EngineMessage("CLOSED", 0, "CLOSE", "COMPLETE")
             K == {CloseMsg}
             A == Append(from_engine, c)
             T == Tail(to_engine)
  <1>1. /\ from_engine \in Seq(EngineMessages)
        /\ to_engine \in Seq(Request \cup {CloseMsg})
    BY DEF IInv, StopInv, TeardownTypeOK, RestTypeOK
  <1>2. c \in Closed /\ c \in EngineMessages /\ c.id = 0 /\ CloseMsg.id = 0 /\ CloseMsg \in K
    BY DEF Closed, EngineMessages, EngineMessage, RequestStates, CloseMsg
  <1> HIDE DEF c, K
  <1>3. Distinct(to_engine, K) /\ Distinct(from_engine, Closed)
        /\ Apart(Pairs(to_engine, K), Pairs(from_engine, Closed))
    BY Zenon DEF CloseSound, K
  <1>4. /\ Pairs(to_engine, K) = Pairs(T, K) \cup {Pair(CloseMsg)}
        /\ Distinct(T, K) /\ \A p \in Pairs(T, K) : p[1] # 0
    <2>1. /\ Pairs(to_engine, K) = IF Head(to_engine) \in K
                                   THEN Pairs(T, K) \cup {Pair(Head(to_engine))}
                                   ELSE Pairs(T, K)
          /\ Distinct(to_engine, K) =>
                 /\ Distinct(T, K)
                 /\ Head(to_engine) \in K => \A p \in Pairs(T, K) : p[1] # Head(to_engine).id
      BY Zenon, <1>1, PairsTail
    <2> QED
      BY Zenon, <1>2, <1>3, <2>1
  <1>5. \A q \in Pairs(from_engine, Closed) : q[1] # 0
    <2>1. Pair(CloseMsg)[1] = 0
      BY Zenon, <1>2, PairParts
    <2> QED
      BY Zenon, <1>3, <1>4, <2>1 DEF Apart
  <1>6. Pairs(A, Closed) = Pairs(from_engine, Closed) \cup {Pair(c)} /\ Distinct(A, Closed)
    <2>1. /\ Pairs(A, Closed) = IF c \in Closed THEN Pairs(from_engine, Closed) \cup {Pair(c)}
                                ELSE Pairs(from_engine, Closed)
          /\ Distinct(from_engine, Closed)
                 /\ (c \in Closed => \A p \in Pairs(from_engine, Closed) : p[1] # c.id) =>
                 Distinct(A, Closed)
      BY Zenon, <1>1, <1>2, PairsAppend
    <2> QED
      BY Zenon, <1>2, <1>3, <1>5, <2>1
  <1>7. Apart(Pairs(T, K), Pairs(A, Closed))
    <2>1. Pair(c)[1] = 0
      BY Zenon, <1>2, PairParts
    <2> QED
      BY Zenon, <1>3, <1>4, <1>6, <2>1 DEF Apart
  <1>8. to_engine' = T /\ from_engine' = A
    BY Zenon DEF c
  <1>9. \A i \in 1 .. Len(from_engine') :
            from_engine'[i].type = "CLOSED" => from_engine'[i] \in Closed
    BY Zenon, <1>2, <1>8, FromGrows DEF CloseSound
  <1> HIDE DEF A, T
  <1>10. Closing # {} /\ Closing' # {}
    BY Zenon, <1>4, <1>6, <1>8 DEF Closing, K
  <1> QED
    BY Zenon, <1>4, <1>6, <1>7, <1>8, <1>9, <1>10 DEF CloseSound, K

\* Every step of the engine.
LEMMA EngineAnswers ==
    ASSUME IInv, IInv', AnswersInv, EngineStep
    PROVE  AnswersInv'
  <1>1. EngineOnly
    BY Zenon DEF EngineStep, EngineReceive, EngineRespond, EngineStartOfInput, EngineComplete
  <1>2. /\ UNCHANGED <<session_request, request_queue, active, calls, next_id, stopped,
                       is_pending, active_request, recog, queue, session_vars>>
        /\ state' = state
        /\ Answered' = Answered /\ OneResponse'
    BY Zenon, <1>1 DEF EngineOnly, recog_vars, AnswersInv, Answered, Responded, OneResponse
  <1>3. ASSUME Out' = Out,
               PipeSound(to_engine, owed, from_engine) => PipeSound(to_engine, owed, from_engine)',
               CloseSound', Closing' = {} <=> Closing = {}
        PROVE  AnswersInv'
    <2>1. /\ Out' \subseteq Out
          /\ \A p \in Out : active_request # NULL /\ p[1] = active_request.id => p \in Out'
      BY Zenon, <1>3
    <2> QED
      BY Zenon, <1>2, <1>3, <2>1, QuietStep
  <1>4. /\ to_engine \in Seq(Request \cup {CloseMsg}) /\ from_engine \in Seq(EngineMessages)
        /\ owed \subseteq Request /\ working \subseteq Request /\ CloseSound
    BY Zenon DEF IInv, StopInv, TeardownTypeOK, RestTypeOK, AnswersInv
  <1>5. ASSUME NEW m \in EngineMessages, m.type # "CLOSED", m \notin Answer,
               Send(m), UNCHANGED <<to_engine, owed>>
        PROVE  AnswersInv'
    <2>1. from_engine' = Append(from_engine, m)
      BY Zenon, <1>5 DEF Send
    <2>2. CloseSound' /\ Closing' = Closing
      BY Zenon, <1>4, <1>5, <2>1, QuietSend
    <2>3. /\ OutOf(to_engine, owed, Append(from_engine, m)) = OutOf(to_engine, owed, from_engine)
          /\ PipeSound(to_engine, owed, from_engine) =>
                 PipeSound(to_engine, owed, Append(from_engine, m))
      BY Zenon, <1>4, <1>5, PipeEvent
    <2> QED
      BY Zenon, <1>3, <1>5, <2>1, <2>2, <2>3 DEF Out
  <1>6. CASE EngineReceive
    <2> DEFINE h == Head(to_engine)
    <2>1. to_engine # <<>> /\ to_engine' = Tail(to_engine) /\ h \in Request \cup {CloseMsg}
      BY <1>4, <1>6, PopType DEF EngineReceive
    <2>2. CASE h = CloseMsg
      <3> DEFINE c == EngineMessage("CLOSED", 0, "CLOSE", "COMPLETE")
      <3>1. from_engine' = Append(from_engine, c) /\ UNCHANGED owed
        BY Zenon, <1>6, <2>2 DEF EngineReceive, Send
      <3>2. CloseSound' /\ Closing' # {} /\ Closing # {}
        BY Zenon, <1>4, <2>1, <2>2, <3>1, CloseReceived
      <3>3. c \in EngineMessages /\ c \notin Answer
        BY MessageKinds DEF Closed
      <3> HIDE DEF c
      <3>4. /\ OutOf(Tail(to_engine), owed, from_engine) = OutOf(to_engine, owed, from_engine)
            /\ PipeSound(to_engine, owed, from_engine) =>
                   PipeSound(Tail(to_engine), owed, from_engine)
        BY <1>4, <2>1, <2>2, PipeClosed
      <3>5. /\ OutOf(Tail(to_engine), owed, Append(from_engine, c)) =
                   OutOf(Tail(to_engine), owed, from_engine)
            /\ PipeSound(Tail(to_engine), owed, from_engine) =>
                   PipeSound(Tail(to_engine), owed, Append(from_engine, c))
        BY Zenon, <1>4, <3>3, PipeEvent
      <3> QED
        BY Zenon, <1>3, <2>1, <3>1, <3>2, <3>4, <3>5 DEF Out
    <2>3. CASE h # CloseMsg
      <3>1. h \in Request /\ owed' = owed \cup {h} /\ UNCHANGED from_engine
        BY Zenon, <1>6, <2>1, <2>3 DEF EngineReceive
      <3>2. /\ OutOf(Tail(to_engine), owed \cup {h}, from_engine) =
                   OutOf(to_engine, owed, from_engine)
            /\ PipeSound(to_engine, owed, from_engine) =>
                   PipeSound(Tail(to_engine), owed \cup {h}, from_engine)
        BY Zenon, <1>4, <2>1, <3>1, PipeReceive
      <3> DEFINE K == {CloseMsg}
      <3>3. h \notin K
        BY Zenon, <2>3
      <3> HIDE DEF K
      <3>4. /\ Pairs(to_engine, K) = Pairs(Tail(to_engine), K)
            /\ Distinct(to_engine, K) => Distinct(Tail(to_engine), K)
        <4>1. /\ Pairs(to_engine, K) = IF h \in K THEN Pairs(Tail(to_engine), K) \cup {Pair(h)}
                                       ELSE Pairs(Tail(to_engine), K)
              /\ Distinct(to_engine, K) => Distinct(Tail(to_engine), K)
          BY Zenon, <1>4, <2>1, PairsTail
        <4> QED
          BY Zenon, <3>3, <4>1
      <3>5. CloseSound' /\ Closing' = Closing
        BY Zenon, <1>4, <2>1, <3>1, <3>4 DEF CloseSound, Closing, K
      <3> QED
        BY Zenon, <1>3, <2>1, <3>1, <3>2, <3>5 DEF Out
    <2> QED
      BY Zenon, <2>2, <2>3
  <1>7. CASE EngineRespond
    <2>1. PICK r \in owed : /\ owed' = owed \ {r} /\ UNCHANGED to_engine
                            /\ \E rstate \in {"IN-PROGRESS", "COMPLETE"} :
                                   Send(EngineMessage("RESPONSE", r.id, r.method, rstate))
      BY <1>7 DEF EngineRespond
    <2>2. PICK rstate \in {"IN-PROGRESS", "COMPLETE"} :
              Send(EngineMessage("RESPONSE", r.id, r.method, rstate))
      BY Zenon, <2>1
    <2> DEFINE m == EngineMessage("RESPONSE", r.id, r.method, rstate)
    <2>3. /\ m \in EngineMessages /\ m \in Answer /\ m.type # "CLOSED"
          /\ m.id = r.id /\ m.method = r.method
      BY <1>4 DEF EngineMessage, EngineMessages, RequestStates, Request, Answer
    <2>4. from_engine' = Append(from_engine, m)
      BY Zenon, <2>2 DEF Send
    <2> HIDE DEF m
    <2>5. CloseSound' /\ Closing' = Closing
      BY Zenon, <1>4, <2>1, <2>3, <2>4, QuietSend
    <2>6. /\ OutOf(to_engine, owed \ {r}, Append(from_engine, m)) =
                 OutOf(to_engine, owed, from_engine)
          /\ PipeSound(to_engine, owed, from_engine) =>
                 PipeSound(to_engine, owed \ {r}, Append(from_engine, m))
      BY Zenon, <1>4, <2>3, PipeRespond
    <2> QED
      BY Zenon, <1>3, <2>1, <2>4, <2>5, <2>6 DEF Out
  <1>8. CASE EngineStartOfInput
    <2>1. PICK r \in working :
              Send(EngineMessage("EVENT", r.id, "START-OF-INPUT", "IN-PROGRESS"))
      BY Zenon, <1>8 DEF EngineStartOfInput
    <2> DEFINE m == EngineMessage("EVENT", r.id, "START-OF-INPUT", "IN-PROGRESS")
    <2>2. m \in EngineMessages /\ m.type # "CLOSED" /\ m \notin Answer
      BY <1>4 DEF EngineMessage, EngineMessages, RequestStates, Request, Answer
    <2>3. UNCHANGED <<to_engine, owed>>
      BY Zenon, <1>8 DEF EngineStartOfInput
    <2> QED
      BY Zenon, <1>5, <2>1, <2>2, <2>3
  <1>9. CASE EngineComplete
    <2>1. PICK r \in working :
              Send(EngineMessage("EVENT", r.id, "RECOGNITION-COMPLETE", "COMPLETE"))
      BY Zenon, <1>9 DEF EngineComplete
    <2> DEFINE m == EngineMessage("EVENT", r.id, "RECOGNITION-COMPLETE", "COMPLETE")
    <2>2. m \in EngineMessages /\ m.type # "CLOSED" /\ m \notin Answer
      BY <1>4 DEF EngineMessage, EngineMessages, RequestStates, Request, Answer
    <2>3. UNCHANGED <<to_engine, owed>>
      BY Zenon, <1>9 DEF EngineComplete
    <2> QED
      BY Zenon, <1>5, <2>1, <2>2, <2>3
  <1> QED
    BY Zenon, <1>6, <1>7, <1>8, <1>9 DEF EngineStep

-----------------------------------------------------------------------------
(* The parts of the session go *)

\* The request to close the channel and the answer have no id of their own.
LEMMA CloseIds ==
    \A s : /\ \A p \in Pairs(s, Closed) : p[1] = 0
           /\ \A p \in Pairs(s, {CloseMsg}) : p[1] = 0
  <1>1. \A m \in Closed : m.id = 0
    BY DEF Closed, EngineMessage
  <1>2. CloseMsg.id = 0
    BY DEF CloseMsg
  <1> QED
    BY Zenon, <1>1, <1>2, PairParts DEF Pairs

\* The answer of the engine is taken: there is no other.
LEMMA ClosedTaken ==
    ASSUME IInv, CloseSound, from_engine # <<>>, Head(from_engine).type = "CLOSED",
           from_engine' = Tail(from_engine), UNCHANGED to_engine
    PROVE  CloseSound' /\ Closing' = {} /\ Closing # {} /\ Head(from_engine) \notin Answer
  <1> DEFINE h == Head(from_engine)
             T == Tail(from_engine)
  <1>1. /\ from_engine \in Seq(EngineMessages)
        /\ \A i \in 1 .. Len(from_engine) :
               from_engine[i].type = "CLOSED" => from_engine[i] \in Closed
        /\ Distinct(from_engine, Closed) /\ Distinct(to_engine, {CloseMsg})
        /\ Apart(Pairs(to_engine, {CloseMsg}), Pairs(from_engine, Closed))
    BY Zenon DEF IInv, RestTypeOK, CloseSound
  <1>2. /\ Len(T) = Len(from_engine) - 1 /\ Len(from_engine) \in Nat /\ Len(from_engine) > 0
        /\ h = from_engine[1]
        /\ \A i \in 1 .. Len(from_engine) - 1 : T[i] = from_engine[i + 1]
    BY <1>1, HeadTailProperties, LenProperties, EmptySeq
  <1>3. h \in Closed
    BY <1>1, <1>2
  <1>4. \A i \in 1 .. Len(T) : T[i].type = "CLOSED" => T[i] \in Closed
    BY <1>1, <1>2
  <1>5. /\ Pairs(from_engine, Closed) = Pairs(T, Closed) \cup {Pair(h)}
        /\ Distinct(T, Closed)
        /\ \A p \in Pairs(T, Closed) : p[1] # h.id
    <2>1. /\ Pairs(from_engine, Closed) = IF h \in Closed
                                          THEN Pairs(T, Closed) \cup {Pair(h)}
                                          ELSE Pairs(T, Closed)
          /\ Distinct(from_engine, Closed) =>
                 /\ Distinct(T, Closed)
                 /\ h \in Closed => \A p \in Pairs(T, Closed) : p[1] # h.id
      BY Zenon, <1>1, PairsTail
    <2> QED
      BY Zenon, <1>1, <1>3, <2>1
  <1> HIDE DEF h, T
  <1>6. h.id = 0 /\ Pair(h)[1] = 0
    <2>1. Pair(h)[1] = 0
      BY Zenon, <1>5, CloseIds
    <2> QED
      BY Zenon, <2>1, PairParts
  <1>7. Pairs(T, Closed) = {}
    BY Zenon, <1>5, <1>6, CloseIds
  <1>8. Pairs(to_engine, {CloseMsg}) = {}
    <2>1. \A p \in Pairs(to_engine, {CloseMsg}) : p[1] = 0 /\ p[1] # Pair(h)[1]
      BY Zenon, <1>1, <1>5, CloseIds DEF Apart
    <2> QED
      BY Zenon, <1>6, <2>1
  <1>9. Closing # {}
    BY Zenon, <1>5 DEF Closing
  <1>10. from_engine' = T
    BY Zenon DEF T
  <1>11. Closing' = {}
    BY Zenon, <1>7, <1>8, <1>10 DEF Closing
  <1>12. CloseSound'
    BY Zenon, <1>1, <1>4, <1>5, <1>7, <1>10 DEF CloseSound, Apart
  <1> QED
    BY Zenon, <1>3, <1>9, <1>11, <1>12, MessageKinds DEF h

\* What the machine knows is not changed by a part that goes.
LEMMA PartGone ==
    ASSUME IInv, IInv', AnswersInv, session_state = "TERMINATING",
           session_state' \in {"TERMINATING", "TERMINATED"},
           UNCHANGED <<session_request, request_queue, active, calls, next_id, stopped, log,
                       recog_vars>>,
           Out' = Out,
           PipeSound(to_engine, owed, from_engine) => PipeSound(to_engine, owed, from_engine)',
           CloseSound', TeardownSound'
    PROVE  AnswersInv'
  <1>1. /\ UNCHANGED <<session_request, request_queue, active, calls, next_id, stopped,
                       is_pending, active_request, recog, queue>>
        /\ state' = state /\ Answered' = Answered /\ OneResponse'
    BY Zenon DEF recog_vars, AnswersInv, Answered, Responded, OneResponse
  <1>2. /\ session_state' = "DEACTIVATING" <=> session_state = "DEACTIVATING"
        /\ session_state' \in {"TERMINATING", "TERMINATED"} <=>
               session_state \in {"TERMINATING", "TERMINATED"}
    OBVIOUS
  <1>3. /\ Out' \subseteq Out
        /\ \A p \in Out : active_request # NULL /\ p[1] = active_request.id => p \in Out'
    BY Zenon
  <1>4. /\ CallsSound' /\ DeactivationSound'
        /\ Clean' => CleanSound'
        /\ active' => LiveSound'
    BY Zenon, <1>1, <1>2, <1>3, QuietParts
  <1> QED
    BY Zenon, <1>1, <1>4 DEF AnswersInv

\* The engine has closed the channel.
LEMMA ClosedStep ==
    ASSUME IInv, IInv', AnswersInv, mrcp_server_on_engine_channel_close,
           UNCHANGED recog_vars, UNCHANGED owed
    PROVE  AnswersInv'
  <1>1. /\ from_engine # <<>> /\ Head(from_engine).type = "CLOSED"
        /\ from_engine' = Tail(from_engine) /\ mrcp_server_session_subrequest_remove
        /\ UNCHANGED <<session_request, request_queue, active, calls, next_id, log, stopped>>
    BY Zenon DEF mrcp_server_on_engine_channel_close
  <1>2. CloseSound /\ TeardownSound
    BY Zenon DEF AnswersInv
  <1>3. Closing # {}
    <2> DEFINE h == Head(from_engine)
    <2>1. from_engine \in Seq(EngineMessages)
      BY Zenon DEF IInv, RestTypeOK
    <2>2. h = from_engine[1] /\ 1 \in 1 .. Len(from_engine)
      BY <1>1, <2>1, LenProperties, EmptySeq
    <2>3. from_engine[1] \in Closed
      BY Zenon, <1>1, <1>2, <2>2 DEF CloseSound
    <2>4. Pair(from_engine[1]) \in Pairs(from_engine, Closed)
      BY <2>2, <2>3 DEF Pairs
    <2> QED
      BY Zenon, <2>4 DEF Closing
  <1>4. /\ session_state \in {"TERMINATING", "TERMINATED"} /\ ~is_open
        /\ subrequest_count = removals + 1 /\ ~active
        /\ session_state = "TERMINATED" <=> subrequest_count = 0
        /\ session_request = TerminateMsg /\ ~Dispatching
    <2>1. session_state \in SessionStates
      BY Zenon DEF IInv, StopInv, TeardownTypeOK
    <2> QED
      BY <1>2, <1>3, <2>1 DEF TeardownSound, SessionStates
  <1>5. removals \in Nat
    BY ChannelAssumption DEF IInv, StopInv, TeardownTypeOK
  <1>6. session_state = "TERMINATING" /\ subrequest_count > 0
    BY <1>4, <1>5
  <1>7. /\ subrequest_count' = removals
        /\ session_state' = IF removals = 0 THEN "TERMINATED" ELSE "TERMINATING"
        /\ UNCHANGED <<removals, is_open, to_engine>>
    BY <1>1, <1>4, <1>5, <1>6 DEF mrcp_server_session_subrequest_remove
  <1>8. to_engine' = to_engine
    BY Zenon, <1>7
  <1>9. CloseSound' /\ Closing' = {} /\ Head(from_engine) \notin Answer
    BY Zenon, <1>1, <1>2, <1>8, ClosedTaken
  <1>10. TeardownSound'
    <2>1. Dispatching' = Dispatching
      BY Zenon, <1>1 DEF Dispatching
    <2> QED
      BY <1>1, <1>4, <1>5, <1>7, <1>9, <2>1 DEF TeardownSound
  <1>11. /\ Out' = Out
         /\ PipeSound(to_engine, owed, from_engine) => PipeSound(to_engine, owed, from_engine)'
    <2>1. from_engine \in Seq(EngineMessages)
      BY Zenon DEF IInv, RestTypeOK
    <2>2. /\ OutOf(to_engine, owed, from_engine) = OutOf(to_engine, owed, Tail(from_engine))
          /\ PipeSound(to_engine, owed, from_engine) =>
                 PipeSound(to_engine, owed, Tail(from_engine))
      BY Zenon, <1>1, <1>9, <2>1, PipeTake
    <2> QED
      BY Zenon, <1>1, <1>8, <2>2 DEF Out
  <1>12. session_state' \in {"TERMINATING", "TERMINATED"}
    BY <1>7
  <1>13. UNCHANGED <<session_request, request_queue, active, calls, next_id, stopped, log,
                     recog_vars>>
    BY Zenon, <1>1
  <1> QED
    BY Zenon, <1>6, <1>9, <1>10, <1>11, <1>12, <1>13, PartGone

\* Another part is gone.
LEMMA RemovedStep ==
    ASSUME IInv, IInv', AnswersInv, OtherPartRemoved, UNCHANGED recog_vars, UNCHANGED owed
    PROVE  AnswersInv'
  <1>1. /\ removals > 0 /\ session_state = "TERMINATING" /\ subrequest_count > 0
        /\ subrequest_count' = subrequest_count - 1 /\ removals' = removals - 1
        /\ session_state' = IF subrequest_count = 1 THEN "TERMINATED" ELSE session_state
        /\ UNCHANGED <<is_open, to_engine, session_request, request_queue, active,
                       calls, from_engine, next_id, log, stopped>>
    BY Zenon DEF OtherPartRemoved
  <1>2. CloseSound /\ TeardownSound
    BY Zenon DEF AnswersInv
  <1>3. Closing' = Closing /\ CloseSound' /\ Dispatching' = Dispatching /\ Out' = Out
        /\ PipeSound(to_engine, owed, from_engine)' = PipeSound(to_engine, owed, from_engine)
    BY Zenon, <1>1, <1>2 DEF Closing, CloseSound, Dispatching, Out
  <1>4. removals \in Nat /\ subrequest_count \in Nat
    BY ChannelAssumption DEF IInv, StopInv, TeardownTypeOK
  <1>5. TeardownSound'
    <2>1. CASE Closing = {}
      BY <1>1, <1>2, <1>3, <1>4, <2>1 DEF TeardownSound
    <2>2. CASE Closing # {}
      BY <1>1, <1>2, <1>3, <1>4, <2>2 DEF TeardownSound
    <2> QED
      BY Zenon, <2>1, <2>2
  <1>6. session_state' \in {"TERMINATING", "TERMINATED"}
    BY <1>1
  <1>7. UNCHANGED <<session_request, request_queue, active, calls, next_id, stopped, log,
                    recog_vars>>
    BY Zenon, <1>1
  <1> QED
    BY Zenon, <1>1, <1>3, <1>5, <1>6, <1>7, PartGone

-----------------------------------------------------------------------------
(* Responses of the engine *)

\* What is on its way when the server has taken the next message.
Rest == OutOf(to_engine, owed, Tail(from_engine))

\* The server takes a message.
LEMMA TakeFacts ==
    ASSUME IInv, from_engine # <<>>
    PROVE  /\ Head(from_engine) \in EngineMessages
           /\ Rest \subseteq Out
           /\ \A p \in Out : p \in Rest \/ (Head(from_engine) \in Answer /\ p = Pair(Head(from_engine)))
           /\ Head(from_engine) \in Answer => Pair(Head(from_engine)) \in Out
           /\ PipeSound(to_engine, owed, from_engine) =>
                  /\ PipeSound(to_engine, owed, Tail(from_engine))
                  /\ Head(from_engine) \in Answer => \A p \in Rest : p[1] # Head(from_engine).id
  <1> DEFINE m == Head(from_engine)
  <1>1. from_engine \in Seq(EngineMessages)
    BY Zenon DEF IInv, RestTypeOK
  <1>2. m \in EngineMessages
    BY <1>1, PopType
  <1>3. /\ Out = IF m \in Answer THEN Rest \cup {Pair(m)} ELSE Rest
        /\ PipeSound(to_engine, owed, from_engine) =>
               /\ PipeSound(to_engine, owed, Tail(from_engine))
               /\ m \in Answer => \A p \in Rest : p[1] # m.id
    BY Zenon, <1>1, PipeTake DEF Out, Rest
  <1> QED
    BY Zenon, <1>2, <1>3

\* The server takes a message, and sends nothing to the engine.
LEMMA TakeStep ==
    ASSUME IInv, from_engine # <<>>, from_engine' = Tail(from_engine),
           to_engine' = to_engine, owed' = owed
    PROVE  /\ Out' = Rest
           /\ PipeSound(to_engine, owed, from_engine) => PipeSound(to_engine, owed, from_engine)'
  <1>1. Out' = Rest
    BY Zenon DEF Out, Rest
  <1>2. PipeSound(to_engine, owed, from_engine) => PipeSound(to_engine, owed, Tail(from_engine))
    BY Zenon, TakeFacts
  <1> QED
    BY Zenon, <1>1, <1>2

\* What the server knows of a response that it waits for.
LEMMA ExpectedFacts ==
    ASSUME IInv, AnswersInv, ServerIdle, from_engine # <<>>, session_state # "TERMINATED",
           Head(from_engine).type = "RESPONSE", Expected(Head(from_engine))
    PROVE  /\ active_request # NULL /\ active_request.id = Head(from_engine).id
           /\ \/ /\ session_state = "DEACTIVATING" /\ ~active
                 /\ Head(from_engine).method = "STOP"
              \/ /\ session_state # "DEACTIVATING" /\ CleanSound
                 /\ \A p \in Rest : p[1] # active_request.id
                 /\ Proper(active_request) /\ Pair(active_request) \in Out
                 /\ active_request.method = Head(from_engine).method
                 /\ \/ /\ active /\ session_request = active_request
                       /\ FromClient(session_request)
                    \/ is_pending /\ active_request.method = "RECOGNIZE"
  <1> DEFINE m == Head(from_engine)
  <1>1. active_request # NULL /\ active_request.id = m.id
    BY Zenon DEF Expected
  <1>2. m \in Answer /\ Pair(m) \in Out
    <2>1. m \in EngineMessages
      BY Zenon, TakeFacts
    <2>2. m \in Answer
      BY Zenon, <2>1 DEF Answer
    <2> QED
      BY Zenon, <2>2, TakeFacts
  <1>3. Pair(m)[1] = m.id /\ Pair(m)[2] = m.method
    BY Zenon, PairParts
  <1>4. CASE session_state = "DEACTIVATING"
    <2>1. m.method = "STOP"
      BY Zenon, <1>1, <1>2, <1>3, <1>4 DEF AnswersInv, DeactivationSound
    <2>2. ~active
      BY <1>4 DEF AnswersInv, TeardownSound
    <2> QED
      BY Zenon, <1>1, <1>4, <2>1, <2>2
  <1>5. CASE session_state # "DEACTIVATING"
    <2>1. CleanSound
      <3>1. session_state \in SessionStates /\ (session_state = "INITIALIZING" => active)
        BY Zenon DEF IInv, StopInv, TeardownTypeOK, AnswersInv, TeardownSound
      <3>2. Clean
        BY <1>1, <1>5, <3>1 DEF Clean, SessionStates
      <3> QED
        BY Zenon, <3>2 DEF AnswersInv
    <2>2. \A p \in Rest : p[1] # active_request.id
      BY Zenon, <1>1, <1>2, <2>1, TakeFacts DEF CleanSound
    <2>3. IsOut(active_request.id)
      BY Zenon, <1>1, <1>2, <1>3 DEF IsOut
    <2>4. /\ Proper(active_request) /\ Pair(active_request) \in Out
          /\ \/ session_request = active_request
             \/ is_pending /\ active_request.method = "RECOGNIZE"
      BY Zenon, <1>1, <2>1, <2>3 DEF CleanSound, ActiveSound
    <2>5. Pair(active_request) = Pair(m)
      <3>1. Pair(active_request)[1] = active_request.id
        BY Zenon, PairParts
      <3> QED
        BY Zenon, <2>2, <2>4, <3>1, TakeFacts
    <2>6. active_request.method = m.method
      BY Zenon, <2>5, PairParts
    <2>7. session_request = active_request => FromClient(session_request) /\ active
      <3>1. active_request # TerminateMsg
        BY Zenon, <2>4, ControlIsNoRequest DEF Proper
      <3> QED
        BY Zenon, <1>1, <3>1 DEF FromClient, AnswersInv, TeardownSound
    <2> QED
      BY Zenon, <1>1, <1>5, <2>1, <2>2, <2>4, <2>6, <2>7
  <1> QED
    BY Zenon, <1>4, <1>5

\* A message that changes nothing, or an event that is sent to the client.
LEMMA IgnoreStep ==
    ASSUME IInv, IInv', AnswersInv, from_engine # <<>>, Head(from_engine).type # "CLOSED",
           from_engine' = Tail(from_engine),
           UNCHANGED <<session_request, request_queue, active, calls, next_id, stopped, is_pending,
                       active_request, recog, queue, session_vars, to_engine, owed>>,
           state' = state \/ (ServerIdle /\ state' # "RECOGNIZING"),
           Head(from_engine).type = "RESPONSE" => ~Expected(Head(from_engine)),
           Answered' = Answered, OneResponse'
    PROVE  AnswersInv'
  <1> DEFINE m == Head(from_engine)
  <1>1. /\ Out' = Rest
        /\ PipeSound(to_engine, owed, from_engine) => PipeSound(to_engine, owed, from_engine)'
    BY Zenon, TakeStep
  <1>2. Out' \subseteq Out
    BY Zenon, <1>1, TakeFacts
  <1>3. \A p \in Out : active_request # NULL /\ p[1] = active_request.id => p \in Out'
    <2>1. \A p \in Out : p \in Rest \/ (m \in Answer /\ p = Pair(m))
      BY Zenon, TakeFacts
    <2>2. m \in Answer => ~(active_request # NULL /\ Pair(m)[1] = active_request.id)
      BY Zenon, PairParts DEF Answer, Expected
    <2> QED
      BY Zenon, <1>1, <2>1, <2>2
  <1>4. CloseSound' /\ Closing' = Closing
    BY Zenon, QuietClose DEF AnswersInv
  <1>5. Closing' = {} <=> Closing = {}
    BY Zenon, <1>4
  <1>6. UNCHANGED <<session_request, request_queue, active, calls, next_id, stopped,
                    is_pending, active_request, recog, queue, session_vars>>
    BY Zenon
  <1> QED
    BY Zenon, <1>1, <1>2, <1>3, <1>4, <1>5, <1>6, QuietStep

\* The response to the request that is waited for is taken; it may now be in
\* progress.
LEMMA AnsweredParts ==
    ASSUME IInv, AnswersInv, active, CleanSound, ServerIdle, from_engine # <<>>,
           active_request # NULL, Proper(active_request), Pair(active_request) \in Out,
           \A p \in Rest : p[1] # active_request.id,
           Out' = Rest, Resumed' = {}, queue' = queue, stopped' = stopped,
           \/ state' = state /\ recog' = recog
           \/ /\ state' = "RECOGNIZING" /\ recog' = active_request
              /\ active_request.method = "RECOGNIZE"
    PROVE  /\ PendingSound' /\ ResumedFirst' /\ RecogSound' /\ StoppedSound'
           /\ \A p \in Out' : ~OfSession(p) =>
                  /\ \A r \in Pending' : p[1] < r.id
                  /\ state' = "RECOGNIZING" => p[1] < recog'.id
  <1>1. Resumed = {} /\ Pending = queue /\ Pending' = Pending
    BY Zenon, IdleFacts DEF Pending
  <1>2. Out' \subseteq Out /\ \A i : IsOut(i)' => IsOut(i)
    BY Zenon, TakeFacts DEF IsOut
  <1>3. Pair(active_request)[1] = active_request.id /\ IsOut(active_request.id)
    BY Zenon, PairParts DEF IsOut
  <1>4. LiveSound
    BY Zenon DEF AnswersInv
  <1>5. PendingSound'
    BY Zenon, <1>1, <1>2 DEF CleanSound, PendingSound, Proper
  <1>6. ResumedFirst'
    BY Zenon DEF ResumedFirst
  <1>7. \A p \in Out' : p[1] # active_request.id
    BY Zenon
  <1>8. \A r \in Pending : r.id # active_request.id
    BY Zenon, <1>3 DEF CleanSound, PendingSound
  <1>9. active_request.id \notin stopped
    BY Zenon, <1>3, <1>4 DEF LiveSound, StoppedSound
  <1>10. RecogSound' /\ StoppedSound'
    <2>1. CASE recog' = recog
      BY Zenon, <1>1, <1>2, <1>4, <2>1 DEF LiveSound, RecogSound, StoppedSound, Proper
    <2>2. CASE recog' = active_request /\ active_request.method = "RECOGNIZE"
      <3>1. RecogSound'
        <4>1. ~IsOut(recog.id)'
          BY Zenon, <1>7, <2>2 DEF IsOut
        <4> QED
          BY Zenon, <1>1, <1>8, <2>2, <4>1 DEF RecogSound, Proper
      <3>2. StoppedSound'
        BY Zenon, <1>1, <1>2, <1>4, <1>9, <2>2 DEF LiveSound, StoppedSound
      <3> QED
        BY Zenon, <3>1, <3>2
    <2> QED
      BY Zenon, <2>1, <2>2
  <1>11. ASSUME NEW p \in Out', ~OfSession(p)
         PROVE  /\ \A r \in Pending' : p[1] < r.id
                /\ state' = "RECOGNIZING" => p[1] < recog'.id
    <2>1. p \in Out /\ p[1] # active_request.id
      BY Zenon, <1>2
    <2>2. /\ \A r \in Pending : p[1] < r.id
          /\ state = "RECOGNIZING" => p[1] < recog.id
          /\ p[1] <= active_request.id
      BY Zenon, <1>3, <1>4, <1>11, <2>1 DEF LiveSound, OrderSound
    <2>3. p[1] \in Nat /\ active_request.id \in Nat
      BY <2>1, OutTypes DEF Proper, Request
    <2>4. p[1] < active_request.id
      BY <2>1, <2>2, <2>3
    <2>5. \A r \in Pending' : p[1] < r.id
      BY Zenon, <1>1, <2>2
    <2>6. state' = "RECOGNIZING" => p[1] < recog'.id
      BY Zenon, <2>2, <2>4
    <2> QED
      BY Zenon, <2>5, <2>6
  <1> QED
    BY Zenon, <1>5, <1>6, <1>10, <1>11

\* The response is sent to the client.
LEMMA ForwardStep ==
    ASSUME IInv, IInv', AnswersInv, ServerIdle, from_engine # <<>>, session_state # "TERMINATED",
           Head(from_engine).type = "RESPONSE", Expected(Head(from_engine)),
           from_engine' = Tail(from_engine), UNCHANGED <<active, next_id, owed>>,
           Head(from_engine).method # "STOP",
           is_pending => Head(from_engine).method # "RECOGNIZE",
           \/ state' = state /\ recog' = recog
           \/ /\ state' = "RECOGNIZING" /\ recog' = active_request
              /\ Head(from_engine).method = "RECOGNIZE",
           recog_response_dispatch(Head(from_engine), <<>>), UNCHANGED <<queue, stopped>>
    PROVE  AnswersInv'
  <1> DEFINE m == Head(from_engine)
  <1>1. /\ active_request # NULL /\ active_request.id = m.id
        /\ CleanSound /\ (\A p \in Rest : p[1] # active_request.id)
        /\ Proper(active_request) /\ Pair(active_request) \in Out
        /\ active_request.method = m.method
        /\ active /\ session_request = active_request /\ FromClient(session_request)
    BY Zenon, ExpectedFacts
  <1>2. m.rstate \in RequestStates
    <2>1. m \in EngineMessages
      BY Zenon, TakeFacts
    <2> QED
      BY <2>1 DEF EngineMessages
  <1>3. OnResponseDispatch(m, <<>>) /\ to_engine' = to_engine
    BY Zenon, <1>1 DEF recog_response_dispatch
  <1>4. Resumed' = {}
    <2> DEFINE none == <<>>
    <2>1. none = <<>> \/ \E r : none = <<Resume(r)>>
      BY Zenon
    <2>2. ResumedOf(none) = {}
      BY Zenon, CallShapes
    <2>3. OnResponseDispatch(m, none)
      BY Zenon, <1>3
    <2> HIDE DEF none
    <2>4. Resumed' = ResumedOf(none)
      BY Zenon, <2>1, <2>3, NextCall
    <2> QED
      BY Zenon, <2>2, <2>4
  <1>5. /\ Out' = Rest
        /\ PipeSound(to_engine, owed, from_engine)'
    BY Zenon, <1>1, <1>3, TakeStep DEF CleanSound
  <1>6. \/ state' = state /\ recog' = recog
        \/ /\ state' = "RECOGNIZING" /\ recog' = active_request
           /\ active_request.method = "RECOGNIZE"
    BY Zenon, <1>1
  <1>7. queue' = queue /\ stopped' = stopped
    BY Zenon
  <1>8. /\ PendingSound' /\ ResumedFirst' /\ RecogSound' /\ StoppedSound'
        /\ \A p \in Out' : ~OfSession(p) =>
               /\ \A r \in Pending' : p[1] < r.id
               /\ state' = "RECOGNIZING" => p[1] < recog'.id
    BY Zenon, <1>1, <1>4, <1>5, <1>6, <1>7, AnsweredParts
  <1>9. \A p \in Out' : p \in Out /\ p[1] # session_request.id /\ ~OfSession(p)
    BY Zenon, <1>1, <1>5, TakeFacts DEF OfSession
  <1>10. \A r \in Pending' : r \in Pending
    BY Zenon, <1>4, <1>7 DEF Pending
  <1>11. \A i \in stopped' : i \in Handled
    BY Zenon, <1>7, HandledParts DEF Handled
  <1>12. recog' # NULL => recog' = recog \/ recog'.id = session_request.id
    BY Zenon, <1>1, <1>6
  <1>13. m.id = session_request.id
    BY Zenon, <1>1
  <1>14. /\ \A p \in Out', r \in Pending' : p[1] < r.id
         /\ state' = "RECOGNIZING" => \A p \in Out' : p[1] < recog'.id
    BY Zenon, <1>8, <1>9
  <1>15. UNCHANGED <<active, next_id>> /\ m.type # "CLOSED"
    BY Zenon
  <1> HIDE DEF m
  <1> QED
    BY Zenon, <1>1, <1>2, <1>5, <1>8, <1>9, <1>10, <1>11, <1>12, <1>13, <1>14, <1>15, AnswerStep
       DEF m

\* The response to a pending RECOGNIZE is not sent.
LEMMA PendingStep ==
    ASSUME IInv, IInv', AnswersInv, ServerIdle, from_engine # <<>>, session_state # "TERMINATED",
           Head(from_engine).type = "RESPONSE", Expected(Head(from_engine)),
           from_engine' = Tail(from_engine), UNCHANGED <<active, next_id, owed>>,
           Head(from_engine).method = "RECOGNIZE",
           \/ state' = state /\ recog' = recog
           \/ state' = "RECOGNIZING" /\ recog' = active_request,
           UNCHANGED <<active_request, session_request, request_queue, calls, session_vars,
                       to_engine, log, queue, stopped>>
    PROVE  AnswersInv'
  <1> DEFINE m == Head(from_engine)
  <1>1. /\ active_request # NULL /\ session_state # "DEACTIVATING"
        /\ CleanSound /\ (\A p \in Rest : p[1] # active_request.id)
        /\ Proper(active_request) /\ Pair(active_request) \in Out
        /\ active_request.method = "RECOGNIZE"
    BY Zenon, ExpectedFacts
  <1>2. /\ Resumed' = {} /\ ~Dispatching' /\ Pending' = Pending /\ calls' = <<>>
    BY Zenon, IdleFacts DEF ServerIdle, Resumed, Dispatching, Pending
  <1>3. Out' = Rest /\ PipeSound(to_engine, owed, from_engine)'
    BY Zenon, <1>1, TakeStep DEF CleanSound
  <1>4. Out' \subseteq Out /\ \A i : IsOut(i)' => IsOut(i)
    BY Zenon, <1>3, TakeFacts DEF IsOut
  <1>5. ~IsOut(active_request.id)'
    BY Zenon, <1>1, <1>3 DEF IsOut
  <1>6. CleanSound'
    <2>1. PendingSound'
      BY Zenon, <1>1, <1>2, <1>4 DEF CleanSound, PendingSound, Proper
    <2>2. ActiveSound'
      BY Zenon, <1>5 DEF ActiveSound
    <2> QED
      BY Zenon, <1>3, <2>1, <2>2 DEF CleanSound
  <1>7. CallsSound' /\ OneResponse' /\ Answered' = Answered
    BY Zenon, <1>2 DEF AnswersInv, CallsSound, OneResponse, Answered, Responded
  <1>8. CASE ~active
    <2>1. UNCHANGED <<session_vars, active, session_request>> /\ to_engine' = to_engine
      BY Zenon
    <2>2. m.type # "CLOSED"
      BY Zenon
    <2> QED
      BY Zenon, <1>1, <1>2, <1>6, <1>7, <1>8, <2>1, <2>2, DyingStep
  <1>9. CASE active
    <2>1. /\ queue' = queue /\ stopped' = stopped
          /\ \/ state' = state /\ recog' = recog
             \/ /\ state' = "RECOGNIZING" /\ recog' = active_request
                /\ active_request.method = "RECOGNIZE"
      BY Zenon, <1>1
    <2>2. /\ PendingSound' /\ ResumedFirst' /\ RecogSound' /\ StoppedSound'
          /\ \A p \in Out' : ~OfSession(p) =>
                 /\ \A r \in Pending' : p[1] < r.id
                 /\ state' = "RECOGNIZING" => p[1] < recog'.id
      BY Zenon, <1>1, <1>2, <1>3, <1>9, <2>1, AnsweredParts
    <2>3. OrderSound'
      <3>1. \A p : OfSession(p)' <=> OfSession(p)
        BY Zenon DEF OfSession, FromClient
      <3> QED
        BY Zenon, <1>5, <2>2, <3>1 DEF OrderSound
    <2>4. ClientSound'
      <3>1. /\ \A p \in Out : p[1] \in Handled
            /\ \A s \in Pending : s.id \in Handled
            /\ stopped \subseteq Handled /\ Answered \subseteq Handled
            /\ recog # NULL => recog.id \in Handled
        BY Zenon, HandledParts DEF Handled
      <3>2. active_request.id \in Handled
        BY Zenon, <1>1, <3>1, PairParts
      <3> DEFINE X == Handled
      <3>3. /\ \A p \in Out' : p[1] \in X
            /\ \A s \in Pending' : s.id \in X
            /\ stopped' \subseteq X /\ Answered' \subseteq X
            /\ recog' # NULL => recog'.id \in X
        BY Zenon, <1>2, <1>4, <1>7, <2>1, <3>1, <3>2
      <3> HIDE DEF X
      <3>4. Handled' \subseteq X
        BY Zenon, <3>3, HandledParts DEF Handled
      <3>5. \A i \in Handled' : i \in Handled
        BY Zenon, <3>4 DEF X
      <3>6. ClientSound
        BY Zenon, <1>9 DEF AnswersInv, LiveSound
      <3>7. Responded(session_request.id)' => Responded(session_request.id)
        BY Zenon DEF Responded
      <3> QED
        BY Zenon, <1>2, <3>5, <3>6, <3>7, ClientStays
    <2>5. LiveSound'
      BY Zenon, <2>2, <2>3, <2>4 DEF LiveSound
    <2>6. UNCHANGED <<session_vars, active>> /\ to_engine' = to_engine /\ m.type # "CLOSED"
      BY Zenon
    <2> QED
      BY Zenon, <1>6, <1>7, <1>9, <2>5, <2>6, LiveStep
  <1> QED
    BY Zenon, <1>8, <1>9

\* The response to a STOP of the client.
LEMMA StopLiveStep ==
    ASSUME IInv, IInv', AnswersInv, ServerIdle, from_engine # <<>>, session_state # "TERMINATED",
           Head(from_engine).type = "RESPONSE", Expected(Head(from_engine)),
           from_engine' = Tail(from_engine), UNCHANGED <<active, next_id, owed>>,
           session_state # "DEACTIVATING", recog_response_stop(Head(from_engine))
    PROVE  AnswersInv'
  <1> DEFINE m == Head(from_engine)
             list == active_request.list
             kept == recog_pending_requests_remove(list)
  <1>1. /\ active_request # NULL /\ active_request.id = m.id
        /\ CleanSound /\ (\A p \in Rest : p[1] # active_request.id)
        /\ Proper(active_request) /\ Pair(active_request) \in Out
        /\ active /\ session_request = active_request /\ FromClient(session_request)
    <2>1. m.method = "STOP"
      BY Zenon DEF recog_response_stop
    <2>2. m.method # "RECOGNIZE"
      BY <2>1
    <2> QED
      BY Zenon, <2>2, ExpectedFacts
  <1>2. m.rstate \in RequestStates
    <2>1. m \in EngineMessages
      BY Zenon, TakeFacts
    <2> QED
      BY <2>1 DEF EngineMessages
  <1>3. /\ state' = "IDLE" /\ recog' = NULL
        /\ stopped' = stopped \cup RemovedIds(list) \cup {r.id : r \in {recog} \ {NULL}}
    BY Zenon DEF recog_response_stop, recog_state_change
  <1>4. kept \subseteq queue /\ \A i \in RemovedIds(list) : \E r \in queue : r.id = i /\ r \notin kept
    BY Zenon DEF recog_pending_requests_remove, RemovedIds
  <1>5. PICK rest : /\ recog_response_dispatch(m, rest)
                    /\ rest = <<>> \/ \E r : rest = <<Resume(r)>>
                    /\ ResumedOf(rest) \cup queue' = kept
                    /\ ResumedOf(rest) \cap queue' = {}
                    /\ \A r \in ResumedOf(rest), s \in queue' : r.id <= s.id
    <2>1. CASE kept = {} /\ queue' = {} /\ recog_response_dispatch(m, <<>>)
      <3> DEFINE none == <<>>
      <3>1. ResumedOf(none) = {} /\ none = <<>> /\ recog_response_dispatch(m, none)
        BY Zenon, <2>1, CallShapes
      <3> HIDE DEF none
      <3>2. /\ ResumedOf(none) \cup queue' = kept /\ ResumedOf(none) \cap queue' = {}
            /\ \A r \in ResumedOf(none), s \in queue' : r.id <= s.id
        BY Zenon, <2>1, <3>1
      <3> QED
        BY Zenon, <3>1, <3>2
    <2>2. ASSUME NEW r \in kept, IsFront(r, kept), queue' = kept \ {r},
                 recog_response_dispatch(m, <<Resume(r)>>)
          PROVE  /\ ResumedOf(<<Resume(r)>>) \cup queue' = kept
                 /\ ResumedOf(<<Resume(r)>>) \cap queue' = {}
                 /\ \A t \in ResumedOf(<<Resume(r)>>), s \in queue' : t.id <= s.id
      <3>1. ResumedOf(<<Resume(r)>>) = {r}
        BY Zenon, CallShapes
      <3> QED
        BY Zenon, <2>2, <3>1 DEF IsFront
    <2> QED
      BY Zenon, <2>1, <2>2 DEF recog_response_stop
  <1>6. OnResponseDispatch(m, rest) /\ to_engine' = to_engine
    BY Zenon, <1>1, <1>5 DEF recog_response_dispatch
  <1>7. Resumed' = ResumedOf(rest)
    BY Zenon, <1>5, <1>6, NextCall
  <1>8. Pending = queue /\ Pending' = kept
    BY Zenon, <1>5, <1>7, IdleFacts DEF Pending
  <1> HIDE DEF kept, list
  <1>9. /\ Out' = Rest
        /\ PipeSound(to_engine, owed, from_engine)'
    BY Zenon, <1>1, <1>6, TakeStep DEF CleanSound
  <1>10. /\ Out' \subseteq Out /\ \A i : IsOut(i)' => IsOut(i)
    BY Zenon, <1>9, TakeFacts DEF IsOut
  <1>11. /\ \A r \in Pending : Proper(r) /\ ~IsOut(r.id)
         /\ \A r, s \in Pending : r.id = s.id => r = s
    BY Zenon, <1>1 DEF CleanSound, PendingSound
  <1>12. LiveSound
    BY Zenon, <1>1 DEF AnswersInv
  <1>13. PendingSound'
    BY Zenon, <1>4, <1>5, <1>7, <1>8, <1>10, <1>11 DEF PendingSound, Proper
  <1>14. ResumedFirst'
    <2>1. ASSUME NEW r \in Resumed', NEW s \in queue'
          PROVE  r.id < s.id
      <3>1. r.id <= s.id /\ r # s /\ r \in Pending /\ s \in Pending
        BY Zenon, <1>4, <1>5, <1>7, <1>8
      <3>2. r.id \in Nat /\ s.id \in Nat /\ r.id # s.id
        BY Zenon, <1>11, <3>1, PendingTypes
      <3> QED
        BY <3>1, <3>2
    <2> QED
      BY Zenon, <2>1 DEF ResumedFirst
  <1>15. RecogSound'
    BY Zenon, <1>3 DEF RecogSound
  <1>16. \A i \in stopped' : i \in stopped \/ i \in RemovedIds(list) \/ (recog # NULL /\ i = recog.id)
    BY Zenon, <1>3
  <1>17. StoppedSound'
    <2>1. ASSUME NEW p \in Out', p[1] \in stopped'
          PROVE  FALSE
      <3>1. p \in Out /\ p[1] \notin stopped
        BY Zenon, <1>10, <1>12 DEF LiveSound, StoppedSound
      <3>2. ~(recog # NULL /\ p[1] = recog.id)
        BY Zenon, <1>12, <3>1 DEF LiveSound, RecogSound, IsOut
      <3>3. p[1] \notin RemovedIds(list)
        <4>1. \A i \in RemovedIds(list) : ~IsOut(i)
          BY <1>4, <1>8, <1>11
        <4> QED
          BY Zenon, <3>1, <4>1 DEF IsOut
      <3> QED
        BY Zenon, <1>16, <2>1, <3>1, <3>2, <3>3
    <2>2. ASSUME NEW r \in Pending', r.id \in stopped'
          PROVE  FALSE
      <3>1. r \in Pending /\ r \in kept
        BY Zenon, <1>4, <1>8
      <3>2. r.id \notin stopped /\ ~(recog # NULL /\ r.id = recog.id)
        BY Zenon, <1>12, <3>1 DEF LiveSound, RecogSound, StoppedSound
      <3>3. r.id \notin RemovedIds(list)
        BY Zenon, <1>4, <1>8, <1>11, <3>1
      <3> QED
        BY Zenon, <1>16, <2>2, <3>2, <3>3
    <2> QED
      BY Zenon, <1>3, <2>1, <2>2 DEF StoppedSound
  <1>18. \A p \in Out' : p \in Out /\ p[1] # session_request.id /\ ~OfSession(p)
    BY Zenon, <1>1, <1>9, <1>10 DEF OfSession
  <1>19. \A p \in Out', r \in Pending' : p[1] < r.id
    BY Zenon, <1>4, <1>8, <1>12, <1>18 DEF LiveSound, OrderSound
  <1>20. \A i \in stopped' : i \in Handled
    <2>1. /\ stopped \subseteq Handled /\ (\A r \in Pending : r.id \in Handled)
          /\ recog # NULL => recog.id \in Handled
      BY Zenon, HandledParts DEF Handled
    <2> QED
      BY Zenon, <1>4, <1>8, <1>16, <2>1
  <1>21. \A r \in Pending' : r \in Pending
    BY Zenon, <1>4, <1>8
  <1>22. m.id = session_request.id /\ m.type # "CLOSED" /\ UNCHANGED <<active, next_id>>
    BY Zenon, <1>1
  <1>23. state' # "RECOGNIZING"
    BY <1>3
  <1>24. \/ rest = <<>>
         \/ (\E r : rest = <<Resume(r)>>) /\ state' = "IDLE" /\ recog' = NULL
    BY Zenon, <1>3, <1>5
  <1> QED
    BY Zenon, <1>1, <1>2, <1>3, <1>5, <1>9, <1>13, <1>14, <1>15, <1>17, <1>18, <1>19, <1>20,
       <1>21, <1>22, <1>23, <1>24, AnswerStep

\* The response to the STOP of the machine itself ends the session.
LEMMA StopDeactivateStep ==
    ASSUME IInv, IInv', AnswersInv, from_engine # <<>>,
           Head(from_engine).type = "RESPONSE",
           from_engine' = Tail(from_engine), UNCHANGED <<active, next_id, owed>>,
           session_state = "DEACTIVATING", recog_response_stop(Head(from_engine))
    PROVE  AnswersInv'
  <1> DEFINE m == Head(from_engine)
             kept == recog_pending_requests_remove(active_request.list)
  <1>1. /\ ~active /\ is_open /\ Closing = {} /\ subrequest_count = 1
        /\ session_request = TerminateMsg /\ CloseSound
    BY DEF AnswersInv, TeardownSound
  <1>2. active_request.list = {}
    BY Zenon DEF AnswersInv, DeactivationSound
  <1>3. kept = {}
    BY Zenon, <1>2 DEF recog_pending_requests_remove, Selected
  <1>4. recog' = NULL /\ recog_response_dispatch(m, <<>>)
    BY Zenon, <1>3 DEF recog_response_stop, recog_state_change
  <1>5. /\ active_request' = NULL /\ mrcp_server_session_subrequest_remove /\ calls' = <<>>
        /\ UNCHANGED <<session_request, request_queue, log>>
    BY Zenon, <1>1, <1>4 DEF recog_response_dispatch
  <1>6. mrcp_server_session_terminate_process
    BY <1>1, <1>5 DEF mrcp_server_session_subrequest_remove
  <1>7. /\ CloseSound' /\ Closing' # {}
        /\ session_state' = "TERMINATING" /\ ~is_open'
        /\ removals' = OtherParts /\ subrequest_count' = removals' + 1
    <2>1. m.type # "CLOSED"
      BY Zenon
    <2> QED
      BY Zenon, <1>1, <1>6, <2>1, TerminateProcessStep
  <1>8. ~active' /\ ~Dispatching' /\ ~Clean'
    BY <1>1, <1>4, <1>5, <1>7 DEF Dispatching, Clean
  <1>9. TeardownSound'
    <2>1. removals' \in Nat
      BY <1>7, ChannelAssumption
    <2> QED
      BY <1>1, <1>5, <1>7, <1>8, <2>1 DEF TeardownSound
  <1>10. CallsSound' /\ OneResponse'
    BY Zenon, <1>5 DEF AnswersInv, CallsSound, OneResponse
  <1>11. DeactivationSound'
    BY <1>7 DEF DeactivationSound
  <1> QED
    BY Zenon, <1>7, <1>8, <1>9, <1>10, <1>11 DEF AnswersInv

\* Every response of the engine.
LEMMA ResponseStep ==
    ASSUME IInv, IInv', AnswersInv, ServerIdle, from_engine # <<>>, session_state # "TERMINATED",
           Head(from_engine).type = "RESPONSE", recog_response_state_update(Head(from_engine)),
           from_engine' = Tail(from_engine), UNCHANGED <<active, next_id, owed>>
    PROVE  AnswersInv'
  <1> DEFINE m == Head(from_engine)
  <1>1. CASE ~Expected(m) /\ DropMessage
    <2>1. /\ UNCHANGED <<session_request, request_queue, active, calls, next_id, stopped, is_pending,
                         active_request, recog, queue, session_vars, to_engine, owed>>
          /\ state' = state /\ m.type # "CLOSED"
      BY Zenon, <1>1 DEF DropMessage, recog_vars
    <2>2. Answered' = Answered /\ OneResponse'
      BY Zenon, <1>1 DEF DropMessage, AnswersInv, Answered, Responded, OneResponse
    <2> QED
      BY Zenon, <1>1, <2>1, <2>2, IgnoreStep
  <1>2. CASE Expected(m) /\ recog_response_recognize(m)
    <2>1. /\ m.method = "RECOGNIZE" /\ UNCHANGED <<queue, stopped>>
          /\ \/ state' = state /\ recog' = recog
             \/ state' = "RECOGNIZING" /\ recog' = active_request
      BY Zenon, <1>2 DEF recog_response_recognize
    <2>2. CASE is_pending
      <3>1. UNCHANGED <<active_request, session_request, request_queue, calls, session_vars,
                        to_engine, log, queue, stopped>>
        BY Zenon, <1>2, <2>2 DEF recog_response_recognize
      <3> QED
        BY Zenon, <1>2, <2>1, <3>1, PendingStep
    <2>3. CASE ~is_pending
      <3>1. recog_response_dispatch(m, <<>>)
        BY Zenon, <1>2, <2>3 DEF recog_response_recognize
      <3>2. m.method # "STOP"
        BY <2>1
      <3> QED
        BY Zenon, <1>2, <2>1, <2>3, <3>1, <3>2, ForwardStep
    <2> QED
      BY Zenon, <2>2, <2>3
  <1>3. CASE Expected(m) /\ recog_response_stop(m)
    BY Zenon, <1>3, StopLiveStep, StopDeactivateStep
  <1>4. CASE Expected(m) /\ recog_response_other(m)
    <2>1. /\ m.method # "STOP" /\ m.method # "RECOGNIZE"
          /\ recog_response_dispatch(m, <<>>)
          /\ UNCHANGED <<queue, stopped>> /\ state' = state /\ recog' = recog
      BY Zenon, <1>4 DEF recog_response_other
    <2> QED
      BY Zenon, <1>4, <2>1, ForwardStep
  <1> QED
    BY Zenon, <1>1, <1>2, <1>3, <1>4 DEF recog_response_state_update

-----------------------------------------------------------------------------
(* Events of the engine *)

\* The client gets an event of the request in progress, and no response.
LEMMA EventLogged ==
    ASSUME IInv, AnswersInv, NEW m, InProgress(m), NEW rstate \in RequestStates,
           OnEventDispatch(m.id, rstate)
    PROVE  /\ Answered' = Answered /\ OneResponse'
           /\ ~active => log' = log
           /\ active => \A i \in Ids : i # recog.id => log'[i] = log[i]
  <1>1. recog # NULL /\ recog.id = m.id /\ OneResponse
    BY Zenon DEF InProgress, AnswersInv
  <1>2. CASE ~active
    <2>1. log' = log
      BY Zenon, <1>2 DEF OnEventDispatch
    <2> QED
      BY Zenon, <1>1, <1>2, <2>1 DEF Answered, Responded, OneResponse
  <1>3. CASE active
    <2>1. LiveSound
      BY Zenon, <1>3 DEF AnswersInv
    <2>2. Proper(recog) /\ recog.id < next_id
      BY Zenon, <1>1, <2>1, AboveParts DEF LiveSound, RecogSound, ClientSound
    <2>3. m.id \in Ids
      BY Zenon, <1>1, <2>2, ClientIds
    <2>4. log \in [Ids -> Seq(LogEntries)] /\ log' = Logged(m.id, <<"event", rstate>>)
      BY Zenon, <1>3 DEF OnEventDispatch, IInv, StopInv, SessionTypeOK
    <2>5. "event" \in {"response", "event"} /\ "event" # "response"
      OBVIOUS
    <2>6. /\ \A i \in Ids : i # m.id => log'[i] = log[i]
          /\ \A i \in Ids : Responded(i)' <=> Responded(i)
          /\ OneResponse'
      BY Zenon, <1>1, <2>3, <2>4, <2>5, LogGrows
    <2> QED
      BY Zenon, <1>1, <1>3, <2>6 DEF Answered
  <1> QED
    BY Zenon, <1>2, <1>3

\* A pending request takes the place of the one that is complete.
LEMMA CompleteStep ==
    ASSUME IInv, IInv', AnswersInv, ServerIdle, from_engine # <<>>, session_state # "TERMINATED",
           Head(from_engine).type = "EVENT", from_engine' = Tail(from_engine),
           UNCHANGED <<active, next_id, owed>>,
           InProgress(Head(from_engine)), ~WaitingForStop, state' # "RECOGNIZING", recog' = recog,
           Answered' = Answered, OneResponse',
           NEW r \in queue, IsFront(r, queue), queue' = queue \ {r}, is_pending' = TRUE,
           active_request' = r, SendToEngine(r),
           UNCHANGED <<session_request, request_queue, session_vars, calls, stopped>>
    PROVE  AnswersInv'
  <1> DEFINE m == Head(from_engine)
  <1>1. m \notin Answer /\ m.type # "CLOSED" /\ recog # NULL
    BY DEF Answer, InProgress
  <1>2. session_state # "DEACTIVATING"
    BY Zenon DEF AnswersInv, DeactivationSound
  <1>3. Clean /\ CleanSound
    <2>1. session_state \in SessionStates /\ (session_state = "INITIALIZING" => active)
      BY Zenon DEF IInv, StopInv, TeardownTypeOK, AnswersInv, TeardownSound
    <2>2. Clean
      BY <1>1, <1>2, <2>1 DEF Clean, SessionStates
    <2> QED
      BY Zenon, <2>2 DEF AnswersInv
  <1>4. /\ Resumed = {} /\ Resumed' = {} /\ ~Dispatching /\ Pending = queue
        /\ Pending' = queue \ {r} /\ calls' = <<>>
    BY Zenon, IdleFacts DEF ServerIdle, Resumed, Pending
  <1>5. /\ \A s \in Pending : Proper(s) /\ ~IsOut(s.id)
        /\ \A s, t \in Pending : s.id = t.id => s = t
    BY Zenon, <1>3 DEF CleanSound, PendingSound
  <1>6. \A s \in Pending : s # r => r.id < s.id
    <2>1. ASSUME NEW s \in Pending, s # r
          PROVE  r.id < s.id
      <3>1. r.id <= s.id /\ r.id # s.id /\ r.id \in Nat /\ s.id \in Nat
        BY Zenon, <1>4, <1>5, <2>1, PendingTypes DEF IsFront
      <3> QED
        BY <3>1
    <2> QED
      BY Zenon, <2>1
  <1>7. r \in Request /\ to_engine' = Append(to_engine, r) /\ ~IsOut(r.id)
    BY Zenon, <1>4, <1>5, PendingTypes DEF SendToEngine
  <1>8. Out' = Out \cup {Pair(r)} /\ PipeSound(to_engine, owed, from_engine)'
    <2>1. to_engine \in Seq(Request \cup {CloseMsg})
      BY DEF IInv, StopInv, TeardownTypeOK
    <2>2. Rest = Out /\ PipeSound(to_engine, owed, Tail(from_engine))
      BY Zenon, <1>1, <1>3, TakeFacts DEF CleanSound
    <2>3. \A p \in OutOf(to_engine, owed, Tail(from_engine)) : p[1] # r.id
      BY Zenon, <1>7, <2>2 DEF IsOut, Rest
    <2>4. /\ OutOf(Append(to_engine, r), owed, Tail(from_engine)) =
                 OutOf(to_engine, owed, Tail(from_engine)) \cup {Pair(r)}
          /\ PipeSound(Append(to_engine, r), owed, Tail(from_engine))
      <3> DEFINE T == Tail(from_engine)
      <3> HIDE DEF T
      <3>1. r \in Request
        BY Zenon, <1>7
      <3>2. /\ OutOf(Append(to_engine, r), owed, T) = OutOf(to_engine, owed, T) \cup {Pair(r)}
            /\ PipeSound(to_engine, owed, T) /\ (\A p \in OutOf(to_engine, owed, T) : p[1] # r.id) =>
                   PipeSound(Append(to_engine, r), owed, T)
        BY Zenon, <2>1, <3>1, PipeSend
      <3> QED
        BY Zenon, <2>2, <2>3, <3>2 DEF T
    <2>5. Out' = Rest \cup {Pair(r)}
      BY Zenon, <1>7, <2>4 DEF Out, Rest
    <2>6. PipeSound(to_engine, owed, from_engine)'
      BY Zenon, <1>7, <2>4
    <2> QED
      BY Zenon, <2>2, <2>5, <2>6
  <1>9. r \in Pending /\ Pending' = Pending \ {r}
    BY Zenon, <1>4
  <1>10. \E s \in Request : to_engine' = Append(to_engine, s)
    BY Zenon, <1>7
  <1>11. UNCHANGED <<session_request, request_queue, session_vars, active, next_id, stopped, recog>>
    BY Zenon
  <1> QED
    BY Zenon, <1>1, <1>2, <1>3, <1>4, <1>6, <1>8, <1>9, <1>10, <1>11, SentStep

\* Every event of the engine.
LEMMA EventStep ==
    ASSUME IInv, IInv', AnswersInv, ServerIdle, from_engine # <<>>, session_state # "TERMINATED",
           Head(from_engine).type = "EVENT", recog_event_state_update(Head(from_engine)),
           from_engine' = Tail(from_engine), UNCHANGED <<active, next_id, owed>>
    PROVE  AnswersInv'
  <1> DEFINE m == Head(from_engine)
  <1>1. m.type # "CLOSED" /\ m.type # "RESPONSE"
    OBVIOUS
  <1>2. "IN-PROGRESS" \in RequestStates /\ "COMPLETE" \in RequestStates
    BY DEF RequestStates
  <1>3. ASSUME UNCHANGED <<session_request, request_queue, calls, stopped, is_pending,
                           active_request, recog, queue, session_vars, to_engine>>,
               state' = state \/ state' # "RECOGNIZING",
               Answered' = Answered, OneResponse'
        PROVE  AnswersInv'
    <2>1. UNCHANGED <<session_request, request_queue, active, calls, next_id, stopped, is_pending,
                      active_request, recog, queue, session_vars, to_engine, owed>>
      BY Zenon, <1>3
    <2> QED
      BY Zenon, <1>1, <1>3, <2>1, IgnoreStep
  <1>4. CASE recog_event_start_of_input(m)
    <2>1. Answered' = Answered /\ OneResponse'
      BY Zenon, <1>2, <1>4, EventLogged DEF recog_event_start_of_input
    <2> QED
      BY Zenon, <1>3, <1>4, <2>1 DEF recog_event_start_of_input, recog_vars
  <1>5. CASE recog_event_recognition_complete(m)
    <2>1. /\ InProgress(m) /\ ~WaitingForStop /\ state' = "RECOGNIZED" /\ recog' = recog
          /\ OnEventDispatch(m.id, "COMPLETE")
          /\ UNCHANGED <<session_request, request_queue, session_vars, calls, stopped>>
      BY <1>5 DEF recog_event_recognition_complete, recog_state_change
    <2>2. Answered' = Answered /\ OneResponse'
      BY Zenon, <1>2, <2>1, EventLogged
    <2>3. state' # "RECOGNIZING"
      BY <2>1
    <2>4. CASE UNCHANGED <<is_pending, active_request, queue, to_engine>>
      BY Zenon, <1>3, <2>1, <2>2, <2>3, <2>4
    <2>5. ASSUME NEW r \in queue, IsFront(r, queue), queue' = queue \ {r}, is_pending' = TRUE,
                 active_request' = r, SendToEngine(r)
          PROVE  AnswersInv'
      BY Zenon, <2>1, <2>2, <2>3, <2>5, CompleteStep
    <2> QED
      BY Zenon, <1>5, <2>4, <2>5 DEF recog_event_recognition_complete
  <1>6. CASE DropMessage
    <2>1. Answered' = Answered /\ OneResponse'
      BY Zenon, <1>6 DEF DropMessage, AnswersInv, Answered, Responded, OneResponse
    <2> QED
      BY Zenon, <1>3, <1>6, <2>1 DEF DropMessage, recog_vars
  <1> QED
    BY Zenon, <1>4, <1>5, <1>6 DEF recog_event_state_update

-----------------------------------------------------------------------------
(* The client *)

\* A message of the client reaches the session.
LEMMA ProcessStep ==
    ASSUME IInv, IInv', AnswersInv, ServerIdle, NEW m,
           \/ m = TerminateMsg /\ session_request # TerminateMsg /\ next_id' = next_id
           \/ /\ Proper(m) /\ m.id = next_id /\ next_id <= MaxRequests
              /\ next_id' = next_id + 1,
           mrcp_server_signaling_message_process(m),
           UNCHANGED <<session_vars, active, to_engine, from_engine, log, stopped, recog_vars, owed>>
    PROVE  AnswersInv'
  <1>1. UNCHANGED <<session_state, subrequest_count, removals, is_open, active, to_engine,
                    from_engine, log, stopped, state, is_pending, active_request, recog, queue, owed>>
    BY Zenon DEF session_vars, recog_vars
  <1>2. Resumed = {} /\ ~Dispatching /\ calls = <<>>
    BY Zenon, IdleFacts DEF ServerIdle
  <1>3. /\ Resumed' = Resumed
        /\ \/ calls' = calls /\ session_request' = session_request /\ session_request # NULL
              /\ request_queue' = Append(request_queue, m)
           \/ calls' = <<Dispatch(m)>> /\ session_request' = m /\ session_request = NULL
              /\ request_queue' = request_queue
    BY Zenon, <1>2, CallShapes DEF mrcp_server_signaling_message_process, Resumed
  <1>4. /\ Out' = Out /\ Pending' = Pending /\ Answered' = Answered /\ Closing' = Closing
        /\ CloseSound' /\ OneResponse' /\ WaitingForStop' = WaitingForStop
        /\ \A i : Responded(i)' <=> Responded(i)
    BY Zenon, <1>1, <1>3 DEF Out, Pending, Answered, Responded, Closing, AnswersInv, CloseSound,
       OneResponse, WaitingForStop
  <1>5. Handled' = Handled /\ \A i : IsOut(i)' <=> IsOut(i)
    BY Zenon, <1>1, <1>4 DEF Handled, IsOut
  <1>6. m # NULL /\ next_id \in Nat /\ next_id' \in Nat /\ next_id' >= next_id
    <2>1. next_id \in Nat
      BY DEF IInv, RestTypeOK
    <2>2. m # NULL
      BY NullIsNoRequest DEF Proper
    <2> QED
      BY <2>1, <2>2
  <1>7. FromClient(m) => /\ Proper(m) /\ m.id = next_id /\ next_id' = next_id + 1
                         /\ next_id \in Ids
    BY <1>6 DEF FromClient, Ids, IInv, RestTypeOK
  <1>8. ResumedFirst' = ResumedFirst /\ RecogSound' = RecogSound /\ StoppedSound' = StoppedSound
    BY Zenon, <1>1, <1>3, <1>4, <1>5 DEF ResumedFirst, RecogSound, StoppedSound, Proper
  <1>9. PendingSound' = PendingSound
    BY Zenon, <1>1, <1>3, <1>4, <1>5 DEF PendingSound, Proper
  <1>10. PipeSound(to_engine, owed, from_engine)' = PipeSound(to_engine, owed, from_engine)
    BY Zenon, <1>1
  <1>11. CASE /\ calls' = calls /\ session_request' = session_request /\ session_request # NULL
              /\ request_queue' = Append(request_queue, m)
    <2>1. ~Dispatching' /\ CallsSound'
      BY Zenon, <1>2, <1>11 DEF Dispatching, CallsSound
    <2>2. TeardownSound' /\ DeactivationSound'
      <3>1. TeardownSound /\ DeactivationSound
        BY Zenon DEF AnswersInv
      <3>2. TeardownSound'
        BY <1>1, <1>2, <1>4, <1>11, <2>1, <3>1 DEF TeardownSound
      <3>3. session_state = "DEACTIVATING" =>
                /\ calls = <<>> /\ WaitingForStop /\ active_request.list = {}
                /\ \A p \in Out : p[1] = active_request.id => p[2] = "STOP"
        BY Zenon, <3>1 DEF DeactivationSound
      <3>4. DeactivationSound'
        BY Zenon, <1>1, <1>4, <1>11, <3>3 DEF DeactivationSound
      <3> QED
        BY Zenon, <3>2, <3>4
    <2>3. Clean' => CleanSound'
      <3>1. ASSUME Clean'
            PROVE  Clean
        BY <1>1, <1>11, <3>1 DEF Clean
      <3>2. ASSUME CleanSound
            PROVE  CleanSound'
        <4>1. ActiveSound /\ PendingSound /\ PipeSound(to_engine, owed, from_engine)
          BY Zenon, <3>2 DEF CleanSound
        <4>2. ActiveSound'
          BY Zenon, <1>1, <1>4, <1>5, <1>11, <2>1, <4>1 DEF ActiveSound, Proper
        <4> QED
          BY Zenon, <1>9, <1>10, <4>1, <4>2 DEF CleanSound
      <3> QED
        BY Zenon, <3>1, <3>2 DEF AnswersInv
    <2>4. ASSUME active
          PROVE  LiveSound'
      <3>1. LiveSound
        BY Zenon, <2>4 DEF AnswersInv
      <3>2. OrderSound'
        <4>1. \A p : OfSession(p)' <=> OfSession(p)
          BY Zenon, <1>11 DEF OfSession, FromClient
        <4> QED
          BY Zenon, <1>1, <1>4, <1>5, <3>1, <4>1 DEF LiveSound, OrderSound
      <3>3. ClientSound'
        <4> DEFINE q == request_queue
                   A == Append(request_queue, m)
        <4>1. /\ Above(next_id)
              /\ FromClient(session_request) =>
                     /\ Proper(session_request) /\ session_request.id < next_id
                     /\ ~Responded(session_request.id)
              /\ \A i \in 1 .. Len(q) : FromClient(q[i]) =>
                     /\ Proper(q[i]) /\ q[i].id < next_id /\ Above(q[i].id)
                     /\ FromClient(session_request) => session_request.id < q[i].id
                     /\ \A j \in 1 .. i - 1 : FromClient(q[j]) => q[j].id < q[i].id
          BY Zenon, <3>1 DEF LiveSound, ClientSound
        <4>3. /\ Len(q) \in Nat /\ Len(A) = Len(q) + 1
              /\ \A i \in 1 .. Len(q) : A[i] = q[i]
              /\ A[Len(q) + 1] = m
          <5>1. q \in Seq(Request \cup {TerminateMsg}) /\ m \in Request \cup {TerminateMsg}
            BY Zenon DEF Proper, IInv, StopInv, SessionTypeOK
          <5> QED
            BY <5>1, AppendProperties, LenProperties
        <4> HIDE DEF A, q
        <4>4. \A k \in Handled : k \in Nat /\ k < next_id
          BY Zenon, <4>1, HandledTypes DEF Above
        <4>5. Above(next_id)'
          BY <1>5, <1>6, <4>4 DEF Above
        <4>6. ASSUME NEW i \in 1 .. Len(A), FromClient(A[i])
              PROVE  /\ Proper(A[i]) /\ A[i].id < next_id' /\ (\A k \in Handled : k < A[i].id)
                     /\ FromClient(session_request) => session_request.id < A[i].id
                     /\ \A j \in 1 .. i - 1 : FromClient(A[j]) => A[j].id < A[i].id
          <5>1. CASE i \in 1 .. Len(q)
            <6>1. A[i] = q[i] /\ \A j \in 1 .. i - 1 : A[j] = q[j]
              BY <4>3, <5>1
            <6>2. /\ Proper(q[i]) /\ q[i].id < next_id /\ (\A k \in Handled : k < q[i].id)
                  /\ FromClient(session_request) => session_request.id < q[i].id
                  /\ \A j \in 1 .. i - 1 : FromClient(q[j]) => q[j].id < q[i].id
              BY Zenon, <4>1, <4>6, <5>1, <6>1 DEF Above
            <6>3. q[i].id \in Nat
              BY <6>2 DEF Proper, Request
            <6> QED
              BY <1>6, <6>1, <6>2, <6>3
          <5>2. CASE i = Len(q) + 1
            <6>1. A[i] = m /\ \A j \in 1 .. i - 1 : j \in 1 .. Len(q) /\ A[j] = q[j]
              BY <4>3, <5>2
            <6>2. Proper(m) /\ m.id = next_id /\ next_id' = next_id + 1
              BY Zenon, <1>7, <4>6, <6>1
            <6>3. \A j \in 1 .. Len(q) : FromClient(q[j]) => q[j].id < next_id
              BY Zenon, <4>1
            <6> QED
              BY <1>6, <4>1, <4>4, <6>1, <6>2, <6>3
          <5> QED
            BY <4>3, <5>1, <5>2
        <4>7. FromClient(session_request) => session_request.id < next_id'
          <5>1. FromClient(session_request) => session_request.id \in Nat
            BY <4>1 DEF Proper, Request
          <5> QED
            BY <1>6, <4>1, <5>1
        <4>8. \A i \in 1 .. Len(request_queue') : FromClient(request_queue'[i]) =>
                  /\ Proper(request_queue[i])' /\ request_queue'[i].id < next_id'
                  /\ Above(request_queue[i].id)'
                  /\ FromClient(session_request)' => session_request'.id < request_queue'[i].id
                  /\ \A j \in 1 .. i - 1 : FromClient(request_queue'[j]) =>
                         request_queue'[j].id < request_queue'[i].id
          <5>1. request_queue' = A
            BY Zenon, <1>11 DEF A
          <5> QED
            BY Zenon, <1>5, <1>11, <4>6, <5>1 DEF Above, Proper, FromClient
        <4>9. FromClient(session_request)' =>
                  /\ Proper(session_request)' /\ session_request'.id < next_id'
                  /\ ~Responded(session_request.id)'
                  /\ Dispatching' => Above(session_request.id)'
          BY Zenon, <1>2, <1>4, <1>11, <2>1, <4>1, <4>7 DEF FromClient, Proper, Responded
        <4> QED
          BY Zenon, <4>5, <4>8, <4>9 DEF ClientSound, FromClient
      <3> QED
        BY Zenon, <1>8, <3>1, <3>2, <3>3 DEF LiveSound
    <2>5. active' => LiveSound'
      BY <1>1, <2>4
    <2> QED
      BY Zenon, <1>4, <2>1, <2>2, <2>3, <2>5 DEF AnswersInv
  <1>12. CASE /\ calls' = <<Dispatch(m)>> /\ session_request' = m /\ session_request = NULL
              /\ request_queue' = request_queue
    <2>1. active /\ LiveSound /\ CleanSound /\ request_queue = <<>>
      <3>1. active
        BY Zenon, <1>12, NullIsNoRequest DEF AnswersInv, TeardownSound
      <3> QED
        BY Zenon, <1>12, <3>1 DEF AnswersInv, Clean, CallsSound
    <2>2. CallsSound'
      BY Zenon, <1>6, <1>12, <2>1 DEF CallsSound
    <2>3. ActiveSound'
      <3>1. active_request # NULL /\ IsOut(active_request.id) =>
                /\ Proper(active_request) /\ Pair(active_request) \in Out
                /\ is_pending /\ active_request.method = "RECOGNIZE"
        BY Zenon, <1>12, <2>1 DEF CleanSound, ActiveSound
      <3> QED
        BY Zenon, <1>1, <1>4, <1>5, <3>1 DEF ActiveSound, Proper
    <2>4. OrderSound'
      <3>1. \A p : ~OfSession(p)
        BY Zenon, <1>12 DEF OfSession, FromClient
      <3> QED
        BY Zenon, <1>1, <1>4, <1>5, <2>1, <3>1 DEF LiveSound, OrderSound
    <2>5. ClientSound'
      <3>1. \A k \in Handled : k \in Nat /\ k < next_id
        BY Zenon, <2>1, HandledTypes DEF LiveSound, ClientSound, Above
      <3>2. Above(next_id)'
        BY <1>5, <1>6, <3>1 DEF Above
      <3>3. next_id \in Ids => ~Responded(next_id)
        <4>1. Answered \subseteq Handled
          BY Zenon, HandledParts DEF Handled
        <4>2. next_id \notin Answered
          BY <1>6, <3>1, <4>1
        <4> QED
          BY Zenon, <4>2 DEF Answered
      <3>4. FromClient(session_request)' =>
                /\ Proper(session_request)' /\ session_request'.id < next_id'
                /\ ~Responded(session_request.id)'
                /\ Above(session_request.id)'
        <4>1. ASSUME FromClient(m)
              PROVE  /\ Proper(m) /\ m.id < next_id' /\ ~Responded(next_id)
                     /\ m.id = next_id /\ \A k \in Handled : k < m.id
          BY <1>6, <1>7, <3>1, <3>3, <4>1
        <4>2. FromClient(session_request)' <=> FromClient(m)
          BY Zenon, <1>12 DEF FromClient
        <4>3. Proper(session_request)' <=> Proper(m)
          BY Zenon, <1>12 DEF Proper
        <4>4. ASSUME FromClient(m)
              PROVE  ~Responded(session_request.id)' /\ Above(session_request.id)'
          <5>1. session_request'.id = next_id
            BY Zenon, <1>12, <4>1, <4>4
          <5>2. ~HasResponse(log[next_id]) /\ log' = log
            BY Zenon, <1>1, <4>1, <4>4 DEF Responded
          <5> QED
            BY Zenon, <1>5, <3>1, <5>1, <5>2 DEF Responded, Above
        <4> QED
          BY Zenon, <1>12, <4>1, <4>2, <4>3, <4>4
      <3>5. \A i \in 1 .. Len(request_queue') : FALSE
        BY <1>12, <2>1
      <3> QED
        BY Zenon, <3>2, <3>4, <3>5 DEF ClientSound, FromClient
    <2>6. CleanSound' /\ LiveSound'
      BY Zenon, <1>8, <1>9, <1>10, <2>1, <2>3, <2>4, <2>5 DEF CleanSound, LiveSound
    <2>7. /\ UNCHANGED <<session_vars, active>> /\ to_engine' = to_engine
          /\ from_engine' = from_engine
      BY Zenon
    <2> QED
      BY Zenon, <1>4, <2>1, <2>2, <2>6, <2>7, LiveStep
  <1> QED
    BY Zenon, <1>3, <1>11, <1>12

\* Every step of the client.
LEMMA ClientAnswers ==
    ASSUME IInv, IInv', AnswersInv, ClientStep, UNCHANGED engine_vars
    PROVE  AnswersInv'
  <1>1. UNCHANGED recog_vars /\ UNCHANGED owed
    BY Zenon DEF ClientStep, engine_vars
  <1>2. ASSUME NEW method \in Methods, NEW list \in IF method = "STOP" THEN StopLists ELSE {{}},
               ClientRequest(method, list)
        PROVE  AnswersInv'
    <2> DEFINE m == [id |-> next_id, method |-> method, list |-> list]
    <2>1. /\ ServerIdle /\ next_id <= MaxRequests /\ next_id' = next_id + 1
          /\ mrcp_server_signaling_message_process(m)
          /\ UNCHANGED <<session_vars, active, to_engine, from_engine, log, stopped>>
      BY Zenon, <1>2 DEF ClientRequest
    <2>2. list \in SUBSET Ids
      BY <1>2, RecogAssumption
    <2>3. next_id \in Nat /\ next_id >= 1
      BY DEF IInv, RestTypeOK
    <2>4. Proper(m) /\ m.id = next_id
      <3>1. m \in Request /\ m.id = next_id /\ m.method = method /\ m.list = list
        BY <2>2, <2>3 DEF Request
      <3>2. method = "RECOGNIZE" => list = {}
        BY <1>2
      <3> QED
        BY <2>3, <3>1, <3>2 DEF Proper
    <2>5. UNCHANGED <<session_vars, active, to_engine, from_engine, log, stopped, recog_vars, owed>>
      BY Zenon, <1>1, <2>1
    <2> HIDE DEF m
    <2> QED
      BY Zenon, <2>1, <2>4, <2>5, ProcessStep
  <1>3. CASE ClientTerminate
    <2>1. /\ ServerIdle /\ session_request # TerminateMsg /\ next_id' = next_id
          /\ mrcp_server_signaling_message_process(TerminateMsg)
      BY Zenon, <1>3 DEF ClientTerminate, TerminateRequested
    <2>2. UNCHANGED <<session_vars, active, to_engine, from_engine, log, stopped, recog_vars, owed>>
      BY Zenon, <1>1, <1>3 DEF ClientTerminate
    <2> QED
      BY Zenon, <2>1, <2>2, ProcessStep
  <1> QED
    BY Zenon, <1>2, <1>3 DEF ClientStep

-----------------------------------------------------------------------------
(* The inductive invariant *)

\* Every step of the server task.
LEMMA ServerAnswers ==
    ASSUME IInv, IInv', AnswersInv, ServerStep, UNCHANGED engine_vars
    PROVE  AnswersInv'
  <1>1. owed' = owed
    BY Zenon DEF engine_vars
  <1>2. CASE DispatchSignaling
    <2>1. Dispatching
      BY Zenon, <1>2 DEF DispatchSignaling, Dispatching
    <2>2. Head(calls).msg = session_request
      BY Zenon, <2>1, DispatchFacts DEF AnswersInv
    <2>3. CASE /\ session_request # TerminateMsg
               /\ recog_request_state_update(session_request)
               /\ UNCHANGED <<active, from_engine, next_id>>
      <3>1. UNCHANGED <<active, from_engine, next_id, owed>>
        BY Zenon, <1>1, <2>3
      <3> QED
        BY Zenon, <2>1, <2>3, <3>1, RequestStep
    <2>4. CASE recog_state_deactivate(session_request)
      BY Zenon, <1>1, <2>1, <2>4, DeactivateStep
    <2> QED
      BY Zenon, <1>2, <2>2, <2>3, <2>4 DEF DispatchSignaling
  <1>3. CASE ResumePending
    BY Zenon, <1>1, <1>3, ResumeStep
  <1>4. CASE mrcp_server_on_engine_channel_message
    <2>1. /\ ServerIdle /\ from_engine # <<>> /\ session_state # "TERMINATED"
          /\ from_engine' = Tail(from_engine) /\ UNCHANGED <<active, next_id, owed>>
      BY Zenon, <1>1, <1>4 DEF mrcp_server_on_engine_channel_message
    <2>2. \/ /\ Head(from_engine).type = "RESPONSE"
             /\ recog_response_state_update(Head(from_engine))
          \/ /\ Head(from_engine).type = "EVENT"
             /\ recog_event_state_update(Head(from_engine))
      BY Zenon, <1>4 DEF mrcp_server_on_engine_channel_message
    <2> QED
      BY Zenon, <2>1, <2>2, ResponseStep, EventStep
  <1>5. CASE mrcp_server_on_engine_channel_close /\ UNCHANGED recog_vars
    BY Zenon, <1>1, <1>5, ClosedStep
  <1>6. CASE OtherPartRemoved /\ UNCHANGED recog_vars
    BY Zenon, <1>1, <1>6, RemovedStep
  <1> QED
    BY Zenon, <1>2, <1>3, <1>4, <1>5, <1>6 DEF ServerStep

\* Nothing has happened yet.
LEMMA InitAnswers == Init => AnswersInv
  <1> SUFFICES ASSUME Init PROVE AnswersInv
    OBVIOUS
  <1>1. /\ session_request = NULL /\ request_queue = <<>> /\ session_state = "INITIALIZING"
        /\ subrequest_count = 0 /\ removals = 0 /\ active = TRUE /\ is_open = TRUE
        /\ calls = <<>> /\ to_engine = <<>> /\ from_engine = <<>> /\ next_id = 1
        /\ log = [i \in Ids |-> <<>>] /\ stopped = {} /\ state = "IDLE"
        /\ active_request = NULL /\ recog = NULL /\ queue = {} /\ owed = {}
    BY Zenon DEF Init, ServerInit, EngineInit, mrcp_server_session_create,
       mrcp_recog_state_machine_create
  <1>2. \A K : Pairs(<<>>, K) = {} /\ Distinct(<<>>, K)
    BY DEF Pairs, Distinct
  <1>3. Out = {} /\ Closing = {} /\ PipeSound(to_engine, owed, from_engine)
    BY Zenon, <1>1, <1>2 DEF Out, OutOf, OwedPairs, Closing, PipeSound, Apart
  <1>4. Resumed = {} /\ Pending = {} /\ ~Dispatching
    BY Zenon, <1>1, CallShapes DEF Resumed, Pending, Dispatching
  <1>5. OneResponse /\ Answered = {}
    <2>1. \A i \in Ids : log[i] = <<>>
      BY Zenon, <1>1
    <2>2. HasOneResponse(<<>>) /\ ~HasResponse(<<>>)
      BY DEF HasOneResponse, HasResponse
    <2> QED
      BY Zenon, <2>1, <2>2 DEF OneResponse, Answered, Responded
  <1>6. CallsSound
    BY Zenon, <1>1 DEF CallsSound
  <1>7. CloseSound
    <2>1. \A i \in 1 .. Len(from_engine) : FALSE
      BY <1>1
    <2> QED
      BY Zenon, <1>1, <1>2, <2>1 DEF CloseSound, Apart
  <1>8. TeardownSound
    BY <1>1, <1>3 DEF TeardownSound
  <1>9. DeactivationSound
    BY <1>1 DEF DeactivationSound
  <1>10. CleanSound
    BY Zenon, <1>1, <1>3, <1>4 DEF CleanSound, PendingSound, ActiveSound
  <1>11. LiveSound
    <2>1. Handled = {}
      <3> DEFINE X == {}
      <3>1. /\ \A p \in Out : p[1] \in X
            /\ \A r \in Pending : r.id \in X
            /\ stopped \subseteq X /\ Answered \subseteq X
            /\ recog # NULL => recog.id \in X
        BY Zenon, <1>1, <1>3, <1>4, <1>5
      <3> HIDE DEF X
      <3>2. Handled \subseteq X
        BY Zenon, <3>1, HandledParts DEF Handled
      <3> QED
        BY Zenon, <3>2 DEF X
    <2>2. \A i \in 1 .. Len(request_queue) : FALSE
      BY <1>1
    <2>3. ClientSound
      BY Zenon, <1>1, <2>1, <2>2 DEF ClientSound, Above, FromClient
    <2>4. OrderSound /\ ResumedFirst /\ RecogSound /\ StoppedSound
      BY Zenon, <1>1, <1>3, <1>4 DEF OrderSound, ResumedFirst, RecogSound, StoppedSound
    <2> QED
      BY Zenon, <2>3, <2>4 DEF LiveSound
  <1> QED
    BY Zenon, <1>5, <1>6, <1>7, <1>8, <1>9, <1>10, <1>11 DEF AnswersInv

\* Every step, whoever takes it.
LEMMA NextAnswers == IInv /\ AnswersInv /\ [Next]_vars => AnswersInv'
  <1> SUFFICES ASSUME IInv, AnswersInv, [Next]_vars PROVE AnswersInv'
    OBVIOUS
  <1>1. IInv'
    BY NextInv
  <1>2. CASE ServerStep /\ UNCHANGED engine_vars
    BY Zenon, <1>1, <1>2, ServerAnswers
  <1>3. CASE EngineStep
    BY Zenon, <1>1, <1>3, EngineAnswers
  <1>4. CASE ClientStep /\ UNCHANGED engine_vars
    BY Zenon, <1>1, <1>4, ClientAnswers
  <1>5. CASE UNCHANGED vars
    <2>1. /\ UNCHANGED <<session_request, request_queue, active, calls, next_id, stopped,
                         is_pending, active_request, recog, queue, session_vars>>
          /\ state' = state
          /\ UNCHANGED <<to_engine, from_engine, owed, log>>
      BY Zenon, <1>5 DEF vars, server_vars, engine_vars, channel_vars, recog_vars, session_vars
    <2>2. /\ Out' = Out /\ Closing' = Closing /\ Answered' = Answered
          /\ PipeSound(to_engine, owed, from_engine)' = PipeSound(to_engine, owed, from_engine)
          /\ CloseSound' /\ OneResponse'
      BY Zenon, <2>1 DEF Out, Closing, Answered, Responded, AnswersInv, CloseSound, OneResponse
    <2>3. /\ Out' \subseteq Out /\ (Closing' = {} <=> Closing = {})
          /\ \A p \in Out : active_request # NULL /\ p[1] = active_request.id => p \in Out'
          /\ PipeSound(to_engine, owed, from_engine) => PipeSound(to_engine, owed, from_engine)'
      BY Zenon, <2>2
    <2> QED
      BY Zenon, <1>1, <2>1, <2>2, <2>3, QuietStep
  <1> QED
    BY Zenon, <1>2, <1>3, <1>4, <1>5 DEF Next, Terminated

\* The invariant holds in every reachable state.
LEMMA AnswersAlways == Spec => [](IInv /\ AnswersInv)
  <1>1. Init => IInv /\ AnswersInv
    BY InitInv, InitAnswers
  <1>2. (IInv /\ AnswersInv) /\ [Next]_vars => (IInv /\ AnswersInv)'
    BY NextInv, NextAnswers
  <1> QED
    BY <1>1, <1>2, PTL DEF Spec

-----------------------------------------------------------------------------
(* What it implies *)

\* An element of a queue counts.
LEMMA InPairs ==
    ASSUME NEW S, NEW s \in Seq(S), NEW i \in DOMAIN s, NEW K, s[i] \in K
    PROVE  Pair(s[i]) \in Pairs(s, K)
  <1>1. i \in 1 .. Len(s)
    BY LenProperties
  <1> QED
    BY Zenon, <1>1 DEF Pairs

\* There is one request for an id.
LEMMA PipeUnique ==
    ASSUME NEW to, NEW o, NEW from, PipeSound(to, o, from),
           NEW p \in OutOf(to, o, from), NEW q \in OutOf(to, o, from), p[1] = q[1]
    PROVE  p = q
  <1>1. ASSUME NEW s, NEW K, Distinct(s, K), p \in Pairs(s, K), q \in Pairs(s, K)
        PROVE  p = q
    <2>1. PICK i \in 1 .. Len(s) : s[i] \in K /\ p = Pair(s[i])
      BY Zenon, <1>1 DEF Pairs
    <2>2. PICK j \in 1 .. Len(s) : s[j] \in K /\ q = Pair(s[j])
      BY Zenon, <1>1 DEF Pairs
    <2>3. s[i].id = s[j].id
      BY Zenon, <2>1, <2>2, PairParts
    <2>4. i = j
      BY Zenon, <1>1, <2>1, <2>2, <2>3 DEF Distinct
    <2> QED
      BY Zenon, <2>1, <2>2, <2>4
  <1>2. ASSUME p \in OwedPairs(o), q \in OwedPairs(o)
        PROVE  p = q
    <2>1. PICK r \in o : p = Pair(r)
      BY Zenon, <1>2 DEF OwedPairs
    <2>2. PICK t \in o : q = Pair(t)
      BY Zenon, <1>2 DEF OwedPairs
    <2>3. r = t
      BY Zenon, <2>1, <2>2, PairParts DEF PipeSound
    <2> QED
      BY Zenon, <2>1, <2>2, <2>3
  <1> QED
    BY Zenon, <1>1, <1>2 DEF OutOf, PipeSound, Apart

\* recog_response_stop reads the id of the request in progress, and there is
\* one whenever a response to the STOP that is waited for is on its way, for
\* every number of requests and every engine that keeps the rules.
THEOREM StopResponseSafe == Spec => []StopResponseHasRecognize
  <1>1. IInv /\ AnswersInv => StopResponseHasRecognize
    <2> SUFFICES ASSUME IInv, AnswersInv, NEW i \in DOMAIN from_engine,
                        from_engine[i].type = "RESPONSE", from_engine[i].method = "STOP",
                        Expected(from_engine[i])
                 PROVE  recog # NULL
      BY Zenon DEF StopResponseHasRecognize
    <2> DEFINE m == from_engine[i]
    <2>1. from_engine \in Seq(EngineMessages)
      BY Zenon DEF IInv, RestTypeOK
    <2>2. m \in Answer
      BY <2>1 DEF Answer
    <2>3. Pair(m) \in Out
      BY Zenon, <2>1, <2>2, InPairs DEF Out, OutOf
    <2>4. /\ active_request # NULL /\ Pair(m)[1] = active_request.id
          /\ Pair(m)[2] = "STOP"
      BY Zenon, PairParts DEF Expected
    <2>5. WaitingForStop
      <3>1. CASE session_state = "DEACTIVATING"
        BY Zenon, <3>1 DEF AnswersInv, DeactivationSound
      <3>2. CASE session_state # "DEACTIVATING"
        <4>1. session_state \in SessionStates /\ (session_state = "INITIALIZING" => active)
          BY Zenon DEF IInv, StopInv, TeardownTypeOK, AnswersInv, TeardownSound
        <4>2. Clean
          BY <2>4, <3>2, <4>1 DEF Clean, SessionStates
        <4>3. Pair(active_request) \in Out /\ PipeSound(to_engine, owed, from_engine)
          BY Zenon, <2>3, <2>4, <4>2 DEF AnswersInv, CleanSound, ActiveSound, IsOut
        <4>4. Pair(active_request) = Pair(m)
          BY Zenon, <2>3, <2>4, <4>3, PairParts, PipeUnique DEF Out
        <4> QED
          BY Zenon, <2>4, <4>4, PairParts DEF WaitingForStop
      <3> QED
        BY Zenon, <3>1, <3>2
    <2> QED
      BY Zenon, <2>5 DEF IInv, StopInv
  <1> QED
    BY <1>1, AnswersAlways, PTL

\* No request of the client gets two responses, whether the machine answers it,
\* the engine does, or a STOP or the end of the session comes in between.
THEOREM AnsweredAtMostOnce == Spec => []AtMostOneResponse
  <1>1. IInv /\ AnswersInv => AtMostOneResponse
    <2> SUFFICES ASSUME IInv, AnswersInv, NEW i \in Ids,
                        NEW j \in DOMAIN log[i], NEW k \in DOMAIN log[i],
                        log[i][j][1] = "response", log[i][k][1] = "response"
                 PROVE  j = k
      BY Zenon DEF AtMostOneResponse
    <2>1. log[i] \in Seq(LogEntries)
      BY Zenon DEF IInv, StopInv, SessionTypeOK
    <2>2. j \in 1 .. Len(log[i]) /\ k \in 1 .. Len(log[i])
      BY <2>1, LenProperties
    <2>3. HasOneResponse(log[i])
      BY Zenon DEF AnswersInv, OneResponse
    <2> QED
      BY Zenon, <2>2, <2>3 DEF HasOneResponse
  <1> QED
    BY <1>1, AnswersAlways, PTL

\* The session ends only when the engine has closed the channel and every other
\* part is removed: the count of subrequests counts nothing twice.
THEOREM EndsLast == Spec => []TerminatedLast
  <1>1. IInv /\ AnswersInv => TerminatedLast
    <2> SUFFICES ASSUME IInv, AnswersInv, session_state = "TERMINATED"
                 PROVE  /\ removals = 0 /\ ~is_open
                        /\ \A i \in DOMAIN to_engine : to_engine[i] # CloseMsg
                        /\ \A i \in DOMAIN from_engine : from_engine[i].type # "CLOSED"
      BY Zenon DEF TerminatedLast
    <2>1. /\ removals \in Nat /\ to_engine \in Seq(Request \cup {CloseMsg})
          /\ from_engine \in Seq(EngineMessages)
      BY ChannelAssumption DEF IInv, StopInv, TeardownTypeOK, RestTypeOK
    <2>2. /\ ~is_open /\ subrequest_count = 0
          /\ subrequest_count = removals + IF Closing = {} THEN 0 ELSE 1
      BY DEF AnswersInv, TeardownSound
    <2>3. removals = 0 /\ Closing = {}
      BY <2>1, <2>2
    <2>4. ASSUME NEW i \in DOMAIN to_engine, to_engine[i] = CloseMsg
          PROVE  FALSE
      <3> DEFINE K == {CloseMsg}
      <3>1. to_engine[i] \in K
        BY Zenon, <2>4
      <3>2. Closing = Pairs(to_engine, K) \cup Pairs(from_engine, Closed)
        BY Zenon DEF Closing
      <3> HIDE DEF K
      <3> QED
        BY Zenon, <2>1, <2>3, <3>1, <3>2, InPairs
    <2>5. ASSUME NEW i \in DOMAIN from_engine, from_engine[i].type = "CLOSED"
          PROVE  FALSE
      <3>1. i \in 1 .. Len(from_engine)
        BY <2>1, LenProperties
      <3>2. from_engine[i] \in Closed
        BY Zenon, <2>5, <3>1 DEF AnswersInv, CloseSound
      <3> QED
        BY Zenon, <2>1, <2>3, <3>2, InPairs DEF Closing
    <2> QED
      BY Zenon, <2>2, <2>3, <2>4, <2>5
  <1> QED
    BY <1>1, AnswersAlways, PTL

\* The log changes in one place.
LEMMA LoggedElsewhere ==
    ASSUME IInv, NEW id, NEW e, log' = Logged(id, e)
    PROVE  \A i \in Ids : i # id => log'[i] = log[i]
  <1>1. log \in [Ids -> Seq(LogEntries)]
    BY Zenon DEF IInv, StopInv, SessionTypeOK
  <1> QED
    BY Zenon, <1>1 DEF Logged

\* A request of the client changes no log but its own.
LEMMA RequestSilent ==
    ASSUME IInv, AnswersInv, Dispatching, session_request # TerminateMsg,
           recog_request_state_update(session_request)
    PROVE  \A i \in stopped \cap Ids : log'[i] = log[i]
  <1> DEFINE q == session_request
  <1>1. active /\ q.id \in Nat /\ (\A i \in stopped : i < q.id)
    BY Zenon, NewFacts
  <1>2. \A i \in stopped : i # q.id
    BY <1>1
  <1>3. CASE log' = log
    BY Zenon, <1>3
  <1>4. ASSUME NEW rstate, ImmediateResponse(q, rstate)
        PROVE  \A i \in stopped \cap Ids : log'[i] = log[i]
    <2> DEFINE m == EngineMessage("RESPONSE", q.id, q.method, rstate)
    <2>1. m.id = q.id
      BY DEF EngineMessage
    <2>2. recog_response_dispatch(m, Tail(calls))
      BY Zenon, <1>4 DEF ImmediateResponse
    <2> HIDE DEF m
    <2>3. log' = Logged(m.id, <<"response", m.rstate>>)
      BY Zenon, <1>1, <2>2 DEF recog_response_dispatch, OnResponseDispatch
    <2> QED
      BY Zenon, <1>2, <2>1, <2>3, LoggedElsewhere
  <1>5. \/ recog_request_dispatch(q, Tail(calls))
        \/ \E rstate : ImmediateResponse(q, rstate)
    BY Zenon DEF recog_request_state_update, recog_request_direct,
       recog_request_define_grammar, recog_request_recognize, recog_request_get_result,
       recog_request_recognition_start_timers, recog_request_stop
  <1> QED
    BY Zenon, <1>3, <1>4, <1>5 DEF recog_request_dispatch

\* A response that is waited for is of a request that is not stopped.
LEMMA ResponseSilent ==
    ASSUME IInv, AnswersInv, ServerIdle, from_engine # <<>>, session_state # "TERMINATED",
           Head(from_engine).type = "RESPONSE", recog_response_state_update(Head(from_engine))
    PROVE  \A i \in stopped \cap Ids : log'[i] = log[i]
  <1> DEFINE m == Head(from_engine)
  <1>1. CASE log' = log
    BY Zenon, <1>1
  <1>2. ASSUME Expected(m), NEW rest, recog_response_dispatch(m, rest)
        PROVE  \A i \in stopped \cap Ids : log'[i] = log[i]
    <2>1. CASE ~active
      BY Zenon, <1>1, <1>2, <2>1 DEF recog_response_dispatch
    <2>2. CASE active
      <3>1. log' = Logged(m.id, <<"response", m.rstate>>)
        BY Zenon, <1>2, <2>2 DEF recog_response_dispatch, OnResponseDispatch
      <3>2. active_request.id = m.id /\ Pair(active_request) \in Out
        BY Zenon, <1>2, <2>2, ExpectedFacts
      <3>3. m.id \notin stopped
        BY Zenon, <2>2, <3>2, PairParts DEF AnswersInv, LiveSound, StoppedSound
      <3> QED
        BY Zenon, <3>1, <3>3, LoggedElsewhere
    <2> QED
      BY Zenon, <2>1, <2>2
  <1>3. log' = log \/ (Expected(m) /\ \E rest : recog_response_dispatch(m, rest))
    BY Zenon DEF recog_response_state_update, DropMessage, recog_response_recognize,
       recog_response_stop, recog_response_other
  <1> QED
    BY Zenon, <1>1, <1>2, <1>3

\* An event is about the request in progress, which is not stopped.
LEMMA EventSilent ==
    ASSUME IInv, AnswersInv, NEW m, recog_event_state_update(m)
    PROVE  \A i \in stopped \cap Ids : log'[i] = log[i]
  <1>1. CASE log' = log
    BY Zenon, <1>1
  <1>2. ASSUME InProgress(m), NEW rstate, OnEventDispatch(m.id, rstate), active
        PROVE  \A i \in stopped \cap Ids : log'[i] = log[i]
    <2>1. m.id \notin stopped
      BY Zenon, <1>2 DEF InProgress, AnswersInv, LiveSound, StoppedSound
    <2>2. log' = Logged(m.id, <<"event", rstate>>)
      BY Zenon, <1>2 DEF OnEventDispatch
    <2> QED
      BY Zenon, <2>1, <2>2, LoggedElsewhere
  <1>3. log' = log \/ (InProgress(m) /\ \E rstate : OnEventDispatch(m.id, rstate))
    BY Zenon DEF recog_event_state_update, DropMessage, recog_event_start_of_input,
       recog_event_recognition_complete
  <1>4. \A rstate : OnEventDispatch(m.id, rstate) /\ ~active => log' = log
    BY Zenon DEF OnEventDispatch
  <1> QED
    BY Zenon, <1>1, <1>2, <1>3, <1>4

\* A request that the response to a STOP lists gets nothing afterwards: no late
\* event of the engine and no response to it reaches the client.
THEOREM StoppedStaysSilent == Spec => StoppedIsSilent
  <1> DEFINE A == \A i \in stopped \cap Ids : log'[i] = log[i]
  <1>1. IInv /\ AnswersInv /\ [Next]_vars => [A]_vars
    <2> SUFFICES ASSUME IInv, AnswersInv, Next PROVE A
      OBVIOUS
    <2>1. CASE log' = log
      BY Zenon, <2>1
    <2>2. CASE DispatchSignaling
      <3>1. Dispatching
        BY Zenon, <2>2 DEF DispatchSignaling, Dispatching
      <3>2. Head(calls).msg = session_request
        BY Zenon, <3>1, DispatchFacts DEF AnswersInv
      <3>3. CASE session_request # TerminateMsg /\ recog_request_state_update(session_request)
        BY Zenon, <3>1, <3>3, RequestSilent
      <3>4. CASE recog_state_deactivate(session_request)
        BY Zenon, <2>1, <3>4 DEF recog_state_deactivate
      <3> QED
        BY Zenon, <2>2, <3>2, <3>3, <3>4 DEF DispatchSignaling
    <2>3. CASE mrcp_server_on_engine_channel_message
      BY Zenon, <2>3, ResponseSilent, EventSilent DEF mrcp_server_on_engine_channel_message
    <2>4. CASE \/ ResumePending \/ mrcp_server_on_engine_channel_close \/ OtherPartRemoved
               \/ EngineStep \/ ClientStep \/ Terminated
      <3>1. log' = log
        BY Zenon, <2>4 DEF ResumePending, recog_request_dispatch,
           mrcp_server_on_engine_channel_close, OtherPartRemoved, EngineStep, EngineReceive,
           EngineRespond, EngineStartOfInput, EngineComplete, EngineOnly, ClientStep,
           ClientRequest, ClientTerminate, Terminated, vars, server_vars, channel_vars
      <3> QED
        BY Zenon, <2>1, <3>1
    <2> QED
      BY Zenon, <2>2, <2>3, <2>4 DEF Next, ServerStep
  <1> QED
    BY <1>1, AnswersAlways, PTL DEF Spec, StoppedIsSilent

=============================================================================
