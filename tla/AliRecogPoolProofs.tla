------------------------- MODULE AliRecogPoolProofs -------------------------
(***************************************************************************)
(* The pools of the Alibaba recognizer for any number of sessions,         *)
(* channels and recognitions: what is lent belongs to one session, and     *)
(* before a session recognizes again nothing is lost.                      *)
(* The invariants of the pools speak of the sessions only; their proof     *)
(* needs what the consumer task and the MPF thread have in their hands,    *)
(* and that the two never work on the same session's pointers.             *)
(* The last part is about the frames in the queues of the channels.        *)
(***************************************************************************)
EXTENDS AliRecogPool, TLAPS

Deleting == mpf.pc \in {"delete_ch", "delete_re"}

\* The shape of the state of the MPF thread.
IsThread(m) == m = [pc |-> m.pc, s |-> m.s, ch |-> m.ch, re |-> m.re]

\* The part of the type invariant that the argument needs.
Types ==
    /\ idle \subseteq Chans /\ busy \subseteq Chans
    /\ rePool \in Seq(Resources)
    /\ AliCh \in [Sessions -> Chans \cup {NULL, GARBAGE}]
    /\ AliRe \in [Sessions -> Resources \cup {NULL, GARBAGE}]
    /\ starts \in [Sessions -> Nat]
    /\ consumer \in [pc : {"idle", "resource", "start", "clear", "drain", "push", "failed"},
                     s : Sessions \cup {NULL}, ch : Chans \cup {NULL},
                     re : Resources \cup {NULL}]
    /\ consumer.pc = "idle" => consumer = IdleConsumer
    /\ consumer.pc # "idle" => consumer.s \in Sessions
    /\ consumer.pc \in {"resource", "start", "clear", "drain", "push"} =>
         consumer.ch \in Chans
    /\ consumer.pc = "resource" => consumer.re = NULL
    /\ consumer.pc \in {"start", "clear", "drain", "push"} => consumer.re \in Resources
    /\ consumer.ch = NULL => consumer.re = NULL
    /\ IsThread(mpf)
    /\ Deleting => mpf.s \in Sessions

\* A session has both a channel and a resource or neither.  The MPF thread
\* gives back those of a session whose stream is closed, which the consumer
\* task no longer works for.
Pointers ==
    /\ \A s \in Sessions : AliCh[s] \in Chans <=> AliRe[s] \in Resources
    /\ Deleting =>
         /\ mpf.s \notin streams
         /\ AliCh[mpf.s] \in Chans /\ mpf.ch = AliCh[mpf.s]
         /\ consumer.s # mpf.s

\* What the consumer task has taken is nobody else's.
Taken ==
    /\ consumer.ch \in Chans =>
         consumer.ch \in busy /\ \A s \in Holders : AliCh[s] # consumer.ch
    /\ consumer.re \in Resources =>
         /\ \A i \in DOMAIN rePool : rePool[i] # consumer.re
         /\ \A s \in Sessions : AliRe[s] # consumer.re

\* A session that has not started a recognition yet, or is starting its first,
\* has no channel that could get lost.
First ==
    /\ \A s \in Sessions : starts[s] = 0 => AliCh[s] \notin Chans
    /\ consumer.pc # "idle" => starts[consumer.s] # 0
    /\ consumer.pc # "idle" /\ starts[consumer.s] <= 1 => AliCh[consumer.s] \notin Chans

IInv ==
    /\ Types
    /\ Pointers
    /\ Taken
    /\ First
    /\ ChannelsExclusive
    /\ ResourcesExclusive
    /\ NothingLost

-----------------------------------------------------------------------------

\* The invariant holds when the engine has been opened.
LEMMA InitIInv == Init => IInv
  <1> SUFFICES ASSUME Init PROVE IInv
    OBVIOUS
  <1> USE PoolAssumption DEF Init, EngineInit
  <1>1. Types
    <2>1. rePool \in Seq(Resources)
      BY DEF Resources
    <2> QED
      BY <2>1 DEF Types, Chans, IdleConsumer, IdleMpf, Deleting, IsThread
  <1>2. Pointers /\ Taken /\ First
    BY DEF Pointers, Taken, First, Deleting, IdleMpf, IdleConsumer, Chans, Resources,
           Holders
  <1>3. ChannelsExclusive /\ NothingLost
    BY DEF ChannelsExclusive, NothingLost, Holders, Chans
  <1>4. ResourcesExclusive
    BY DEF ResourcesExclusive, Chans, Resources
  <1> QED
    BY <1>1, <1>2, <1>3, <1>4 DEF IInv

\* Steps that leave the pools, the pointers and what the threads have taken.
LEMMA Elsewhere ==
  ASSUME IInv, UNCHANGED <<pool_vars, AliCh, AliRe, starts>>, streams' \subseteq streams,
         mpf' = mpf \/ (IsThread(mpf') /\ ~Deleting /\ ~Deleting'),
         consumer' = consumer
  PROVE  IInv'
  <1>1. Holders' = Holders
    BY DEF Holders, Deleting
  <1>2. Types' /\ Pointers'
    <2>1. (Deleting' <=> Deleting) /\ (Deleting => mpf' = mpf) /\ IsThread(mpf')
      BY DEF Deleting, IInv, Types
    <2> QED
      BY <2>1 DEF IInv, Types, Pointers, pool_vars
  <1>3. Taken' /\ First'
    BY <1>1 DEF IInv, Taken, First, pool_vars
  <1>4. ChannelsExclusive' /\ ResourcesExclusive' /\ NothingLost'
    BY <1>1 DEF IInv, ChannelsExclusive, ResourcesExclusive, NothingLost, pool_vars
  <1> QED
    BY <1>2, <1>3, <1>4 DEF IInv

-----------------------------------------------------------------------------
(* EngineReocgStart *)

\* CAliChannelFactory takes a channel from the idle pool, or finds none.
LEMMA NewChannelIInv == ASSUME IInv, NEW s \in Sessions, NewChannel(s) PROVE IInv'
  <1> USE PoolAssumption DEF IInv
  <1>1. /\ consumer = IdleConsumer /\ s \in streams
        /\ starts' = [starts EXCEPT ![s] = @ + 1]
        /\ UNCHANGED <<rePool, AliCh, AliRe, streams, mpf>>
    BY DEF NewChannel, Types
  <1>2. /\ consumer'.s = s /\ consumer'.pc # "idle" /\ consumer'.re = NULL
        /\ Deleting => mpf.s # s
        /\ Holders' = Holders /\ (Deleting' <=> Deleting)
    <2>1. /\ Deleting => mpf.s # s
          /\ Holders' = Holders /\ (Deleting' <=> Deleting)
      BY <1>1 DEF Pointers, Holders, Deleting
    <2>2. \E pc \in {"failed", "resource"}, c \in idle \cup {NULL} :
             consumer' = [pc |-> pc, s |-> s, ch |-> c, re |-> NULL]
      BY Zenon DEF NewChannel, IdleConsumer
    <2> QED
      BY <2>1, <2>2
  <1>3. First' /\ Pointers'
    <2>1. First'
      BY <1>1, <1>2 DEF First, Types
    <2>2. Pointers'
      BY <1>1, <1>2 DEF Pointers, Deleting
    <2> QED
      BY <2>1, <2>2
  <1>4. ResourcesExclusive'
    BY <1>1 DEF ResourcesExclusive
  <1>5. (\A t \in Sessions : starts'[t] <= 1) => \A t \in Sessions : starts[t] <= 1
    BY <1>1 DEF Types
  <1>6. CASE /\ consumer' = [IdleConsumer EXCEPT !.pc = "failed", !.s = s]
             /\ UNCHANGED <<idle, busy>>
    <2>1. consumer' = [pc |-> "failed", s |-> s, ch |-> NULL, re |-> NULL]
      BY Zenon, <1>6 DEF IdleConsumer
    <2>2. Types'
      BY <1>1, <1>2, <1>6, <2>1 DEF Types, Deleting
    <2>3. Taken' /\ ChannelsExclusive' /\ NothingLost'
      BY <1>1, <1>2, <1>5, <1>6, <2>1 DEF Taken, ChannelsExclusive, NothingLost, Chans,
         Resources, IdleConsumer
    <2> QED
      BY <1>3, <1>4, <2>2, <2>3
  <1>7. ASSUME NEW c \in idle,
               consumer' = [pc |-> "resource", s |-> s, ch |-> c, re |-> NULL],
               idle' = idle \ {c}, busy' = busy \cup {c}
        PROVE  IInv'
    <2>1. Types'
      BY <1>1, <1>2, <1>7 DEF Types, Deleting
    <2>2. Taken' /\ ChannelsExclusive'
      BY <1>1, <1>2, <1>7 DEF Taken, ChannelsExclusive, Resources
    <2>3. NothingLost'
      <3>1. SUFFICES ASSUME \A t \in Sessions : starts[t] <= 1, NEW b \in busy
                     PROVE  b \in {AliCh[t] : t \in Holders}
        BY <1>1, <1>2, <1>5, <1>7 DEF NothingLost
      <3>2. b # consumer.ch
        BY <1>1 DEF IdleConsumer, Types, Chans
      <3> QED
        BY <3>1, <3>2 DEF NothingLost
    <2> QED
      BY <1>3, <1>4, <2>1, <2>2, <2>3
  <1> QED
    BY <1>6, <1>7 DEF NewChannel

\* The resource is taken from the end of its pool; without one the
\* start fails.
LEMMA NewResourceIInv == ASSUME IInv, NewResource PROVE IInv'
  <1> USE PoolAssumption DEF IInv
  <1>1. /\ consumer.pc = "resource" /\ consumer.s \in Sessions /\ consumer.ch \in Chans
        /\ consumer.re = NULL
        /\ UNCHANGED <<idle, busy, AliCh, AliRe, starts, streams, mpf>>
    BY DEF NewResource, session_vars, Types
  <1>2. Holders' = Holders /\ (Deleting' <=> Deleting)
    BY <1>1 DEF Holders, Deleting
  <1>3. CASE rePool = <<>> /\ consumer' = [consumer EXCEPT !.pc = "failed"]
             /\ UNCHANGED rePool
    <2>1. /\ consumer'.pc = "failed" /\ consumer'.s = consumer.s
          /\ consumer'.ch = consumer.ch /\ consumer'.re = NULL
          /\ consumer' \in [pc : {"failed"}, s : Sessions \cup {NULL},
                            ch : Chans \cup {NULL}, re : Resources \cup {NULL}]
      BY Zenon, <1>1, <1>3 DEF Types
    <2>2. Types' /\ Pointers'
      BY <1>1, <1>2, <1>3, <2>1 DEF Types, Pointers, Deleting
    <2>3. Taken' /\ First' /\ ChannelsExclusive' /\ ResourcesExclusive' /\ NothingLost'
      BY <1>1, <1>2, <1>3, <2>1 DEF Taken, First, ChannelsExclusive,
         ResourcesExclusive, NothingLost, Resources
    <2> QED
      BY <2>2, <2>3
  <1>4. CASE /\ rePool # <<>>
             /\ consumer' = [consumer EXCEPT !.pc = "start", !.re = rePool[Len(rePool)]]
             /\ rePool' = SubSeq(rePool, 1, Len(rePool) - 1)
    <2> DEFINE r == rePool[Len(rePool)]
    <2>1. /\ Len(rePool) \in DOMAIN rePool /\ r \in Resources
          /\ rePool' \in Seq(Resources)
          /\ Len(rePool') = Len(rePool) - 1
          /\ \A k \in 1 .. Len(rePool') : rePool'[k] = rePool[k]
      <3>1. Len(rePool) \in Nat \ {0} /\ \A k \in 1 .. Len(rePool) : rePool[k] \in Resources
        BY <1>4 DEF Types
      <3>2. rePool' = [k \in 1 .. Len(rePool) - 1 |-> rePool[k]]
        BY <1>4, <3>1
      <3>3. DOMAIN rePool = 1 .. Len(rePool)
        BY DEF Types
      <3> QED
        BY <3>1, <3>2, <3>3
    <2>2. consumer' = [pc |-> "start", s |-> consumer.s, ch |-> consumer.ch, re |-> r]
      BY Zenon, <1>1, <1>4 DEF Types
    <2>3. \A k \in DOMAIN rePool' : k \in DOMAIN rePool /\ rePool'[k] = rePool[k]
                                    /\ k # Len(rePool)
      BY <2>1 DEF Types
    <2>4. ResourcesExclusive'
      BY <1>1, <2>3 DEF ResourcesExclusive
    <2>5. /\ \A k \in DOMAIN rePool' : rePool'[k] # r
          /\ \A s \in Sessions : AliRe[s] # r
      BY <2>1, <2>3 DEF ResourcesExclusive
    <2> HIDE DEF r
    <2>6. Types' /\ Pointers'
      BY <1>1, <1>2, <2>1, <2>2 DEF Types, Pointers, Deleting, Chans
    <2>7. Taken' /\ First' /\ ChannelsExclusive' /\ NothingLost'
      BY <1>1, <1>2, <2>2, <2>5 DEF Taken, First, ChannelsExclusive, NothingLost
    <2> QED
      BY <2>4, <2>6, <2>7
  <1> QED
    BY <1>3, <1>4 DEF NewResource

\* The steps of CAliChannel::Start, and its failure, only move on.
LEMMA MovesOn ==
  ASSUME IInv, UNCHANGED <<pool_vars, AliCh, AliRe, starts, streams, mpf>>,
         consumer.pc \in {"start", "clear", "drain", "push"},
         NEW pc \in {"clear", "drain", "push", "failed"},
         consumer' = [consumer EXCEPT !.pc = pc]
  PROVE  IInv'
  <1> USE PoolAssumption DEF IInv
  <1>1. /\ consumer' \in [pc : {pc}, s : Sessions, ch : Chans, re : Resources]
        /\ consumer'.s = consumer.s /\ consumer'.ch = consumer.ch
        /\ consumer'.re = consumer.re /\ consumer'.pc = pc
    BY Zenon DEF Types
  <1>2. Holders' = Holders /\ (Deleting' <=> Deleting)
    BY DEF Holders, Deleting
  <1>3. Types' /\ Pointers'
    BY <1>1, <1>2 DEF Types, Pointers, Deleting, pool_vars, Chans
  <1>4. Taken' /\ First' /\ ChannelsExclusive' /\ ResourcesExclusive' /\ NothingLost'
    BY <1>1, <1>2 DEF Taken, First, ChannelsExclusive, ResourcesExclusive,
       NothingLost, pool_vars
  <1> QED
    BY <1>3, <1>4

\* The channel's own start leaves pools and pointers alone.
LEMMA StartIInv == ASSUME IInv, Start \/ ClearFrames \/ Drain PROVE IInv'
  <1>1. /\ UNCHANGED <<pool_vars, AliCh, AliRe, starts, streams, mpf>>
        /\ consumer.pc \in {"start", "clear", "drain"}
        /\ \E pc \in {"clear", "drain", "push"} : consumer' = [consumer EXCEPT !.pc = pc]
    BY DEF Start, ClearFrames, Drain, session_vars
  <1> QED
    BY <1>1, MovesOn

\* The worker is pushed: the session gets channel and resource, or the
\* start fails.
LEMMA TaskPushIInv == ASSUME IInv, TaskPush PROVE IInv'
  <1> USE PoolAssumption DEF IInv
  <1> DEFINE s == consumer.s
             c == consumer.ch
             r == consumer.re
  <1>1. /\ consumer.pc = "push" /\ s \in Sessions /\ c \in Chans /\ r \in Resources
        /\ UNCHANGED <<pool_vars, starts, streams, mpf>>
    BY DEF TaskPush, Types
  <1>2. CASE consumer' = [consumer EXCEPT !.pc = "failed"] /\ UNCHANGED <<AliCh, AliRe>>
    BY <1>1, <1>2, MovesOn
  <1>3. CASE /\ AliCh' = [AliCh EXCEPT ![s] = c] /\ AliRe' = [AliRe EXCEPT ![s] = r]
             /\ consumer' = IdleConsumer
    <2>1. Deleting => mpf.s # s
      BY DEF Pointers
    <2>2. /\ \A t \in Sessions \ {s} : /\ AliCh'[t] = AliCh[t] /\ AliRe'[t] = AliRe[t]
                                       /\ t \in Holders' <=> t \in Holders
          /\ AliCh'[s] = c /\ AliRe'[s] = r /\ s \in Holders'
          /\ Holders \subseteq Sessions /\ Holders' \subseteq Sessions
      BY <1>1, <1>3, <2>1 DEF Holders, Types, Deleting
    <2>3. Types'
      BY <1>1, <1>3 DEF Types, Deleting, pool_vars, IdleConsumer
    <2>4. Pointers' /\ First' /\ Taken'
      <3>1. Pointers'
        BY <1>1, <1>3, <2>1, <2>2 DEF Pointers, Deleting, IdleConsumer, Types
      <3>2. First'
        <4>1. starts[s] # 0
          BY <1>1 DEF First
        <4> QED
          BY <1>1, <1>3, <2>2, <4>1 DEF First, IdleConsumer
      <3>3. Taken'
        BY <1>3 DEF Taken, IdleConsumer, Chans, Resources
      <3> QED
        BY <3>1, <3>2, <3>3
    <2>5. ChannelsExclusive' /\ ResourcesExclusive'
      <3>1. ChannelsExclusive'
        BY <1>1, <2>2 DEF ChannelsExclusive, Taken, pool_vars
      <3>2. ResourcesExclusive'
        BY <1>1, <2>2 DEF ResourcesExclusive, Taken, pool_vars
      <3> QED
        BY <3>1, <3>2
    <2>6. NothingLost'
      BY <1>1, <2>2 DEF NothingLost, First, Holders, pool_vars
    <2> QED
      BY <2>3, <2>4, <2>5, <2>6
  <1> QED
    BY <1>2, <1>3 DEF TaskPush

\* A resource that goes back to the pool was not in it.
LEMMA AppendExclusive ==
  ASSUME rePool \in Seq(Resources), NEW r \in Resources,
         \A k \in DOMAIN rePool : rePool[k] # r,
         \A j, k \in DOMAIN rePool : rePool[j] = rePool[k] => j = k,
         rePool' = Append(rePool, r)
  PROVE  /\ rePool' \in Seq(Resources)
         /\ \A j, k \in DOMAIN rePool' : rePool'[j] = rePool'[k] => j = k
         /\ \A k \in DOMAIN rePool' :
              rePool'[k] = r \/ \E j \in DOMAIN rePool : rePool'[k] = rePool[j]
  <1>1. /\ rePool' \in Seq(Resources) /\ DOMAIN rePool' = 1 .. Len(rePool) + 1
        /\ DOMAIN rePool = 1 .. Len(rePool) /\ Len(rePool) \in Nat
        /\ rePool'[Len(rePool) + 1] = r
        /\ \A k \in 1 .. Len(rePool) : rePool'[k] = rePool[k]
    OBVIOUS
  <1> QED
    BY <1>1

\* A start that failed gives back what it has taken.
LEMMA StartFailedIInv == ASSUME IInv, StartFailed PROVE IInv'
  <1> USE PoolAssumption DEF IInv
  <1> DEFINE s == consumer.s
             c == consumer.ch
             r == consumer.re
  <1>1. /\ consumer.pc = "failed" /\ s \in Sessions
        /\ AliCh' = [AliCh EXCEPT ![s] = NULL] /\ AliRe' = [AliRe EXCEPT ![s] = NULL]
        /\ consumer' = IdleConsumer
        /\ UNCHANGED <<starts, streams, mpf>>
    BY DEF StartFailed, Types
  <1>2. NULL \notin Chans /\ NULL \notin Resources
    BY DEF Chans, Resources
  <1>3. /\ \A t \in Sessions \ {s} : /\ AliCh'[t] = AliCh[t] /\ AliRe'[t] = AliRe[t]
                                     /\ t \in Holders' <=> t \in Holders
        /\ AliCh'[s] = NULL /\ AliRe'[s] = NULL /\ s \notin Holders'
        /\ Holders \subseteq Sessions /\ Holders' \subseteq Sessions
        /\ Deleting => mpf.s # s
    BY <1>1, <1>2 DEF Holders, Types, Pointers
  <1>4. /\ idle' \subseteq Chans /\ busy' \subseteq Chans /\ rePool' \in Seq(Resources)
        /\ \A j, k \in DOMAIN rePool' : rePool'[j] = rePool'[k] => j = k
        /\ \A k \in DOMAIN rePool' :
             (rePool'[k] = r /\ r \in Resources) \/ \E j \in DOMAIN rePool : rePool'[k] = rePool[j]
        /\ c \in Chans => idle' = idle \cup {c} /\ busy' = busy \ {c}
        /\ c \notin Chans => UNCHANGED <<idle, busy>>
    <2>1. CASE c = NULL
      BY <1>2, <2>1 DEF StartFailed, pool_vars, Types, ResourcesExclusive
    <2>2. CASE c \in Chans
      <3>1. DeleteChannel(c) /\ DeleteResource(r)
        BY <1>2, <2>2 DEF StartFailed
      <3>2. CASE r = NULL
        BY <2>2, <3>1, <3>2 DEF DeleteChannel, DeleteResource, Types, ResourcesExclusive
      <3>3. CASE r \in Resources
        <4>1. rePool' = Append(rePool, r)
          BY <1>2, <3>1, <3>3 DEF DeleteResource
        <4>2. /\ rePool \in Seq(Resources)
              /\ \A k \in DOMAIN rePool : rePool[k] # r
              /\ \A j, k \in DOMAIN rePool : rePool[j] = rePool[k] => j = k
          BY <3>3 DEF Types, Taken, ResourcesExclusive
        <4> HIDE DEF r
        <4>3. /\ rePool' \in Seq(Resources)
              /\ \A j, k \in DOMAIN rePool' : rePool'[j] = rePool'[k] => j = k
              /\ \A k \in DOMAIN rePool' :
                   rePool'[k] = r \/ \E j \in DOMAIN rePool : rePool'[k] = rePool[j]
          BY SMTT(30), <3>3, <4>1, <4>2, AppendExclusive
        <4> QED
          BY <2>2, <3>1, <3>3, <4>3 DEF DeleteChannel, Types
      <3> QED
        BY <3>2, <3>3 DEF Types
    <2> QED
      BY <2>1, <2>2 DEF Types
  <1>5. Types'
    BY <1>1, <1>4 DEF Types, Deleting, IdleConsumer
  <1>6. Pointers' /\ Taken' /\ First'
    <2>1. Pointers'
      BY <1>1, <1>2, <1>3 DEF Pointers, Deleting, IdleConsumer, Types
    <2>2. Taken' /\ First'
      BY <1>1, <1>2, <1>3 DEF Taken, First, IdleConsumer
    <2> QED
      BY <2>1, <2>2
  <1>7. ChannelsExclusive'
    BY <1>3, <1>4 DEF ChannelsExclusive, Taken
  <1>8. ResourcesExclusive'
    BY <1>2, <1>3, <1>4 DEF ResourcesExclusive, Taken
  <1>9. NothingLost'
    <2>1. SUFFICES ASSUME \A t \in Sessions : starts[t] <= 1, NEW b \in busy'
                   PROVE  b \in {AliCh'[t] : t \in Holders'}
      BY <1>1 DEF NothingLost
    <2>2. b \in busy /\ b # c /\ s \notin Holders
      BY <1>1, <1>2, <1>4, <2>1 DEF First, Holders, Types
    <2>3. b \in {AliCh[t] : t \in Holders}
      BY <2>1, <2>2 DEF NothingLost
    <2>4. PICK t \in Holders : AliCh[t] = b
      BY <2>3
    <2> QED
      BY <1>3, <2>2, <2>4
  <1> QED
    BY <1>5, <1>6, <1>7, <1>8, <1>9

-----------------------------------------------------------------------------
(* The MPF thread *)

\* The MPF thread closes a stream and begins to give back what its session
\* holds.
LEMMA EngineReocgStopIInv ==
  ASSUME IInv, NEW s \in Sessions, EngineReocgStop(s) PROVE IInv'
  <1> USE PoolAssumption DEF IInv
  <1>1. /\ mpf.pc = "idle" /\ streams' = streams \ {s}
        /\ consumer.s # s
        /\ UNCHANGED <<pool_vars, AliCh, AliRe, starts, consumer>>
    BY DEF EngineReocgStop, Types, IdleConsumer
  <1>2. CASE mpf' = mpf
    BY <1>1, <1>2, Elsewhere DEF Deleting
  <1>3. CASE /\ AliCh[s] \in Chans
             /\ mpf' = [IdleMpf EXCEPT !.pc = "delete_ch", !.s = s, !.ch = AliCh[s]]
    <2>1. /\ mpf' = [pc |-> "delete_ch", s |-> s, ch |-> AliCh[s], re |-> NULL]
          /\ AliCh[s] \in Chans /\ IsThread(mpf')
      BY Zenon, <1>3 DEF IdleMpf, IsThread
    <2>2. Holders' = Holders
      BY <1>1, <2>1 DEF Holders
    <2>3. Types' /\ Pointers'
      BY <1>1, <2>1 DEF Types, Pointers, Deleting, pool_vars
    <2>4. Taken' /\ First' /\ ChannelsExclusive' /\ ResourcesExclusive' /\ NothingLost'
      BY <1>1, <2>2, SMTT(20) DEF Taken, First, ChannelsExclusive, ResourcesExclusive,
         NothingLost, pool_vars
    <2> QED
      BY <2>3, <2>4
  <1> QED
    BY <1>2, <1>3 DEF EngineReocgStop

\* The MPF thread gives the channel back first, ...
LEMMA ReturnChannelIInv == ASSUME IInv, ReturnChannel PROVE IInv'
  <1> USE PoolAssumption DEF IInv
  <1> DEFINE s == mpf.s
             c == mpf.ch
  <1>1. /\ mpf.pc = "delete_ch" /\ s \in Sessions /\ AliCh[s] \in Chans /\ c = AliCh[s]
        /\ s \notin streams /\ consumer.s # s
        /\ idle' = idle \cup {c} /\ busy' = busy \ {c}
        /\ mpf' = [mpf EXCEPT !.pc = "delete_re"]
        /\ UNCHANGED <<rePool, AliCh, AliRe, starts, streams, consumer>>
    BY DEF ReturnChannel, DeleteChannel, session_vars, Types, Pointers, Deleting
  <1>2. mpf'.pc = "delete_re" /\ mpf'.s = s /\ mpf'.ch = c /\ IsThread(mpf')
    BY SMTT(30), <1>1 DEF Types, IsThread
  <1>3. s \in Holders /\ Holders' = Holders \ {s}
    BY <1>1, <1>2 DEF Holders
  <1>4. Types' /\ Pointers'
    BY <1>1, <1>2 DEF Types, Pointers, Deleting
  <1>5. Taken' /\ First'
    BY <1>1, <1>3 DEF Taken, First
  <1>6. ChannelsExclusive' /\ ResourcesExclusive'
    BY <1>1, <1>3 DEF ChannelsExclusive, ResourcesExclusive
  <1>7. NothingLost'
    BY <1>1, <1>3 DEF NothingLost
  <1> QED
    BY <1>4, <1>5, <1>6, <1>7

\* ... then the resource, and forgets both pointers.
LEMMA ReturnResourceIInv == ASSUME IInv, ReturnResource PROVE IInv'
  <1> USE PoolAssumption DEF IInv
  <1> DEFINE s == mpf.s
             r == AliRe[s]
  <1>1. /\ mpf.pc = "delete_re" /\ s \in Sessions /\ r \in Resources
        /\ AliCh[s] \in Chans /\ consumer.s # s
        /\ AliCh' = [AliCh EXCEPT ![s] = NULL] /\ AliRe' = [AliRe EXCEPT ![s] = NULL]
        /\ mpf'.pc = "idle" /\ mpf'.s = NULL /\ IsThread(mpf')
        /\ UNCHANGED <<idle, busy, starts, streams, consumer>>
    <2>1. IsThread(mpf') /\ mpf'.pc = "idle" /\ mpf'.s = NULL
      BY DEF ReturnResource, IdleMpf, IsThread
    <2> QED
      BY <2>1 DEF ReturnResource, Types, Pointers, Deleting
  <1>2. NULL \notin Chans /\ NULL \notin Resources
    BY DEF Chans, Resources
  <1>3. rePool' = Append(rePool, r)
    BY <1>1, <1>2 DEF ReturnResource, DeleteResource
  <1>4. /\ rePool' \in Seq(Resources)
        /\ \A j, k \in DOMAIN rePool' : rePool'[j] = rePool'[k] => j = k
        /\ \A k \in DOMAIN rePool' :
             rePool'[k] = r \/ \E j \in DOMAIN rePool : rePool'[k] = rePool[j]
    <2>1. /\ rePool \in Seq(Resources) /\ r \in Resources
          /\ \A k \in DOMAIN rePool : rePool[k] # r
          /\ \A j, k \in DOMAIN rePool : rePool[j] = rePool[k] => j = k
      BY <1>1 DEF Types, ResourcesExclusive
    <2> HIDE DEF r
    <2> QED
      BY SMTT(30), <1>3, <2>1, AppendExclusive
  <1>5. /\ \A t \in Sessions \ {s} : AliCh'[t] = AliCh[t] /\ AliRe'[t] = AliRe[t]
        /\ AliCh'[s] = NULL /\ AliRe'[s] = NULL
        /\ Holders' = Holders /\ Holders \subseteq Sessions \ {s}
    BY <1>1, <1>2 DEF Holders, Types
  <1>6. Types' /\ Pointers'
    <2>1. Types'
      BY <1>1, <1>4 DEF Types, Deleting
    <2>2. Pointers'
      BY <1>1, <1>2, <1>5 DEF Pointers, Deleting
    <2> QED
      BY <2>1, <2>2
  <1>7. Taken' /\ First'
    BY <1>1, <1>2, <1>4, <1>5 DEF Taken, First, Types, IdleConsumer
  <1>8. ChannelsExclusive' /\ NothingLost'
    BY <1>1, <1>5 DEF ChannelsExclusive, NothingLost
  <1>9. ResourcesExclusive'
    BY <1>1, <1>2, <1>4, <1>5 DEF ResourcesExclusive
  <1> QED
    BY <1>6, <1>7, <1>8, <1>9

-----------------------------------------------------------------------------

\* Every step keeps the invariant.
LEMMA NextIInv == ASSUME IInv, [Next]_vars PROVE IInv'
  <1>1. CASE UNCHANGED vars
    BY <1>1, Elsewhere DEF vars, session_vars
  <1>2. CASE EngineReocgStart
    BY <1>2, NewChannelIInv, NewResourceIInv, StartIInv, TaskPushIInv, StartFailedIInv
       DEF EngineReocgStart
  <1>3. CASE MpfStep
    <2>1. ASSUME NEW s \in Sessions, EngineWriteFrame(s) \/ EndRecognition(s) PROVE IInv'
      <3>1. /\ UNCHANGED <<pool_vars, AliCh, AliRe, starts, streams, consumer>>
            /\ mpf' = mpf \/ (IsThread(mpf') /\ ~Deleting /\ ~Deleting')
        BY <2>1 DEF EngineWriteFrame, EndRecognition, Deleting, IdleMpf, IsThread
      <3> QED
        BY <3>1, Elsewhere
    <2>2. CASE PushFrame \/ PollResult \/ TakeResult
      <3>1. /\ UNCHANGED <<pool_vars, AliCh, AliRe, starts, streams, consumer>>
            /\ mpf.pc \in {"push", "poll", "take"}
            /\ \/ mpf' = [mpf EXCEPT !.pc = "poll"]
               \/ mpf' = [mpf EXCEPT !.pc = "take", !.re = AliRe[mpf.s]]
               \/ mpf' = IdleMpf
        BY <2>2 DEF PushFrame, PollResult, TakeResult, session_vars
      <3>2. IsThread(mpf)
        BY DEF IInv, Types
      <3>3. IsThread(mpf') /\ ~Deleting /\ ~Deleting'
        <4>1. CASE mpf' = [mpf EXCEPT !.pc = "poll"]
          BY <3>1, <3>2, <4>1 DEF Deleting, IsThread
        <4>2. CASE mpf' = [mpf EXCEPT !.pc = "take", !.re = AliRe[mpf.s]]
          BY Zenon, <3>1, <3>2, <4>2 DEF Deleting, IsThread
        <4>3. CASE mpf' = IdleMpf
          BY <3>1, <4>3 DEF Deleting, IdleMpf, IsThread
        <4> QED
          BY <3>1, <4>1, <4>2, <4>3
      <3> QED
        BY <3>1, <3>3, Elsewhere
    <2> QED
      BY <1>3, <2>1, <2>2, EngineReocgStopIInv, ReturnChannelIInv, ReturnResourceIInv
         DEF MpfStep
  <1>4. ASSUME NEW w \in Workers, RecogMain(w) PROVE IInv'
    <2>1. UNCHANGED <<pool_vars, AliCh, AliRe, starts, streams, mpf, consumer>>
      BY <1>4 DEF RecogMain, session_vars
    <2> QED
      BY <2>1, Elsewhere
  <1>5. ASSUME NEW r \in Resources, OnRecognitionResult(r) PROVE IInv'
    <2>1. UNCHANGED <<pool_vars, AliCh, AliRe, starts, streams, mpf, consumer>>
      BY <1>5 DEF OnRecognitionResult, session_vars
    <2> QED
      BY <2>1, Elsewhere
  <1> QED
    BY <1>1, <1>2, <1>3, <1>4, <1>5 DEF Next

\* However many sessions share the engine, a channel or a resource that the
\* factories have lent belongs to one session, and is not in its pool.
THEOREM LentToOne == Spec => [](ChannelsExclusive /\ ResourcesExclusive)
  <1>1. Spec => []IInv
    BY InitIInv, NextIInv, PTL DEF Spec
  <1>2. IInv => ChannelsExclusive /\ ResourcesExclusive
    BY DEF IInv
  <1> QED
    BY <1>1, <1>2, PTL

\* No failure of a start loses a channel: until a session starts its second
\* recognition, a busy channel is a session's or in the consumer task's hands.
THEOREM StartLosesNothing == Spec => []NothingLost
  <1>1. Spec => []IInv
    BY InitIInv, NextIInv, PTL DEF Spec
  <1>2. IInv => NothingLost
    BY DEF IInv
  <1> QED
    BY <1>1, <1>2, PTL

-----------------------------------------------------------------------------
(* The frames in the channels *)

ChanStates ==
    [m_starting : BOOLEAN, m_Recoger : Resources \cup {NULL},
     m_Channel : Sessions \cup {NULL}, frames : Seq(Sessions), locked : BOOLEAN]

IsOwn(frames, s) == \A i \in 1 .. Len(frames) : frames[i] = s

\* The channel that the MPF thread is about to write a frame to may be one that
\* its session has lost meanwhile, but nobody else has got it.
PushSound ==
    mpf.pc = "push" =>
        /\ mpf.s \in Sessions
        /\ mpf.ch \in busy
        /\ mpf.ch # consumer.ch
        /\ \A s \in Holders : AliCh[s] = mpf.ch => s = mpf.s

\* The consumer task hands over an empty channel, and only a session that was
\* handed one, or was refused, has frames.
FramesSound ==
    /\ chan \in [Chans -> ChanStates]
    /\ \A s \in recognizing : s \in Sessions /\ AliCh[s] # GARBAGE
    /\ consumer.pc = "push" => chan[consumer.ch].frames = <<>>
    /\ PushSound
    /\ \A s \in Holders : IsOwn(chan[AliCh[s]].frames, s)

\* Frames are taken from a channel, or nothing happens to it.
Taking(c) ==
    \/ chan'[c].frames = chan[c].frames
    \/ chan[c].frames # <<>> /\ chan'[c].frames = Tail(chan[c].frames)

\* A queue with frames of one session keeps being one.
LEMMA OwnFrames ==
    ASSUME NEW q \in Seq(Sessions), NEW s \in Sessions, IsOwn(q, s)
    PROVE  /\ q # <<>> => IsOwn(Tail(q), s)
           /\ IsOwn(Append(q, s), s)
  BY DEF IsOwn

\* Steps that put no frame into a channel and lend none.
LEMMA FramesStep ==
    ASSUME IInv, FramesSound,
           chan' \in [Chans -> ChanStates], \A c \in Chans : Taking(c),
           \A s \in recognizing' : s \in Sessions /\ AliCh'[s] # GARBAGE,
           \A s \in Holders' : s \in Holders /\ AliCh'[s] = AliCh[s],
           consumer'.pc = "push" => /\ consumer'.ch \in Chans
                                    /\ chan'[consumer'.ch].frames = <<>>,
           mpf'.pc = "push" => /\ mpf' = mpf /\ mpf.ch \in busy'
                               /\ mpf.ch # consumer'.ch
    PROVE  FramesSound'
  <1>1. ASSUME NEW s \in Holders'
        PROVE  IsOwn(chan'[AliCh'[s]].frames, s)
    <2>1. /\ s \in Holders /\ AliCh'[s] = AliCh[s] /\ AliCh[s] \in Chans /\ s \in Sessions
      BY Zenon, <1>1 DEF Holders
    <2>2. chan[AliCh[s]].frames \in Seq(Sessions) /\ IsOwn(chan[AliCh[s]].frames, s)
      BY <2>1 DEF FramesSound, ChanStates
    <2>3. Taking(AliCh[s])
      BY Zenon, <2>1
    <2> QED
      BY Zenon, <2>1, <2>2, <2>3, OwnFrames DEF Taking
  <1>2. PushSound'
    BY Zenon DEF FramesSound, PushSound
  <1> QED
    BY Zenon, <1>1, <1>2 DEF FramesSound

\* Steps that change no channel.
LEMMA SameFrames ==
    ASSUME FramesSound, chan' = chan
    PROVE  chan' \in [Chans -> ChanStates] /\ \A c \in Chans : Taking(c)
  BY Zenon DEF FramesSound, Taking

\* Steps that change the state of a channel and put no frame into it.
LEMMA ChangedFrames ==
    ASSUME FramesSound, NEW c \in Chans, NEW new \in ChanStates,
           chan' = [chan EXCEPT ![c] = new],
           \/ new.frames = chan[c].frames
           \/ chan[c].frames # <<>> /\ new.frames = Tail(chan[c].frames)
    PROVE  /\ chan' \in [Chans -> ChanStates] /\ \A d \in Chans : Taking(d)
           /\ chan'[c] = new
  <1>1. chan \in [Chans -> ChanStates]
    BY Zenon DEF FramesSound
  <1>2. chan'[c] = new /\ \A d \in Chans : d # c => chan'[d] = chan[d]
    BY Zenon, <1>1
  <1>3. chan' \in [Chans -> ChanStates]
    BY Zenon, <1>1
  <1> QED
    BY Zenon, <1>2, <1>3 DEF Taking

\* A channel's state is changed field by field.
LEMMA ChanFields ==
    ASSUME NEW k \in ChanStates
    PROVE  /\ LET new == [k EXCEPT !.locked = FALSE]
              IN  new \in ChanStates /\ new.frames = k.frames
           /\ LET new == [k EXCEPT !.m_starting = FALSE]
              IN  new \in ChanStates /\ new.frames = k.frames
           /\ LET new == [k EXCEPT !.m_Channel = NULL, !.m_Recoger = NULL, !.m_starting = FALSE]
              IN  new \in ChanStates /\ new.frames = k.frames
           /\ \A q \in Seq(Sessions) : LET new == [k EXCEPT !.frames = q]
                                       IN  new \in ChanStates /\ new.frames = q
  <1>1. /\ [k EXCEPT !.locked = FALSE] \in ChanStates
        /\ [k EXCEPT !.m_starting = FALSE] \in ChanStates
    BY Zenon DEF ChanStates
  <1>2. [k EXCEPT !.m_Channel = NULL, !.m_Recoger = NULL, !.m_starting = FALSE] \in ChanStates
    BY Zenon DEF ChanStates
  <1>3. /\ [k EXCEPT !.locked = FALSE].frames = k.frames
        /\ [k EXCEPT !.m_starting = FALSE].frames = k.frames
        /\ [k EXCEPT !.m_Channel = NULL, !.m_Recoger = NULL, !.m_starting = FALSE].frames = k.frames
    BY DEF ChanStates
  <1>4. ASSUME NEW q \in Seq(Sessions)
        PROVE  [k EXCEPT !.frames = q] \in ChanStates /\ [k EXCEPT !.frames = q].frames = q
    BY DEF ChanStates
  <1> QED
    BY Zenon, <1>1, <1>2, <1>3, <1>4

\* Start sets the fields of the channel that it starts.
LEMMA StartFields ==
    ASSUME NEW k \in ChanStates, NEW s \in Sessions, NEW r \in Resources
    PROVE  /\ [k EXCEPT !.m_Channel = s, !.m_starting = TRUE,
                        !.m_Recoger = r, !.locked = TRUE] \in ChanStates
           /\ [k EXCEPT !.m_Channel = s, !.m_starting = TRUE,
                        !.m_Recoger = r, !.locked = TRUE].frames = k.frames
  <1>1. [k EXCEPT !.m_Channel = s, !.m_starting = TRUE,
                  !.m_Recoger = r, !.locked = TRUE] \in ChanStates
    BY Zenon DEF ChanStates
  <1>2. [k EXCEPT !.m_Channel = s, !.m_starting = TRUE,
                  !.m_Recoger = r, !.locked = TRUE].frames = k.frames
    BY DEF ChanStates
  <1> QED
    BY Zenon, <1>1, <1>2

\* Nothing is in the channels at first.
LEMMA InitFrames == Init => FramesSound
  <1> SUFFICES ASSUME Init PROVE FramesSound
    OBVIOUS
  <1>1. /\ AliCh \in [Sessions -> {NULL, GARBAGE}] /\ chan = [c \in Chans |-> FreeChannel]
        /\ consumer = IdleConsumer /\ mpf = IdleMpf /\ recognizing = {}
    BY Zenon DEF Init, EngineInit
  <1>2. FreeChannel \in ChanStates
    BY DEF FreeChannel, ChanStates
  <1>3. consumer.pc = "idle" /\ mpf.pc = "idle"
    BY <1>1 DEF IdleConsumer, IdleMpf
  <1>4. Holders = {}
    BY <1>1, PoolAssumption DEF Holders, Chans
  <1>5. chan \in [Chans -> ChanStates]
    BY Zenon, <1>1, <1>2
  <1> QED
    BY <1>1, <1>3, <1>4, <1>5 DEF FramesSound, PushSound

\* The consumer task up to the push of the task: the queue is emptied.
LEMMA StartFrames ==
    ASSUME IInv, FramesSound, NewResource \/ Start \/ ClearFrames \/ Drain
    PROVE  FramesSound'
  <1> DEFINE c == consumer.ch
  <1>1. /\ c \in Chans /\ consumer.s \in Sessions
        /\ consumer.pc = "start" => consumer.re \in Resources
        /\ chan \in [Chans -> ChanStates]
    <2>1. consumer.pc \in {"resource", "start", "clear", "drain"}
      BY DEF NewResource, Start, ClearFrames, Drain
    <2> QED
      BY <2>1 DEF IInv, Types, FramesSound
  <1>2. UNCHANGED <<busy, AliCh, recognizing, mpf>>
    BY Zenon DEF NewResource, Start, ClearFrames, Drain, session_vars, pool_vars
  <1>3. chan[c] \in ChanStates
    BY Zenon, <1>1
  <1>4. consumer \in [pc : {"idle", "resource", "start", "clear", "drain", "push", "failed"},
                      s : Sessions \cup {NULL}, ch : Chans \cup {NULL},
                      re : Resources \cup {NULL}]
    BY DEF IInv, Types
  <1>5. /\ chan' \in [Chans -> ChanStates] /\ \A d \in Chans : Taking(d)
        /\ consumer'.ch = c
        /\ consumer'.pc = "push" => chan'[c].frames = <<>>
    <2>1. CASE NewResource
      <3>1. /\ chan' = chan
            /\ \/ consumer' = [consumer EXCEPT !.pc = "failed"]
               \/ \E r : consumer' = [consumer EXCEPT !.pc = "start", !.re = r]
        BY Zenon, <2>1 DEF NewResource
      <3>2. CASE consumer' = [consumer EXCEPT !.pc = "failed"]
        BY <1>4, <3>1, <3>2, SameFrames
      <3>3. ASSUME NEW r, consumer' = [consumer EXCEPT !.pc = "start", !.re = r]
            PROVE  consumer'.pc # "push" /\ consumer'.ch = c
        BY <1>4, <3>3
      <3> QED
        BY Zenon, <3>1, <3>2, <3>3, SameFrames
    <2>2. CASE Start
      <3> DEFINE new == [chan[c] EXCEPT !.m_Channel = consumer.s, !.m_starting = TRUE,
                                        !.m_Recoger = consumer.re, !.locked = TRUE]
      <3>1. /\ chan' = [chan EXCEPT ![c] = new]
            /\ consumer' = [consumer EXCEPT !.pc = "clear"] /\ consumer.re \in Resources
        BY <1>1, <2>2 DEF Start
      <3>2. consumer'.pc # "push" /\ consumer'.ch = c
        BY <1>4, <3>1
      <3>3. new \in ChanStates /\ new.frames = chan[c].frames
        BY Zenon, <1>1, <1>3, <3>1, StartFields
      <3> HIDE DEF c, new
      <3> QED
        BY Zenon, <1>1, <3>1, <3>2, <3>3, ChangedFrames
    <2>3. CASE ClearFrames
      <3>1. CASE chan[c].frames = <<>>
        <4> DEFINE new == [chan[c] EXCEPT !.locked = FALSE]
        <4>1. /\ chan' = [chan EXCEPT ![c] = new]
              /\ consumer' = [consumer EXCEPT !.pc = "push"]
          BY <2>3, <3>1 DEF ClearFrames
        <4>2. consumer'.ch = c
          BY <1>4, <4>1
        <4>3. new \in ChanStates /\ new.frames = chan[c].frames
          BY Zenon, <1>3, ChanFields
        <4> HIDE DEF c, new
        <4> QED
          BY Zenon, <1>1, <3>1, <4>1, <4>2, <4>3, ChangedFrames
      <3>2. CASE chan[c].frames # <<>>
        <4>1. chan' = chan /\ consumer' = [consumer EXCEPT !.pc = "drain"]
          BY Zenon, <2>3, <3>2 DEF ClearFrames
        <4>2. consumer'.pc # "push" /\ consumer'.ch = c
          BY <1>4, <4>1
        <4> QED
          BY Zenon, <4>1, <4>2, SameFrames
      <3> QED
        BY Zenon, <3>1, <3>2
    <2>4. CASE Drain
      <3> DEFINE new == [chan[c] EXCEPT !.frames = Tail(@)]
      <3>1. /\ chan[c].frames # <<>> /\ chan' = [chan EXCEPT ![c] = new]
            /\ consumer' = [consumer EXCEPT !.pc = "clear"]
        BY <2>4 DEF Drain
      <3>2. consumer'.pc # "push" /\ consumer'.ch = c
        BY <1>4, <3>1
      <3>3. new \in ChanStates /\ new.frames = Tail(chan[c].frames)
        BY SMTT(30), <1>3, <3>1 DEF ChanStates
      <3> HIDE DEF c, new
      <3> QED
        BY Zenon, <1>1, <3>1, <3>2, <3>3, ChangedFrames
    <2> QED
      BY Zenon, <2>1, <2>2, <2>3, <2>4
  <1>6. Holders' = Holders
    BY Zenon, <1>2 DEF Holders
  <1>7. mpf.pc = "push" => mpf.ch \in busy /\ mpf.ch # consumer.ch
    BY Zenon DEF FramesSound, PushSound
  <1>8. \A s \in recognizing : s \in Sessions /\ AliCh[s] # GARBAGE
    BY Zenon DEF FramesSound
  <1> QED
    BY Zenon, <1>1, <1>2, <1>5, <1>6, <1>7, <1>8, FramesStep

\* Steps that the consumer task does not take.
LEMMA QuietFrames ==
    ASSUME IInv, FramesSound,
           chan' \in [Chans -> ChanStates], \A c \in Chans : Taking(c),
           \A s \in recognizing' : s \in recognizing /\ AliCh'[s] \in {AliCh[s], NULL},
           \A s \in Holders' : s \in Holders /\ AliCh'[s] = AliCh[s],
           consumer' = consumer,
           mpf'.pc # "push" \/ UNCHANGED <<mpf, busy>>
    PROVE  FramesSound'
  <1>1. \A s \in recognizing' : s \in Sessions /\ AliCh'[s] # GARBAGE
    BY PoolAssumption DEF FramesSound
  <1>2. consumer.pc = "push" => consumer.ch \in Chans /\ chan[consumer.ch].frames = <<>>
    BY DEF IInv, Types, FramesSound
  <1>3. consumer'.pc = "push" => /\ consumer'.ch \in Chans
                                 /\ chan'[consumer'.ch].frames = <<>>
    BY Zenon, <1>2 DEF Taking
  <1>4. mpf'.pc = "push" => /\ mpf' = mpf /\ mpf.ch \in busy'
                            /\ mpf.ch # consumer'.ch
    BY Zenon DEF FramesSound, PushSound
  <1> QED
    BY Zenon, <1>1, <1>3, <1>4, FramesStep

\* A channel that is taken from the idle pool is not one that is written to.
LEMMA NewChannelFrames == ASSUME IInv, FramesSound, NEW s \in Sessions, NewChannel(s)
                          PROVE  FramesSound'
  <1>1. /\ UNCHANGED <<AliCh, recognizing, chan, mpf>>
        /\ \/ /\ consumer' = [IdleConsumer EXCEPT !.pc = "failed", !.s = s]
              /\ busy' = busy
           \/ \E c \in idle :
                /\ consumer' = [pc |-> "resource", s |-> s, ch |-> c, re |-> NULL]
                /\ busy' = busy \cup {c}
    BY Zenon DEF NewChannel
  <1>2. /\ consumer'.pc # "push" /\ consumer'.ch \in idle \cup {NULL}
        /\ busy \subseteq busy'
    <2>1. CASE /\ consumer' = [IdleConsumer EXCEPT !.pc = "failed", !.s = s]
               /\ busy' = busy
      BY <2>1 DEF IdleConsumer
    <2>2. ASSUME NEW c \in idle, busy' = busy \cup {c},
                 consumer' = [pc |-> "resource", s |-> s, ch |-> c, re |-> NULL]
          PROVE  /\ consumer'.pc # "push" /\ consumer'.ch \in idle
                 /\ busy \subseteq busy'
      BY <2>2
    <2> QED
      BY Zenon, <1>1, <2>1, <2>2
  <1>3. \A c \in busy : c # consumer'.ch
    BY <1>2, PoolAssumption DEF IInv, Types, ChannelsExclusive, Chans
  <1>4. Holders' = Holders
    BY Zenon, <1>1 DEF Holders
  <1>5. mpf'.pc = "push" => /\ mpf' = mpf /\ mpf.ch \in busy'
                            /\ mpf.ch # consumer'.ch
    BY Zenon, <1>1, <1>2, <1>3 DEF FramesSound, PushSound
  <1>6. \A t \in recognizing' : t \in Sessions /\ AliCh'[t] # GARBAGE
    BY Zenon, <1>1 DEF FramesSound
  <1>7. \A t \in Holders' : t \in Holders /\ AliCh'[t] = AliCh[t]
    BY Zenon, <1>1, <1>4
  <1> QED
    BY Zenon, <1>1, <1>2, <1>5, <1>6, <1>7, SameFrames, FramesStep

\* The session gets a channel without frames.
LEMMA TaskPushFrames == ASSUME IInv, FramesSound, TaskPush PROVE FramesSound'
  <1> DEFINE s == consumer.s
             c == consumer.ch
  <1>1. /\ consumer.pc = "push" /\ UNCHANGED <<busy, chan, mpf>>
        /\ s \in Sessions /\ c \in Chans /\ chan[c].frames = <<>>
    BY DEF TaskPush, pool_vars, IInv, Types, FramesSound
  <1>2. CASE /\ AliCh' = [AliCh EXCEPT ![s] = c]
             /\ recognizing' = recognizing \cup {s} /\ consumer' = IdleConsumer
    <2>1. AliCh \in [Sessions -> Chans \cup {NULL, GARBAGE}]
      BY Zenon DEF IInv, Types
    <2>2. \A t \in Sessions : AliCh'[t] = IF t = s THEN c ELSE AliCh[t]
      BY Zenon, <1>1, <1>2, <2>1
    <2>3. consumer'.pc = "idle" /\ consumer'.ch = NULL
      BY <1>2 DEF IdleConsumer
    <2>4. c # GARBAGE /\ \A d \in Chans : d # NULL
      BY <1>1, PoolAssumption DEF Chans
    <2>5. \A t \in recognizing' : t \in Sessions /\ AliCh'[t] # GARBAGE
      BY Zenon, <1>1, <1>2, <2>2, <2>4 DEF FramesSound
    <2>6. \A t \in Holders' : t = s \/ (t \in Holders /\ AliCh'[t] = AliCh[t])
      BY Zenon, <1>1, <2>2 DEF Holders
    <2>7. IsOwn(<<>>, s)
      BY DEF IsOwn
    <2>8. \A t \in Holders' : IsOwn(chan'[AliCh'[t]].frames, t)
      BY Zenon, <1>1, <2>2, <2>6, <2>7 DEF FramesSound
    <2>9. PushSound'
      <3>1. ASSUME mpf.pc = "push"
            PROVE  /\ mpf.s \in Sessions /\ mpf.ch \in busy /\ mpf.ch # c
                   /\ \A t \in Holders : AliCh[t] = mpf.ch => t = mpf.s
        BY Zenon, <3>1 DEF FramesSound, PushSound
      <3>2. mpf.pc = "push" => mpf.ch # NULL
        BY Zenon, <3>1, <2>4 DEF IInv, Types
      <3> HIDE DEF c, s
      <3> QED
        BY Zenon, <1>1, <2>2, <2>3, <2>6, <3>1, <3>2 DEF PushSound
    <2>10. consumer'.pc # "push" /\ chan' \in [Chans -> ChanStates]
      BY <1>1, <2>3 DEF FramesSound
    <2> QED
      BY Zenon, <2>5, <2>8, <2>9, <2>10 DEF FramesSound
  <1>3. CASE /\ consumer' = [consumer EXCEPT !.pc = "failed"]
             /\ UNCHANGED <<AliCh, recognizing>>
    <2>1. consumer \in [pc : {"idle", "resource", "start", "clear", "drain", "push", "failed"},
                        s : Sessions \cup {NULL}, ch : Chans \cup {NULL},
                        re : Resources \cup {NULL}]
      BY DEF IInv, Types
    <2>2. consumer'.pc # "push" /\ consumer'.ch = c
      BY <1>3, <2>1
    <2>3. mpf'.pc = "push" => mpf' = mpf /\ mpf.ch \in busy' /\ mpf.ch # consumer'.ch
      BY Zenon, <1>1, <2>2 DEF FramesSound, PushSound
    <2>4. \A t \in recognizing' : t \in Sessions /\ AliCh'[t] # GARBAGE
      BY Zenon, <1>3 DEF FramesSound
    <2>5. \A t \in Holders' : t \in Holders /\ AliCh'[t] = AliCh[t]
      BY Zenon, <1>1, <1>3 DEF Holders
    <2> QED
      BY Zenon, <1>1, <2>2, <2>3, <2>4, <2>5, SameFrames, FramesStep
  <1> QED
    BY Zenon, <1>2, <1>3 DEF TaskPush

\* Stop changes the flag of the channel only.
LEMMA StopFrames ==
    ASSUME FramesSound, NEW c \in Chans, Stop(c)
    PROVE  chan' \in [Chans -> ChanStates] /\ \A d \in Chans : Taking(d)
  <1> DEFINE new == [chan[c] EXCEPT !.m_starting = FALSE]
  <1>1. chan' = [chan EXCEPT ![c] = new]
    BY DEF Stop
  <1>2. chan[c] \in ChanStates
    BY Zenon DEF FramesSound
  <1>3. new \in ChanStates /\ new.frames = chan[c].frames
    BY Zenon, <1>2, ChanFields
  <1> HIDE DEF new
  <1> QED
    BY Zenon, <1>1, <1>3, ChangedFrames

\* A start that fails gives its channel back; nobody writes to that one.
LEMMA StartFailedFrames == ASSUME IInv, FramesSound, StartFailed PROVE FramesSound'
  <1> DEFINE s == consumer.s
             c == consumer.ch
  <1>1. /\ consumer.pc = "failed" /\ mpf' = mpf /\ s \in Sessions
        /\ c \in Chans \cup {NULL}
        /\ AliCh \in [Sessions -> Chans \cup {NULL, GARBAGE}]
        /\ AliCh' = [AliCh EXCEPT ![s] = NULL] /\ recognizing' = recognizing \cup {s}
        /\ consumer' = IdleConsumer
    BY DEF StartFailed, IInv, Types
  <1>2. /\ \/ chan' = chan \/ (c \in Chans /\ Stop(c))
        /\ \A d \in busy : d # c => d \in busy'
    BY Zenon, <1>1 DEF StartFailed, pool_vars, DeleteChannel
  <1>3. chan' \in [Chans -> ChanStates] /\ \A d \in Chans : Taking(d)
    BY Zenon, <1>2, SameFrames, StopFrames
  <1>4. consumer'.pc # "push" /\ consumer'.ch = NULL
    BY <1>1 DEF IdleConsumer
  <1>5. \A t \in Sessions : AliCh'[t] = IF t = s THEN NULL ELSE AliCh[t]
    BY Zenon, <1>1
  <1>6. NULL # GARBAGE /\ NULL \notin Chans
    BY PoolAssumption DEF Chans
  <1>7. \A t \in recognizing' : t \in Sessions /\ AliCh'[t] # GARBAGE
    BY Zenon, <1>1, <1>5, <1>6 DEF FramesSound
  <1>8. \A t \in Holders' : t \in Holders /\ AliCh'[t] = AliCh[t]
    BY Zenon, <1>1, <1>5, <1>6 DEF Holders
  <1>9. mpf'.pc = "push" => mpf' = mpf /\ mpf.ch \in busy' /\ mpf.ch # consumer'.ch
    <2>1. mpf.pc = "push" => mpf.ch \in busy /\ mpf.ch # c
      BY Zenon DEF FramesSound, PushSound
    <2>2. busy \subseteq Chans
      BY Zenon DEF IInv, Types
    <2> QED
      BY Zenon, <1>1, <1>2, <1>4, <1>6, <2>1, <2>2
  <1> QED
    BY Zenon, <1>3, <1>4, <1>7, <1>8, <1>9, FramesStep

-----------------------------------------------------------------------------

\* A frame of a session is taken; its channel is looked up now.
LEMMA WriteFrames == ASSUME IInv, FramesSound, NEW s \in Sessions, EngineWriteFrame(s)
                     PROVE  FramesSound'
  <1>1. /\ mpf.pc = "idle" /\ s \in recognizing
        /\ UNCHANGED <<AliCh, chan, consumer, busy>> /\ recognizing' \subseteq recognizing
        /\ \/ mpf' = IdleMpf
           \/ /\ AliCh[s] # NULL
              /\ \E pc \in {"push", "poll"} :
                     mpf' = [pc |-> pc, s |-> s, ch |-> AliCh[s], re |-> NULL]
    <2>1. (IF chan[AliCh[s]].m_starting THEN "push" ELSE "poll") \in {"push", "poll"}
      OBVIOUS
    <2> QED
      BY Zenon, <2>1 DEF EngineWriteFrame, pool_vars
  <1>2. /\ mpf'.pc \in {"idle", "push", "poll"}
        /\ mpf'.pc = "push" => mpf'.s = s /\ mpf'.ch = AliCh[s] /\ AliCh[s] # NULL
    <2>1. CASE mpf' = IdleMpf
      BY <2>1 DEF IdleMpf
    <2>2. ASSUME NEW pc \in {"push", "poll"}, AliCh[s] # NULL,
                 mpf' = [pc |-> pc, s |-> s, ch |-> AliCh[s], re |-> NULL]
          PROVE  mpf'.pc \in {"push", "poll"} /\ mpf'.s = s /\ mpf'.ch = AliCh[s]
      BY <2>2
    <2> QED
      BY Zenon, <1>1, <2>1, <2>2
  <1>3. Holders' = Holders
    BY <1>1, <1>2 DEF Holders
  <1>4. CASE mpf'.pc # "push"
    <2>1. \A t \in recognizing' : t \in recognizing /\ AliCh'[t] \in {AliCh[t], NULL}
      BY Zenon, <1>1
    <2>2. \A t \in Holders' : t \in Holders /\ AliCh'[t] = AliCh[t]
      BY Zenon, <1>1, <1>3
    <2> QED
      BY Zenon, <1>1, <1>4, <2>1, <2>2, SameFrames, QuietFrames
  <1>5. CASE mpf'.pc = "push"
    <2>1. AliCh[s] \in Chans
      <3>1. AliCh[s] \in Chans \cup {NULL, GARBAGE} /\ AliCh[s] # GARBAGE
        BY Zenon, <1>1 DEF IInv, Types, FramesSound
      <3> QED
        BY Zenon, <1>2, <1>5, <3>1
    <2>2. s \in Holders
      BY <1>1, <2>1 DEF Holders
    <2>3. /\ AliCh[s] \in busy /\ AliCh[s] # consumer.ch
          /\ \A t \in Holders : AliCh[t] = AliCh[s] => t = s
      BY Zenon, <2>1, <2>2 DEF IInv, ChannelsExclusive, Taken
    <2>4. PushSound'
      BY Zenon, <1>1, <1>2, <1>3, <1>5, <2>3 DEF PushSound
    <2> QED
      BY Zenon, <1>1, <1>3, <2>4 DEF FramesSound
  <1> QED
    BY Zenon, <1>4, <1>5

\* The frame is written.
LEMMA PushFrames == ASSUME IInv, FramesSound, PushFrame PROVE FramesSound'
  <1> DEFINE c == mpf.ch
             s == mpf.s
             q == Append(chan[c].frames, s)
             new == [chan[c] EXCEPT !.frames = q]
  <1>1. /\ s \in Sessions /\ c \in busy /\ c # consumer.ch
        /\ \A t \in Holders : AliCh[t] = c => t = s
    BY Zenon DEF PushFrame, FramesSound, PushSound
  <1>2. c \in Chans
    BY Zenon, <1>1 DEF IInv, Types
  <1>3. /\ chan' = [chan EXCEPT ![c] = new] /\ mpf' = [mpf EXCEPT !.pc = "poll"]
        /\ UNCHANGED <<AliCh, recognizing, consumer>> /\ mpf.pc = "push"
    BY DEF PushFrame, session_vars
  <1>4. chan \in [Chans -> ChanStates] /\ chan[c] \in ChanStates
    BY Zenon, <1>2 DEF FramesSound
  <1>5. chan[c].frames \in Seq(Sessions)
    BY <1>4 DEF ChanStates
  <1>6. q \in Seq(Sessions)
    BY <1>1, <1>5
  <1>7. new \in ChanStates /\ new.frames = q
    <2> HIDE DEF q
    <2> QED
      BY Zenon, <1>4, <1>6, ChanFields
  <1>8. mpf'.pc = "poll" /\ mpf'.s = s
    BY <1>3 DEF IInv, Types, IsThread
  <1> HIDE DEF new
  <1>9. /\ chan' \in [Chans -> ChanStates]
        /\ chan'[c] = new /\ \A d \in Chans : d # c => chan'[d] = chan[d]
    BY Zenon, <1>2, <1>3, <1>4, <1>7
  <1>10. Holders' = Holders
    BY <1>3, <1>8 DEF Holders
  <1>11. ASSUME NEW t \in Holders'
         PROVE  IsOwn(chan'[AliCh'[t]].frames, t)
    <2>1. /\ t \in Holders /\ AliCh'[t] = AliCh[t] /\ AliCh[t] \in Chans
          /\ IsOwn(chan[AliCh[t]].frames, t)
      BY Zenon, <1>3, <1>10 DEF Holders, FramesSound
    <2>2. CASE AliCh[t] = c
      <3>1. t = s /\ IsOwn(chan[c].frames, s)
        BY Zenon, <1>1, <2>1, <2>2
      <3>2. IsOwn(q, s)
        BY Zenon, <1>1, <1>5, <3>1, OwnFrames
      <3> QED
        BY Zenon, <1>7, <1>9, <2>1, <2>2, <3>1, <3>2
    <2>3. CASE AliCh[t] # c
      BY Zenon, <1>9, <2>1, <2>3
    <2> QED
      BY Zenon, <2>2, <2>3
  <1>12. consumer'.pc = "push" => chan'[consumer'.ch].frames = <<>>
    <2>1. consumer.pc = "push" => consumer.ch \in Chans /\ chan[consumer.ch].frames = <<>>
      BY DEF IInv, Types, FramesSound
    <2> QED
      BY Zenon, <1>1, <1>3, <1>9, <2>1
  <1>13. PushSound'
    BY <1>8 DEF PushSound
  <1>14. \A t \in recognizing' : t \in Sessions /\ AliCh'[t] # GARBAGE
    BY Zenon, <1>3 DEF FramesSound
  <1> QED
    BY Zenon, <1>9, <1>11, <1>12, <1>13, <1>14 DEF FramesSound

\* The MPF thread gives the channel and the resource back.
LEMMA ReturnFrames ==
    ASSUME IInv, FramesSound, ReturnChannel \/ ReturnResource
    PROVE  FramesSound'
  <1>1. /\ UNCHANGED <<chan, recognizing, consumer>> /\ Deleting
        /\ AliCh \in [Sessions -> Chans \cup {NULL, GARBAGE}] /\ IsThread(mpf)
    BY DEF ReturnChannel, ReturnResource, session_vars, Deleting, IInv, Types
  <1>2. mpf'.pc # "push"
    BY <1>1 DEF ReturnChannel, ReturnResource, IdleMpf, IsThread
  <1>3. NULL \notin Chans
    BY PoolAssumption DEF Chans
  <1>4. /\ \A t \in Sessions : AliCh'[t] \in {AliCh[t], NULL}
        /\ \A t \in Holders' : t \in Holders /\ AliCh'[t] = AliCh[t]
    <2>1. CASE ReturnChannel
      <3>1. AliCh' = AliCh /\ mpf.pc = "delete_ch" /\ mpf' = [mpf EXCEPT !.pc = "delete_re"]
        BY Zenon, <2>1 DEF ReturnChannel, session_vars
      <3>2. mpf'.s = mpf.s /\ mpf'.pc = "delete_re" /\ mpf.pc # "delete_re"
        BY <1>1, <3>1 DEF IsThread
      <3> QED
        BY Zenon, <3>1, <3>2 DEF Holders
    <2>2. CASE ReturnResource
      <3>1. /\ AliCh' = [AliCh EXCEPT ![mpf.s] = NULL] /\ mpf.pc = "delete_re"
            /\ mpf.s \in Sessions
        BY Zenon, <1>1, <2>2 DEF ReturnResource, IInv, Types
      <3>2. \A t \in Sessions : AliCh'[t] = IF t = mpf.s THEN NULL ELSE AliCh[t]
        BY Zenon, <1>1, <3>1
      <3> QED
        BY Zenon, <1>3, <3>1, <3>2 DEF Holders
    <2> QED
      BY Zenon, <2>1, <2>2
  <1>5. \A t \in recognizing' : t \in recognizing /\ AliCh'[t] \in {AliCh[t], NULL}
    BY Zenon, <1>1, <1>4 DEF FramesSound
  <1> QED
    BY Zenon, <1>1, <1>2, <1>4, <1>5, SameFrames, QuietFrames

\* The other steps of the MPF thread.
LEMMA MpfFrames ==
    ASSUME IInv, FramesSound,
           \/ PollResult \/ TakeResult
           \/ \E s \in Sessions : EndRecognition(s) \/ EngineReocgStop(s)
    PROVE  FramesSound'
  <1>1. /\ UNCHANGED <<AliCh, consumer, busy>> /\ recognizing' \subseteq recognizing
        /\ mpf.pc \in {"idle", "poll", "take"}
    BY Zenon DEF PollResult, TakeResult, EndRecognition, EngineReocgStop, session_vars, pool_vars
  <1>2. chan' \in [Chans -> ChanStates] /\ \A d \in Chans : Taking(d)
    <2>1. chan' = chan \/ \E c \in Chans : Stop(c)
      BY Zenon DEF PollResult, TakeResult, EndRecognition, EngineReocgStop
    <2> QED
      BY Zenon, <2>1, SameFrames, StopFrames
  <1>3. mpf'.pc \notin {"push", "delete_re"}
    <2>1. CASE PollResult
      <3>1. mpf' = IdleMpf \/ \E r : mpf' = [mpf EXCEPT !.pc = "take", !.re = r]
        BY Zenon, <2>1 DEF PollResult
      <3>2. IsThread(mpf)
        BY Zenon DEF IInv, Types
      <3>3. ASSUME NEW r, mpf' = [mpf EXCEPT !.pc = "take", !.re = r]
            PROVE  mpf'.pc = "take"
        BY <3>2, <3>3 DEF IsThread
      <3>4. IdleMpf.pc = "idle"
        BY DEF IdleMpf
      <3>5. mpf'.pc = "take" \/ mpf'.pc = "idle"
        BY Zenon, <3>1, <3>3, <3>4
      <3> QED
        BY <3>5
    <2>2. CASE TakeResult
      BY <2>2 DEF TakeResult, IdleMpf
    <2>3. ASSUME NEW s \in Sessions, EndRecognition(s)
          PROVE  mpf'.pc = "idle"
      BY <2>3 DEF EndRecognition
    <2>4. ASSUME NEW s \in Sessions, EngineReocgStop(s)
          PROVE  mpf'.pc \in {"idle", "delete_ch"}
      <3>1. /\ mpf.pc = "idle"
            /\ \/ mpf' = mpf
               \/ mpf' = [IdleMpf EXCEPT !.pc = "delete_ch", !.s = s, !.ch = AliCh[s]]
        BY Zenon, <2>4 DEF EngineReocgStop
      <3>2. CASE mpf' = mpf
        BY <3>1, <3>2
      <3>3. CASE mpf' = [IdleMpf EXCEPT !.pc = "delete_ch", !.s = s, !.ch = AliCh[s]]
        BY Zenon, <3>3 DEF IdleMpf
      <3> QED
        BY Zenon, <3>1, <3>2, <3>3
    <2> QED
      BY <2>1, <2>2, <2>3, <2>4
  <1>4. Holders' = Holders
    BY <1>1, <1>3 DEF Holders
  <1>5. /\ \A t \in recognizing' : t \in recognizing /\ AliCh'[t] \in {AliCh[t], NULL}
        /\ \A t \in Holders' : t \in Holders /\ AliCh'[t] = AliCh[t]
    BY Zenon, <1>1, <1>4
  <1> QED
    BY <1>1, <1>2, <1>3, <1>5, QuietFrames

\* A worker takes a frame, or frees its channel.
LEMMA WorkerFrames ==
    ASSUME IInv, FramesSound, NEW w \in Workers, RecogMain(w)
    PROVE  FramesSound'
  <1> DEFINE c == worker[w].ch
  <1>1. UNCHANGED <<AliCh, consumer, busy, recognizing, mpf>>
    BY Zenon DEF RecogMain, session_vars, pool_vars
  <1>2. \/ chan' = chan
        \/ chan[c].frames # <<>> /\ chan' = [chan EXCEPT ![c].frames = Tail(@)]
        \/ chan' = [chan EXCEPT ![c] = [@ EXCEPT !.m_Channel = NULL, !.m_Recoger = NULL,
                                                 !.m_starting = FALSE]]
    BY Zenon DEF RecogMain, RunTask, DoCreateRecogRequest, TestStarting, PopFrame,
       DoWriteFrame, EndRecogMain, Crash
  <1>3. chan \in [Chans -> ChanStates]
    BY Zenon DEF FramesSound
  <1> HIDE DEF c
  <1>4. chan' \in [Chans -> ChanStates] /\ \A d \in Chans : Taking(d)
    <2>1. CASE chan' = chan
      BY Zenon, <2>1, SameFrames
    <2>2. CASE c \notin Chans
      <3>1. chan' = chan
        BY <1>2, <1>3, <2>2
      <3> QED
        BY Zenon, <3>1, SameFrames
    <2>3. CASE c \in Chans /\ chan[c].frames # <<>> /\ chan' = [chan EXCEPT ![c].frames = Tail(@)]
      <3> DEFINE q == Tail(chan[c].frames)
                 new == [chan[c] EXCEPT !.frames = q]
      <3>1. chan' = [chan EXCEPT ![c] = new]
        BY <2>3
      <3>2. chan[c] \in ChanStates
        BY Zenon, <1>3, <2>3
      <3>3. q \in Seq(Sessions)
        BY <2>3, <3>2 DEF ChanStates
      <3> HIDE DEF q
      <3>4. new \in ChanStates /\ new.frames = q
        BY Zenon, <3>2, <3>3, ChanFields
      <3> HIDE DEF new
      <3> QED
        BY Zenon, <2>3, <3>1, <3>4, ChangedFrames DEF q
    <2>4. CASE /\ c \in Chans
               /\ chan' = [chan EXCEPT ![c] = [@ EXCEPT !.m_Channel = NULL, !.m_Recoger = NULL,
                                                        !.m_starting = FALSE]]
      <3> DEFINE new == [chan[c] EXCEPT !.m_Channel = NULL, !.m_Recoger = NULL,
                                        !.m_starting = FALSE]
      <3>1. chan' = [chan EXCEPT ![c] = new]
        BY <2>4
      <3>2. chan[c] \in ChanStates
        BY Zenon, <1>3, <2>4
      <3>3. new \in ChanStates /\ new.frames = chan[c].frames
        BY Zenon, <3>2, ChanFields
      <3> HIDE DEF new
      <3> QED
        BY Zenon, <2>4, <3>1, <3>3, ChangedFrames
    <2> QED
      BY Zenon, <1>2, <2>1, <2>2, <2>3, <2>4
  <1>5. /\ \A t \in recognizing' : t \in recognizing /\ AliCh'[t] \in {AliCh[t], NULL}
        /\ \A t \in Holders' : t \in Holders /\ AliCh'[t] = AliCh[t]
    BY Zenon, <1>1 DEF Holders
  <1> QED
    BY Zenon, <1>1, <1>4, <1>5, QuietFrames

\* Every step keeps the frames of a session in its own channel.
LEMMA NextFrames == ASSUME IInv, FramesSound, [Next]_vars PROVE FramesSound'
  <1>1. ASSUME UNCHANGED <<AliCh, recognizing, chan, consumer, mpf, busy>>
        PROVE  FramesSound'
    <2>1. /\ \A t \in recognizing' : t \in recognizing /\ AliCh'[t] \in {AliCh[t], NULL}
          /\ \A t \in Holders' : t \in Holders /\ AliCh'[t] = AliCh[t]
      BY Zenon, <1>1 DEF Holders
    <2> QED
      BY Zenon, <1>1, <2>1, SameFrames, QuietFrames
  <1>2. CASE UNCHANGED vars
    BY Zenon, <1>1, <1>2 DEF vars, session_vars, pool_vars
  <1>3. CASE EngineReocgStart
    BY Zenon, <1>3, NewChannelFrames, StartFrames, TaskPushFrames, StartFailedFrames
       DEF EngineReocgStart
  <1>4. CASE MpfStep
    BY Zenon, <1>4, WriteFrames, PushFrames, ReturnFrames, MpfFrames DEF MpfStep
  <1>5. ASSUME NEW w \in Workers, RecogMain(w) PROVE FramesSound'
    BY Zenon, <1>5, WorkerFrames
  <1>6. ASSUME NEW r \in Resources, OnRecognitionResult(r) PROVE FramesSound'
    BY Zenon, <1>1, <1>6 DEF OnRecognitionResult, session_vars, pool_vars
  <1> QED
    BY Zenon, <1>2, <1>3, <1>4, <1>5, <1>6 DEF Next

\* No frame of another session waits in the channel of a session, although the
\* MPF thread may write to a channel it looked up before its session lost it,
\* and workers of earlier recognitions may still take frames.
THEOREM FramesStayOwn == Spec => []FramesOfOwner
  <1>1. Init => IInv /\ FramesSound
    BY InitIInv, InitFrames
  <1>2. (IInv /\ FramesSound) /\ [Next]_vars => (IInv /\ FramesSound)'
    BY NextIInv, NextFrames
  <1>3. IInv /\ FramesSound => FramesOfOwner
    <2> SUFFICES ASSUME FramesSound, NEW s \in Holders, NEW i \in DOMAIN chan[AliCh[s]].frames
                 PROVE  chan[AliCh[s]].frames[i] = s
      BY Zenon DEF FramesOfOwner
    <2>1. AliCh[s] \in Chans /\ IsOwn(chan[AliCh[s]].frames, s)
      BY Zenon DEF Holders, FramesSound
    <2>2. chan[AliCh[s]].frames \in Seq(Sessions)
      BY <2>1 DEF FramesSound, ChanStates
    <2> QED
      BY <2>1, <2>2 DEF IsOwn
  <1> QED
    BY <1>1, <1>2, <1>3, PTL DEF Spec

=============================================================================
