--------------------------- MODULE AliSynthProofs ---------------------------
(***************************************************************************)
(* HeldIsBusy, CompleteForSpeaker and AudioInOrder for any number of       *)
(* sessions, channels, workers and requests.                               *)
(* HeldIsBusy is not inductive as it stands: that a thread                 *)
(* in EngineSynthStop still gives back the channel of its session needs    *)
(* that nobody else works on the session meanwhile, which rests on when    *)
(* the server sends a request (NoRequest), on what the consumer task has   *)
(* in work (InWork), and on a STOP being answered once (StopInWork).       *)
(* AudioInOrder rests on the lock of a channel: see AudioOf.               *)
(***************************************************************************)
EXTENDS AliSynth, TLAPS

Requests == {"SPEAK", "STOP", "PAUSE", "RESUME", "stopping"}
Threads == {mpf, server}

\* The values of ch.
ChType == [Sessions -> [speak_request : (Sessions \X Nat) \cup {NULL},
                        stop_response : BOOLEAN, paused : BOOLEAN,
                        AliSynthCh : Chans \cup {NULL}]]

\* The part of the type invariant that the argument needs.
Types ==
    /\ idle \subseteq Chans /\ busy \subseteq Chans
    /\ ch \in ChType
    /\ consumer \in [pc : {"idle", "start", "respond", "store"},
                     s : Sessions \cup {NULL}, c : Chans \cup {NULL}]
    /\ consumer.pc # "idle" => consumer.s \in Sessions
    /\ consumer.pc = "start" => consumer.c \in Chans
    /\ mpf \in [pc : {"idle", "stop", "delete", "forget", "clear", "read", "finish"},
                s : Sessions \cup {NULL}, c : Chans \cup {NULL}]
    /\ mpf.pc # "idle" => mpf.s \in Sessions
    /\ server \in [pc : {"idle", "stop", "delete", "forget"},
                   s : Sessions \cup {NULL}, c : Chans \cup {NULL}]
    /\ server.pc # "idle" => server.s \in Sessions
    /\ view \in [Sessions -> {"idle", "speaking", "paused", "closing", "closed"}]
    /\ request \in [Sessions -> Requests \cup {NULL}]
    /\ speaks \in [Sessions -> Nat]

\* The consumer task works on a SPEAK that is not answered.
InWork ==
    consumer.pc \in {"start", "respond"} => request[consumer.s] = "SPEAK"

\* A STOP waits for the MPF thread, or has just been answered by it.
StopInWork ==
    \A s \in Sessions : ch[s].stop_response =>
        request[s] = "stopping" \/ (mpf.s = s /\ mpf.pc = "clear")

\* No request is in work for a session whose channel is given back or whose
\* end has begun.
NoRequest ==
    \A s \in Sessions :
        /\ view[s] \in {"closing", "closed"} => request[s] = NULL
        /\ Stopping(mpf, s) => request[s] = NULL
        /\ Stopping(server, s) => view[s] = "closing"

\* A thread gives back the channel of its session, and it alone does.
OneStops ==
    \A s \in Sessions :
        /\ Stopping(mpf, s) => mpf.c = ch[s].AliSynthCh /\ mpf.c # NULL
        /\ Stopping(server, s) => server.c = ch[s].AliSynthCh /\ server.c # NULL
        /\ ~(Stopping(mpf, s) /\ Stopping(server, s))

IInv ==
    /\ Types
    /\ InWork
    /\ StopInWork
    /\ NoRequest
    /\ OneStops
    /\ HeldIsBusy

-----------------------------------------------------------------------------

(* What an assignment to one field of a session changes. *)

\* channel->AliSynthCh = v
LEMMA SetChannel ==
  ASSUME ch \in ChType, NEW s \in Sessions, NEW v \in Chans \cup {NULL},
         ch' = [ch EXCEPT ![s].AliSynthCh = v]
  PROVE  /\ ch' \in ChType /\ ch'[s].AliSynthCh = v
         /\ ch'[s].stop_response = ch[s].stop_response
         /\ ch'[s].speak_request = ch[s].speak_request
         /\ \A t \in Sessions \ {s} : ch'[t] = ch[t]
  BY DEF ChType

\* channel->speak_request = v
LEMMA SetSpeak ==
  ASSUME ch \in ChType, NEW s \in Sessions,
         NEW v \in (Sessions \X Nat) \cup {NULL},
         ch' = [ch EXCEPT ![s].speak_request = v]
  PROVE  /\ ch' \in ChType /\ ch'[s].AliSynthCh = ch[s].AliSynthCh
         /\ ch'[s].stop_response = ch[s].stop_response
         /\ ch'[s].speak_request = v
         /\ \A t \in Sessions \ {s} : ch'[t] = ch[t]
  BY DEF ChType

\* channel->paused = v
LEMMA SetPaused ==
  ASSUME ch \in ChType, NEW s \in Sessions, NEW v \in BOOLEAN,
         ch' = [ch EXCEPT ![s].paused = v]
  PROVE  /\ ch' \in ChType /\ ch'[s].AliSynthCh = ch[s].AliSynthCh
         /\ ch'[s].stop_response = ch[s].stop_response
         /\ ch'[s].speak_request = ch[s].speak_request
         /\ \A t \in Sessions \ {s} : ch'[t] = ch[t]
  BY DEF ChType

\* channel->stop_response = v
LEMMA SetStop ==
  ASSUME ch \in ChType, NEW s \in Sessions, NEW v \in BOOLEAN,
         ch' = [ch EXCEPT ![s].stop_response = v]
  PROVE  /\ ch' \in ChType /\ ch'[s].AliSynthCh = ch[s].AliSynthCh
         /\ ch'[s].stop_response = v
         /\ ch'[s].speak_request = ch[s].speak_request
         /\ \A t \in Sessions \ {s} : ch'[t] = ch[t]
  BY DEF ChType

\* The stored STOP, the SPEAK and paused are cleared together.
LEMMA SetClear ==
  ASSUME ch \in ChType, NEW s \in Sessions,
         ch' = [ch EXCEPT ![s] = [@ EXCEPT !.stop_response = FALSE,
                                           !.speak_request = NULL,
                                           !.paused = FALSE]]
  PROVE  /\ ch' \in ChType /\ ch'[s].AliSynthCh = ch[s].AliSynthCh
         /\ ~ch'[s].stop_response /\ ch'[s].speak_request = NULL
         /\ \A t \in Sessions \ {s} : ch'[t] = ch[t]
  <1> DEFINE old == ch[s]
             new == [old EXCEPT !.stop_response = FALSE, !.speak_request = NULL,
                                !.paused = FALSE]
             type == [speak_request : (Sessions \X Nat) \cup {NULL},
                      stop_response : BOOLEAN, paused : BOOLEAN,
                      AliSynthCh : Chans \cup {NULL}]
  <1>1. old \in type
    BY DEF ChType
  <1>2. ch' = [ch EXCEPT ![s] = new]
    OBVIOUS
  <1> HIDE DEF old
  <1>3. /\ new \in type
        /\ new.AliSynthCh = old.AliSynthCh
        /\ ~new.stop_response /\ new.speak_request = NULL
    BY Zenon, <1>1
  <1> HIDE DEF new
  <1>4. ch' \in ChType /\ ch'[s] = new /\ \A t \in Sessions \ {s} : ch'[t] = ch[t]
    BY <1>2, <1>3 DEF ChType
  <1> QED
    BY <1>3, <1>4 DEF old

-----------------------------------------------------------------------------

\* The invariant holds when the engine has been opened.
LEMMA InitIInv == Init => IInv
  <1> SUFFICES ASSUME Init PROVE IInv
    OBVIOUS
  <1> USE SynthAssumption DEF Init, Idle
  <1>1. Types
    BY DEF Types, ChType, Chans, Requests
  <1>2. InWork /\ StopInWork /\ NoRequest /\ OneStops
    BY DEF InWork, StopInWork, NoRequest, OneStops, Stopping
  <1>3. HeldIsBusy
    BY DEF HeldIsBusy, Holders
  <1> QED
    BY <1>1, <1>2, <1>3 DEF IInv

\* HeldIsBusy holds on while the pools stay the same and nobody gets a channel.
LEMMA NobodyNew ==
  ASSUME HeldIsBusy, UNCHANGED pool_vars, Holders' \subseteq Holders,
         \A s \in Holders' : ch'[s].AliSynthCh = ch[s].AliSynthCh,
         consumer'.pc = "start" => consumer' = consumer
  PROVE  HeldIsBusy'
  BY DEF HeldIsBusy, pool_vars

\* The steps of the workers and of the SDK change none of the variables that
\* the invariant speaks of.
LEMMA Elsewhere ==
  ASSUME IInv, UNCHANGED <<pool_vars, ch, consumer, mpf, server, server_vars>>
  PROVE  IInv'
  BY DEF IInv, Types, InWork, StopInWork, NoRequest, OneStops, HeldIsBusy, Holders,
         Stopping, pool_vars, server_vars

\* The requests and the tests of view that come with them.
LEMMA SendIInv == ASSUME IInv, NEW s \in Sessions, Send(s) PROVE IInv'
  <1> USE SynthAssumption DEF IInv
  <1>1. PICK r \in Allowed(s) :
            /\ request' = [request EXCEPT ![s] = r]
            /\ speaks' = [speaks EXCEPT ![s] = IF r = "SPEAK" THEN @ + 1 ELSE @]
    BY Zenon DEF Send
  <1>2. r \in Requests \ {"stopping"} /\ view[s] \notin {"closing", "closed"}
    BY <1>1 DEF Allowed, Requests
  <1>3. /\ request[s] = NULL /\ ~Stopping(mpf, s)
        /\ UNCHANGED <<pool_vars, ch, consumer, mpf, server, view>>
    BY DEF Send
  <1>4. Types'
    BY <1>1, <1>2, <1>3 DEF Types, pool_vars
  <1>5. InWork' /\ StopInWork' /\ OneStops'
    BY <1>1, <1>2, <1>3 DEF InWork, StopInWork, OneStops, Stopping, Types, Requests
  <1>6. NoRequest'
    BY <1>1, <1>2, <1>3 DEF NoRequest, Stopping, Types
  <1>7. HeldIsBusy'
    BY <1>3, NobodyNew DEF Holders
  <1> QED
    BY <1>4, <1>5, <1>6, <1>7

\* STOP, PAUSE and RESUME of a session leave its channel alone.
LEMMA StopPauseResumeIInv ==
  ASSUME IInv, NEW s \in Sessions,
         \/ Ali_synth_channel_stop(s)
         \/ Ali_synth_channel_pause(s)
         \/ Ali_synth_channel_resume(s)
  PROVE  IInv'
  <1> USE SynthAssumption DEF IInv
  <1>1. /\ UNCHANGED <<pool_vars, consumer, mpf, server, speaks>>
        /\ consumer.pc = "idle"
        /\ request[s] \in {"STOP", "PAUSE", "RESUME"}
    BY DEF Ali_synth_channel_stop, Ali_synth_channel_pause,
           Ali_synth_channel_resume, Respond
  <1>2. /\ ch' \in ChType
        /\ \A t \in Sessions : ch'[t].AliSynthCh = ch[t].AliSynthCh
        /\ \A t \in Sessions \ {s} : ch'[t] = ch[t]
        /\ \/ ch'[s].stop_response = ch[s].stop_response
           \/ Ali_synth_channel_stop(s)
    <2> ch \in ChType
      BY DEF Types
    <2>1. CASE Ali_synth_channel_stop(s)
      <3>1. ch' = [ch EXCEPT ![s].stop_response = TRUE]
        BY <2>1 DEF Ali_synth_channel_stop
      <3> QED
        BY Zenon, <2>1, <3>1, SetStop
    <2>2. CASE Ali_synth_channel_pause(s)
      <3>1. ch' = [ch EXCEPT ![s].paused = TRUE]
        BY <2>2 DEF Ali_synth_channel_pause
      <3> QED
        BY Zenon, <3>1, SetPaused
    <2>3. CASE Ali_synth_channel_resume(s)
      <3>1. ch' = [ch EXCEPT ![s].paused = FALSE]
        BY <2>3 DEF Ali_synth_channel_resume
      <3> QED
        BY Zenon, <3>1, SetPaused
    <2> QED
      BY <2>1, <2>2, <2>3
  <1>3. /\ request' \in [Sessions -> Requests \cup {NULL}]
        /\ view' \in [Sessions -> {"idle", "speaking", "paused", "closing", "closed"}]
        /\ \A t \in Sessions \ {s} : request'[t] = request[t] /\ view'[t] = view[t]
        /\ \/ view' = view /\ request'[s] = "stopping"
           \/ /\ view'[s] \in {"idle", "paused", "speaking"} /\ request'[s] = NULL
              /\ ~Ali_synth_channel_stop(s)
    BY Zenon DEF Ali_synth_channel_stop, Ali_synth_channel_pause,
           Ali_synth_channel_resume, Respond, Types, Requests
  <1>4. view[s] \notin {"closing", "closed"} /\ ~Stopping(mpf, s) /\ ~Stopping(server, s)
    BY <1>1 DEF NoRequest
  <1>5. Types'
    BY <1>1, <1>2, <1>3 DEF Types, pool_vars
  <1>6. StopInWork'
    BY <1>1, <1>2, <1>3 DEF StopInWork
  <1>7. InWork' /\ NoRequest' /\ OneStops'
    BY <1>1, <1>2, <1>3, <1>4 DEF InWork, NoRequest, OneStops, Stopping
  <1>8. HeldIsBusy'
    BY <1>1, <1>2, NobodyNew DEF Holders
  <1> QED
    BY <1>5, <1>6, <1>7, <1>8

\* A channel that is lent was idle, so nobody holds it.
LEMMA NewChannelIInv == ASSUME IInv, NEW s \in Sessions, NewChannel(s) PROVE IInv'
  <1> USE SynthAssumption DEF IInv
  <1>1. UNCHANGED <<ch, mpf, server, server_vars>>
    BY DEF NewChannel
  <1>2. CASE UNCHANGED <<consumer, pool_vars>>
    BY <1>1, <1>2, Elsewhere
  <1>3. ASSUME NEW c \in idle,
               consumer' = [pc |-> "start", s |-> s, c |-> c],
               idle' = idle \ {c}, busy' = busy \cup {c}
        PROVE  IInv'
    <2>1. Types'
      BY <1>1, <1>3 DEF Types, server_vars
    <2>2. InWork' /\ StopInWork' /\ NoRequest' /\ OneStops'
      BY <1>1, <1>3 DEF InWork, StopInWork, NoRequest, OneStops, Stopping,
                        NewChannel, server_vars
    <2>3. HeldIsBusy'
      BY <1>1, <1>3 DEF HeldIsBusy, Holders
    <2> QED
      BY <2>1, <2>2, <2>3
  <1> QED
    BY <1>2, <1>3 DEF NewChannel

\* The channel that is started becomes the session's, or goes back.
LEMMA StartIInv == ASSUME IInv, Start PROVE IInv'
  <1> USE SynthAssumption DEF IInv
  <1> DEFINE s == consumer.s
             c == consumer.c
  <1>1. /\ s \in Sessions /\ c \in Chans
        /\ request[s] = "SPEAK"
        /\ consumer' = [consumer EXCEPT !.pc = "respond"]
        /\ UNCHANGED <<mpf, server, server_vars>>
    BY DEF Start, Types, InWork
  <1>2. ~Stopping(mpf, s) /\ ~Stopping(server, s)
    BY <1>1 DEF NoRequest
  <1>3. \/ /\ ch' = [ch EXCEPT ![s].AliSynthCh = c]
           /\ UNCHANGED pool_vars
        \/ /\ ch' = [ch EXCEPT ![s].AliSynthCh = NULL]
           /\ DeleteChannel(c)
    BY DEF Start
  <1>4. /\ ch' \in ChType
        /\ ch'[s].AliSynthCh = c \/ ch'[s].AliSynthCh = NULL
        /\ \A t \in Sessions \ {s} : ch'[t] = ch[t]
        /\ \A t \in Sessions : ch'[t].stop_response = ch[t].stop_response
    <2>1. ch \in ChType /\ NULL \in Chans \cup {NULL} /\ c \in Chans \cup {NULL}
      BY <1>1 DEF Types
    <2>2. s \in Sessions
      BY <1>1
    <2>3. CASE ch' = [ch EXCEPT ![s].AliSynthCh = c]
      BY Zenon, <2>1, <2>2, <2>3, SetChannel
    <2>4. CASE ch' = [ch EXCEPT ![s].AliSynthCh = NULL]
      BY Zenon, <2>1, <2>2, <2>4, SetChannel
    <2> QED
      BY <1>3, <2>3, <2>4
  <1>5. Types' /\ InWork' /\ StopInWork' /\ NoRequest'
    <2>1. Types'
      BY Zenon, <1>1, <1>3, <1>4 DEF Types, server_vars, pool_vars, DeleteChannel
    <2>2. InWork' /\ StopInWork' /\ NoRequest'
      BY <1>1, <1>4 DEF InWork, StopInWork, NoRequest, Stopping, server_vars, Types
    <2> QED
      BY <2>1, <2>2
  <1>6. OneStops'
    BY <1>1, <1>2, <1>4 DEF OneStops, Stopping, Types
  <1>7. HeldIsBusy'
    <2>1. consumer.pc = "start" /\ c \in busy /\ \A t \in Holders : ch[t].AliSynthCh # c
      BY DEF Start, HeldIsBusy
    <2>2. \A t \in Sessions \ {s} : /\ ch'[t] = ch[t]
                                    /\ t \in Holders' <=> t \in Holders
      BY <1>1, <1>4 DEF Holders, Types
    <2>3. ch'[s].AliSynthCh = c \/ (ch'[s].AliSynthCh = NULL /\ s \notin Holders')
      BY <1>1, <1>4 DEF Holders, Types
    <2>4. consumer'.pc # "start"
      BY <1>1 DEF Types
    <2>5. Holders \subseteq Sessions /\ Holders' \subseteq Sessions
      BY DEF Holders
    <2>6. CASE UNCHANGED pool_vars
      BY <2>1, <2>2, <2>3, <2>4, <2>5, <2>6 DEF HeldIsBusy, pool_vars
    <2>7. CASE ch' = [ch EXCEPT ![s].AliSynthCh = NULL] /\ DeleteChannel(c)
      <3>1. s \notin Holders'
        BY <1>1, <2>7 DEF Holders, Types, ChType
      <3> QED
        BY <2>1, <2>2, <2>4, <2>5, <2>7, <3>1 DEF HeldIsBusy, DeleteChannel
    <2> QED
      BY <1>3, <2>6, <2>7
  <1> QED
    BY <1>5, <1>6, <1>7

\* The end of a SPEAK: its response, and the request that is stored.
LEMMA RespondSpeakIInv == ASSUME IInv, RespondSpeak PROVE IInv'
  <1> USE SynthAssumption DEF IInv
  <1> DEFINE s == consumer.s
  <1>1. /\ s \in Sessions /\ request[s] = "SPEAK"
        /\ consumer' = [consumer EXCEPT !.pc = "store"]
        /\ view' = [view EXCEPT ![s] = "speaking"]
        /\ request' = [request EXCEPT ![s] = NULL]
        /\ UNCHANGED <<pool_vars, ch, mpf, server, speaks>>
    BY DEF RespondSpeak, Respond, Types, InWork
  <1>2. Types'
    BY Zenon, <1>1 DEF Types, pool_vars
  <1>3. InWork' /\ StopInWork' /\ OneStops'
    BY <1>1 DEF InWork, StopInWork, OneStops, Stopping, Types
  <1>4. NoRequest'
    BY <1>1 DEF NoRequest, Stopping, Types
  <1>5. HeldIsBusy'
    BY <1>1, NobodyNew DEF Holders, Types
  <1> QED
    BY <1>2, <1>3, <1>4, <1>5

\* The answered SPEAK is stored.
LEMMA StoreSpeakIInv == ASSUME IInv, StoreSpeak PROVE IInv'
  <1> USE SynthAssumption DEF IInv
  <1> DEFINE s == consumer.s
  <1>1. /\ s \in Sessions
        /\ ch' = [ch EXCEPT ![s].speak_request = <<s, speaks[s]>>]
        /\ consumer' = [pc |-> "idle", s |-> NULL, c |-> NULL]
        /\ UNCHANGED <<pool_vars, mpf, server, server_vars>>
    BY DEF StoreSpeak, Types, Idle
  <1>2. /\ ch' \in ChType
        /\ \A t \in Sessions : /\ ch'[t].AliSynthCh = ch[t].AliSynthCh
                              /\ ch'[t].stop_response = ch[t].stop_response
    <2>1. ch \in ChType /\ <<s, speaks[s]>> \in (Sessions \X Nat) \cup {NULL}
      BY <1>1 DEF Types
    <2>2. s \in Sessions /\ ch' = [ch EXCEPT ![s].speak_request = <<s, speaks[s]>>]
      BY <1>1
    <2> HIDE DEF s
    <2> QED
      BY Zenon, <2>1, <2>2, SetSpeak
  <1>3. Types'
    BY <1>1, <1>2 DEF Types, pool_vars, server_vars
  <1>4. InWork' /\ StopInWork' /\ NoRequest' /\ OneStops'
    BY <1>1, <1>2 DEF InWork, StopInWork, NoRequest, OneStops, Stopping, server_vars
  <1>5. HeldIsBusy'
    BY <1>1, <1>2, NobodyNew DEF Holders
  <1> QED
    BY <1>3, <1>4, <1>5

-----------------------------------------------------------------------------
(* EngineSynthStop *)

\* What the steps of EngineSynthStop do to the pools and the pointer of the
\* session, whichever thread t takes them.
LEMMA StopStep ==
  ASSUME IInv, NEW t \in Threads, EngineSynthStop(t), t.s \in Sessions
  PROVE  /\ t.pc \in {"stop", "delete", "forget"}
         /\ Stopping(t, t.s)
         /\ \A s \in Sessions \ {t.s} : ch'[s] = ch[s]
         /\ ch' \in ChType
         /\ \A s \in Sessions : ch'[s].stop_response = ch[s].stop_response
         /\ t.pc = "stop" => UNCHANGED <<pool_vars, ch>>
         /\ t.pc = "delete" => DeleteChannel(t.c) /\ UNCHANGED ch
         /\ t.pc = "forget" => UNCHANGED pool_vars /\ ch'[t.s].AliSynthCh = NULL
  <1>1. CASE StopChannel(t)
    BY <1>1 DEF StopChannel, IInv, Types, Stopping
  <1>2. CASE ReturnChannel(t)
    BY <1>2 DEF ReturnChannel, IInv, Types, Stopping
  <1>3. CASE ForgetChannel(t)
    <2>1. ch \in ChType /\ NULL \in Chans \cup {NULL}
      BY DEF IInv, Types
    <2>2. ch' = [ch EXCEPT ![t.s].AliSynthCh = NULL]
      BY <1>3 DEF ForgetChannel
    <2>3. /\ ch' \in ChType
          /\ ch'[t.s].AliSynthCh = NULL /\ ch'[t.s].stop_response = ch[t.s].stop_response
          /\ \A s \in Sessions \ {t.s} : ch'[s] = ch[s]
      BY Zenon, <2>1, <2>2, SetChannel
    <2> QED
      BY <1>3, <2>3 DEF ForgetChannel, Stopping
  <1> QED
    BY <1>1, <1>2, <1>3 DEF EngineSynthStop

\* The MPF thread gives back the channel of its session.
LEMMA MpfStopIInv == ASSUME IInv, MpfStop PROVE IInv'
  <1> USE SynthAssumption DEF IInv
  <1>1. /\ mpf.pc \in {"stop", "delete", "forget"}
        /\ EngineSynthStop(mpf)
        /\ mpf' = NextStop(mpf)
        /\ UNCHANGED <<consumer, server, server_vars>>
    BY DEF MpfStop, EngineSynthStop, StopChannel, ReturnChannel, ForgetChannel
  <1>2. mpf.s \in Sessions
    BY <1>1 DEF Types
  <1> DEFINE s == mpf.s
  <1>3. /\ Stopping(mpf, s) /\ ~Stopping(server, s) /\ request[s] = NULL
        /\ mpf.c = ch[s].AliSynthCh /\ mpf.c # NULL
    BY <1>1, <1>2 DEF NoRequest, OneStops, Stopping
  <1>4. /\ mpf.pc = "stop" => mpf' = [mpf EXCEPT !.pc = "delete"]
        /\ mpf.pc = "delete" => mpf' = [mpf EXCEPT !.pc = "forget"]
        /\ mpf.pc = "forget" => mpf' = [pc |-> "idle", s |-> NULL, c |-> NULL]
    BY <1>1 DEF NextStop, Idle
  <1> HIDE DEF IInv
  <1>5. /\ \A t \in Sessions \ {s} : ch'[t] = ch[t]
        /\ ch' \in ChType
        /\ \A t \in Sessions : ch'[t].stop_response = ch[t].stop_response
        /\ mpf.pc = "stop" => UNCHANGED <<pool_vars, ch>>
        /\ mpf.pc = "delete" => DeleteChannel(mpf.c) /\ UNCHANGED ch
        /\ mpf.pc = "forget" => UNCHANGED pool_vars /\ ch'[s].AliSynthCh = NULL
    BY <1>1, <1>2, StopStep DEF Threads
  <1> USE DEF IInv
  <1>6. Types'
    <2>1. mpf.c \in Chans
      BY <1>3 DEF Types
    <2>2. idle' \subseteq Chans /\ busy' \subseteq Chans
      BY <1>1, <1>5, <2>1 DEF Types, pool_vars, DeleteChannel
    <2>3. /\ mpf' \in [pc : {"idle", "stop", "delete", "forget", "clear", "read", "finish"},
                       s : Sessions \cup {NULL}, c : Chans \cup {NULL}]
          /\ mpf'.pc # "idle" => mpf'.s \in Sessions
      <3>1. CASE mpf.pc = "forget"
        BY <1>4, <3>1
      <3>2. CASE mpf.pc # "forget"
        BY Zenon, <1>1, <1>2, <1>4, <3>2 DEF Types
      <3> QED
        BY <3>1, <3>2
    <2> QED
      BY <1>1, <1>5, <2>2, <2>3 DEF Types, server_vars
  <1>7. InWork' /\ NoRequest'
    BY <1>1, <1>2, <1>4, <1>5 DEF InWork, NoRequest, Stopping, server_vars, Types
  <1>8. StopInWork'
    BY <1>1, <1>2, <1>3, <1>4, <1>5 DEF StopInWork, server_vars, Types
  <1>9. OneStops'
    BY <1>1, <1>2, <1>3, <1>4, <1>5 DEF OneStops, Stopping, Types
  <1>10. HeldIsBusy'
    <2>1. CASE mpf.pc # "delete"
      <3>1. Holders' \subseteq Holders /\ \A t \in Holders' : ch'[t] = ch[t]
        BY SMTT(30), <1>1, <1>2, <1>4, <1>5, <2>1 DEF Holders, Types
      <3> QED
        BY <1>1, <1>5, <2>1, <3>1, NobodyNew
    <2>2. CASE mpf.pc = "delete"
      <3>1. s \in Holders
        BY <1>2, <1>3, <2>2 DEF Holders, Stopping
      <3>2. Holders' \subseteq Holders \ {s} /\ ch' = ch
        BY <1>1, <1>2, <1>4, <1>5, <2>2 DEF Holders, Types
      <3> QED
        BY <1>1, <1>3, <1>5, <2>2, <3>1, <3>2 DEF HeldIsBusy, DeleteChannel
    <2> QED
      BY <2>1, <2>2
  <1> QED
    BY <1>6, <1>7, <1>8, <1>9, <1>10

\* The server's thread gives back the channel of a session that ends.
LEMMA ServerStopIInv == ASSUME IInv, ServerStop PROVE IInv'
  <1> USE SynthAssumption DEF IInv
  <1>1. /\ server.pc \in {"stop", "delete", "forget"}
        /\ EngineSynthStop(server)
        /\ server' = NextStop(server)
        /\ UNCHANGED <<consumer, mpf, server_vars>>
    BY DEF ServerStop, EngineSynthStop, StopChannel, ReturnChannel, ForgetChannel
  <1>2. server.s \in Sessions
    BY <1>1 DEF Types
  <1> DEFINE s == server.s
  <1>3. /\ Stopping(server, s) /\ ~Stopping(mpf, s) /\ view[s] = "closing"
        /\ server.c = ch[s].AliSynthCh /\ server.c # NULL
    BY <1>1, <1>2 DEF NoRequest, OneStops, Stopping
  <1>4. /\ server.pc = "stop" => server' = [server EXCEPT !.pc = "delete"]
        /\ server.pc = "delete" => server' = [server EXCEPT !.pc = "forget"]
        /\ server.pc = "forget" => server' = [pc |-> "idle", s |-> NULL, c |-> NULL]
    BY <1>1 DEF NextStop, Idle
  <1> HIDE DEF IInv
  <1>5. /\ \A t \in Sessions \ {s} : ch'[t] = ch[t]
        /\ ch' \in ChType
        /\ \A t \in Sessions : ch'[t].stop_response = ch[t].stop_response
        /\ server.pc = "stop" => UNCHANGED <<pool_vars, ch>>
        /\ server.pc = "delete" => DeleteChannel(server.c) /\ UNCHANGED ch
        /\ server.pc = "forget" => UNCHANGED pool_vars /\ ch'[s].AliSynthCh = NULL
    BY <1>1, <1>2, StopStep DEF Threads
  <1> USE DEF IInv
  <1>6. Types'
    <2>1. server.c \in Chans
      BY <1>3 DEF Types
    <2>2. idle' \subseteq Chans /\ busy' \subseteq Chans
      BY <1>1, <1>5, <2>1 DEF Types, pool_vars, DeleteChannel
    <2>3. /\ server' \in [pc : {"idle", "stop", "delete", "forget"},
                          s : Sessions \cup {NULL}, c : Chans \cup {NULL}]
          /\ server'.pc # "idle" => server'.s \in Sessions
      <3>1. CASE server.pc = "forget"
        BY <1>4, <3>1
      <3>2. CASE server.pc # "forget"
        BY Zenon, <1>1, <1>2, <1>4, <3>2 DEF Types
      <3> QED
        BY <3>1, <3>2
    <2> QED
      BY <1>1, <1>5, <2>2, <2>3 DEF Types, server_vars
  <1>7. InWork' /\ NoRequest'
    BY <1>1, <1>2, <1>4, <1>5 DEF InWork, NoRequest, Stopping, server_vars, Types
  <1>8. StopInWork'
    BY <1>1, <1>2, <1>3, <1>4, <1>5 DEF StopInWork, server_vars, Types
  <1>9. OneStops'
    BY <1>1, <1>2, <1>3, <1>4, <1>5 DEF OneStops, Stopping, Types
  <1>10. HeldIsBusy'
    <2>1. CASE server.pc # "delete"
      <3>1. Holders' \subseteq Holders /\ \A t \in Holders' : ch'[t] = ch[t]
        BY <1>1, <1>2, <1>4, <1>5, <2>1 DEF Holders, Types
      <3> QED
        BY <1>1, <1>5, <2>1, <3>1, NobodyNew
    <2>2. CASE server.pc = "delete"
      <3>1. s \in Holders
        BY <1>2, <1>3, <2>2 DEF Holders, Stopping
      <3>2. Holders' \subseteq Holders \ {s} /\ ch' = ch
        BY <1>1, <1>2, <1>4, <1>5, <2>2 DEF Holders, Types
      <3> QED
        BY <1>1, <1>3, <1>5, <2>2, <3>1, <3>2 DEF HeldIsBusy, DeleteChannel
    <2> QED
      BY <2>1, <2>2
  <1> QED
    BY <1>6, <1>7, <1>8, <1>9, <1>10

\* A call of EngineSynthStop begins when no other is in work for the session.
LEMMA CloseIInv == ASSUME IInv, NEW s \in Sessions, Ali_synth_channel_close(s) PROVE IInv'
  <1> USE SynthAssumption DEF IInv
  <1>1. /\ server.pc = "idle" /\ request[s] = NULL /\ ~Stopping(mpf, s)
        /\ view[s] \notin {"closing", "closed"}
        /\ server' = StopCall(s)
        /\ view' = [view EXCEPT ![s] = "closing"]
        /\ UNCHANGED <<pool_vars, ch, consumer, mpf, request, speaks>>
    BY DEF Ali_synth_channel_close
  <1>2. \/ server' = [pc |-> "idle", s |-> NULL, c |-> NULL]
        \/ /\ server' = [pc |-> "stop", s |-> s, c |-> ch[s].AliSynthCh]
           /\ ch[s].AliSynthCh \in Chans /\ ch[s].AliSynthCh # NULL
    BY <1>1 DEF StopCall, Idle, Types, ChType
  <1>3. Types'
    BY <1>1, <1>2 DEF Types, pool_vars
  <1>4. InWork' /\ StopInWork'
    BY <1>1 DEF InWork, StopInWork
  <1>5. NoRequest'
    BY <1>1, <1>2 DEF NoRequest, Stopping, Types
  <1>6. OneStops'
    BY <1>1, <1>2 DEF OneStops, Stopping, Types
  <1>7. HeldIsBusy'
    BY <1>1, <1>2, NobodyNew DEF Holders
  <1> QED
    BY <1>3, <1>4, <1>5, <1>6, <1>7

\* The MPF thread closes a stream and begins to stop its session.
LEMMA StreamCloseIInv ==
  ASSUME IInv, NEW s \in Sessions, Ali_synth_stream_close(s) PROVE IInv'
  <1> USE SynthAssumption DEF IInv
  <1>1. /\ mpf.pc = "idle" /\ request[s] = NULL /\ ~Stopping(server, s)
        /\ mpf' = StopCall(s)
        /\ view' = [view EXCEPT ![s] = IF @ = "closing" THEN "closed" ELSE @]
        /\ UNCHANGED <<pool_vars, ch, consumer, server, request, speaks>>
    BY DEF Ali_synth_stream_close
  <1>2. \/ mpf' = [pc |-> "idle", s |-> NULL, c |-> NULL]
        \/ /\ mpf' = [pc |-> "stop", s |-> s, c |-> ch[s].AliSynthCh]
           /\ ch[s].AliSynthCh \in Chans /\ ch[s].AliSynthCh # NULL
    BY <1>1 DEF StopCall, Idle, Types, ChType
  <1>3. Types'
    BY <1>1, <1>2 DEF Types, pool_vars
  <1>4. InWork' /\ StopInWork'
    BY <1>1 DEF InWork, StopInWork
  <1>5. NoRequest'
    BY <1>1, <1>2 DEF NoRequest, Stopping, Types
  <1>6. OneStops'
    BY SMTT(30), <1>1, <1>2 DEF OneStops, Stopping, Types
  <1>7. HeldIsBusy'
    BY <1>1, <1>2, NobodyNew DEF Holders
  <1> QED
    BY <1>3, <1>4, <1>5, <1>6, <1>7

-----------------------------------------------------------------------------
(* Ali_synth_stream_read *)

\* The MPF thread answers a STOP, ...
LEMMA AnswerStopIInv == ASSUME IInv, NEW s \in Sessions, AnswerStop(s) PROVE IInv'
  <1> USE SynthAssumption DEF IInv
  <1>1. /\ mpf.pc = "idle" /\ ch[s].stop_response
        /\ mpf' = [pc |-> "clear", s |-> s, c |-> NULL]
        /\ view' = [view EXCEPT ![s] = "idle"]
        /\ request' = [request EXCEPT ![s] = NULL]
        /\ UNCHANGED <<pool_vars, ch, consumer, server, speaks>>
    BY SMTT(30) DEF AnswerStop, Respond
  <1>2. request[s] = "stopping"
    BY <1>1 DEF StopInWork
  <1>3. view[s] \notin {"closing", "closed"} /\ ~Stopping(server, s)
    BY <1>2 DEF NoRequest
  <1>4. Types'
    BY <1>1 DEF Types, pool_vars
  <1>5. InWork' /\ StopInWork'
    BY <1>1, <1>2 DEF InWork, StopInWork, Types
  <1>6. NoRequest'
    BY <1>1, <1>3 DEF NoRequest, Stopping, Types
  <1>7. OneStops'
    BY <1>1 DEF OneStops, Stopping
  <1>8. HeldIsBusy'
    BY <1>1, NobodyNew DEF Holders
  <1> QED
    BY <1>4, <1>5, <1>6, <1>7, <1>8

\* Between its other steps the MPF thread moves from one session to the next,
\* clears requests and completes them, and leaves the channels with their
\* sessions.
LEMMA MpfElsewhere ==
  ASSUME IInv, UNCHANGED <<pool_vars, consumer, server, request, speaks>>,
         ch' \in ChType,
         \A s \in Sessions : /\ ch'[s].AliSynthCh = ch[s].AliSynthCh
                             /\ ch'[s].stop_response =>
                                  ch[s].stop_response /\ ~(mpf.s = s /\ mpf.pc = "clear"),
         mpf.pc \notin {"stop", "delete", "forget"},
         mpf' \in [pc : {"idle", "read", "finish"},
                   s : Sessions \cup {NULL}, c : Chans \cup {NULL}],
         mpf'.pc # "idle" => mpf'.s \in Sessions,
         view' \in [Sessions -> {"idle", "speaking", "paused", "closing", "closed"}],
         \A s \in Sessions : \/ view'[s] = view[s]
                             \/ view[s] # "closing" /\ view'[s] = "idle"
  PROVE  IInv'
  <1> USE SynthAssumption DEF IInv
  <1>1. Types'
    BY DEF Types, pool_vars
  <1>2. InWork' /\ StopInWork'
    BY DEF InWork, StopInWork
  <1>3. NoRequest' /\ OneStops'
    BY DEF NoRequest, OneStops, Stopping
  <1>4. HeldIsBusy'
    BY NobodyNew DEF Holders
  <1> QED
    BY <1>1, <1>2, <1>3, <1>4

\* ... and then clears what it has answered.
LEMMA ClearStopIInv == ASSUME IInv, ClearStop PROVE IInv'
  <1>1. /\ mpf.pc = "clear" /\ mpf.s \in Sessions
        /\ ch' = [ch EXCEPT ![mpf.s] = [@ EXCEPT !.stop_response = FALSE,
                                                !.speak_request = NULL,
                                                !.paused = FALSE]]
        /\ mpf' = [pc |-> "idle", s |-> NULL, c |-> NULL]
        /\ UNCHANGED <<pool_vars, consumer, server, server_vars>>
    BY DEF ClearStop, Idle, IInv, Types
  <1>2. /\ ch \in ChType
        /\ view \in [Sessions -> {"idle", "speaking", "paused", "closing", "closed"}]
    BY DEF IInv, Types
  <1>3. /\ ch' \in ChType
        /\ \A s \in Sessions : /\ ch'[s].AliSynthCh = ch[s].AliSynthCh
                               /\ ch'[s].stop_response => ch[s].stop_response /\ mpf.s # s
    <2>1. ch' = [ch EXCEPT ![mpf.s] = [@ EXCEPT !.stop_response = FALSE,
                                              !.speak_request = NULL,
                                              !.paused = FALSE]]
      BY <1>1
    <2>2. mpf.s \in Sessions /\ ch \in ChType
      BY <1>1, <1>2
    <2> QED
      BY Zenon, <2>1, <2>2, SetClear
  <1> QED
    BY <1>1, <1>2, <1>3, MpfElsewhere DEF server_vars

\* SPEAK-COMPLETE.
LEMMA CompleteSpeakKeeps ==
  ASSUME IInv, NEW s \in Sessions, CompleteSpeak(s)
  PROVE  /\ ch' \in ChType
         /\ \A t \in Sessions : /\ ch'[t].AliSynthCh = ch[t].AliSynthCh
                                /\ ch'[t].stop_response = ch[t].stop_response
         /\ mpf' = [pc |-> "idle", s |-> NULL, c |-> NULL]
         /\ view' \in [Sessions -> {"idle", "speaking", "paused", "closing", "closed"}]
         /\ \A t \in Sessions : \/ view'[t] = view[t]
                                \/ view[t] # "closing" /\ view'[t] = "idle"
  <1>1. /\ ch \in ChType /\ NULL \in (Sessions \X Nat) \cup {NULL}
        /\ ch' = [ch EXCEPT ![s].speak_request = NULL]
    BY DEF IInv, Types, CompleteSpeak
  <1>2. /\ ch' \in ChType
        /\ ch'[s].AliSynthCh = ch[s].AliSynthCh
        /\ ch'[s].stop_response = ch[s].stop_response
        /\ \A t \in Sessions \ {s} : ch'[t] = ch[t]
    BY Zenon, <1>1, SetSpeak
  <1>3. /\ mpf' = [pc |-> "idle", s |-> NULL, c |-> NULL]
        /\ view' \in [Sessions -> {"idle", "speaking", "paused", "closing", "closed"}]
        /\ \A t \in Sessions : \/ view'[t] = view[t]
                               \/ view[t] # "closing" /\ view'[t] = "idle"
    BY DEF CompleteSpeak, Idle, IInv, Types
  <1> QED
    BY <1>2, <1>3

\* The MPF thread begins to read a frame, or completes a SPEAK that has no
\* channel.
LEMMA EngineReadFrameIInv ==
  ASSUME IInv, NEW s \in Sessions, EngineReadFrame(s) PROVE IInv'
  <1>1. /\ mpf.pc = "idle"
        /\ UNCHANGED <<pool_vars, consumer, server, request, speaks>>
        /\ \/ CompleteSpeak(s)
           \/ /\ mpf' = [pc |-> "read", s |-> s, c |-> NULL]
              /\ UNCHANGED <<ch, view>>
    BY DEF EngineReadFrame
  <1>2. CASE CompleteSpeak(s)
    BY <1>1, <1>2, CompleteSpeakKeeps, MpfElsewhere
  <1>3. CASE mpf' = [pc |-> "read", s |-> s, c |-> NULL] /\ UNCHANGED <<ch, view>>
    <2>1. /\ ch \in ChType
          /\ view \in [Sessions -> {"idle", "speaking", "paused", "closing", "closed"}]
      BY DEF IInv, Types
    <2> QED
      BY <1>1, <1>3, <2>1, MpfElsewhere
  <1> QED
    BY <1>1, <1>2, <1>3

\* It reads one, or reports SPEAK-COMPLETE when the play is over.
LEMMA readAudioDataIInv == ASSUME IInv, readAudioData PROVE IInv'
  <1> DEFINE c == ch[mpf.s].AliSynthCh
  <1>1. /\ mpf.pc = "read" /\ mpf.s \in Sessions
        /\ ch \in ChType /\ c \in Chans \cup {NULL}
        /\ view \in [Sessions -> {"idle", "speaking", "paused", "closing", "closed"}]
        /\ mpf \in [pc : {"idle", "stop", "delete", "forget", "clear", "read", "finish"},
                    s : Sessions \cup {NULL}, c : Chans \cup {NULL}]
    BY DEF IInv, Types, ChType, readAudioData
  <1>2. /\ UNCHANGED <<pool_vars, consumer, server, request, speaks>>
        /\ \/ UNCHANGED <<ch, view, mpf>>
           \/ CompleteSpeak(mpf.s)
           \/ /\ UNCHANGED <<ch, view>>
              /\ \/ mpf' = [mpf EXCEPT !.pc = "finish", !.c = c]
                 \/ mpf' = Idle
    BY Zenon DEF readAudioData
  <1>3. CASE CompleteSpeak(mpf.s)
    BY <1>1, <1>2, <1>3, CompleteSpeakKeeps, MpfElsewhere
  <1>4. CASE UNCHANGED <<ch, view>> /\ (mpf' = mpf \/ mpf' = Idle
                \/ mpf' = [mpf EXCEPT !.pc = "finish", !.c = c])
    <2>1. /\ mpf' \in [pc : {"idle", "read", "finish"},
                       s : Sessions \cup {NULL}, c : Chans \cup {NULL}]
          /\ mpf'.pc # "idle" => mpf'.s \in Sessions
      <3>1. CASE mpf' = mpf
        BY <1>1, <3>1
      <3>2. CASE mpf' = Idle
        BY <3>2 DEF Idle
      <3>3. CASE mpf' = [mpf EXCEPT !.pc = "finish", !.c = c]
        <4> HIDE DEF c
        <4> QED
          BY Zenon, <1>1, <3>3
      <3> QED
        BY <1>4, <3>1, <3>2, <3>3
    <2> QED
      BY <1>1, <1>2, <1>4, <2>1, MpfElsewhere
  <1> QED
    BY <1>2, <1>3, <1>4

\* It ends the play of the channel.
LEMMA FinishPlayIInv == ASSUME IInv, FinishPlay PROVE IInv'
  <1>1. /\ mpf.pc = "finish" /\ mpf' = [pc |-> "idle", s |-> NULL, c |-> NULL]
        /\ UNCHANGED <<pool_vars, ch, consumer, server, server_vars>>
    BY DEF FinishPlay, Idle
  <1>2. /\ ch \in ChType
        /\ view \in [Sessions -> {"idle", "speaking", "paused", "closing", "closed"}]
    BY DEF IInv, Types
  <1> QED
    BY <1>1, <1>2, MpfElsewhere DEF server_vars

-----------------------------------------------------------------------------

\* Every step keeps the invariant.
LEMMA NextIInv == ASSUME IInv, [Next]_vars PROVE IInv'
  <1>1. CASE UNCHANGED vars
    BY <1>1, Elsewhere DEF vars
  <1>2. ASSUME NEW s \in Sessions, Send(s) \/ Ali_synth_channel_close(s) PROVE IInv'
    BY <1>2, SendIInv, CloseIInv
  <1>3. CASE ServerStop
    BY <1>3, ServerStopIInv
  <1>4. CASE ConsumerStep
    <2>1. ASSUME NEW s \in Sessions, \/ Ali_synth_channel_stop(s)
                                     \/ Ali_synth_channel_pause(s)
                                     \/ Ali_synth_channel_resume(s)
                                     \/ NewChannel(s)
          PROVE  IInv'
      BY <2>1, StopPauseResumeIInv, NewChannelIInv
    <2> QED
      BY <1>4, <2>1, StartIInv, RespondSpeakIInv, StoreSpeakIInv DEF ConsumerStep
  <1>5. CASE MpfStep
    <2>1. ASSUME NEW s \in Sessions, \/ Ali_synth_stream_close(s)
                                     \/ AnswerStop(s)
                                     \/ EngineReadFrame(s)
          PROVE  IInv'
      BY <2>1, StreamCloseIInv, AnswerStopIInv, EngineReadFrameIInv
    <2> QED
      BY <1>5, <2>1, MpfStopIInv, ClearStopIInv, readAudioDataIInv, FinishPlayIInv
         DEF MpfStep
  <1>6. ASSUME NEW w \in Workers, synthMain(w) PROVE IInv'
    <2>1. UNCHANGED <<pool_vars, ch, consumer, mpf, server, server_vars>>
      BY <1>6 DEF synthMain
    <2> QED
      BY <2>1, Elsewhere
  <1>7. ASSUME NEW c \in Chans, Callback(c) PROVE IInv'
    <2>1. UNCHANGED <<pool_vars, ch, consumer, mpf, server, server_vars>>
      BY <1>7 DEF Callback
    <2> QED
      BY <2>1, Elsewhere
  <1> QED
    BY <1>1, <1>2, <1>3, <1>4, <1>5, <1>6, <1>7 DEF Next

\* However many sessions and channels there are, no channel of the Ali
\* synthesizer is lent to two sessions, and none that a session holds is in
\* the idle pool, although three threads lend channels and give them back.
THEOREM ChannelsLentOnce == Spec => []HeldIsBusy
  <1>1. Spec => []IInv
    BY InitIInv, NextIInv, PTL DEF Spec
  <1>2. IInv => HeldIsBusy
    BY DEF IInv
  <1> QED
    BY <1>1, <1>2, PTL

-----------------------------------------------------------------------------
(* SPEAK-COMPLETE *)

\* What makes CompleteForSpeaker true: a SPEAK that the server no longer holds
\* to be in progress is one whose STOP the MPF thread has just answered; the
\* consumer task answers a SPEAK only when none is in progress, and before the
\* answered one is stored nothing can end it.
Progress ==
    /\ \A s \in Sessions : ch[s].speak_request # NULL /\ view[s] = "idle" =>
                               mpf.pc = "clear" /\ mpf.s = s
    /\ \A s \in Sessions : request[s] = "SPEAK" => view[s] = "idle"
    /\ consumer.pc = "store" =>
         /\ view[consumer.s] # "idle" /\ request[consumer.s] # "stopping"
         /\ \/ ch[consumer.s].speak_request = NULL
            \/ mpf.pc = "clear" /\ mpf.s = consumer.s
    /\ mpf.pc = "read" => ch[mpf.s].speak_request # NULL

\* Nothing is in progress at first.
LEMMA InitProgress == Init => Progress
  BY SynthAssumption DEF Init, Progress, Idle

\* Steps that change neither the SPEAK in progress nor what the server knows.
LEMMA ProgressElsewhere ==
  ASSUME IInv, Progress, UNCHANGED <<view, request>>,
         consumer' = consumer \/ consumer'.pc # "store",
         \A s \in Sessions : ch'[s].speak_request = ch[s].speak_request,
         mpf' = mpf \/ (mpf.pc \notin {"clear", "read"} /\ mpf'.pc # "read")
  PROVE  Progress'
  BY DEF Progress, IInv, Types

\* The server sends requests and ends sessions.
LEMMA ServerProgress ==
  ASSUME IInv, Progress, NEW s \in Sessions, Send(s) \/ Ali_synth_channel_close(s)
  PROVE  Progress'
  <1> USE SynthAssumption
  <1>1. CASE Send(s)
    <2>1. PICK r \in Allowed(s) : request' = [request EXCEPT ![s] = r]
      BY Zenon, <1>1 DEF Send
    <2>2. r # "stopping" /\ (r = "SPEAK" => view[s] = "idle")
      BY <2>1 DEF Allowed
    <2>3. UNCHANGED <<ch, consumer, mpf, view>>
      BY <1>1 DEF Send
    <2> QED
      BY <2>1, <2>2, <2>3 DEF Progress, IInv, Types
  <1>2. CASE Ali_synth_channel_close(s)
    <2>1. /\ request[s] = NULL
          /\ view' = [view EXCEPT ![s] = "closing"]
          /\ UNCHANGED <<ch, consumer, mpf, request>>
      BY <1>2 DEF Ali_synth_channel_close
    <2> QED
      BY <2>1 DEF Progress, IInv, Types
  <1> QED
    BY <1>1, <1>2

\* What a step of EngineSynthStop keeps.
LEMMA StopKeepsSpeak ==
  ASSUME IInv, NEW t \in Threads, EngineSynthStop(t), t.s \in Sessions
  PROVE  \A s \in Sessions : ch'[s].speak_request = ch[s].speak_request
  <1>1. CASE StopChannel(t) \/ ReturnChannel(t)
    BY <1>1 DEF StopChannel, ReturnChannel
  <1>2. CASE ForgetChannel(t)
    <2>1. ch \in ChType /\ NULL \in Chans \cup {NULL}
      BY DEF IInv, Types
    <2>2. ch' = [ch EXCEPT ![t.s].AliSynthCh = NULL]
      BY <1>2 DEF ForgetChannel
    <2>3. /\ ch'[t.s].speak_request = ch[t.s].speak_request
          /\ \A s \in Sessions \ {t.s} : ch'[s] = ch[s]
      BY <2>1, <2>2, SetChannel
    <2> QED
      BY <2>3
  <1> QED
    BY <1>1, <1>2 DEF EngineSynthStop

\* Giving back a channel touches no SPEAK in progress.
LEMMA StopProgress == ASSUME IInv, Progress, ServerStop \/ MpfStop PROVE Progress'
  <1>1. CASE ServerStop
    <2>1. EngineSynthStop(server) /\ server.s \in Sessions
      BY <1>1 DEF ServerStop, EngineSynthStop, StopChannel, ReturnChannel,
                  ForgetChannel, IInv, Types
    <2>2. UNCHANGED <<consumer, mpf, view, request>>
      BY <1>1 DEF ServerStop, server_vars
    <2>3. \A s \in Sessions : ch'[s].speak_request = ch[s].speak_request
      BY <2>1, StopKeepsSpeak DEF Threads
    <2> QED
      BY <2>2, <2>3, ProgressElsewhere
  <1>2. CASE MpfStop
    <2>1. EngineSynthStop(mpf) /\ mpf.s \in Sessions /\ mpf.pc \in {"stop", "delete", "forget"}
      BY <1>2 DEF MpfStop, EngineSynthStop, StopChannel, ReturnChannel,
                  ForgetChannel, IInv, Types
    <2>2. UNCHANGED <<consumer, view, request>> /\ mpf'.pc # "read"
      BY <1>2, <2>1 DEF MpfStop, server_vars, NextStop, Idle, IInv, Types
    <2>3. \A s \in Sessions : ch'[s].speak_request = ch[s].speak_request
      BY SMTT(30), <2>1, StopKeepsSpeak DEF Threads
    <2> QED
      BY <2>1, <2>2, <2>3, ProgressElsewhere
  <1> QED
    BY <1>1, <1>2

\* The consumer task handles a STOP, a PAUSE or a RESUME.
LEMMA StopPauseResumeProgress ==
  ASSUME IInv, Progress, NEW s \in Sessions,
         \/ Ali_synth_channel_stop(s)
         \/ Ali_synth_channel_pause(s)
         \/ Ali_synth_channel_resume(s)
  PROVE  Progress'
  <1> USE SynthAssumption
  <1>1. \A t \in Sessions : ch'[t].speak_request = ch[t].speak_request
    <2> ch \in ChType
      BY DEF IInv, Types
    <2>1. CASE Ali_synth_channel_stop(s)
      <3>1. ch' = [ch EXCEPT ![s].stop_response = TRUE]
        BY <2>1 DEF Ali_synth_channel_stop
      <3> QED
        BY <3>1, SetStop
    <2>2. CASE Ali_synth_channel_pause(s)
      <3>1. ch' = [ch EXCEPT ![s].paused = TRUE]
        BY <2>2 DEF Ali_synth_channel_pause
      <3> QED
        BY <3>1, SetPaused
    <2>3. CASE Ali_synth_channel_resume(s)
      <3>1. ch' = [ch EXCEPT ![s].paused = FALSE]
        BY <2>3 DEF Ali_synth_channel_resume
      <3> QED
        BY <3>1, SetPaused
    <2> QED
      BY <2>1, <2>2, <2>3
  <1>2. /\ consumer.pc = "idle" /\ UNCHANGED <<consumer, mpf>>
        /\ \A t \in Sessions \ {s} : request'[t] = request[t] /\ view'[t] = view[t]
        /\ request'[s] # "SPEAK" /\ (view'[s] = "idle" => view[s] = "idle")
    BY DEF Ali_synth_channel_stop, Ali_synth_channel_pause,
           Ali_synth_channel_resume, Respond, IInv, Types
  <1>3. mpf.pc = "read" => mpf.s \in Sessions
    BY DEF IInv, Types
  <1> QED
    BY <1>1, <1>2, <1>3 DEF Progress

\* Each step of the consumer task keeps Progress.
LEMMA ConsumerProgress == ASSUME IInv, Progress, ConsumerStep PROVE Progress'
  <1> USE SynthAssumption
  <1>1. ASSUME NEW s \in Sessions, NewChannel(s) PROVE Progress'
    <2>1. /\ UNCHANGED <<ch, mpf, view, request>>
          /\ consumer' = consumer \/ consumer'.pc = "start"
      BY <1>1 DEF NewChannel, server_vars
    <2> QED
      BY <2>1, ProgressElsewhere
  <1>2. CASE Start
    <2> DEFINE s == consumer.s
               c == consumer.c
    <2>1. /\ ch \in ChType /\ s \in Sessions
          /\ NULL \in Chans \cup {NULL} /\ c \in Chans \cup {NULL}
          /\ UNCHANGED <<mpf, view, request>> /\ consumer'.pc # "store"
      BY <1>2 DEF Start, server_vars, IInv, Types
    <2>2. CASE ch' = [ch EXCEPT ![s].AliSynthCh = c]
      BY <2>1, <2>2, SetChannel, ProgressElsewhere
    <2>3. CASE ch' = [ch EXCEPT ![s].AliSynthCh = NULL]
      BY <2>1, <2>3, SetChannel, ProgressElsewhere
    <2> QED
      BY <1>2, <2>2, <2>3 DEF Start
  <1>3. CASE RespondSpeak
    <2> DEFINE s == consumer.s
    <2>1. /\ s \in Sessions /\ request[s] = "SPEAK"
          /\ consumer'.pc = "store" /\ consumer'.s = s
          /\ view' = [view EXCEPT ![s] = "speaking"]
          /\ request' = [request EXCEPT ![s] = NULL]
          /\ UNCHANGED <<ch, mpf>>
      BY <1>3 DEF RespondSpeak, Respond, IInv, Types, InWork
    <2>2. ch[s].speak_request = NULL \/ (mpf.pc = "clear" /\ mpf.s = s)
      BY <2>1 DEF Progress
    <2> HIDE DEF s
    <2> QED
      BY <2>1, <2>2 DEF Progress, IInv, Types
  <1>4. CASE StoreSpeak
    <2> DEFINE s == consumer.s
    <2>1. /\ ch \in ChType /\ s \in Sessions /\ view[s] # "idle"
          /\ <<s, speaks[s]>> \in (Sessions \X Nat) \cup {NULL}
          /\ mpf.pc = "read" => mpf.s # s
      BY <1>4 DEF StoreSpeak, IInv, Types, Progress
    <2>2. /\ ch' = [ch EXCEPT ![s].speak_request = <<s, speaks[s]>>]
          /\ consumer'.pc = "idle"
          /\ UNCHANGED <<mpf, view, request>>
      BY <1>4 DEF StoreSpeak, Idle, server_vars
    <2> HIDE DEF s
    <2>3. \A t \in Sessions \ {s} : ch'[t] = ch[t]
      BY <2>1, <2>2, SetSpeak
    <2> QED
      BY <2>1, <2>2, <2>3 DEF Progress, IInv, Types
  <1> QED
    BY <1>1, <1>2, <1>3, <1>4, StopPauseResumeProgress DEF ConsumerStep

\* The session whose SPEAK a step completes is one that the server takes to be
\* speaking, and the step leaves the rest of Progress alone.
LEMMA CompleteSpeakProgress ==
  ASSUME IInv, Progress, NEW s \in Sessions, CompleteSpeak(s),
         UNCHANGED <<consumer, request>>, mpf.pc \in {"idle", "read"},
         ch[s].speak_request # NULL
  PROVE  /\ Progress' /\ view[s] # "idle"
         /\ \A t \in Sessions \ {s} : ch'[t] = ch[t]
  <1>1. /\ ch \in ChType /\ NULL \in (Sessions \X Nat) \cup {NULL}
        /\ ch' = [ch EXCEPT ![s].speak_request = NULL]
    BY DEF IInv, Types, CompleteSpeak
  <1>2. ch'[s].speak_request = NULL /\ \A t \in Sessions \ {s} : ch'[t] = ch[t]
    BY Zenon, <1>1, SetSpeak
  <1>3. /\ mpf'.pc = "idle"
        /\ \A t \in Sessions \ {s} : view'[t] = view[t]
        /\ view'[s] \in {"closing", "idle"}
    BY DEF CompleteSpeak, Idle, IInv, Types
  <1>4. view[s] # "idle"
    BY DEF Progress
  <1>5. consumer.pc = "store" => consumer.s \in Sessions \ {s}
    BY DEF Progress, IInv, Types
  <1>6. request[s] # "SPEAK"
    BY <1>4 DEF Progress
  <1> QED
    BY <1>2, <1>3, <1>4, <1>5, <1>6 DEF Progress

\* What a step of the MPF thread keeps, and which SPEAK it may complete.
LEMMA MpfProgress ==
  ASSUME IInv, Progress, MpfStep
  PROVE  /\ Progress'
         /\ mpf.pc # "clear" => \A s \in Sessions :
              ch[s].speak_request # NULL /\ ch'[s].speak_request = NULL => view[s] # "idle"
  <1> USE SynthAssumption
  <1>1. ASSUME NEW s \in Sessions, Ali_synth_stream_close(s)
        PROVE  Progress' /\ ch' = ch
    <2>1. /\ mpf.pc = "idle" /\ request[s] = NULL /\ mpf'.pc # "read"
          /\ UNCHANGED <<ch, consumer, request>>
          /\ view' = [view EXCEPT ![s] = IF @ = "closing" THEN "closed" ELSE @]
      BY <1>1 DEF Ali_synth_stream_close, StopCall, Idle
    <2> QED
      BY SMTT(30), <2>1 DEF Progress, IInv, Types
  <1>2. ASSUME NEW s \in Sessions, AnswerStop(s) PROVE Progress' /\ ch' = ch
    <2>1. /\ mpf.pc = "idle" /\ mpf' = [pc |-> "clear", s |-> s, c |-> NULL]
          /\ UNCHANGED <<ch, consumer>>
          /\ view' = [view EXCEPT ![s] = "idle"]
          /\ request' = [request EXCEPT ![s] = NULL]
      BY <1>2 DEF AnswerStop, Respond
    <2>2. request[s] = "stopping"
      BY <1>2, <2>1 DEF AnswerStop, IInv, StopInWork
    <2>3. consumer.pc = "store" => consumer.s \in Sessions \ {s}
      BY <2>2 DEF Progress, IInv, Types
    <2> QED
      BY SMTT(30), <2>1, <2>2, <2>3 DEF Progress, IInv, Types
  <1>3. ASSUME NEW s \in Sessions, EngineReadFrame(s)
        PROVE  /\ Progress'
               /\ \A t \in Sessions :
                    ch[t].speak_request # NULL /\ ch'[t].speak_request = NULL => view[t] # "idle"
    <2>1. /\ mpf.pc = "idle" /\ ch[s].speak_request # NULL
          /\ UNCHANGED <<consumer, request>>
          /\ \/ CompleteSpeak(s)
             \/ /\ mpf' = [pc |-> "read", s |-> s, c |-> NULL]
                /\ UNCHANGED <<ch, view>>
      BY <1>3 DEF EngineReadFrame
    <2>2. CASE CompleteSpeak(s)
      BY <2>1, <2>2, CompleteSpeakProgress
    <2>3. CASE mpf' = [pc |-> "read", s |-> s, c |-> NULL] /\ UNCHANGED <<ch, view>>
      BY <2>1, <2>3 DEF Progress
    <2> QED
      BY <2>1, <2>2, <2>3
  <1>4. CASE readAudioData
    <2> DEFINE s == mpf.s
    <2>1. /\ s \in Sessions /\ mpf.pc = "read" /\ ch[s].speak_request # NULL
          /\ UNCHANGED <<consumer, request>>
          /\ \/ CompleteSpeak(s)
             \/ UNCHANGED <<ch, view>> /\ (mpf' = mpf \/ mpf'.pc \in {"idle", "finish"})
      <3>1. mpf.pc = "read" /\ UNCHANGED <<consumer, request>>
        BY <1>4 DEF readAudioData
      <3>2. /\ s \in Sessions /\ ch[s].speak_request # NULL
            /\ mpf \in [pc : {"idle", "stop", "delete", "forget", "clear", "read", "finish"},
                        s : Sessions \cup {NULL}, c : Chans \cup {NULL}]
        BY <3>1 DEF Progress, IInv, Types
      <3>3. \/ CompleteSpeak(s)
            \/ /\ UNCHANGED <<ch, view>>
               /\ \/ mpf' = mpf
                  \/ mpf' = [mpf EXCEPT !.pc = "finish", !.c = ch[s].AliSynthCh]
                  \/ mpf' = Idle
        BY Zenon, <1>4 DEF readAudioData
      <3>4. ASSUME NEW c, mpf' = [mpf EXCEPT !.pc = "finish", !.c = c] PROVE mpf'.pc = "finish"
        BY <3>2, <3>4
      <3>5. mpf' = Idle => mpf'.pc = "idle"
        BY DEF Idle
      <3> QED
        BY Zenon, <3>1, <3>2, <3>3, <3>4, <3>5
    <2> HIDE DEF s
    <2>2. CASE CompleteSpeak(s)
      BY <2>1, <2>2, CompleteSpeakProgress
    <2>3. CASE UNCHANGED <<ch, view>> /\ (mpf' = mpf \/ mpf'.pc \in {"idle", "finish"})
      BY <2>1, <2>3 DEF Progress
    <2> QED
      BY <2>1, <2>2, <2>3
  <1>5. CASE ClearStop
    <2>1. /\ mpf.pc = "clear" /\ mpf.s \in Sessions /\ mpf'.pc = "idle"
          /\ ch' = [ch EXCEPT ![mpf.s] = [@ EXCEPT !.stop_response = FALSE,
                                                  !.speak_request = NULL,
                                                  !.paused = FALSE]]
          /\ UNCHANGED <<consumer, view, request>>
      BY <1>5 DEF ClearStop, Idle, server_vars, IInv, Types
    <2>2. /\ ch'[mpf.s].speak_request = NULL
          /\ \A s \in Sessions \ {mpf.s} : ch'[s] = ch[s]
      <3>1. ch' = [ch EXCEPT ![mpf.s] = [@ EXCEPT !.stop_response = FALSE,
                                                !.speak_request = NULL,
                                                !.paused = FALSE]]
        BY <2>1
      <3>2. mpf.s \in Sessions /\ ch \in ChType
        BY <2>1 DEF IInv, Types
      <3> QED
        BY Zenon, <3>1, <3>2, SetClear
    <2>3. consumer.pc = "store" => consumer.s \in Sessions
      BY DEF IInv, Types
    <2> QED
      BY <2>1, <2>2, <2>3 DEF Progress
  <1>6. CASE MpfStop
    <2>1. EngineSynthStop(mpf) /\ mpf.s \in Sessions
      BY <1>6 DEF MpfStop, EngineSynthStop, StopChannel, ReturnChannel,
                  ForgetChannel, IInv, Types
    <2>2. \A s \in Sessions : ch'[s].speak_request = ch[s].speak_request
      BY <2>1, StopKeepsSpeak DEF Threads
    <2> QED
      BY <1>6, <2>2, StopProgress
  <1>7. CASE FinishPlay
    <2>1. mpf.pc = "finish" /\ mpf'.pc = "idle" /\ UNCHANGED <<ch, consumer, view, request>>
      BY <1>7 DEF FinishPlay, Idle, server_vars
    <2> QED
      BY <2>1, ProgressElsewhere
  <1> QED
    BY <1>1, <1>2, <1>3, <1>4, <1>5, <1>6, <1>7 DEF MpfStep

\* Every step keeps Progress.
LEMMA NextProgress == ASSUME IInv, Progress, [Next]_vars PROVE Progress'
  <1>1. CASE UNCHANGED vars
    BY <1>1, ProgressElsewhere DEF vars, server_vars
  <1>2. ASSUME NEW s \in Sessions, Send(s) \/ Ali_synth_channel_close(s) PROVE Progress'
    BY <1>2, ServerProgress
  <1>3. CASE ServerStop
    BY <1>3, StopProgress
  <1>4. CASE ConsumerStep
    BY <1>4, ConsumerProgress
  <1>5. CASE MpfStep
    BY <1>5, MpfProgress
  <1>6. ASSUME NEW w \in Workers, synthMain(w) PROVE Progress'
    <2>1. UNCHANGED <<ch, consumer, mpf, view, request>>
      BY <1>6 DEF synthMain, server_vars
    <2> QED
      BY <2>1, ProgressElsewhere
  <1>7. ASSUME NEW c \in Chans, Callback(c) PROVE Progress'
    <2>1. UNCHANGED <<ch, consumer, mpf, view, request>>
      BY <1>7 DEF Callback, server_vars
    <2> QED
      BY <2>1, ProgressElsewhere
  <1> QED
    BY <1>1, <1>2, <1>3, <1>4, <1>5, <1>6, <1>7 DEF Next

\* The steps of the other threads never end a SPEAK that the server does not
\* hold to be in progress: the consumer task stores one only over another that
\* is speaking, and the server's thread leaves it alone.
LEMMA OthersComplete ==
  ASSUME IInv, Progress, ServerStop \/ ConsumerStep, NEW t \in Sessions,
         ch[t].speak_request # NULL, ch'[t].speak_request = NULL
  PROVE  view[t] # "idle"
  <1> USE SynthAssumption
  <1> ch \in ChType
    BY DEF IInv, Types
  <1>1. CASE ServerStop
    <2>1. EngineSynthStop(server) /\ server.s \in Sessions
      BY <1>1 DEF ServerStop, EngineSynthStop, StopChannel, ReturnChannel,
                  ForgetChannel, IInv, Types
    <2> QED
      BY <2>1, StopKeepsSpeak DEF Threads
  <1>2. ASSUME NEW s \in Sessions, Ali_synth_channel_stop(s) PROVE FALSE
    <2>1. ch' = [ch EXCEPT ![s].stop_response = TRUE]
      BY <1>2 DEF Ali_synth_channel_stop
    <2> QED
      BY <2>1, SetStop
  <1>3. ASSUME NEW s \in Sessions, Ali_synth_channel_pause(s) PROVE FALSE
    <2>1. ch' = [ch EXCEPT ![s].paused = TRUE]
      BY <1>3 DEF Ali_synth_channel_pause
    <2> QED
      BY <2>1, SetPaused
  <1>4. ASSUME NEW s \in Sessions, Ali_synth_channel_resume(s) PROVE FALSE
    <2>1. ch' = [ch EXCEPT ![s].paused = FALSE]
      BY <1>4 DEF Ali_synth_channel_resume
    <2> QED
      BY <2>1, SetPaused
  <1>5. ASSUME NEW s \in Sessions, NewChannel(s) PROVE FALSE
    BY <1>5 DEF NewChannel
  <1>6. CASE Start
    <2>1. /\ consumer.s \in Sessions /\ NULL \in Chans \cup {NULL}
          /\ consumer.c \in Chans \cup {NULL}
      BY <1>6 DEF Start, IInv, Types
    <2>2. CASE ch' = [ch EXCEPT ![consumer.s].AliSynthCh = consumer.c]
      BY <2>1, <2>2, SetChannel
    <2>3. CASE ch' = [ch EXCEPT ![consumer.s].AliSynthCh = NULL]
      BY <2>1, <2>3, SetChannel
    <2> QED
      BY <1>6, <2>2, <2>3 DEF Start
  <1>7. CASE RespondSpeak
    BY <1>7 DEF RespondSpeak
  <1>8. CASE StoreSpeak
    BY <1>8 DEF StoreSpeak, Progress, ChType
  <1> QED
    BY <1>1, <1>2, <1>3, <1>4, <1>5, <1>6, <1>7, <1>8 DEF ConsumerStep

\* SPEAK-COMPLETE is sent only for a SPEAK that the server holds to be in
\* progress, for any number of sessions: what the MPF thread reports and what
\* the consumer task answers never contradict each other.
THEOREM CompletesSpeaker == Spec => CompleteForSpeaker
  <1> DEFINE A == \A s \in Sessions :
                    ch[s].speak_request # NULL /\ ch'[s].speak_request = NULL
                    /\ mpf.pc # "clear" => view[s] # "idle"
  <1>1. IInv /\ Progress /\ [Next]_vars => [A]_vars
    <2> SUFFICES ASSUME IInv, Progress, Next, NEW s \in Sessions,
                        ch[s].speak_request # NULL, ch'[s].speak_request = NULL,
                        mpf.pc # "clear"
                 PROVE  view[s] # "idle"
      OBVIOUS
    <2>1. ASSUME NEW t \in Sessions, Send(t) \/ Ali_synth_channel_close(t) PROVE ch' = ch
      BY <2>1 DEF Send, Ali_synth_channel_close
    <2>2. ASSUME NEW w \in Workers, synthMain(w) PROVE ch' = ch
      BY <2>2 DEF synthMain
    <2>3. ASSUME NEW c \in Chans, Callback(c) PROVE ch' = ch
      BY <2>3 DEF Callback
    <2> QED
      BY <2>1, <2>2, <2>3, OthersComplete, MpfProgress DEF Next
  <1>2. Spec => [](IInv /\ Progress)
    <2>1. Init => IInv /\ Progress
      BY InitIInv, InitProgress
    <2>2. IInv /\ Progress /\ [Next]_vars => (IInv /\ Progress)'
      BY NextIInv, NextProgress
    <2> QED
      BY <2>1, <2>2, PTL DEF Spec
  <1> QED
    BY <1>1, <1>2, PTL DEF Spec, CompleteForSpeaker

-----------------------------------------------------------------------------
(* The audio *)

Texts == (Sessions \X Nat) \cup {NULL}
ChunkType == [text : Texts, n : Nat, frames : Nat \ {0}]
RequestType == [text : Texts, sent : Nat, speech : Seq(Nat \ {0}), done : BOOLEAN]
FrameType == [left : Nat, buffer : BOOLEAN, item : Nat]
ChannelType ==
    [m_Start : BOOLEAN, m_Play : BOOLEAN, m_Runing : BOOLEAN, m_Text : Texts,
     m_AudioList : Seq(ChunkType), m_AudioQueue : Seq(ChunkType),
     m_AudioFrame : FrameType, m_SynthReq : RequestType \cup {NULL},
     locked : BOOLEAN]

\* What passes through the channels.
AudioTypes ==
    /\ chan \in [Chans -> ChannelType]
    /\ tasks \in Seq(Chans)
    /\ worker \in [Workers -> [pc : {"free", "loop", "take", "put", "end"},
                               c : Chans \cup {NULL}, chunk : ChunkType \cup {NULL}]]
    /\ \A w \in Workers :
         /\ worker[w].pc # "free" => worker[w].c \in Chans
         /\ worker[w].pc = "put" => worker[w].chunk \in ChunkType

\* The audio of c is in order, and only a worker that has the lock moves it.
AudioOf(c) ==
    LET k == chan[c]
    IN  /\ IF k.locked
           THEN \E w \in Workers : Moves(w, c)
           ELSE InOrder(k.m_AudioQueue \o k.m_AudioList, k.m_SynthReq)
        /\ \A w \in Workers : Moves(w, c) =>
             /\ k.locked /\ \A v \in Workers : Moves(v, c) => v = w
             /\ InOrder(k.m_AudioQueue \o <<worker[w].chunk>> \o k.m_AudioList,
                        k.m_SynthReq)

AudioInv == AudioTypes /\ \A c \in Chans : AudioOf(c)

(* Sequences of chunks *)

\* Where the chunks of two sequences are in the one after the other.
LEMMA Joined ==
  ASSUME NEW S, NEW p \in Seq(S), NEW q \in Seq(S)
  PROVE  /\ p \o q \in Seq(S) /\ Len(p \o q) = Len(p) + Len(q)
         /\ \A i \in 1 .. Len(p) : (p \o q)[i] = p[i]
         /\ \A i \in 1 .. Len(q) : (p \o q)[Len(p) + i] = q[i]
  OBVIOUS

\* Sequences with the same elements at the same places.
LEMMA SameSeq ==
  ASSUME NEW S, NEW p \in Seq(S), NEW q \in Seq(S), Len(p) = Len(q),
         \A i \in 1 .. Len(p) : p[i] = q[i]
  PROVE  p = q
  OBVIOUS

\* A chunk moves from the list to the worker ...
LEMMA MoveFront ==
  ASSUME NEW S, NEW p \in Seq(S), NEW q \in Seq(S), q # <<>>
  PROVE  p \o <<Head(q)>> \o Tail(q) = p \o q
  <1> DEFINE x == <<Head(q)>>
  <1>1. /\ q[1] \in S /\ Tail(q) \in Seq(S) /\ Len(Tail(q)) = Len(q) - 1
        /\ \A i \in 1 .. Len(q) - 1 : Tail(q)[i] = q[i + 1]
        /\ Len(q) \in Nat \ {0} /\ Len(p) \in Nat
    OBVIOUS
  <1>2. x \in Seq(S) /\ Len(x) = 1 /\ x[1] = q[1]
    BY <1>1
  <1> HIDE DEF x
  <1> DEFINE l == p \o x
             r == p \o q
  <1>3. /\ l \in Seq(S) /\ Len(l) = Len(p) + 1 /\ l[Len(p) + 1] = q[1]
        /\ \A i \in 1 .. Len(p) : l[i] = p[i]
    BY <1>1, <1>2, Joined
  <1>4. /\ r \in Seq(S) /\ Len(r) = Len(p) + Len(q)
        /\ \A i \in 1 .. Len(p) : r[i] = p[i]
        /\ \A i \in 1 .. Len(q) : r[Len(p) + i] = q[i]
    BY Joined
  <1> HIDE DEF l, r
  <1> DEFINE t == Tail(q)
  <1>5. t \in Seq(S) /\ Len(t) = Len(q) - 1 /\ \A i \in 1 .. Len(q) - 1 : t[i] = q[i + 1]
    BY <1>1
  <1> HIDE DEF t
  <1> DEFINE m == l \o t
  <1>6. /\ m \in Seq(S) /\ Len(m) = Len(l) + Len(t)
        /\ \A i \in 1 .. Len(l) : m[i] = l[i]
        /\ \A i \in 1 .. Len(t) : m[Len(l) + i] = t[i]
    <2>1. l \in Seq(S) /\ t \in Seq(S)
      BY <1>3, <1>5
    <2> QED
      BY <2>1, Joined
  <1> HIDE DEF m
  <1>7. ASSUME NEW i \in 1 .. Len(r) PROVE m[i] = r[i]
    <2>1. CASE i <= Len(p)
      BY <2>1, <1>1, <1>3, <1>4, <1>6
    <2>2. CASE i = Len(p) + 1
      BY <2>2, <1>1, <1>3, <1>4, <1>6
    <2>3. CASE i > Len(p) + 1
      <3> DEFINE j == i - Len(p) - 1
      <3>1. j \in 1 .. Len(t) /\ i = Len(l) + j /\ i = Len(p) + (j + 1)
            /\ j + 1 \in 1 .. Len(q) /\ j \in 1 .. Len(q) - 1
        BY <2>3, <1>1, <1>3, <1>4, <1>5
      <3> HIDE DEF j
      <3>2. m[Len(l) + j] = q[j + 1] /\ r[Len(p) + (j + 1)] = q[j + 1]
        BY <3>1, <1>4, <1>5, <1>6
      <3> QED
        BY <3>1, <3>2
    <2> QED
      BY <2>1, <2>2, <2>3, <1>1, <1>4
  <1>8. Len(m) = Len(r)
    BY <1>1, <1>3, <1>4, <1>5, <1>6
  <1>9. m = r
    BY <1>4, <1>6, <1>7, <1>8, SameSeq
  <1> QED
    BY <1>9 DEF m, l, r, x, t

\* ... and from there to the queue.
LEMMA MoveBack ==
  ASSUME NEW S, NEW p \in Seq(S), NEW x \in S
  PROVE  Append(p, x) = p \o <<x>>
  OBVIOUS

\* The chunk that the MPF thread takes is the first one.
LEMMA TailOfJoined ==
  ASSUME NEW S, NEW p \in Seq(S), NEW q \in Seq(S), p # <<>>
  PROVE  Tail(p) \o q = Tail(p \o q)
  OBVIOUS

\* The chunk that comes is the last one.
LEMMA AppendToJoined ==
  ASSUME NEW S, NEW p \in Seq(S), NEW q \in Seq(S), NEW x \in S
  PROVE  p \o Append(q, x) = Append(p \o q, x)
  OBVIOUS

(* What keeps chunks in order *)

\* The first one is taken.
LEMMA OrderOfTail ==
  ASSUME NEW q \in Seq(ChunkType), NEW r, q # <<>>, InOrder(q, r)
  PROVE  InOrder(Tail(q), r)
  <1> DEFINE t == Tail(q)
  <1>1. /\ t \in Seq(ChunkType) /\ Len(t) = Len(q) - 1 /\ Len(q) \in Nat \ {0}
        /\ \A i \in 1 .. Len(q) - 1 : t[i] = q[i + 1]
    OBVIOUS
  <1> HIDE DEF t
  <1>2. ASSUME NEW i \in 1 .. Len(t) - 1 PROVE Follows(t[i], t[i + 1])
    <2>1. /\ i \in 1 .. Len(q) - 1 /\ i + 1 \in 1 .. Len(q) - 1
      BY <1>1
    <2>2. Follows(q[i + 1], q[(i + 1) + 1])
      BY <2>1 DEF InOrder
    <2> QED
      BY <2>1, <2>2, <1>1
  <1>3. t # <<>> => t[Len(t)] = q[Len(q)] /\ q # <<>>
    BY <1>1
  <1> QED
    BY <1>2, <1>3 DEF InOrder, t

\* The next one of the request comes.
LEMMA OrderOfAppend ==
  ASSUME NEW q \in Seq(ChunkType), NEW r \in RequestType, r # NULL, InOrder(q, r),
         NEW x \in ChunkType, x.text = r.text, x.n = r.sent + 1,
         NEW s \in RequestType, s.text = r.text, s.sent = r.sent + 1
  PROVE  InOrder(Append(q, x), s)
  <1> DEFINE p == Append(q, x)
  <1>1. /\ p \in Seq(ChunkType) /\ Len(p) = Len(q) + 1 /\ Len(q) \in Nat
        /\ p[Len(q) + 1] = x /\ \A i \in 1 .. Len(q) : p[i] = q[i]
    OBVIOUS
  <1> HIDE DEF p
  <1>2. ASSUME NEW i \in 1 .. Len(p) - 1 PROVE Follows(p[i], p[i + 1])
    <2>1. CASE i = Len(q)
      <3>1. q # <<>> /\ p[i] = q[Len(q)] /\ p[i + 1] = x
        BY <1>1, <2>1
      <3>2. r.sent = 0 \/ (q[Len(q)].text = r.text /\ q[Len(q)].n = r.sent)
        BY <3>1 DEF InOrder
      <3> QED
        BY <3>1, <3>2 DEF Follows, RequestType
    <2>2. CASE i # Len(q)
      <3>1. i \in 1 .. Len(q) - 1 /\ i \in 1 .. Len(q) /\ i + 1 \in 1 .. Len(q)
        BY <1>1, <2>2
      <3>2. Follows(q[i], q[i + 1])
        BY <3>1 DEF InOrder
      <3> QED
        BY <1>1, <3>1, <3>2
    <2> QED
      BY <2>1, <2>2
  <1>3. p[Len(p)] = x
    BY <1>1
  <1> QED
    BY <1>2, <1>3 DEF InOrder, p

\* The queue is emptied, and the list is left.
LEMMA OrderOfList ==
  ASSUME NEW q \in Seq(ChunkType), NEW l \in Seq(ChunkType), NEW r, InOrder(q \o l, r)
  PROVE  InOrder(<<>> \o l, r)
  <1> DEFINE p == q \o l
  <1>1. /\ p \in Seq(ChunkType) /\ Len(p) = Len(q) + Len(l)
        /\ \A i \in 1 .. Len(l) : p[Len(q) + i] = l[i]
        /\ Len(q) \in Nat /\ Len(l) \in Nat
    BY Joined
  <1>2. <<>> \o l = l
    OBVIOUS
  <1>3. InOrder(p, r)
    OBVIOUS
  <1> HIDE DEF p
  <1>4. ASSUME NEW i \in 1 .. Len(l) - 1 PROVE Follows(l[i], l[i + 1])
    <2>1. /\ Len(q) + i \in 1 .. Len(p) - 1 /\ (Len(q) + i) + 1 = Len(q) + (i + 1)
          /\ i \in 1 .. Len(l) /\ i + 1 \in 1 .. Len(l)
      BY <1>1
    <2>2. Follows(p[Len(q) + i], p[(Len(q) + i) + 1])
      BY <1>3, <2>1 DEF InOrder
    <2>3. p[Len(q) + i] = l[i] /\ p[Len(q) + (i + 1)] = l[i + 1]
      BY <1>1, <2>1
    <2> QED
      BY <2>1, <2>2, <2>3
  <1>5. l # <<>> => p # <<>> /\ p[Len(p)] = l[Len(l)]
    BY <1>1
  <1> QED
    BY <1>2, <1>3, <1>4, <1>5 DEF InOrder

\* The requests r and s of a channel have received the same, or s nothing yet.
SameSent(r, s) ==
    s # NULL => s.sent = 0 \/ (r # NULL /\ s.text = r.text /\ s.sent = r.sent)

\* The request is replaced, or ends.
LEMMA OrderOfSame ==
  ASSUME NEW q, NEW r, NEW s, InOrder(q, r), SameSent(r, s)
  PROVE  InOrder(q, s)
  BY DEF InOrder, SameSent

\* A step after which the channel has the same audio.
SameAudio(k, l) ==
    /\ l.m_AudioQueue = k.m_AudioQueue /\ l.m_AudioList = k.m_AudioList
    /\ l.locked = k.locked
    /\ SameSent(k.m_SynthReq, l.m_SynthReq)

\* Such a step keeps it in order.
LEMMA SameAudioOf ==
  ASSUME NEW c \in Chans, AudioOf(c), SameAudio(chan[c], chan'[c]),
         \A w \in Workers : /\ Moves(w, c)' <=> Moves(w, c)
                            /\ Moves(w, c) => worker'[w].chunk = worker[w].chunk
  PROVE  AudioOf(c)'
  <1> DEFINE r == chan[c].m_SynthReq
             s == chan'[c].m_SynthReq
             q == chan[c].m_AudioQueue
             l == chan[c].m_AudioList
             In(w) == InOrder(q \o <<worker[w].chunk>> \o l, s)
  <1>1. /\ chan'[c].m_AudioQueue = q /\ chan'[c].m_AudioList = l
        /\ chan'[c].locked = chan[c].locked /\ SameSent(r, s)
    BY DEF SameAudio
  <1>2. ~chan[c].locked => InOrder(q \o l, s)
    <2>1. ~chan[c].locked => InOrder(q \o l, r)
      BY DEF AudioOf
    <2> QED
      BY <2>1, <1>1, OrderOfSame
  <1>3. ASSUME NEW w \in Workers, Moves(w, c)
        PROVE  InOrder(q \o <<worker[w].chunk>> \o l, s)
    <2>1. InOrder(q \o <<worker[w].chunk>> \o l, r)
      BY <1>3 DEF AudioOf
    <2> QED
      BY SMTT(30), <2>1, <1>1, OrderOfSame
  <1>4. chan[c].locked => \E w \in Workers : Moves(w, c)
    BY DEF AudioOf
  <1>5. \A w, v \in Workers : Moves(w, c) /\ Moves(v, c) => chan[c].locked /\ v = w
    BY Zenon DEF AudioOf
  <1> HIDE DEF r, s, q, l
  <1>6. ASSUME NEW w \in Workers, Moves(w, c)'
        PROVE  /\ chan'[c].locked /\ \A v \in Workers : Moves(v, c)' => v = w
               /\ InOrder(q \o <<worker'[w].chunk>> \o l, s)
    <2>1. Moves(w, c) /\ worker'[w].chunk = worker[w].chunk
      BY <1>6
    <2>2. InOrder(q \o <<worker'[w].chunk>> \o l, s)
      BY <2>1, <1>3
    <2>3. chan[c].locked /\ \A v \in Workers : Moves(v, c) => v = w
      BY <2>1, <1>5
    <2> QED
      BY <2>2, <2>3, <1>1
  <1>7. IF chan'[c].locked THEN \E w \in Workers : Moves(w, c)'
                           ELSE InOrder(q \o l, s)
    BY <1>1, <1>2, <1>4
  <1>8. q = chan'[c].m_AudioQueue /\ l = chan'[c].m_AudioList /\ s = chan'[c].m_SynthReq
    BY <1>1 DEF s
  <1> QED
    BY Zenon, <1>6, <1>7, <1>8 DEF AudioOf

\* A step that leaves the audio of all channels, and the workers, alone.
LEMMA NoAudioStep ==
  ASSUME AudioInv, UNCHANGED <<chan, tasks, worker>>
  PROVE  AudioInv'
  BY DEF AudioInv, AudioTypes, AudioOf, Moves

\* A step on one channel, of a thread that is not a worker.
LEMMA ChannelStep ==
  ASSUME AudioInv, NEW c, NEW k, chan' = [chan EXCEPT ![c] = k],
         worker' = worker, tasks' \in Seq(Chans),
         c \in Chans => k \in ChannelType /\ AudioOf(c)'
  PROVE  AudioInv'
  <1>1. chan \in [Chans -> ChannelType]
    BY DEF AudioInv, AudioTypes
  <1>2. AudioTypes'
    <2>1. chan' \in [Chans -> ChannelType]
      BY Zenon, <1>1
    <2> QED
      BY <2>1 DEF AudioInv, AudioTypes
  <1>3. ASSUME NEW d \in Chans PROVE AudioOf(d)'
    <2>1. CASE d = c
      BY <2>1
    <2>2. CASE d # c
      <3>1. chan'[d] = chan[d] /\ AudioOf(d)
        BY <1>1, <2>2 DEF AudioInv
      <3>2. SameAudio(chan[d], chan'[d])
        BY <3>1 DEF SameAudio, SameSent
      <3>3. \A w \in Workers : Moves(w, d)' <=> Moves(w, d)
        BY DEF Moves
      <3> QED
        BY <3>1, <3>2, <3>3, SameAudioOf
    <2> QED
      BY <2>1, <2>2
  <1> QED
    BY <1>2, <1>3 DEF AudioInv

\* ... that leaves the audio alone.
LEMMA SameChannelStep ==
  ASSUME AudioInv, NEW c, NEW k, chan' = [chan EXCEPT ![c] = k],
         UNCHANGED <<worker, tasks>>,
         c \in Chans => k \in ChannelType /\ SameAudio(chan[c], k)
  PROVE  AudioInv'
  <1>1. chan \in [Chans -> ChannelType] /\ tasks \in Seq(Chans)
    BY DEF AudioInv, AudioTypes
  <1>2. ASSUME c \in Chans PROVE AudioOf(c)'
    <2>1. chan'[c] = k /\ AudioOf(c)
      BY <1>1, <1>2 DEF AudioInv
    <2>2. SameAudio(chan[c], chan'[c])
      BY <1>2, <2>1
    <2>3. \A w \in Workers : Moves(w, c)' <=> Moves(w, c)
      BY DEF Moves
    <2> QED
      BY <1>2, <2>1, <2>2, <2>3, SameAudioOf
  <1> QED
    BY Zenon, <1>1, <1>2, ChannelStep

\* stop, OnTaskFailed and the end of the play change flags only.
LEMMA StoppedFields ==
  ASSUME NEW c \in Chans, chan[c] \in ChannelType
  PROVE  Stopped(c) \in ChannelType /\ SameAudio(chan[c], Stopped(c))
  <1> DEFINE k == chan[c]
             l == [k EXCEPT !.m_Start = FALSE, !.m_Play = FALSE, !.m_Runing = FALSE]
  <1>1. l \in ChannelType
    BY Zenon DEF ChannelType
  <1>2. /\ l.m_AudioQueue = k.m_AudioQueue /\ l.m_AudioList = k.m_AudioList
        /\ l.locked = k.locked /\ l.m_SynthReq = k.m_SynthReq
    BY DEF ChannelType
  <1> QED
    BY <1>1, <1>2 DEF Stopped, SameAudio, SameSent

\* EngineSynthStop leaves the audio alone.
LEMMA StopAudio ==
  ASSUME AudioInv, NEW t, EngineSynthStop(t), UNCHANGED <<worker, tasks>>
  PROVE  AudioInv'
  <1>1. CASE StopChannel(t)
    <2>1. chan' = [chan EXCEPT ![t.c] = Stopped(t.c)]
      BY <1>1 DEF StopChannel
    <2>2. t.c \in Chans => chan[t.c] \in ChannelType
      BY DEF AudioInv, AudioTypes
    <2> QED
      BY Zenon, <2>1, <2>2, StoppedFields, SameChannelStep
  <1>2. CASE ReturnChannel(t) \/ ForgetChannel(t)
    BY <1>2, NoAudioStep DEF ReturnChannel, ForgetChannel
  <1> QED
    BY <1>1, <1>2 DEF EngineSynthStop

\* So does the end of the play.
LEMMA FinishAudio == ASSUME AudioInv, FinishPlay PROVE AudioInv'
  <1> DEFINE c == mpf.c
             k == [chan[c] EXCEPT !.m_Play = FALSE]
  <1>1. chan' = [chan EXCEPT ![c] = k]
    BY DEF FinishPlay
  <1>2. UNCHANGED <<worker, tasks>>
    BY DEF FinishPlay
  <1>3. ASSUME c \in Chans PROVE k \in ChannelType /\ SameAudio(chan[c], k)
    <2>1. chan[c] \in ChannelType
      BY <1>3 DEF AudioInv, AudioTypes
    <2>2. k \in ChannelType
      BY <2>1, Zenon DEF ChannelType
    <2>3. /\ k.m_AudioQueue = chan[c].m_AudioQueue
          /\ k.m_AudioList = chan[c].m_AudioList
          /\ k.locked = chan[c].locked /\ k.m_SynthReq = chan[c].m_SynthReq
      BY <2>1 DEF ChannelType
    <2> QED
      BY <2>2, <2>3 DEF SameAudio, SameSent
  <1> HIDE DEF c, k
  <1> QED
    BY Zenon, <1>1, <1>2, <1>3, SameChannelStep

\* start empties the queue, with the lock, and leaves the list alone.
LEMMA StartAudio == ASSUME IInv, AudioInv, Start PROVE AudioInv'
  <1> PICK c \in Chans : c = consumer.c
    BY DEF Start, IInv, Types
  <1> DEFINE t == <<consumer.s, speaks[consumer.s]>>
             old == chan[c]
             k == [old EXCEPT !.m_Start = TRUE, !.m_Play = TRUE, !.m_Runing = TRUE,
                              !.m_Text = t, !.m_AudioFrame = NoAudio,
                              !.m_AudioQueue = <<>>]
  <1>1. t \in Texts /\ ~old.locked
    BY DEF Start, IInv, Types, Texts
  <1>2. /\ old \in ChannelType /\ AudioOf(c) /\ chan \in [Chans -> ChannelType]
        /\ tasks \in Seq(Chans)
    BY <1>1 DEF AudioInv, AudioTypes
  <1>3. worker' = worker /\ tasks' \in Seq(Chans)
    <2>1. Append(tasks, c) \in Seq(Chans)
      BY <1>2
    <2>2. worker' = worker /\ tasks' \in {Append(tasks, c), tasks}
      BY DEF Start
    <2> QED
      BY Zenon, <1>2, <2>1, <2>2
  <1>4. (chan' = [chan EXCEPT ![c] = k]) \/ (chan' = chan /\ tasks' = tasks)
    BY DEF Start, Started
  <1>5. k \in ChannelType
    <2>1. NoAudio \in FrameType
      BY DEF NoAudio, FrameType
    <2>2. <<>> \in Seq(ChunkType)
      OBVIOUS
    <2> HIDE DEF old, t
    <2> QED
      BY <1>1, <1>2, <2>1, <2>2, Zenon DEF ChannelType
  <1>6. /\ k.m_AudioQueue = <<>> /\ k.m_AudioList = old.m_AudioList
        /\ k.locked = old.locked /\ k.m_SynthReq = old.m_SynthReq
    <2> HIDE DEF old, t
    <2> QED
      BY <1>2 DEF ChannelType
  <1>7. ASSUME chan' = [chan EXCEPT ![c] = k] PROVE AudioOf(c)'
    <2>1. chan'[c] = k
      BY Zenon, <1>1, <1>2, <1>7
    <2>2. InOrder(<<>> \o old.m_AudioList, old.m_SynthReq)
      <3>1. InOrder(old.m_AudioQueue \o old.m_AudioList, old.m_SynthReq)
        BY <1>1, <1>2 DEF AudioOf
      <3>2. old.m_AudioQueue \in Seq(ChunkType) /\ old.m_AudioList \in Seq(ChunkType)
        BY <1>2 DEF ChannelType
      <3> HIDE DEF old
      <3> QED
        BY <3>1, <3>2, OrderOfList
    <2>3. \A w \in Workers : ~Moves(w, c)
      BY Zenon, <1>1, <1>2 DEF AudioOf
    <2>4. \A w \in Workers : ~Moves(w, c)'
      BY <2>3, <1>3 DEF Moves
    <2>5. ~chan'[c].locked
      BY <2>1, <1>1, <1>6
    <2>6. InOrder(chan'[c].m_AudioQueue \o chan'[c].m_AudioList, chan'[c].m_SynthReq)
      BY <2>1, <2>2, <1>6
    <2> QED
      BY <2>4, <2>5, <2>6 DEF AudioOf
  <1> HIDE DEF k
  <1>8. CASE chan' = [chan EXCEPT ![c] = k]
    BY Zenon, <1>3, <1>5, <1>7, <1>8, ChannelStep
  <1>9. CASE chan' = chan /\ tasks' = tasks
    BY <1>3, <1>9, NoAudioStep
  <1> QED
    BY <1>4, <1>8, <1>9

\* readAudioData takes the first chunk of the queue, or none.
LEMMA NextFrameFields ==
  ASSUME NEW k \in ChannelType
  PROVE  /\ NextFrame(k) \in ChannelType
         /\ \/ SameAudio(k, NextFrame(k))
            \/ /\ k.m_AudioQueue # <<>>
               /\ NextFrame(k).m_AudioQueue = Tail(k.m_AudioQueue)
               /\ NextFrame(k).m_AudioList = k.m_AudioList
               /\ NextFrame(k).locked = k.locked
               /\ NextFrame(k).m_SynthReq = k.m_SynthReq
  <1> DEFINE f == k.m_AudioFrame
             q == k.m_AudioQueue
             b == f.left > 1
             x == f.left - 1
  <1>1. f \in FrameType /\ q \in Seq(ChunkType)
    BY DEF ChannelType
  <1>2. CASE f.left > 0
    <2> DEFINE g == [f EXCEPT !.left = x, !.buffer = b]
               l == [k EXCEPT !.m_AudioFrame = g]
    <2>1. NextFrame(k) = l
      BY Zenon, <1>2 DEF NextFrame, ChannelType, FrameType
    <2>2. x \in Nat /\ b \in BOOLEAN
      BY <1>1, <1>2 DEF FrameType
    <2> HIDE DEF f, x, b
    <2>3. g \in FrameType
      BY <1>1, <2>2, Zenon DEF FrameType
    <2> HIDE DEF g
    <2>4. l \in ChannelType
      BY <2>3, Zenon DEF ChannelType
    <2>5. /\ l.m_AudioQueue = k.m_AudioQueue /\ l.m_AudioList = k.m_AudioList
          /\ l.locked = k.locked /\ l.m_SynthReq = k.m_SynthReq
      BY DEF ChannelType
    <2> QED
      BY <2>1, <2>4, <2>5 DEF SameAudio, SameSent
  <1>3. CASE ~(f.left > 0) /\ q = <<>>
    <2>1. NextFrame(k) = k
      BY <1>3 DEF NextFrame
    <2> QED
      BY <2>1 DEF SameAudio, SameSent
  <1>4. CASE ~(f.left > 0) /\ q # <<>>
    <2> DEFINE y == Head(q).frames - 1
               n == Len(q)
               g == [left |-> y, buffer |-> TRUE, item |-> n]
               u == Tail(q)
               l == [k EXCEPT !.m_AudioFrame = g, !.m_AudioQueue = u]
    <2>1. NextFrame(k) = l
      BY <1>4 DEF NextFrame
    <2>2. Head(q) \in ChunkType /\ n \in Nat /\ u \in Seq(ChunkType)
      BY <1>1, <1>4
    <2>3. y \in Nat
      BY <2>2 DEF ChunkType
    <2> HIDE DEF y, n, u, q
    <2>4. g \in FrameType
      BY <2>2, <2>3, Zenon DEF FrameType
    <2> HIDE DEF g
    <2>5. l \in ChannelType
      BY <2>2, <2>4, Zenon DEF ChannelType
    <2>6. /\ l.m_AudioQueue = u /\ l.m_AudioList = k.m_AudioList
          /\ l.locked = k.locked /\ l.m_SynthReq = k.m_SynthReq
      BY DEF ChannelType
    <2> QED
      BY <1>4, <2>1, <2>5, <2>6 DEF q, u
  <1> QED
    BY <1>2, <1>3, <1>4

\* The MPF thread reads a frame, without the lock.
LEMMA readAudio == ASSUME IInv, AudioInv, readAudioData PROVE AudioInv'
  <1>1. UNCHANGED <<tasks, worker>>
    BY DEF readAudioData
  <1>2. CASE chan' = chan
    BY <1>1, <1>2, NoAudioStep
  <1>3. CASE chan' # chan
    <2>1. mpf.s \in Sessions
      BY DEF readAudioData, IInv, Types
    <2>2. PICK c \in Chans : c = ch[mpf.s].AliSynthCh /\ c # NULL
      BY <1>3, <2>1 DEF readAudioData, IInv, Types, ChType
    <2> DEFINE k == chan[c]
               l == NextFrame(k)
    <2>3. chan' = [chan EXCEPT ![c] = l]
      BY <1>3, <2>2 DEF readAudioData
    <2>4. /\ k \in ChannelType /\ AudioOf(c) /\ chan \in [Chans -> ChannelType]
          /\ tasks \in Seq(Chans)
      BY DEF AudioInv, AudioTypes
    <2> DEFINE q == k.m_AudioQueue
               m == k.m_AudioList
               r == k.m_SynthReq
    <2>5. /\ l \in ChannelType
          /\ \/ SameAudio(k, l)
             \/ /\ q # <<>> /\ l.m_AudioQueue = Tail(q) /\ l.m_AudioList = m
                /\ l.locked = k.locked /\ l.m_SynthReq = r
      BY <2>4, NextFrameFields
    <2>6. CASE SameAudio(k, l)
      BY Zenon, <1>1, <2>3, <2>5, <2>6, SameChannelStep
    <2>7. CASE /\ q # <<>> /\ l.m_AudioQueue = Tail(q) /\ l.m_AudioList = m
               /\ l.locked = k.locked /\ l.m_SynthReq = r
      <3>1. chan'[c] = l
        BY Zenon, <2>3, <2>4
      <3>2. q \in Seq(ChunkType) /\ m \in Seq(ChunkType)
        BY <2>4 DEF ChannelType
      <3>3. ~k.locked => InOrder(q \o m, r)
        BY <2>4 DEF AudioOf
      <3>4. ASSUME NEW w \in Workers, Moves(w, c)
            PROVE  /\ k.locked /\ \A v \in Workers : Moves(v, c) => v = w
                   /\ InOrder(q \o <<worker[w].chunk>> \o m, r)
                   /\ worker[w].chunk \in ChunkType
        BY <2>4, <3>4 DEF AudioOf, Moves, AudioInv, AudioTypes
      <3>5. k.locked => \E w \in Workers : Moves(w, c)
        BY <2>4 DEF AudioOf
      <3>6. l.m_AudioQueue = Tail(q) /\ l.m_AudioList = m /\ l.locked = k.locked
            /\ l.m_SynthReq = r /\ q # <<>>
        BY <2>7
      <3> HIDE DEF k, l, q, m, r
      <3>7. ~k.locked => InOrder(Tail(q) \o m, r)
        <4>1. q \o m \in Seq(ChunkType) /\ q \o m # <<>> /\ Tail(q) \o m = Tail(q \o m)
          BY <3>2, <3>6, TailOfJoined
        <4> QED
          BY Zenon, <4>1, <3>3, OrderOfTail
      <3>8. ASSUME NEW w \in Workers, Moves(w, c)
            PROVE  InOrder(Tail(q) \o <<worker[w].chunk>> \o m, r)
        <4> DEFINE x == <<worker[w].chunk>>
        <4>1. x \in Seq(ChunkType)
          <5>1. worker[w].chunk \in ChunkType
            BY Zenon, <3>4, <3>8
          <5> QED
            BY <5>1
        <4>2. InOrder(q \o x \o m, r)
          BY <3>4, <3>8
        <4> HIDE DEF x
        <4>3. q \o x \in Seq(ChunkType) /\ q \o x # <<>> /\ Tail(q) \o x = Tail(q \o x)
          BY <3>2, <3>6, <4>1, TailOfJoined
        <4> DEFINE y == q \o x
        <4> HIDE DEF y
        <4>4. y \in Seq(ChunkType) /\ y # <<>> /\ InOrder(y \o m, r)
          BY <4>2, <4>3 DEF y
        <4>5. y \o m \in Seq(ChunkType) /\ y \o m # <<>> /\ Tail(y) \o m = Tail(y \o m)
          BY <3>2, <4>4, TailOfJoined
        <4>6. InOrder(Tail(y) \o m, r)
          BY Zenon, <4>4, <4>5, OrderOfTail
        <4> QED
          BY Zenon, <4>3, <4>6 DEF x, y
      <3>9. \A w \in Workers : Moves(w, c)' <=> Moves(w, c)
        BY <1>1 DEF Moves
      <3>10. AudioOf(c)'
        <4>1. IF chan'[c].locked
              THEN \E w \in Workers : Moves(w, c)'
              ELSE InOrder(chan'[c].m_AudioQueue \o chan'[c].m_AudioList,
                           chan'[c].m_SynthReq)
          BY Zenon, <3>1, <3>5, <3>6, <3>7, <3>9
        <4>2. ASSUME NEW w \in Workers, Moves(w, c)'
              PROVE  /\ chan'[c].locked /\ \A v \in Workers : Moves(v, c)' => v = w
                     /\ InOrder(chan'[c].m_AudioQueue \o <<worker'[w].chunk>>
                                  \o chan'[c].m_AudioList, chan'[c].m_SynthReq)
          BY Zenon, <1>1, <3>1, <3>4, <3>6, <3>8, <3>9, <4>2
        <4> QED
          BY Zenon, <4>1, <4>2 DEF AudioOf
      <3> QED
        BY Zenon, <1>1, <2>3, <2>4, <2>5, <3>10, ChannelStep
    <2> QED
      BY <2>5, <2>6, <2>7
  <1> QED
    BY <1>2, <1>3

(* The workers *)

\* A worker that neither begins nor ends to move a chunk changes nothing in the
\* audio of its channel, whose request it may replace.
LEMMA WorkerQuiet ==
  ASSUME AudioInv, NEW w \in Workers, NEW k, NEW p,
         worker[w].pc # "put", p \in {"free", "loop", "take", "end"},
         worker' = [worker EXCEPT ![w] = k], chan' \in [Chans -> ChannelType],
         k \in [pc : {p}, c : Chans \cup {NULL}, chunk : ChunkType \cup {NULL}],
         k.pc # "free" => k.c \in Chans,
         \A d \in Chans : SameAudio(chan[d], chan'[d]),
         tasks' \in Seq(Chans)
  PROVE  AudioInv'
  <1>1. worker \in [Workers -> [pc : {"free", "loop", "take", "put", "end"},
                               c : Chans \cup {NULL}, chunk : ChunkType \cup {NULL}]]
    BY DEF AudioInv, AudioTypes
  <1>2. k.pc = p /\ k.c \in Chans \cup {NULL} /\ k.chunk \in ChunkType \cup {NULL}
        /\ k \in [pc : {"free", "loop", "take", "put", "end"},
                  c : Chans \cup {NULL}, chunk : ChunkType \cup {NULL}]
    BY Zenon
  <1>3. worker'[w] = k /\ \A v \in Workers \ {w} : worker'[v] = worker[v]
    BY <1>1
  <1>4. AudioTypes'
    <2>1. worker' \in [Workers -> [pc : {"free", "loop", "take", "put", "end"},
                               c : Chans \cup {NULL}, chunk : ChunkType \cup {NULL}]]
      BY Zenon, <1>1, <1>2
    <2>2. ASSUME NEW v \in Workers
          PROVE  /\ worker'[v].pc # "free" => worker'[v].c \in Chans
                 /\ worker'[v].pc = "put" => worker'[v].chunk \in ChunkType
      <3>1. CASE v = w
        BY <3>1, <1>2, <1>3
      <3>2. CASE v # w
        BY <3>2, <1>3 DEF AudioInv, AudioTypes
      <3> QED
        BY <3>1, <3>2
    <2> QED
      BY <2>1, <2>2 DEF AudioTypes
  <1>5. ASSUME NEW d \in Chans PROVE AudioOf(d)'
    <2>1. ASSUME NEW v \in Workers
          PROVE  /\ Moves(v, d)' <=> Moves(v, d)
                 /\ Moves(v, d) => worker'[v].chunk = worker[v].chunk
      BY <1>2, <1>3 DEF Moves
    <2>2. AudioOf(d)
      BY DEF AudioInv
    <2> QED
      BY Zenon, <2>1, <2>2, SameAudioOf
  <1> QED
    BY <1>4, <1>5 DEF AudioInv

\* It takes a task, and makes a request or drops the one there is.
LEMMA InitAudioStep ==
  ASSUME AudioInv, NEW w \in Workers, DoSynthRequestInit(w)
  PROVE  AudioInv'
  <1> PICK c : c = Head(tasks)
    OBVIOUS
  <1>1. /\ chan \in [Chans -> ChannelType] /\ tasks \in Seq(Chans)
        /\ tasks # <<>> /\ tasks' = Tail(tasks) /\ worker[w].pc = "free"
    BY DEF AudioInv, AudioTypes, DoSynthRequestInit
  <1>2. c \in Chans /\ tasks' \in Seq(Chans)
    BY <1>1
  <1>3. PICK r \in RequestType \cup {NULL}, p \in {"loop", "end"} :
          /\ r # NULL => r.sent = 0
          /\ chan' = [chan EXCEPT ![c].m_SynthReq = r]
          /\ worker' = [worker EXCEPT ![w] = [FreeWorker EXCEPT !.pc = p, !.c = c]]
    <2>1. CASE /\ chan[c].m_SynthReq = NULL
               /\ \E speech \in Speeches :
                   chan' = [chan EXCEPT ![c].m_SynthReq =
                                [text |-> chan[c].m_Text, sent |-> 0,
                                 speech |-> speech, done |-> FALSE]]
               /\ worker' = [worker EXCEPT ![w] =
                                [FreeWorker EXCEPT !.pc = "loop", !.c = c]]
      <3>1. PICK speech \in Speeches :
              chan' = [chan EXCEPT ![c].m_SynthReq =
                                [text |-> chan[c].m_Text, sent |-> 0,
                                 speech |-> speech, done |-> FALSE]]
        BY Zenon, <2>1
      <3> DEFINE r == [text |-> chan[c].m_Text, sent |-> 0,
                       speech |-> speech, done |-> FALSE]
      <3>2. chan[c].m_Text \in Texts /\ speech \in Seq(Nat \ {0})
        BY <1>1, <1>2, SynthAssumption DEF ChannelType
      <3>3. r \in RequestType /\ r.sent = 0
        BY <3>2 DEF RequestType
      <3>4. chan' = [chan EXCEPT ![c].m_SynthReq = r]
        BY <3>1
      <3> HIDE DEF r
      <3> QED
        BY Zenon, <2>1, <3>3, <3>4
    <2>2. CASE /\ chan' = [chan EXCEPT ![c].m_SynthReq = NULL]
               /\ worker' = [worker EXCEPT ![w] =
                                [FreeWorker EXCEPT !.pc = "end", !.c = c]]
      BY Zenon, <2>2
    <2> QED
      BY Zenon, <2>1, <2>2 DEF DoSynthRequestInit
  <1> DEFINE k == [FreeWorker EXCEPT !.pc = p, !.c = c]
             l == [chan[c] EXCEPT !.m_SynthReq = r]
  <1>4. /\ k \in [pc : {p}, c : Chans \cup {NULL}, chunk : ChunkType \cup {NULL}]
        /\ k.c \in Chans
    BY Zenon, <1>2 DEF FreeWorker
  <1>5. worker' = [worker EXCEPT ![w] = k] /\ chan' = [chan EXCEPT ![c] = l]
    BY <1>3
  <1>6. chan[c] \in ChannelType
    BY <1>1, <1>2
  <1>7. l \in ChannelType
    BY <1>6, Zenon DEF ChannelType
  <1>8. SameAudio(chan[c], l)
    <2>1. /\ l.m_AudioQueue = chan[c].m_AudioQueue /\ l.m_AudioList = chan[c].m_AudioList
          /\ l.locked = chan[c].locked /\ l.m_SynthReq = r
      BY <1>6 DEF ChannelType
    <2> QED
      BY <2>1, <1>3 DEF SameAudio, SameSent
  <1> HIDE DEF k, l
  <1>9. /\ chan' \in [Chans -> ChannelType]
        /\ \A d \in Chans : SameAudio(chan[d], chan'[d])
    <2>1. chan' \in [Chans -> ChannelType]
      BY Zenon, <1>1, <1>2, <1>5, <1>7
    <2>2. \A d \in Chans \ {c} : chan'[d] = chan[d]
      BY <1>1, <1>5
    <2>3. chan'[c] = l
      BY <1>1, <1>2, <1>5
    <2> QED
      BY <1>8, <2>1, <2>2, <2>3 DEF SameAudio, SameSent
  <1> QED
    BY Zenon, <1>1, <1>2, <1>4, <1>5, <1>9, WorkerQuiet

\* It looks whether to go on.
LEMMA TestAudio ==
  ASSUME AudioInv, NEW w \in Workers, TestStart(w)
  PROVE  AudioInv'
  <1>1. PICK p \in {"end", "take"} : worker' = [worker EXCEPT ![w].pc = p]
    BY DEF TestStart
  <1>2. /\ worker[w] \in [pc : {"free", "loop", "take", "put", "end"},
                          c : Chans \cup {NULL}, chunk : ChunkType \cup {NULL}]
        /\ worker[w].c \in Chans /\ worker[w].pc = "loop"
        /\ chan \in [Chans -> ChannelType] /\ tasks \in Seq(Chans)
        /\ UNCHANGED <<chan, tasks>>
    BY DEF AudioInv, AudioTypes, TestStart
  <1> DEFINE k == [worker[w] EXCEPT !.pc = p]
  <1>3. worker' = [worker EXCEPT ![w] = k]
    BY <1>1
  <1>4. /\ k \in [pc : {p}, c : Chans \cup {NULL}, chunk : ChunkType \cup {NULL}]
        /\ k.c \in Chans
    BY Zenon, <1>2
  <1>5. \A d \in Chans : SameAudio(chan[d], chan'[d])
    BY <1>2 DEF SameAudio, SameSent
  <1> HIDE DEF k
  <1> QED
    BY Zenon, <1>2, <1>3, <1>4, <1>5, WorkerQuiet

\* It drops the request and goes back to the pool.
LEMMA EndAudio ==
  ASSUME AudioInv, NEW w \in Workers, EndSynthMain(w)
  PROVE  AudioInv'
  <1> PICK c : c = worker[w].c
    OBVIOUS
  <1>1. /\ c \in Chans /\ worker[w].pc = "end"
        /\ chan \in [Chans -> ChannelType] /\ tasks \in Seq(Chans)
    BY DEF AudioInv, AudioTypes, EndSynthMain
  <1> DEFINE l == [chan[c] EXCEPT !.m_SynthReq = NULL]
  <1>2. /\ chan' = [chan EXCEPT ![c] = l] /\ tasks' = tasks
        /\ worker' = [worker EXCEPT ![w] = FreeWorker]
    BY DEF EndSynthMain
  <1>3. /\ FreeWorker.pc = "free"
        /\ FreeWorker \in [pc : {"free"}, c : Chans \cup {NULL},
                           chunk : ChunkType \cup {NULL}]
    BY DEF FreeWorker
  <1>4. chan[c] \in ChannelType
    BY <1>1
  <1>5. l \in ChannelType
    BY <1>4, Zenon DEF ChannelType
  <1>6. SameAudio(chan[c], l)
    BY <1>4 DEF ChannelType, SameAudio, SameSent
  <1> HIDE DEF l
  <1>7. chan' \in [Chans -> ChannelType]
    BY Zenon, <1>1, <1>2, <1>5
  <1>8. \A d \in Chans : SameAudio(chan[d], chan'[d])
    <2>1. chan'[c] = l /\ \A d \in Chans \ {c} : chan'[d] = chan[d]
      BY <1>1, <1>2
    <2> QED
      BY <1>6, <2>1 DEF SameAudio, SameSent
  <1> QED
    BY Zenon, <1>1, <1>2, <1>3, <1>7, <1>8, WorkerQuiet

\* A worker begins or ends to move a chunk of its channel.
LEMMA MoveStep ==
  ASSUME AudioInv, NEW w \in Workers, NEW c \in Chans, worker[w].c = c,
         NEW l \in ChannelType, chan' = [chan EXCEPT ![c] = l],
         NEW k \in [pc : {"loop", "put"}, c : {c}, chunk : ChunkType \cup {NULL}],
         worker' = [worker EXCEPT ![w] = k],
         k.pc = "put" => k.chunk \in ChunkType,
         tasks' = tasks, AudioOf(c)'
  PROVE  AudioInv'
  <1> DEFINE W == [pc : {"free", "loop", "take", "put", "end"},
                   c : Chans \cup {NULL}, chunk : ChunkType \cup {NULL}]
  <1>1. worker \in [Workers -> W] /\ chan \in [Chans -> ChannelType]
    BY DEF AudioInv, AudioTypes
  <1>2. k \in W /\ k.pc \in {"loop", "put"} /\ k.c = c
    BY Zenon
  <1> HIDE DEF W
  <1>3. worker'[w] = k /\ \A v \in Workers \ {w} : worker'[v] = worker[v]
    BY <1>1
  <1>4. chan'[c] = l /\ \A d \in Chans \ {c} : chan'[d] = chan[d]
    BY <1>1
  <1>5. AudioTypes'
    <2>1. worker' \in [Workers -> W] /\ chan' \in [Chans -> ChannelType]
      BY Zenon, <1>1, <1>2
    <2>2. ASSUME NEW v \in Workers
          PROVE  /\ worker'[v].pc # "free" => worker'[v].c \in Chans
                 /\ worker'[v].pc = "put" => worker'[v].chunk \in ChunkType
      <3>1. CASE v = w
        BY <3>1, <1>2, <1>3
      <3>2. CASE v # w
        BY <3>2, <1>3 DEF AudioInv, AudioTypes
      <3> QED
        BY <3>1, <3>2
    <2>3. tasks' \in Seq(Chans)
      BY DEF AudioInv, AudioTypes
    <2> QED
      BY <2>1, <2>2, <2>3 DEF AudioTypes, W
  <1>6. ASSUME NEW d \in Chans, d # c PROVE AudioOf(d)'
    <2>1. ASSUME NEW v \in Workers
          PROVE  /\ Moves(v, d)' <=> Moves(v, d)
                 /\ Moves(v, d) => worker'[v].chunk = worker[v].chunk
      <3>1. CASE v = w
        BY <3>1, <1>2, <1>3, <1>6 DEF Moves
      <3>2. CASE v # w
        BY <3>2, <1>3 DEF Moves
      <3> QED
        BY <3>1, <3>2
    <2>2. AudioOf(d)
      BY DEF AudioInv
    <2>3. SameAudio(chan[d], chan'[d])
      BY <1>4, <1>6 DEF SameAudio, SameSent
    <2> QED
      BY Zenon, <2>1, <2>2, <2>3, SameAudioOf
  <1> QED
    BY <1>5, <1>6 DEF AudioInv

\* It takes the lock and the first chunk of the list.
LEMMA TakeAudioStep ==
  ASSUME AudioInv, NEW w \in Workers, TakeAudio(w)
  PROVE  AudioInv'
  <1> PICK c : c = worker[w].c
    OBVIOUS
  <1>1. /\ c \in Chans /\ worker[w].pc = "take" /\ tasks' = tasks
        /\ worker[w] \in [pc : {"free", "loop", "take", "put", "end"},
                          c : Chans \cup {NULL}, chunk : ChunkType \cup {NULL}]
        /\ chan \in [Chans -> ChannelType]
    BY DEF AudioInv, AudioTypes, TakeAudio
  <1>2. CASE chan[c].m_AudioList = <<>>
    BY <1>2, NoAudioStep DEF TakeAudio
  <1>3. CASE chan[c].m_AudioList # <<>>
    <2> DEFINE m == chan[c].m_AudioList
               q == chan[c].m_AudioQueue
               r == chan[c].m_SynthReq
               l == [chan[c] EXCEPT !.m_AudioList = Tail(m), !.locked = TRUE]
               k == [worker[w] EXCEPT !.pc = "put", !.chunk = Head(m)]
    <2>1. /\ chan' = [chan EXCEPT ![c] = l] /\ worker' = [worker EXCEPT ![w] = k]
          /\ ~chan[c].locked
      BY <1>3 DEF TakeAudio
    <2>2. chan[c] \in ChannelType /\ AudioOf(c)
      BY <1>1 DEF AudioInv
    <2>3. m \in Seq(ChunkType) /\ q \in Seq(ChunkType)
      BY <2>2 DEF ChannelType
    <2>4. /\ InOrder(q \o m, r) /\ \A v \in Workers : ~Moves(v, c)
      BY Zenon, <2>1, <2>2 DEF AudioOf
    <2>5. Head(m) \in ChunkType /\ Tail(m) \in Seq(ChunkType)
      BY <1>3, <2>3
    <2>6. q \o <<Head(m)>> \o Tail(m) = q \o m
      BY Zenon, <1>3, <2>3, MoveFront
    <2> DEFINE h == Head(m)
               t == Tail(m)
    <2> HIDE DEF h, t
    <2>7. l = [chan[c] EXCEPT !.m_AudioList = t, !.locked = TRUE]
          /\ k = [worker[w] EXCEPT !.pc = "put", !.chunk = h]
          /\ h \in ChunkType /\ t \in Seq(ChunkType) /\ InOrder(q \o <<h>> \o t, r)
      BY Zenon, <2>4, <2>5, <2>6 DEF h, t
    <2>8. l \in ChannelType
      <3> HIDE DEF l
      <3> QED
        BY Zenon, <2>2, <2>7 DEF ChannelType
    <2>9. l.m_AudioQueue = q /\ l.m_AudioList = t /\ l.locked /\ l.m_SynthReq = r
      <3> HIDE DEF l
      <3> QED
        BY <2>2, <2>7 DEF ChannelType
    <2>10. /\ k \in [pc : {"loop", "put"}, c : {c}, chunk : ChunkType \cup {NULL}]
           /\ k.pc = "put" /\ k.c = c /\ k.chunk = h
      <3> HIDE DEF k
      <3> QED
        BY Zenon, <1>1, <2>7
    <2> HIDE DEF l, k, m, q, r
    <2>11. worker'[w] = k /\ (\A v \in Workers \ {w} : worker'[v] = worker[v]) /\ chan'[c] = l
      BY <1>1, <2>1 DEF AudioInv, AudioTypes
    <2>12. \A v \in Workers : Moves(v, c)' <=> v = w
      BY <2>4, <2>10, <2>11 DEF Moves
    <2>13. /\ chan'[c].m_AudioQueue = q /\ chan'[c].m_AudioList = t
           /\ chan'[c].locked /\ chan'[c].m_SynthReq = r /\ worker'[w].chunk = h
      BY <2>9, <2>10, <2>11
    <2>14. InOrder(chan'[c].m_AudioQueue \o <<worker'[w].chunk>> \o chan'[c].m_AudioList,
                   chan'[c].m_SynthReq)
      BY Zenon, <2>7, <2>13
    <2>15. AudioOf(c)'
      BY Zenon, <2>12, <2>13, <2>14 DEF AudioOf
    <2> QED
      BY Zenon, <1>1, <2>1, <2>7, <2>8, <2>10, <2>15, MoveStep
  <1> QED
    BY <1>2, <1>3

\* It puts the chunk at the end of the queue and gives back the lock.
LEMMA PutAudioStep ==
  ASSUME AudioInv, NEW w \in Workers, PutAudio(w)
  PROVE  AudioInv'
  <1> PICK c : c = worker[w].c
    OBVIOUS
  <1>1. /\ c \in Chans /\ worker[w].pc = "put" /\ tasks' = tasks
        /\ worker[w] \in [pc : {"free", "loop", "take", "put", "end"},
                          c : Chans \cup {NULL}, chunk : ChunkType \cup {NULL}]
        /\ worker[w].chunk \in ChunkType /\ chan \in [Chans -> ChannelType]
    BY DEF AudioInv, AudioTypes, PutAudio
  <1> DEFINE m == chan[c].m_AudioList
             q == chan[c].m_AudioQueue
             r == chan[c].m_SynthReq
             x == worker[w].chunk
             p == Append(q, x)
             l == [chan[c] EXCEPT !.m_AudioQueue = p, !.locked = FALSE]
             k == [worker[w] EXCEPT !.pc = "loop", !.chunk = NULL]
  <1>2. chan' = [chan EXCEPT ![c] = l] /\ worker' = [worker EXCEPT ![w] = k]
    BY DEF PutAudio
  <1>3. chan[c] \in ChannelType /\ AudioOf(c) /\ Moves(w, c)
    BY <1>1 DEF AudioInv, Moves
  <1>4. q \in Seq(ChunkType)
    BY <1>3 DEF ChannelType
  <1>5. /\ InOrder(q \o <<x>> \o m, r)
        /\ \A v \in Workers : Moves(v, c) => v = w
    BY Zenon, <1>3 DEF AudioOf
  <1>6. p \in Seq(ChunkType) /\ p = q \o <<x>>
    BY <1>1, <1>4, MoveBack
  <1> HIDE DEF p
  <1>7. InOrder(p \o m, r)
    BY Zenon, <1>5, <1>6
  <1>8. l \in ChannelType
    BY <1>3, <1>6, Zenon DEF ChannelType
  <1>9. l.m_AudioQueue = p /\ l.m_AudioList = m /\ ~l.locked /\ l.m_SynthReq = r
    BY <1>3 DEF ChannelType
  <1>10. /\ k \in [pc : {"loop", "put"}, c : {c}, chunk : ChunkType \cup {NULL}]
         /\ k.pc = "loop"
    BY Zenon, <1>1
  <1> HIDE DEF l, k, m, q, r
  <1>11. worker'[w] = k /\ (\A v \in Workers \ {w} : worker'[v] = worker[v]) /\ chan'[c] = l
    BY SMTT(30), <1>1, <1>2 DEF AudioInv, AudioTypes
  <1>12. \A v \in Workers : ~Moves(v, c)'
    BY <1>5, <1>10, <1>11 DEF Moves
  <1>13. AudioOf(c)'
    BY Zenon, <1>7, <1>9, <1>11, <1>12 DEF AudioOf
  <1> QED
    BY Zenon, <1>1, <1>2, <1>8, <1>10, <1>13, MoveStep

(* The service *)

\* The next chunk comes, while nobody has the lock.
LEMMA BinaryDataAudio ==
  ASSUME AudioInv, NEW c \in Chans, Active(c), ~chan[c].locked,
         OnBinaryDataReceived(c), UNCHANGED <<tasks, worker>>
  PROVE  AudioInv'
  <1> DEFINE r == chan[c].m_SynthReq
             n == r.sent + 1
             x == [text |-> r.text, n |-> n, frames |-> r.speech[n]]
             u == [r EXCEPT !.sent = n]
             q == chan[c].m_AudioQueue
             m == chan[c].m_AudioList
             p == Append(m, x)
             l == [chan[c] EXCEPT !.m_SynthReq = u, !.m_AudioList = p]
  <1>1. /\ chan \in [Chans -> ChannelType] /\ chan[c] \in ChannelType /\ AudioOf(c)
        /\ tasks \in Seq(Chans)
    BY DEF AudioInv, AudioTypes
  <1>2. r \in RequestType /\ r # NULL /\ q \in Seq(ChunkType) /\ m \in Seq(ChunkType)
    BY <1>1 DEF ChannelType, Active
  <1>3. chan' = [chan EXCEPT ![c] = l] /\ r.sent < Len(r.speech)
    BY DEF OnBinaryDataReceived
  <1>4. InOrder(q \o m, r) /\ \A v \in Workers : ~Moves(v, c)
    BY Zenon, <1>1 DEF AudioOf
  <1>5. r.text \in Texts /\ n \in Nat /\ n \in 1 .. Len(r.speech)
        /\ r.speech \in Seq(Nat \ {0}) /\ r.speech[n] \in Nat \ {0}
    BY SMTT(30), <1>2, <1>3 DEF RequestType
  <1>6. x \in ChunkType /\ x.text = r.text /\ x.n = r.sent + 1
    BY <1>5 DEF ChunkType
  <1>7. u \in RequestType
    <2> HIDE DEF r, n
    <2> QED
      BY <1>2, <1>5, Zenon DEF RequestType
  <1>8. u.text = r.text /\ u.sent = r.sent + 1
    BY <1>2 DEF RequestType
  <1> HIDE DEF x, u
  <1>9. p \in Seq(ChunkType) /\ q \o p = Append(q \o m, x) /\ q \o m \in Seq(ChunkType)
    <2> HIDE DEF q, m
    <2>1. q \o Append(m, x) = Append(q \o m, x)
      BY <1>2, <1>6, AppendToJoined
    <2>2. Append(m, x) \in Seq(ChunkType) /\ q \o m \in Seq(ChunkType)
      BY <1>2, <1>6
    <2> QED
      BY <2>1, <2>2
  <1>10. InOrder(q \o p, u)
    BY Zenon, <1>2, <1>4, <1>6, <1>7, <1>8, <1>9, OrderOfAppend
  <1> HIDE DEF p
  <1>11. l \in ChannelType
    BY <1>1, <1>7, <1>9, Zenon DEF ChannelType
  <1>12. l.m_AudioQueue = q /\ l.m_AudioList = p /\ ~l.locked /\ l.m_SynthReq = u
    BY <1>1 DEF ChannelType
  <1> HIDE DEF l, q, m, r
  <1>13. chan'[c] = l
    BY <1>1, <1>3
  <1>14. \A v \in Workers : ~Moves(v, c)'
    BY <1>4 DEF Moves
  <1>15. AudioOf(c)'
    BY Zenon, <1>10, <1>12, <1>13, <1>14 DEF AudioOf
  <1> QED
    BY Zenon, <1>1, <1>3, <1>11, <1>15, ChannelStep

\* The end of a synthesis, or its failure, leaves the audio alone.
LEMMA EndOfSynthesis ==
  ASSUME AudioInv, NEW c \in Chans, Active(c), UNCHANGED <<tasks, worker>>,
         OnSynthesisCompleted(c) \/ OnTaskFailed(c)
  PROVE  AudioInv'
  <1> DEFINE r == chan[c].m_SynthReq
             u == [r EXCEPT !.done = TRUE]
  <1>1. chan[c] \in ChannelType
    BY DEF AudioInv, AudioTypes
  <1>2. r \in RequestType /\ r # NULL
    BY <1>1 DEF ChannelType, Active
  <1>3. u \in RequestType
    <2> HIDE DEF r
    <2> QED
      BY <1>2, Zenon DEF RequestType
  <1>4. u.text = r.text /\ u.sent = r.sent
    BY <1>2 DEF RequestType
  <1>5. SameSent(r, u)
    BY <1>2, <1>4 DEF SameSent
  <1>6. CASE OnSynthesisCompleted(c)
    <2> DEFINE l == [chan[c] EXCEPT !.m_Runing = FALSE, !.m_SynthReq = u]
    <2>1. chan' = [chan EXCEPT ![c] = l]
      <3>1. [chan[c] EXCEPT !.m_Runing = FALSE].m_SynthReq = chan[c].m_SynthReq
        BY <1>1 DEF ChannelType
      <3> QED
        BY <1>6, <3>1 DEF OnSynthesisCompleted
    <2> HIDE DEF u
    <2>2. l \in ChannelType
      BY <1>1, <1>3, Zenon DEF ChannelType
    <2>3. /\ l.m_AudioQueue = chan[c].m_AudioQueue /\ l.m_AudioList = chan[c].m_AudioList
          /\ l.locked = chan[c].locked /\ l.m_SynthReq = u
      BY <1>1 DEF ChannelType
    <2>4. SameAudio(chan[c], l)
      BY <1>5, <2>3 DEF SameAudio
    <2> HIDE DEF l
    <2> QED
      BY Zenon, <2>1, <2>2, <2>4, SameChannelStep
  <1>7. CASE OnTaskFailed(c)
    <2> DEFINE k == Stopped(c)
               l == [k EXCEPT !.m_SynthReq = u]
    <2>1. k \in ChannelType /\ SameAudio(chan[c], k)
      BY <1>1, StoppedFields
    <2>2. k.m_SynthReq = r
      BY <1>1 DEF Stopped, ChannelType
    <2>3. chan' = [chan EXCEPT ![c] = l]
      BY <1>7, <2>2 DEF OnTaskFailed
    <2> HIDE DEF u, k
    <2>4. l \in ChannelType
      BY <1>3, <2>1, Zenon DEF ChannelType
    <2>5. /\ l.m_AudioQueue = k.m_AudioQueue /\ l.m_AudioList = k.m_AudioList
          /\ l.locked = k.locked /\ l.m_SynthReq = u
      BY <2>1 DEF ChannelType
    <2>6. SameAudio(chan[c], l)
      BY <1>5, <2>1, <2>5 DEF SameAudio
    <2> HIDE DEF l
    <2> QED
      BY Zenon, <2>3, <2>4, <2>6, SameChannelStep
  <1> QED
    BY <1>6, <1>7

\* Nothing has been sent at first.
LEMMA InitAudio == Init => AudioInv
  <1> SUFFICES ASSUME Init PROVE AudioInv
    OBVIOUS
  <1>1. NoAudio \in FrameType /\ <<>> \in Seq(ChunkType) /\ <<>> \in Seq(Chans)
    BY DEF NoAudio, FrameType
  <1>2. FreeChannel \in ChannelType
    BY <1>1 DEF FreeChannel, ChannelType, Texts
  <1>3. FreeWorker \in [pc : {"free", "loop", "take", "put", "end"},
                        c : Chans \cup {NULL}, chunk : ChunkType \cup {NULL}]
    BY DEF FreeWorker
  <1>4. AudioTypes
    BY <1>1, <1>2, <1>3 DEF Init, AudioTypes, FreeWorker
  <1>5. ASSUME NEW c \in Chans PROVE AudioOf(c)
    <2>1. \A w \in Workers : ~Moves(w, c)
      BY DEF Init, Moves, FreeWorker
    <2>2. chan[c].m_AudioQueue = <<>> /\ chan[c].m_AudioList = <<>> /\ ~chan[c].locked
      BY DEF Init, FreeChannel
    <2>3. InOrder(<<>> \o <<>>, chan[c].m_SynthReq)
      BY DEF InOrder
    <2> QED
      BY Zenon, <2>1, <2>2, <2>3 DEF AudioOf
  <1> QED
    BY <1>4, <1>5 DEF AudioInv

\* Every step keeps the audio in order.
LEMMA NextAudio == ASSUME IInv, AudioInv, [Next]_vars PROVE AudioInv'
  <1>1. CASE UNCHANGED vars
    BY <1>1, NoAudioStep DEF vars
  <1>2. ASSUME NEW s \in Sessions, Send(s) \/ Ali_synth_channel_close(s) PROVE AudioInv'
    BY <1>2, NoAudioStep DEF Send, Ali_synth_channel_close
  <1>3. CASE ServerStop
    BY <1>3, StopAudio DEF ServerStop
  <1>4. CASE ConsumerStep
    <2>1. ASSUME NEW s \in Sessions, \/ Ali_synth_channel_stop(s)
                                     \/ Ali_synth_channel_pause(s)
                                     \/ Ali_synth_channel_resume(s)
                                     \/ NewChannel(s)
          PROVE  UNCHANGED <<chan, tasks, worker>>
      BY <2>1 DEF Ali_synth_channel_stop, Ali_synth_channel_pause,
                  Ali_synth_channel_resume, NewChannel
    <2>2. CASE RespondSpeak \/ StoreSpeak
      BY <2>2, NoAudioStep DEF RespondSpeak, StoreSpeak
    <2> QED
      BY <1>4, <2>1, <2>2, NoAudioStep, StartAudio DEF ConsumerStep
  <1>5. CASE MpfStep
    <2>1. ASSUME NEW s \in Sessions, \/ Ali_synth_stream_close(s)
                                     \/ AnswerStop(s)
                                     \/ EngineReadFrame(s)
          PROVE  UNCHANGED <<chan, tasks, worker>>
      BY <2>1 DEF Ali_synth_stream_close, AnswerStop, EngineReadFrame
    <2>2. CASE ClearStop
      BY <2>2, NoAudioStep DEF ClearStop
    <2>3. CASE MpfStop
      BY <2>3, StopAudio DEF MpfStop
    <2> QED
      BY SMTT(30), <1>5, <2>1, <2>2, <2>3, NoAudioStep, readAudio, FinishAudio DEF MpfStep
  <1>6. ASSUME NEW w \in Workers, synthMain(w) PROVE AudioInv'
    BY <1>6, InitAudioStep, TestAudio, TakeAudioStep, PutAudioStep, EndAudio
       DEF synthMain
  <1>7. ASSUME NEW c \in Chans, Callback(c) PROVE AudioInv'
    BY <1>7, BinaryDataAudio, EndOfSynthesis DEF Callback
  <1> QED
    BY <1>1, <1>2, <1>3, <1>4, <1>5, <1>6, <1>7 DEF Next

\* However many workers serve a channel, of whatever SPEAK requests, the audio
\* in m_AudioList, with the worker that has the lock and in m_AudioQueue is in
\* the order in which the service sent it, none left out and none twice.
THEOREM AudioStaysInOrder == Spec => []AudioInOrder
  <1>1. Init => IInv /\ AudioInv
    BY InitIInv, InitAudio
  <1>2. IInv /\ AudioInv /\ [Next]_vars => (IInv /\ AudioInv)'
    BY NextIInv, NextAudio
  <1>3. AudioInv => AudioInOrder
    BY DEF AudioInv, AudioOf, AudioInOrder
  <1> QED
    BY <1>1, <1>2, <1>3, PTL DEF Spec

=============================================================================
