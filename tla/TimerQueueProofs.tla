-------------------------- MODULE TimerQueueProofs --------------------------
(***************************************************************************)
(* Lemmas about the timer queue: what setting, killing and taking a timer  *)
(* do to the ring, for any number of timers.                               *)
(***************************************************************************)
EXTENDS TimerQueue, SequenceTheorems, WellFoundedInduction, TLAPS

\* A number that fits in a word is not changed by the wrap.
LEMMA WordFits ==
    ASSUME NEW n \in Nat, n < WORD
    PROVE  n % WORD = n
  BY TimerQueueAssumption

\* A ring with a timer more.
LEMMA LinkedProperties ==
    ASSUME NEW s \in Seq(Timers), NEW i \in 0 .. Len(s), NEW t \in Timers
    PROVE  /\ Linked(s, i, t) \in Seq(Timers)
           /\ Len(Linked(s, i, t)) = Len(s) + 1
           /\ \A k \in 1 .. Len(s) + 1 :
                  Linked(s, i, t)[k] = IF k <= i THEN s[k]
                                       ELSE IF k = i + 1 THEN t ELSE s[k - 1]
  <1> DEFINE L == Linked(s, i, t)
  <1>1. Len(s) \in Nat
    BY LenProperties
  <1>2. L \in [1 .. Len(s) + 1 -> Timers]
    <2>1. \A k \in 1 .. Len(s) : s[k] \in Timers
      BY ElementOfSeq
    <2> QED
      BY <1>1, <2>1 DEF Linked
  <1>3. L \in Seq(Timers)
    BY <1>1, <1>2
  <1>4. Len(L) = Len(s) + 1
    BY <1>1, <1>2, <1>3, LenProperties
  <1> QED
    BY <1>1, <1>3, <1>4 DEF Linked

\* A ring with a timer less.
LEMMA UnlinkedProperties ==
    ASSUME NEW T, NEW s \in Seq(T), NEW i \in 1 .. Len(s)
    PROVE  /\ Unlinked(s, i) \in Seq(T)
           /\ Len(Unlinked(s, i)) = Len(s) - 1
           /\ \A k \in 1 .. Len(s) - 1 :
                  Unlinked(s, i)[k] = IF k < i THEN s[k] ELSE s[k + 1]
  <1> DEFINE U == Unlinked(s, i)
  <1>1. Len(s) \in Nat /\ Len(s) - 1 \in Nat
    BY LenProperties
  <1>2. U \in [1 .. Len(s) - 1 -> T]
    <2>1. \A k \in 1 .. Len(s) : s[k] \in T
      BY ElementOfSeq
    <2> QED
      BY <1>1, <2>1 DEF Unlinked
  <1>3. U \in Seq(T)
    BY <1>1, <1>2
  <1>4. Len(U) = Len(s) - 1
    BY <1>1, <1>2, <1>3, LenProperties
  <1> QED
    BY <1>1, <1>3, <1>4 DEF Unlinked

\* A set of numbers that is not empty has a least one.
LEMMA LeastNumber ==
    ASSUME NEW T \in SUBSET Nat, T # {}
    PROVE  \E m \in T : \A x \in T : m <= x
  <1> DEFINE R == {ss \in Nat \X Nat : ss[1] < ss[2]}
  <1>1. IsWellFoundedOn(R, Nat)
    BY NatLessThanWellFounded DEF OpToRel
  <1>2. PICK m \in T : \A x \in T : <<x, m>> \notin R
    <2> HIDE DEF R
    <2> QED
      BY Zenon, <1>1, WFMin
  <1>3. ASSUME NEW x \in T
        PROVE  m <= x
    <2>1. m \in Nat /\ x \in Nat
      OBVIOUS
    <2>2. <<x, m>> \notin R
      BY Zenon, <1>2
    <2>3. ~(x < m)
      BY <2>1, <2>2
    <2> QED
      BY <2>1, <2>3
  <1> QED
    BY <1>3

\* A set of positions has a last one.
LEMMA LastPosition ==
    ASSUME NEW n \in Nat, NEW S \in SUBSET (1 .. n), S # {}
    PROVE  \E i \in S : \A j \in S : j <= i
  <1> DEFINE T == {m \in Nat : \E i \in S : m = n - i}
  <1>1. PICK k \in S : TRUE
    BY Zenon
  <1>2. n - k \in T
    OBVIOUS
  <1>3. PICK m \in T : \A x \in T : m <= x
    <2>1. T \in SUBSET Nat /\ T # {}
      BY Zenon, <1>2
    <2> HIDE DEF T
    <2> QED
      BY Zenon, <2>1, LeastNumber
  <1>4. PICK i \in S : m = n - i
    OBVIOUS
  <1>5. ASSUME NEW j \in S
        PROVE  j <= i
    <2>1. n - j \in T
      OBVIOUS
    <2>2. m <= n - j
      BY Zenon, <1>3, <2>1
    <2> QED
      BY <1>4, <2>2
  <1> QED
    BY <1>5

\* Where a timer goes: behind all that are due no later, before the others.
LEMMA LastNotAfterProperties ==
    ASSUME NEW s \in Seq(Timers), NEW scheduled \in [Timers -> Nat], NEW time \in Nat,
           \A i, j \in 1 .. Len(s) : i < j => scheduled[s[i]] <= scheduled[s[j]]
    PROVE  LET i == LastNotAfter(s, scheduled, time)
           IN  /\ i \in 0 .. Len(s)
               /\ \A k \in 1 .. Len(s) : IF k <= i THEN scheduled[s[k]] <= time
                                         ELSE scheduled[s[k]] > time
  <1> DEFINE before == {i \in 1 .. Len(s) : scheduled[s[i]] <= time}
             i == LastNotAfter(s, scheduled, time)
  <1>1. Len(s) \in Nat /\ \A k \in 1 .. Len(s) : s[k] \in Timers /\ scheduled[s[k]] \in Nat
    BY LenProperties, ElementOfSeq
  <1>2. CASE before = {}
    BY <1>1, <1>2 DEF LastNotAfter
  <1>3. CASE before # {}
    <2>1. \E k \in before : \A j \in before : j <= k
      <3>1. before \in SUBSET (1 .. Len(s))
        OBVIOUS
      <3> HIDE DEF before
      <3> QED
        BY Zenon, <1>1, <1>3, <3>1, LastPosition
    <2>2. i = CHOOSE k \in before : \A j \in before : j <= k
      BY Zenon, <1>3 DEF LastNotAfter
    <2>3. i \in before /\ \A j \in before : j <= i
      <3> HIDE DEF before, i
      <3> QED
        BY <2>1, <2>2
    <2>4. i \in 1 .. Len(s) /\ scheduled[s[i]] <= time
      BY <2>3
    <2> HIDE DEF i
    <2>5. ASSUME NEW k \in 1 .. Len(s), k <= i
          PROVE  scheduled[s[k]] <= time
      <3>1. CASE k = i
        BY <2>4, <3>1
      <3>2. CASE k < i
        <4>1. scheduled[s[k]] <= scheduled[s[i]]
          BY <2>4, <3>2
        <4> QED
          BY <1>1, <2>4, <4>1
      <3> QED
        BY <2>4, <2>5, <3>1, <3>2
    <2>6. ASSUME NEW k \in 1 .. Len(s), ~(k <= i)
          PROVE  scheduled[s[k]] > time
      <3>1. k \notin before
        BY <2>3, <2>6
      <3> QED
        BY <1>1, <3>1
    <2> QED
      BY <1>1, <2>4, <2>5, <2>6 DEF i
  <1> QED
    BY <1>2, <1>3

-----------------------------------------------------------------------------
(* Operations *)

\* Setting a timer that is not set puts it in its place.
LEMMA SetProperties ==
    ASSUME NEW q \in Queue, NEW S \in SUBSET Timers, RingHolds(q, S),
           NEW t \in Timers \ S, NEW timeout \in Nat \ {0},
           q.elapsed_time + timeout < WORD
    PROVE  LET r == apt_timer_set(q, t, timeout)
           IN  /\ r \in Queue
               /\ RingHolds(r, S \cup {t})
               /\ r.elapsed_time = q.elapsed_time
               /\ r.scheduled_time =
                      [q.scheduled_time EXCEPT ![t] = q.elapsed_time + timeout]
  <1> DEFINE time == q.elapsed_time + timeout
             s == q.head
             old == q.scheduled_time
             new == [old EXCEPT ![t] = time]
             i == LastNotAfter(s, old, time)
             L == Linked(s, i, t)
             r == apt_timer_set(q, t, timeout)
  <1>1. /\ WORD \in Nat
        /\ q.elapsed_time \in 0 .. WORD - 1
        /\ s \in Seq(Timers)
        /\ old \in [Timers -> 0 .. WORD - 1]
        /\ time \in 0 .. WORD - 1
    BY TimerQueueAssumption DEF Queue
  <1>2. r = [q EXCEPT !.head = L, !.scheduled_time = new]
    <2>1. old[t] = 0
      BY DEF RingHolds
    <2>2. time % WORD = time
      <3>1. time \in Nat /\ time < WORD
        BY <1>1
      <3> HIDE DEF time
      <3> QED
        BY <3>1, WordFits
    <2> QED
      BY Zenon, <2>1, <2>2 DEF apt_timer_set, apt_timer_insert
  <1>3. /\ i \in 0 .. Len(s)
        /\ \A k \in 1 .. Len(s) : IF k <= i THEN old[s[k]] <= time ELSE old[s[k]] > time
    <2>1. \A a, b \in 1 .. Len(s) : a < b => old[s[a]] <= old[s[b]]
      BY DEF RingHolds
    <2>2. old \in [Timers -> Nat] /\ time \in Nat
      BY <1>1
    <2> HIDE DEF s, old, time
    <2> QED
      BY Zenon, <1>1, <2>1, <2>2, LastNotAfterProperties
  <1>4. /\ L \in Seq(Timers)
        /\ Len(L) = Len(s) + 1
        /\ \A k \in 1 .. Len(s) + 1 :
               L[k] = IF k <= i THEN s[k] ELSE IF k = i + 1 THEN t ELSE s[k - 1]
    <2> HIDE DEF s, i
    <2> QED
      BY <1>1, <1>3, LinkedProperties DEF L
  <1>5. /\ Len(s) \in Nat
        /\ \A k \in 1 .. Len(s) : s[k] \in Timers /\ s[k] # t /\ old[s[k]] \in Nat
    <2>1. Len(s) \in Nat /\ \A k \in 1 .. Len(s) : s[k] \in Timers
      BY <1>1, LenProperties, ElementOfSeq
    <2>2. \A k \in 1 .. Len(s) : s[k] # t
      BY DEF RingHolds
    <2> QED
      BY <1>1, <2>1, <2>2
  <1>6. new \in [Timers -> 0 .. WORD - 1] /\ new[t] = time
        /\ \A u \in Timers \ {t} : new[u] = old[u]
    BY <1>1
  <1>7. /\ r \in Queue
        /\ r.head = L
        /\ r.scheduled_time = new
        /\ r.elapsed_time = q.elapsed_time
    <2> HIDE DEF L, new
    <2> QED
      BY Zenon, <1>2, <1>4, <1>6 DEF Queue
  <1>8. ASSUME NEW a \in 1 .. Len(L), NEW b \in 1 .. Len(L), a < b
        PROVE  L[a] # L[b] /\ new[L[a]] <= new[L[b]]
    <2>1. \A c, d \in 1 .. Len(s) : c < d => s[c] # s[d] /\ old[s[c]] <= old[s[d]]
      BY DEF RingHolds
    <2>2. \A k \in 1 .. Len(s) : new[s[k]] = old[s[k]]
      BY <1>5, <1>6
    <2> HIDE DEF s, old, new, i, L, time
    <2>3. CASE a <= i /\ b <= i
      BY SMTT(30), <1>3, <1>4, <1>5, <1>8, <2>1, <2>2, <2>3
    <2>4. CASE a <= i /\ b = i + 1
      <3>1. a \in 1 .. Len(s) /\ L[a] = s[a] /\ L[b] = t
        BY <1>3, <1>4, <1>5, <2>4
      <3>2. old[s[a]] <= time
        BY <1>3, <2>4, <3>1
      <3> QED
        BY <1>5, <1>6, <2>2, <3>1, <3>2
    <2>5. CASE a <= i /\ b > i + 1
      <3>1. /\ a \in 1 .. Len(s) /\ L[a] = s[a]
            /\ b - 1 \in 1 .. Len(s) /\ L[b] = s[b - 1]
            /\ a < b - 1
        BY <1>3, <1>4, <1>5, <2>5
      <3> QED
        BY <2>1, <2>2, <3>1
    <2>6. CASE a = i + 1
      <3>1. L[a] = t /\ L[b] = s[b - 1] /\ b - 1 \in 1 .. Len(s) /\ ~(b - 1 <= i)
        BY <1>3, <1>4, <1>5, <1>8, <2>6
      <3>2. old[s[b - 1]] > time
        BY <1>3, <3>1
      <3>3. s[b - 1] # t /\ new[s[b - 1]] = old[s[b - 1]] /\ new[t] = time
        BY <1>5, <1>6, <2>2, <3>1
      <3>4. time \in Nat /\ old[s[b - 1]] \in Nat
        BY <1>1, <1>5, <3>1
      <3> QED
        BY <3>1, <3>2, <3>3, <3>4
    <2>7. CASE a > i + 1
      <3>1. /\ a - 1 \in 1 .. Len(s) /\ L[a] = s[a - 1]
            /\ b - 1 \in 1 .. Len(s) /\ L[b] = s[b - 1]
            /\ a - 1 < b - 1
        BY <1>3, <1>4, <1>5, <1>8, <2>7
      <3> QED
        BY <2>1, <2>2, <3>1
    <2> QED
      BY <1>3, <1>4, <1>5, <2>3, <2>4, <2>5, <2>6, <2>7
  <1>9. ASSUME NEW u \in Timers
        PROVE  u \in S \cup {t} <=> \E k \in 1 .. Len(L) : L[k] = u
    <2>1. u \in S <=> \E k \in 1 .. Len(s) : s[k] = u
      BY DEF RingHolds
    <2> HIDE DEF s, old, new, i, L, time
    <2>2. ASSUME u = t
          PROVE  \E k \in 1 .. Len(L) : L[k] = u
      <3>1. i + 1 \in 1 .. Len(L) /\ L[i + 1] = t
        BY <1>3, <1>4, <1>5
      <3> QED
        BY <2>2, <3>1
    <2>3. ASSUME u \in S
          PROVE  \E k \in 1 .. Len(L) : L[k] = u
      <3>1. PICK k \in 1 .. Len(s) : s[k] = u
        BY <2>1, <2>3
      <3>2. CASE k <= i
        BY <1>3, <1>4, <1>5, <3>1, <3>2
      <3>3. CASE k > i
        <4>1. k + 1 \in 1 .. Len(L) /\ L[k + 1] = s[k]
          BY <1>3, <1>4, <1>5, <3>3
        <4> QED
          BY <3>1, <4>1
      <3> QED
        BY <1>3, <1>5, <3>2, <3>3
    <2>4. ASSUME NEW k \in 1 .. Len(L), L[k] = u
          PROVE  u \in S \cup {t}
      <3>1. CASE k <= i
        BY <1>3, <1>4, <1>5, <2>1, <2>4, <3>1
      <3>2. CASE k = i + 1
        BY <1>3, <1>4, <1>5, <2>4, <3>2
      <3>3. CASE k > i + 1
        <4>1. k - 1 \in 1 .. Len(s) /\ s[k - 1] = u
          BY <1>3, <1>4, <1>5, <2>4, <3>3
        <4> QED
          BY <2>1, <4>1
      <3> QED
        BY <1>3, <1>4, <1>5, <3>1, <3>2, <3>3
    <2> QED
      BY <2>2, <2>3, <2>4
  <1>10. ASSUME NEW u \in Timers \ (S \cup {t})
         PROVE  new[u] = 0
    BY <1>6 DEF RingHolds
  <1>11. RingHolds(r, S \cup {t})
    <2> HIDE DEF L, new, r
    <2> QED
      BY <1>7, <1>8, <1>9, <1>10 DEF RingHolds
  <1> QED
    BY <1>7, <1>11

\* Killing a timer takes it out; the queue that gets empty starts at 0.
LEMMA KillProperties ==
    ASSUME NEW q \in Queue, NEW S \in SUBSET Timers, RingHolds(q, S),
           NEW t \in Timers, \A u \in S : q.scheduled_time[u] # 0
    PROVE  LET r == apt_timer_kill(q, t)
           IN  /\ r \in Queue
               /\ RingHolds(r, S \ {t})
               /\ S \ {t} # {} => r.elapsed_time = q.elapsed_time
               /\ r.elapsed_time \in {0, q.elapsed_time}
               /\ r.scheduled_time = [q.scheduled_time EXCEPT ![t] = 0]
  <1> DEFINE s == q.head
             old == q.scheduled_time
             new == [old EXCEPT ![t] = 0]
             p == PositionOf(s, t)
             U == Unlinked(s, p)
             r == apt_timer_kill(q, t)
  <1>1. /\ WORD \in Nat /\ WORD > 0
        /\ q.elapsed_time \in 0 .. WORD - 1
        /\ s \in Seq(Timers)
        /\ old \in [Timers -> 0 .. WORD - 1]
    BY TimerQueueAssumption DEF Queue
  <1>2. CASE t \notin S
    <2>1. old[t] = 0
      BY <1>2 DEF RingHolds
    <2>2. r = q /\ S \ {t} = S /\ new = old
      BY <1>1, <1>2, <2>1 DEF apt_timer_kill
    <2> QED
      BY <2>2
  <1>3. CASE t \in S
    <2>1. r = [head |-> U,
               elapsed_time |-> IF U = <<>> THEN 0 ELSE q.elapsed_time,
               reset |-> q.reset \/ U = <<>>,
               scheduled_time |-> new]
      BY <1>3 DEF apt_timer_kill, apt_timer_remove
    <2>2. p \in 1 .. Len(s) /\ s[p] = t
      <3>1. \E k \in 1 .. Len(s) : s[k] = t
        BY <1>3 DEF RingHolds
      <3> HIDE DEF s
      <3> QED
        BY <3>1 DEF PositionOf
    <2>3. /\ U \in Seq(Timers)
          /\ Len(U) = Len(s) - 1
          /\ \A k \in 1 .. Len(s) - 1 : U[k] = IF k < p THEN s[k] ELSE s[k + 1]
      <3> HIDE DEF s, p
      <3> QED
        BY Zenon, <1>1, <2>2, UnlinkedProperties DEF U
    <2>4. /\ Len(s) \in Nat
          /\ \A k \in 1 .. Len(s) : s[k] \in Timers
          /\ \A a, b \in 1 .. Len(s) : a < b => s[a] # s[b] /\ old[s[a]] <= old[s[b]]
      <3>1. Len(s) \in Nat /\ \A k \in 1 .. Len(s) : s[k] \in Timers
        BY <1>1, LenProperties, ElementOfSeq
      <3> QED
        BY <3>1 DEF RingHolds
    <2>5. new \in [Timers -> 0 .. WORD - 1] /\ new[t] = 0
          /\ \A u \in Timers \ {t} : new[u] = old[u]
      BY <1>1
    <2>6. \A k \in 1 .. Len(s) : k # p => s[k] # t /\ new[s[k]] = old[s[k]]
      <3> HIDE DEF s, p, new, old
      <3>1. ASSUME NEW k \in 1 .. Len(s), k # p
            PROVE  s[k] # t
        BY <2>2, <2>4, <3>1
      <3> QED
        BY <2>4, <2>5, <3>1
    <2>7. r \in Queue /\ r.head = U /\ r.scheduled_time = new
      <3> HIDE DEF U, new
      <3>1. q.reset \in BOOLEAN
        BY DEF Queue
      <3>2. (q.reset \/ U = <<>>) \in BOOLEAN
        OBVIOUS
      <3> QED
        BY SMTT(30), <1>1, <2>1, <2>3, <2>5, <3>2 DEF Queue
    <2>8. ASSUME NEW a \in 1 .. Len(U), NEW b \in 1 .. Len(U), a < b
          PROVE  U[a] # U[b] /\ new[U[a]] <= new[U[b]]
      <3> HIDE DEF s, p, new, old, U
      <3> DEFINE c == IF a < p THEN a ELSE a + 1
                 d == IF b < p THEN b ELSE b + 1
      <3>1. /\ c \in 1 .. Len(s) /\ d \in 1 .. Len(s) /\ c < d
            /\ c # p /\ d # p /\ U[a] = s[c] /\ U[b] = s[d]
        BY SMTT(30), <2>2, <2>3, <2>4, <2>8
      <3> HIDE DEF c, d
      <3> QED
        BY <2>4, <2>6, <3>1
    <2>9. ASSUME NEW u \in Timers
          PROVE  u \in S \ {t} <=> \E k \in 1 .. Len(U) : U[k] = u
      <3>1. u \in S <=> \E k \in 1 .. Len(s) : s[k] = u
        BY DEF RingHolds
      <3> HIDE DEF s, p, new, old, U
      <3>2. ASSUME u \in S \ {t}
            PROVE  \E k \in 1 .. Len(U) : U[k] = u
        <4>1. PICK k \in 1 .. Len(s) : s[k] = u
          BY <3>1, <3>2
        <4>2. CASE k < p
          <5>1. k \in 1 .. Len(U) /\ U[k] = u
            BY <2>2, <2>3, <2>4, <4>1, <4>2
          <5> QED
            BY <5>1
        <4>3. CASE k > p
          <5>1. k - 1 \in 1 .. Len(U) /\ U[k - 1] = u
            BY <2>2, <2>3, <2>4, <4>1, <4>3
          <5> QED
            BY <5>1
        <4>4. k # p
          BY <2>2, <3>2, <4>1
        <4> QED
          BY <2>2, <4>2, <4>3, <4>4
      <3>3. ASSUME NEW k \in 1 .. Len(U), U[k] = u
            PROVE  u \in S \ {t}
        <4> DEFINE c == IF k < p THEN k ELSE k + 1
        <4>1. c \in 1 .. Len(s) /\ c # p /\ s[c] = u
          BY <2>2, <2>3, <2>4, <3>3
        <4> HIDE DEF c
        <4> QED
          BY <2>6, <3>1, <4>1
      <3> QED
        BY <3>2, <3>3
    <2>10. RingHolds(r, S \ {t})
      <3>1. \A u \in Timers \ (S \ {t}) : new[u] = 0
        BY <2>5 DEF RingHolds
      <3> HIDE DEF U, new, r
      <3> QED
        BY <2>7, <2>8, <2>9, <3>1 DEF RingHolds
    <2>11. S \ {t} # {} => U # <<>>
      <3> HIDE DEF U
      <3>1. ASSUME NEW u \in S \ {t}
            PROVE  U # <<>>
        <4>1. PICK k \in 1 .. Len(U) : U[k] = u
          BY <2>9, <3>1
        <4> QED
          BY <4>1, EmptySeq
      <3> QED
        BY <3>1
    <2> QED
      BY <2>1, <2>7, <2>10, <2>11
  <1> QED
    BY <1>2, <1>3

\* The first timer of the ring is the one that is due first.
LEMMA TakeFirstProperties ==
    ASSUME NEW q \in Queue, NEW S \in SUBSET Timers, RingHolds(q, S), ~IsEmpty(q)
    PROVE  LET f == Head(q.head)
               r == TakeFirst(q)
           IN  /\ f \in S
               /\ r \in Queue
               /\ RingHolds(r, S \ {f})
               /\ r.elapsed_time = q.elapsed_time
               /\ r.scheduled_time = [q.scheduled_time EXCEPT ![f] = 0]
               /\ \A u \in S : q.scheduled_time[f] <= q.scheduled_time[u]
  <1> DEFINE s == q.head
             f == Head(s)
             T == Tail(s)
             old == q.scheduled_time
             new == [old EXCEPT ![f] = 0]
             r == TakeFirst(q)
  <1>1. /\ WORD \in Nat /\ WORD > 0
        /\ s \in Seq(Timers) /\ s # <<>>
        /\ old \in [Timers -> 0 .. WORD - 1]
    BY TimerQueueAssumption DEF Queue, IsEmpty
  <1>2. /\ Len(s) \in Nat /\ Len(s) > 0
        /\ f = s[1] /\ f \in Timers
        /\ T \in Seq(Timers) /\ Len(T) = Len(s) - 1
        /\ \A k \in 1 .. Len(T) : T[k] = s[k + 1]
        /\ \A k \in 1 .. Len(s) : s[k] \in Timers
    <2> HIDE DEF s
    <2> QED
      BY <1>1, HeadTailProperties, LenProperties, ElementOfSeq, EmptySeq
  <1>3. r = [q EXCEPT !.head = T, !.scheduled_time = new]
    BY DEF TakeFirst
  <1>4. new \in [Timers -> 0 .. WORD - 1] /\ new[f] = 0
        /\ \A u \in Timers \ {f} : new[u] = old[u]
    <2> HIDE DEF s, f, old
    <2> QED
      BY <1>1, <1>2
  <1>5. r \in Queue /\ r.head = T /\ r.scheduled_time = new
        /\ r.elapsed_time = q.elapsed_time
    <2> HIDE DEF T, new
    <2> QED
      BY Zenon, <1>2, <1>3, <1>4 DEF Queue
  <1>6. \A a, b \in 1 .. Len(s) : a < b => s[a] # s[b] /\ old[s[a]] <= old[s[b]]
    BY DEF RingHolds
  <1>7. \A u \in Timers : u \in S <=> \E k \in 1 .. Len(s) : s[k] = u
    BY DEF RingHolds
  <1>8. \A u \in Timers \ (S \ {f}) : new[u] = 0
    BY <1>4 DEF RingHolds
  <1> HIDE DEF s, f, T, old, new, r
  <1>9. f \in S
    BY <1>2, <1>7
  <1>10. ASSUME NEW a \in 1 .. Len(T), NEW b \in 1 .. Len(T), a < b
         PROVE  T[a] # T[b] /\ new[T[a]] <= new[T[b]]
    <2>1. /\ a + 1 \in 1 .. Len(s) /\ b + 1 \in 1 .. Len(s) /\ 1 \in 1 .. Len(s)
          /\ T[a] = s[a + 1] /\ T[b] = s[b + 1]
          /\ 1 < a + 1 /\ a + 1 < b + 1
      BY <1>2, <1>10
    <2>2. s[a + 1] # f /\ s[b + 1] # f
      BY <1>2, <1>6, <2>1
    <2>3. s[a + 1] # s[b + 1] /\ old[s[a + 1]] <= old[s[b + 1]]
      BY <1>6, <2>1
    <2>4. s[a + 1] \in Timers /\ s[b + 1] \in Timers
      BY <1>2, <2>1
    <2> QED
      BY <1>4, <2>1, <2>2, <2>3, <2>4
  <1>11. ASSUME NEW u \in Timers
         PROVE  u \in S \ {f} <=> \E k \in 1 .. Len(T) : T[k] = u
    <2>1. ASSUME u \in S \ {f}
          PROVE  \E k \in 1 .. Len(T) : T[k] = u
      <3>1. PICK k \in 1 .. Len(s) : s[k] = u
        BY <1>7, <2>1
      <3>2. k - 1 \in 1 .. Len(T) /\ T[k - 1] = u
        BY <1>2, <2>1, <3>1
      <3> QED
        BY <3>2
    <2>2. ASSUME NEW k \in 1 .. Len(T), T[k] = u
          PROVE  u \in S \ {f}
      <3>1. k + 1 \in 1 .. Len(s) /\ 1 \in 1 .. Len(s) /\ 1 < k + 1 /\ s[k + 1] = u
        BY <1>2, <2>2
      <3>2. s[1] # s[k + 1]
        BY <1>6, <3>1
      <3> QED
        BY <1>2, <1>7, <3>1, <3>2
    <2> QED
      BY <2>1, <2>2
  <1>12. RingHolds(r, S \ {f})
    BY <1>5, <1>8, <1>10, <1>11 DEF RingHolds
  <1>13. ASSUME NEW u \in S
         PROVE  old[f] <= old[u]
    <2>1. PICK k \in 1 .. Len(s) : s[k] = u
      BY <1>7
    <2>2. CASE k = 1
      BY <1>1, <1>2, <2>1, <2>2
    <2>3. CASE k # 1
      <3>1. 1 \in 1 .. Len(s) /\ 1 < k
        BY <1>2, <2>3
      <3> QED
        BY <1>2, <1>6, <2>1, <3>1
    <2> QED
      BY <2>2, <2>3
  <1> QED
    BY <1>5, <1>9, <1>12, <1>13 DEF r, s, f, old, new

\* Time passes equally for all timers that are set, shifted down or not, as
\* long as none of them is overdue.
LEMMA AdvanceTimeProperties ==
    ASSUME NEW q \in Queue, NEW S \in SUBSET Timers, RingHolds(q, S),
           NEW d \in Nat, q.elapsed_time + d < WORD,
           \A u \in S : q.scheduled_time[u] >= q.elapsed_time + d
    PROVE  LET r == AdvanceTime(q, d)
           IN  /\ r \in Queue
               /\ RingHolds(r, S)
               /\ r.elapsed_time < RESCHEDULE
               /\ \A u \in S : r.scheduled_time[u] - r.elapsed_time
                                   = q.scheduled_time[u] - q.elapsed_time - d
  <1> DEFINE now == q.elapsed_time + d
             later == [q EXCEPT !.elapsed_time = now]
             old == q.scheduled_time
             r == AdvanceTime(q, d)
  <1>1. /\ WORD \in Nat /\ WORD > RESCHEDULE /\ RESCHEDULE \in Nat \ {0}
        /\ q.elapsed_time \in 0 .. WORD - 1
        /\ now \in 0 .. WORD - 1
        /\ old \in [Timers -> 0 .. WORD - 1]
        /\ q.head \in Seq(Timers)
    BY TimerQueueAssumption DEF Queue
  <1>2. now % WORD = now
    <2>1. now \in Nat /\ now < WORD
      BY <1>1
    <2> HIDE DEF now
    <2> QED
      BY <2>1, WordFits
  <1>3. r = IF now >= RESCHEDULE THEN apt_timers_reschedule(later) ELSE later
    <2>1. [q EXCEPT !.elapsed_time = (@ + d) % WORD] = later
      BY <1>2
    <2>2. later.elapsed_time = now
      BY DEF Queue
    <2> QED
      BY Zenon, <2>1, <2>2 DEF AdvanceTime
  <1>4. /\ later \in Queue /\ later.head = q.head /\ later.scheduled_time = old
        /\ later.elapsed_time = now
    <2> HIDE DEF now
    <2> QED
      BY SMTT(30), <1>1 DEF Queue
  <1>5. CASE now < RESCHEDULE
    <2>1. r = later
      BY <1>1, <1>3, <1>5
    <2>2. RingHolds(later, S)
      BY <1>4 DEF RingHolds
    <2>3. \A u \in S : old[u] - now = old[u] - q.elapsed_time - d
      BY <1>1
    <2> QED
      BY <1>4, <1>5, <2>1, <2>2, <2>3
  <1>6. CASE now >= RESCHEDULE
    <2> DEFINE new == [t \in Timers |-> IF t \in S THEN old[t] - now ELSE old[t]]
    <2>1. \A t \in Timers : (\E i \in 1 .. Len(q.head) : q.head[i] = t) <=> t \in S
      BY DEF RingHolds
    <2>2. \A t \in S : old[t] - now \in 0 .. WORD - 1 /\ (old[t] - now) % WORD = old[t] - now
      <3>1. ASSUME NEW t \in S
            PROVE  old[t] - now \in 0 .. WORD - 1
        <4>1. t \in Timers
          OBVIOUS
        <4>2. old[t] \in 0 .. WORD - 1 /\ old[t] >= now
          BY <1>1, <4>1
        <4> QED
          BY <1>1, <4>2
      <3>2. ASSUME NEW t \in S
            PROVE  (old[t] - now) % WORD = old[t] - now
        <4>1. old[t] - now \in Nat /\ old[t] - now < WORD
          BY <1>1, <3>1
        <4> HIDE DEF old, now
        <4> QED
          BY <4>1, WordFits
      <3> QED
        BY <3>1, <3>2
    <2>3. r = [later EXCEPT !.scheduled_time = new, !.elapsed_time = 0]
      <3>1. r = apt_timers_reschedule(later)
        BY <1>3, <1>6
      <3>2. [t \in Timers |-> IF \E i \in 1 .. Len(later.head) : later.head[i] = t
                              THEN (later.scheduled_time[t] - later.elapsed_time) % WORD
                              ELSE later.scheduled_time[t]] = new
        BY <1>4, <2>1, <2>2
      <3> HIDE DEF new, later, r
      <3> QED
        BY Zenon, <3>1, <3>2 DEF apt_timers_reschedule
    <2>4. new \in [Timers -> 0 .. WORD - 1]
      BY <1>1, <2>2
    <2>5. /\ r \in Queue /\ r.head = q.head /\ r.scheduled_time = new
          /\ r.elapsed_time = 0
      <3>1. 0 \in 0 .. WORD - 1
        BY <1>1
      <3> HIDE DEF new, later, r, now, old
      <3> QED
        BY Zenon, <1>4, <2>3, <2>4, <3>1 DEF Queue
    <2>6. RingHolds(r, S)
      <3>1. ASSUME NEW i \in 1 .. Len(q.head), NEW j \in 1 .. Len(q.head), i < j
            PROVE  q.head[i] # q.head[j] /\ new[q.head[i]] <= new[q.head[j]]
        <4>1. q.head[i] # q.head[j] /\ old[q.head[i]] <= old[q.head[j]]
          BY <3>1 DEF RingHolds
        <4>2. q.head[i] \in Timers /\ q.head[j] \in Timers
          BY <1>1, ElementOfSeq
        <4>3. q.head[i] \in S /\ q.head[j] \in S
          BY <2>1, <4>2
        <4>4. old[q.head[i]] \in Int /\ old[q.head[j]] \in Int /\ now \in Int
          <5> HIDE DEF old, now
          <5> QED
            BY <1>1, <4>2
        <4>5. /\ new[q.head[i]] = old[q.head[i]] - now
              /\ new[q.head[j]] = old[q.head[j]] - now
          BY <4>2, <4>3
        <4> HIDE DEF new, old, now
        <4> QED
          BY <4>1, <4>4, <4>5
      <3>2. \A t \in Timers \ S : new[t] = 0
        BY DEF RingHolds
      <3> HIDE DEF new, r
      <3> QED
        BY <2>1, <2>5, <3>1, <3>2 DEF RingHolds
    <2>7. \A u \in S : new[u] - 0 = old[u] - q.elapsed_time - d
      BY <1>1
    <2> HIDE DEF new
    <2> QED
      BY <1>1, <2>5, <2>6, <2>7
  <1> QED
    BY <1>1, <1>5, <1>6

=============================================================================
