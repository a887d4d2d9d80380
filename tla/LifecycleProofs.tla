-------------------------- MODULE LifecycleProofs --------------------------
(***************************************************************************)
(* Proofs about Lifecycle for any threads, any connections and any period: *)
(* which threads the end of the process leaves behind, and, of threads     *)
(* with five connections at most, how late an idle one is closed.          *)
(***************************************************************************)
EXTENDS Lifecycle, TLAPS

(* The two halves of TypeOK: the flags and the rest.                       *)
Flags ==
  /\ sigint \in BOOLEAN
  /\ missed \in [Threads -> BOOLEAN]

Ranges ==
  /\ age \in [Threads -> [Conns -> {Absent} \union Ages]]
  /\ pc \in [Threads -> {"top", "tested", "wait", "busy", "end"}]
  /\ left \in [Threads -> {Forever} \union Ages]
  /\ events \in [Threads -> SUBSET Conns]
  /\ cur \in [Threads -> Conns \union {NoConn}]
  /\ stalled \in [Threads -> 0 .. MaxStall]
  /\ main \in {"sleep", "kill", "grace", "exited"}
  /\ toKill \subseteq Threads

(* A thread that serves has a connection, one that has left its loop or    *)
(* waits for ever has none in its queue.                                   *)
Serving == \A t \in Threads : pc[t] = "busy" => cur[t] \in Conns

Emptied ==
  \A t \in Threads :
    pc[t] = "end" \/ (pc[t] = "wait" /\ left[t] = Forever)
      => Queued(t) = {}

(* How old a connection of the thread may be.                              *)
Latest(t) == LatestAge + 2 * stalled[t]

(* In a wait the ages of two connections differ by less than a period, as  *)
(* all of them were younger than one when the wait began, and the wait     *)
(* ends before any of them is too old.                                     *)
WaitsInTime(t) ==
  \A c, d \in Queued(t) :
    /\ age[t][d] <= age[t][c] + (KEEP_ALIVE_TIMEOUT - 1)
    /\ age[t][c] + left[t] <= Latest(t)

Waiting ==
  OrderedHeap => \A t \in Threads : pc[t] = "wait" => WaitsInTime(t)

(* Out of a wait: the next wait, as long as any connection is old, ends    *)
(* before one that is not due yet is too old.                              *)
WakesInTime(t) ==
  \A c, d \in Queued(t) :
    /\ age[t][c] <= Latest(t)
    /\ age[t][c] < KEEP_ALIVE_TIMEOUT => age[t][c] + age[t][d] <= Latest(t)

Awake ==
  OrderedHeap =>
    \A t \in Threads : pc[t] \in {"top", "tested", "busy"} => WakesInTime(t)

(* A thread that was signalled and is going to wait missed the signal.     *)
Flagged == main # "sleep" => sigint

Warned ==
  \A t \in Threads :
    main # "sleep" /\ t \notin toKill /\ pc[t] \in {"tested", "wait"}
      => missed[t]

IndInv ==
  /\ Flags /\ Ranges
  /\ Serving /\ Emptied /\ Waiting /\ Awake
  /\ Flagged /\ Warned
-----------------------------------------------------------------------------
(* Lemmas about ages.                                                      *)

(* With five connections at most the root is the oldest, and the loop      *)
(* closes all that are due.                                                *)
LEMMA AllDueClosed ==
  ASSUME OrderedHeap, Ranges, NEW t \in Threads,
         NEW r \in Roots(t, Queued(t)), NEW closed \in Expired(t, r)
  PROVE  closed = Due(t)
<1> USE LifecycleAssumption
<1>1. \A c \in Conns : c \in Due(t) => c \in Queued(t)
  BY DEF Due, Queued, Absent
<1>2. \A c \in Queued(t) : age[t][c] \in Nat
  BY DEF Ranges, Queued, Ages
<1>3. r \in Queued(t) /\ \A c \in Queued(t) : age[t][c] <= age[t][r]
  BY DEF Roots
<1>4. CASE r \notin Due(t)
  <2>1. closed = {}
    BY <1>4 DEF Expired
  <2>2. age[t][r] < KEEP_ALIVE_TIMEOUT
    BY <1>2, <1>3, <1>4 DEF Due, Queued
  <2> QED
    BY <1>1, <1>2, <1>3, <2>1, <2>2 DEF Due
<1>5. CASE r \in Due(t)
  <2>1. /\ closed \subseteq Due(t)
        /\ \/ closed = Queued(t)
           \/ \E q \in Roots(t, Queued(t) \ closed) : q \notin Due(t)
    BY <1>5 DEF Expired
  <2>2. CASE closed = Queued(t)
    BY <1>1, <2>1, <2>2 DEF Due
  <2>3. ASSUME NEW q \in Roots(t, Queued(t) \ closed), q \notin Due(t)
        PROVE  closed = Due(t)
    <3>1. /\ q \in Queued(t)
          /\ \A c \in Queued(t) \ closed : age[t][c] <= age[t][q]
      BY DEF Roots
    <3>2. age[t][q] < KEEP_ALIVE_TIMEOUT
      BY <1>2, <2>3, <3>1 DEF Due, Queued
    <3>3. \A c \in Due(t) : c \in closed
      BY <1>1, <1>2, <3>1, <3>2 DEF Due
    <3> QED
      BY <2>1, <3>3
  <2> QED
    BY <2>1, <2>2, <2>3
<1> QED
  BY <1>4, <1>5

(* The bound is at least three periods less a second each, and a second.   *)
LEMMA LatestAgeBound ==
  /\ LatestAge \in Nat /\ LatestAge >= 1
  /\ LatestAge >= 3 * (KEEP_ALIVE_TIMEOUT - 1)
BY LifecycleAssumption DEF LatestAge

(* A thread's bound is that and not less.                                  *)
LEMMA LatestBound ==
  ASSUME Ranges, NEW t \in Threads
  PROVE  /\ stalled[t] \in 0 .. MaxStall
         /\ Latest(t) \in Nat /\ Latest(t) = LatestAge + 2 * stalled[t]
         /\ Latest(t) >= LatestAge
BY LifecycleAssumption, LatestAgeBound DEF Ranges, Latest

(* A thread that wakes, for whatever reason, finds ages that are in time.  *)
LEMMA WakeInTime ==
  ASSUME OrderedHeap, Ranges, Emptied, Waiting, NEW t \in Threads,
         pc[t] = "wait"
  PROVE  WakesInTime(t)
<1> SUFFICES ASSUME NEW c \in Queued(t), NEW d \in Queued(t)
             PROVE  /\ age[t][c] <= Latest(t)
                    /\ age[t][c] < KEEP_ALIVE_TIMEOUT
                         => age[t][c] + age[t][d] <= Latest(t)
  BY DEF WakesInTime
<1> USE LifecycleAssumption, LatestAgeBound
<1>1. left[t] \in Ages
  BY DEF Ranges, Emptied
<1>2. age[t][c] \in Ages /\ age[t][d] \in Ages
  BY DEF Ranges, Queued
<1>3. /\ age[t][d] <= age[t][c] + (KEEP_ALIVE_TIMEOUT - 1)
      /\ age[t][c] + left[t] <= Latest(t)
  BY DEF Waiting, WaitsInTime
<1>4. Latest(t) \in Nat /\ Latest(t) >= LatestAge
  BY LatestBound
<1> QED
  BY <1>1, <1>2, <1>3, <1>4 DEF Ages

-----------------------------------------------------------------------------
(* IndInv is an invariant of the specification.                            *)

(* Threads start with empty queues and no signal.                          *)
LEMMA InitIndInv == Init => IndInv
<1> SUFFICES ASSUME Init PROVE IndInv
  OBVIOUS
<1> USE LifecycleAssumption DEF Init
<1>1. Flags
  BY DEF Flags
<1>2. Ranges
  BY DEF Ranges, NoConns
<1>3. \A t \in Threads : Queued(t) = {}
  BY DEF Queued, NoConns
<1>4. Serving /\ Emptied /\ Waiting /\ Awake /\ Flagged /\ Warned
  BY <1>3 DEF Serving, Emptied, Waiting, Awake, WakesInTime, Flagged, Warned
<1> QED
  BY <1>1, <1>2, <1>4 DEF IndInv

(* A queue that is not touched keeps its bounds.                           *)
LEMMA QueueKept ==
  ASSUME NEW t \in Threads, age'[t] = age[t], left'[t] = left[t],
         stalled'[t] = stalled[t]
  PROVE  /\ Queued(t)' = Queued(t)
         /\ WaitsInTime(t)' <=> WaitsInTime(t)
         /\ WakesInTime(t)' <=> WakesInTime(t)
<1>1. Queued(t)' = Queued(t)
  BY DEF Queued
<1> QED
  BY <1>1 DEF WaitsInTime, WakesInTime, Latest, LatestAge

(* The other threads' queues are not touched by a step of one thread.      *)
LEMMA OthersKept ==
  ASSUME IndInv, NEW t \in Threads,
         \A u \in Threads \ {t} : /\ age'[u] = age[u] /\ pc'[u] = pc[u]
                                  /\ left'[u] = left[u] /\ cur'[u] = cur[u]
                                  /\ stalled'[u] = stalled[u],
         pc'[t] = "busy" => cur'[t] \in Conns,
         pc'[t] = "end" \/ (pc'[t] = "wait" /\ left'[t] = Forever)
           => Queued(t)' = {},
         OrderedHeap /\ pc'[t] = "wait" => WaitsInTime(t)',
         OrderedHeap /\ pc'[t] \in {"top", "tested", "busy"}
           => WakesInTime(t)'
  PROVE  Serving' /\ Emptied' /\ Waiting' /\ Awake'
<1>1. \A u \in Threads \ {t} : /\ Queued(u)' = Queued(u)
                               /\ WaitsInTime(u)' <=> WaitsInTime(u)
                               /\ WakesInTime(u)' <=> WakesInTime(u)
  BY QueueKept
<1>2. Serving' /\ Emptied'
  BY <1>1 DEF IndInv, Serving, Emptied, Forever
<1>3. Waiting'
  BY <1>1 DEF IndInv, Waiting, OrderedHeap
<1>4. Awake'
  BY <1>1 DEF IndInv, Awake, OrderedHeap
<1> QED
  BY <1>2, <1>3, <1>4

(* while (!sigintReceived).                                                *)
LEMMA TestStep ==
  ASSUME IndInv, NEW t \in Threads, testSigint(t)
  PROVE  IndInv'
<1> USE LifecycleAssumption DEF testSigint, Go, mainVars
<1>1. Flags /\ Ranges
  BY DEF IndInv
<1>2. Flags'
  BY <1>1 DEF Flags
<1>3. Ranges'
  <2>1. NoConns \in [Conns -> {Absent} \union Ages]
    BY DEF NoConns
  <2>2. age' \in [Threads -> [Conns -> {Absent} \union Ages]]
    BY <1>1, <2>1, Zenon DEF Ranges
  <2>3. pc' \in [Threads -> {"top", "tested", "wait", "busy", "end"}]
    BY <1>1 DEF Ranges
  <2> QED
    BY <1>1, <2>2, <2>3 DEF Ranges
<1>4. \A u \in Threads \ {t} : age'[u] = age[u] /\ pc'[u] = pc[u]
  BY <1>1 DEF Ranges
<1>5. Serving' /\ Emptied' /\ Waiting' /\ Awake'
  <2>1. CASE sigint
    <3>1. pc'[t] = "end" /\ age'[t] = NoConns
      BY <1>1, <2>1 DEF Ranges
    <3>2. Queued(t)' = {}
      BY <3>1 DEF Queued, NoConns
    <3> QED
      BY <1>4, <3>1, <3>2, OthersKept
  <2>2. CASE ~sigint
    <3>1. pc'[t] = "tested" /\ age' = age /\ pc[t] = "top"
      BY <1>1, <2>2 DEF Ranges
    <3>2. OrderedHeap => WakesInTime(t)'
      BY <3>1, QueueKept DEF IndInv, Awake
    <3> QED
      BY <1>4, <3>1, <3>2, OthersKept
  <2> QED
    BY <2>1, <2>2
<1>6. Flagged' /\ Warned'
  BY <1>1 DEF IndInv, Flagged, Warned, Ranges
<1> QED
  BY <1>2, <1>3, <1>5, <1>6 DEF IndInv

(* The wait is as long as the root was old; those that stay are not due.   *)
LEMMA CloseStep ==
  ASSUME IndInv, NEW t \in Threads, closeDueAndWait(t)
  PROVE  IndInv'
<1> USE LifecycleAssumption
<1>1. Flags /\ Ranges
  BY DEF IndInv
<1>2. /\ pc[t] = "tested"
      /\ pc' = [pc EXCEPT ![t] = "wait"]
      /\ UNCHANGED <<events, cur, sigint, main, toKill, missed>>
  BY DEF closeDueAndWait, Go, mainVars
<1>3. /\ pc'[t] = "wait" /\ \A u \in Threads \ {t} : pc'[u] = pc[u]
      /\ pc' \in [Threads -> {"top", "tested", "wait", "busy", "end"}]
  BY <1>1, <1>2 DEF Ranges
<1>4. Flags'
  BY <1>1, <1>2 DEF Flags
<1>5. Flagged' /\ Warned'
  BY <1>1, <1>2 DEF IndInv, Flagged, Warned, Ranges
<1>6. CASE /\ Queued(t) = {}
           /\ left' = [left EXCEPT ![t] = Forever]
           /\ stalled' = [stalled EXCEPT ![t] = 0]
           /\ UNCHANGED age
  <2>1. Ranges'
    BY <1>1, <1>2, <1>3, <1>6 DEF Ranges
  <2>2. \A u \in Threads \ {t} : left'[u] = left[u] /\ stalled'[u] = stalled[u]
    BY <1>1, <1>6 DEF Ranges
  <2>3. Queued(t)' = {}
    BY <1>6 DEF Queued
  <2>4. WaitsInTime(t)'
    BY <2>3 DEF WaitsInTime
  <2>5. Serving' /\ Emptied' /\ Waiting' /\ Awake'
    BY <1>2, <1>3, <1>6, <2>2, <2>3, <2>4, OthersKept
  <2> QED
    BY <1>4, <1>5, <2>1, <2>5 DEF IndInv
<1>7. ASSUME NEW r \in Roots(t, Queued(t)), NEW closed \in Expired(t, r),
             left' = [left EXCEPT ![t] = Timeout(t, r)],
             age' = [age EXCEPT ![t] =
                       [c \in Conns |-> IF c \in closed THEN Absent
                                        ELSE age[t][c]]],
             UNCHANGED stalled
      PROVE  IndInv'
  <2> DEFINE ages == [c \in Conns |-> IF c \in closed THEN Absent
                                      ELSE age[t][c]]
  <2>1. /\ r \in Queued(t) /\ Timeout(t, r) = age[t][r]
        /\ age[t][r] \in Ages /\ age[t][r] # Forever
    BY <1>1 DEF Roots, Queued, Ranges, Timeout, Ages, Forever
  <2>2. ages \in [Conns -> {Absent} \union Ages]
    BY <1>1 DEF Ranges
  <2>3. /\ \A u \in Threads \ {t} : age'[u] = age[u] /\ left'[u] = left[u]
        /\ age'[t] = ages /\ left'[t] = age[t][r]
    BY <1>1, <1>7, <2>1 DEF Ranges
  <2>4. Ranges'
    <3>1. age' \in [Threads -> [Conns -> {Absent} \union Ages]]
      BY <1>1, <1>7, <2>2 DEF Ranges
    <3>2. left' \in [Threads -> {Forever} \union Ages]
      BY <1>1, <1>7, <2>1 DEF Ranges
    <3> QED
      BY <1>1, <1>2, <1>3, <1>7, <3>1, <3>2 DEF Ranges
  <2>5. ASSUME OrderedHeap, NEW c \in Queued(t)'
        PROVE  /\ c \in Queued(t) /\ age'[t][c] = age[t][c]
               /\ age[t][c] \in Nat /\ age[t][c] < KEEP_ALIVE_TIMEOUT
    <3>1. c \in Conns /\ age'[t][c] # Absent
      BY DEF Queued
    <3>2. c \notin closed /\ age'[t][c] = age[t][c]
      BY <2>3, <3>1
    <3>3. c \notin Due(t)
      BY <1>1, <2>5, <3>2, AllDueClosed
    <3>4. c \in Queued(t) /\ age[t][c] \in Nat
      BY <1>1, <3>1, <3>2 DEF Queued, Ranges, Ages
    <3> QED
      BY <3>1, <3>2, <3>3, <3>4 DEF Due
  <2>6. ASSUME OrderedHeap PROVE WaitsInTime(t)'
    <3> SUFFICES ASSUME NEW c \in Queued(t)', NEW d \in Queued(t)'
                 PROVE  /\ age'[t][d] <= age'[t][c] + (KEEP_ALIVE_TIMEOUT - 1)
                        /\ age'[t][c] + left'[t] <= Latest(t)'
      BY DEF WaitsInTime
    <3>1. age'[t][d] <= age'[t][c] + (KEEP_ALIVE_TIMEOUT - 1)
      BY <2>5, <2>6
    <3>2. age[t][c] + age[t][r] <= Latest(t)
      BY <1>2, <2>1, <2>5, <2>6 DEF IndInv, Awake, WakesInTime
    <3>3. Latest(t)' = Latest(t)
      BY <1>7 DEF Latest, LatestAge
    <3> QED
      BY <2>3, <2>5, <2>6, <3>1, <3>2, <3>3
  <2>7. Serving' /\ Emptied' /\ Waiting' /\ Awake'
    <3> HIDE DEF ages
    <3> QED
      BY <1>2, <1>3, <1>7, <2>1, <2>3, <2>6, OthersKept
  <2> QED
    BY <1>4, <1>5, <2>4, <2>7 DEF IndInv
<1> QED
  BY <1>6, <1>7 DEF closeDueAndWait

(* The wait is over.                                                       *)
LEMMA TimeOutStep ==
  ASSUME IndInv, NEW t \in Threads, timeOut(t)
  PROVE  IndInv'
<1> USE LifecycleAssumption DEF timeOut, Go, mainVars
<1>1. Flags /\ Ranges
  BY DEF IndInv
<1>2. Flags'
  BY <1>1 DEF Flags
<1>3. Ranges'
  BY <1>1 DEF Ranges
<1>4. /\ \A u \in Threads \ {t} : pc'[u] = pc[u] /\ left'[u] = left[u]
      /\ pc'[t] = "top"
  BY <1>1 DEF Ranges
<1>5. OrderedHeap => WakesInTime(t)
  BY WakeInTime DEF IndInv
<1>6. OrderedHeap => WakesInTime(t)'
  BY <1>5 DEF WakesInTime, Queued, Latest, LatestAge
<1>7. Serving' /\ Emptied' /\ Waiting' /\ Awake'
  BY <1>4, <1>6, OthersKept
<1>8. Flagged' /\ Warned'
  BY <1>1 DEF IndInv, Flagged, Warned, Ranges
<1> QED
  BY <1>2, <1>3, <1>7, <1>8 DEF IndInv

(* The next event, or the end of the events, of a thread whose connections *)
(* are as they were, of this second, or closed: a connection that enters   *)
(* the queue is of this second.                                            *)
LEMMA NextEvent ==
  ASSUME IndInv, NEW t \in Threads, NEW ready \in SUBSET Conns,
         NEW queues \in [Threads -> [Conns -> {Absent} \union Ages]],
         \A u \in Threads \ {t} : queues[u] = age[u],
         \A c \in Conns : queues[t][c] \in {age[t][c], 0, Absent},
         getConnectionOrCreateByFd(t, ready, queues),
         left' \in [Threads -> {Forever} \union Ages],
         \A u \in Threads \ {t} : left'[u] = left[u],
         UNCHANGED <<stalled, sigint, main, toKill, missed>>,
         OrderedHeap => WakesInTime(t)
  PROVE  IndInv'
<1> USE LifecycleAssumption
<1>1. Flags /\ Ranges
  BY DEF IndInv
<1>2. Flags'
  BY <1>1 DEF Flags
<1>3. 0 \in Ages
  BY DEF Ages
<1> DEFINE Entered ==
      /\ Ranges'
      /\ \A u \in Threads \ {t} : /\ age'[u] = age[u] /\ pc'[u] = pc[u]
                                  /\ cur'[u] = cur[u]
      /\ pc'[t] \in {"top", "busy"}
      /\ pc'[t] = "busy" => cur'[t] \in Conns
      /\ \A c \in Conns : age'[t][c] \in {age[t][c], 0, Absent}
<1>4. Entered
  <2>1. CASE /\ age' = queues
             /\ events' = [events EXCEPT ![t] = {}]
             /\ cur' = [cur EXCEPT ![t] = NoConn]
             /\ pc' = [pc EXCEPT ![t] = "top"]
    BY <1>1, <2>1 DEF Ranges
  <2>2. ASSUME NEW c \in ready,
               age' = [queues EXCEPT ![t][c] =
                         IF queues[t][c] = Absent THEN 0 ELSE queues[t][c]],
               events' = [events EXCEPT ![t] = ready \ {c}],
               cur' = [cur EXCEPT ![t] = c],
               pc' = [pc EXCEPT ![t] = "busy"]
        PROVE  Entered
    <3>1. /\ age' \in [Threads -> [Conns -> {Absent} \union Ages]]
          /\ \A u \in Threads \ {t} : age'[u] = age[u]
          /\ \A d \in Conns : age'[t][d] \in {age[t][d], 0, Absent}
      BY <1>1, <1>3, <2>2 DEF Ranges
    <3>2. /\ pc' \in [Threads -> {"top", "tested", "wait", "busy", "end"}]
          /\ cur' \in [Threads -> Conns \union {NoConn}]
          /\ events' \in [Threads -> SUBSET Conns]
          /\ pc'[t] = "busy" /\ cur'[t] = c
          /\ \A u \in Threads \ {t} : pc'[u] = pc[u] /\ cur'[u] = cur[u]
      BY <1>1, <2>2 DEF Ranges
    <3> QED
      BY <1>1, <3>1, <3>2 DEF Ranges
  <2> QED
    BY <2>1, <2>2 DEF getConnectionOrCreateByFd, Go
<1>5. ASSUME OrderedHeap PROVE WakesInTime(t)'
  <2>1. \A c \in Queued(t)' : \/ c \in Queued(t) /\ age'[t][c] = age[t][c]
                              \/ age'[t][c] = 0
    BY <1>4 DEF Queued
  <2>2. \A c \in Queued(t) : age[t][c] \in Nat
    BY <1>1 DEF Ranges, Queued, Ages
  <2>3. Latest(t)' = Latest(t) /\ Latest(t) \in Nat
    BY <1>1, LatestBound DEF Latest, LatestAge
  <2> QED
    BY <1>5, <2>1, <2>2, <2>3 DEF WakesInTime
<1>6. Serving' /\ Emptied' /\ Waiting' /\ Awake'
  BY <1>4, <1>5, OthersKept
<1>7. Flagged' /\ Warned'
  BY <1>1, <1>4 DEF IndInv, Flagged, Warned, Ranges
<1> QED
  BY <1>2, <1>4, <1>6, <1>7 DEF IndInv

(* epoll_wait returns events.                                              *)
LEMMA EventStep ==
  ASSUME IndInv, NEW t \in Threads, epoll_wait(t)
  PROVE  IndInv'
<1>1. Flags /\ Ranges
  BY DEF IndInv
<1>2. PICK ready \in SUBSET Conns : getConnectionOrCreateByFd(t, ready, age)
  BY DEF epoll_wait
<1>3. /\ left' \in [Threads -> {Forever} \union Ages]
      /\ \A u \in Threads \ {t} : left'[u] = left[u]
      /\ age \in [Threads -> [Conns -> {Absent} \union Ages]]
      /\ UNCHANGED <<stalled, sigint, main, toKill, missed>>
  BY <1>1 DEF Ranges, epoll_wait, mainVars
<1>4. OrderedHeap => WakesInTime(t)
  BY WakeInTime DEF IndInv, epoll_wait
<1> QED
  BY <1>2, <1>3, <1>4, NextEvent

(* The request is served: the connection is of this second or closed.      *)
LEMMA ServeStep ==
  ASSUME IndInv, NEW t \in Threads, serve(t)
  PROVE  IndInv'
<1>1. Flags /\ Ranges
  BY DEF IndInv
<1>2. pc[t] = "busy" /\ cur[t] \in Conns
  BY DEF IndInv, Serving, serve
<1>3. PICK a \in {0, Absent} :
        getConnectionOrCreateByFd(t, events[t], [age EXCEPT ![t][cur[t]] = a])
  BY DEF serve, Refreshed
<1> DEFINE queues == [age EXCEPT ![t][cur[t]] = a]
<1>4. /\ left' \in [Threads -> {Forever} \union Ages]
      /\ \A u \in Threads \ {t} : left'[u] = left[u]
      /\ UNCHANGED <<stalled, sigint, main, toKill, missed>>
      /\ events[t] \in SUBSET Conns
  BY <1>1 DEF Ranges, serve, mainVars
<1>5. 0 \in Ages
  BY LifecycleAssumption DEF Ages
<1>6. /\ queues \in [Threads -> [Conns -> {Absent} \union Ages]]
      /\ \A u \in Threads \ {t} : queues[u] = age[u]
      /\ \A c \in Conns : queues[t][c] \in {age[t][c], 0, Absent}
  BY <1>1, <1>2, <1>5 DEF Ranges
<1>7. OrderedHeap => WakesInTime(t)
  BY <1>2 DEF IndInv, Awake
<1>8. getConnectionOrCreateByFd(t, events[t], queues)
  BY <1>3
<1> HIDE DEF queues
<1> QED
  BY <1>4, <1>6, <1>7, <1>8, NextEvent

(* A signal takes a thread out of its wait and leaves the queues alone.    *)
LEMMA SignalledKeeps ==
  ASSUME IndInv, NEW t \in Threads, pc[t] # "end", Signalled(t),
         UNCHANGED <<age, cur, stalled>>
  PROVE  /\ pc' \in [Threads -> {"top", "tested", "wait", "busy", "end"}]
         /\ left' \in [Threads -> {Forever} \union Ages]
         /\ missed' \in [Threads -> BOOLEAN]
         /\ \A u \in Threads \ {t} : pc'[u] = pc[u] /\ missed'[u] = missed[u]
         /\ pc'[t] # "wait"
         /\ pc'[t] = "tested" => missed'[t]
         /\ Serving' /\ Emptied' /\ Waiting' /\ Awake'
<1> USE DEF Signalled
<1>1. Flags /\ Ranges
  BY DEF IndInv
<1>2. /\ missed' \in [Threads -> BOOLEAN]
      /\ \A u \in Threads \ {t} : missed'[u] = missed[u]
      /\ missed'[t] = (missed[t] \/ pc[t] = "tested")
  BY <1>1, Zenon DEF Flags
<1>3. /\ pc' \in [Threads -> {"top", "tested", "wait", "busy", "end"}]
      /\ left' \in [Threads -> {Forever} \union Ages]
      /\ \A u \in Threads \ {t} : pc'[u] = pc[u] /\ left'[u] = left[u]
      /\ pc'[t] = IF pc[t] = "wait" THEN "top" ELSE pc[t]
  BY <1>1 DEF Ranges
<1>4. pc'[t] \in {"top", "tested", "busy"}
  BY <1>1, <1>3 DEF Ranges
<1>5. OrderedHeap => WakesInTime(t)
  BY <1>3, <1>4, WakeInTime DEF IndInv, Awake
<1>6. OrderedHeap => WakesInTime(t)'
  BY <1>5 DEF WakesInTime, Queued, Latest, LatestAge
<1>7. pc'[t] = "busy" => cur'[t] \in Conns
  BY <1>3 DEF IndInv, Serving
<1> HIDE DEF Signalled
<1>8. Serving' /\ Emptied' /\ Waiting' /\ Awake'
  BY <1>3, <1>4, <1>6, <1>7, OthersKept
<1> QED
  BY <1>2, <1>3, <1>4, <1>8

(* A step that leaves the threads where they are.                          *)
LEMMA ThreadsKept ==
  ASSUME IndInv, UNCHANGED threadVars
  PROVE  Serving' /\ Emptied' /\ Waiting' /\ Awake'
<1> USE DEF threadVars
<1>1. \A t \in Threads : /\ Queued(t)' = Queued(t)
                         /\ WaitsInTime(t)' <=> WaitsInTime(t)
                         /\ WakesInTime(t)' <=> WakesInTime(t)
  BY QueueKept
<1>2. Serving' /\ Emptied'
  BY <1>1 DEF IndInv, Serving, Emptied, Forever
<1>3. Waiting' /\ Awake'
  BY <1>1 DEF IndInv, Waiting, Awake, OrderedHeap
<1> QED
  BY <1>2, <1>3

(* The handler sets the flag and may wake the thread it runs in.           *)
LEMMA SigintStep ==
  ASSUME IndInv, sigIntHandler
  PROVE  IndInv'
<1>1. Flags /\ Ranges
  BY DEF IndInv
<1>2. sigint' = TRUE /\ ~sigint /\ UNCHANGED <<age, events, cur, stalled, main, toKill>>
  BY DEF sigIntHandler, mainVars
<1>3. main' = "sleep"
  BY <1>2 DEF IndInv, Flagged
<1>4. Flagged' /\ Warned'
  BY <1>2, <1>3 DEF Flagged, Warned
<1>5. CASE UNCHANGED <<pc, left, missed>>
  <2>1. Serving' /\ Emptied' /\ Waiting' /\ Awake'
    BY <1>2, <1>5, ThreadsKept DEF threadVars
  <2>2. Flags' /\ Ranges'
    BY <1>1, <1>2, <1>5 DEF Flags, Ranges
  <2> QED
    BY <1>4, <2>1, <2>2 DEF IndInv
<1>6. ASSUME NEW t \in Threads, pc[t] # "end", Signalled(t) PROVE IndInv'
  <2>1. /\ Serving' /\ Emptied' /\ Waiting' /\ Awake'
        /\ pc' \in [Threads -> {"top", "tested", "wait", "busy", "end"}]
        /\ left' \in [Threads -> {Forever} \union Ages]
        /\ missed' \in [Threads -> BOOLEAN]
    BY <1>2, <1>6, SignalledKeeps
  <2>2. Flags'
    BY <1>2, <2>1 DEF Flags
  <2>3. Ranges'
    BY <1>1, <1>2, <2>1 DEF Ranges
  <2> QED
    BY <1>4, <2>1, <2>2, <2>3 DEF IndInv
<1> QED
  BY <1>5, <1>6 DEF sigIntHandler

(* pthread_kill: a thread that is about to wait misses it.                 *)
LEMMA KillStep ==
  ASSUME IndInv, NEW t \in Threads, pthread_kill(t)
  PROVE  IndInv'
<1>1. Flags /\ Ranges
  BY DEF IndInv
<1>2. /\ main = "kill" /\ pc[t] # "end" /\ Signalled(t)
      /\ toKill' = toKill \ {t}
      /\ UNCHANGED <<age, events, cur, stalled, sigint, main>>
  BY DEF pthread_kill
<1>3. /\ pc' \in [Threads -> {"top", "tested", "wait", "busy", "end"}]
      /\ left' \in [Threads -> {Forever} \union Ages]
      /\ missed' \in [Threads -> BOOLEAN]
      /\ \A u \in Threads \ {t} : pc'[u] = pc[u] /\ missed'[u] = missed[u]
      /\ pc'[t] # "wait"
      /\ pc'[t] = "tested" => missed'[t]
      /\ Serving' /\ Emptied' /\ Waiting' /\ Awake'
  BY <1>2, SignalledKeeps
<1>4. Flags'
  BY <1>1, <1>2, <1>3 DEF Flags
<1>5. Ranges'
  BY <1>1, <1>2, <1>3 DEF Ranges
<1>6. Flagged' /\ Warned'
  BY <1>2, <1>3 DEF IndInv, Flagged, Warned
<1> QED
  BY <1>3, <1>4, <1>5, <1>6 DEF IndInv

(* The steps of the main thread that wake nobody.                          *)
LEMMA MainStep ==
  ASSUME IndInv,
         \/ wakeMain \/ allKilled \/ mainReturn
         \/ \E t \in Threads : pthread_kill_ended(t)
  PROVE  IndInv'
<1> USE DEF wakeMain, allKilled, mainReturn, pthread_kill_ended, KillList
<1>1. Flags /\ Ranges
  BY DEF IndInv
<1>2. UNCHANGED <<threadVars, sigint, missed>>
  OBVIOUS
<1>3. Serving' /\ Emptied' /\ Waiting' /\ Awake'
  BY <1>2, ThreadsKept
<1>4. Flags'
  BY <1>1, <1>2 DEF Flags
<1>5. Ranges'
  BY <1>1, <1>2 DEF Ranges, threadVars
<1>6. Flagged' /\ Warned'
  BY <1>1, <1>2 DEF IndInv, Flagged, Warned, Ranges, threadVars
<1> QED
  BY <1>3, <1>4, <1>5, <1>6 DEF IndInv

(* A second passes: what ages gain the wait loses, or the thread's bound   *)
(* gains twice; with nothing left of the wait all connections were of this *)
(* second.                                                                 *)
LEMMA TickStep ==
  ASSUME IndInv, Tick
  PROVE  IndInv'
<1> USE LifecycleAssumption, LatestAgeBound
<1>1. Flags /\ Ranges
  BY DEF IndInv
<1>2. /\ \A t \in Threads : MayPass(t)
      /\ age' = [t \in Threads |-> [c \in Conns |-> Older(age[t][c])]]
      /\ left' = [t \in Threads |-> Sooner(left[t])]
      /\ stalled' = [t \in Threads |->
                       IF pc[t] = "busy" THEN stalled[t] + 1 ELSE stalled[t]]
      /\ UNCHANGED <<pc, events, cur, sigint, main, toKill, missed>>
  BY DEF Tick, mainVars
<1>3. Flags'
  BY <1>1, <1>2 DEF Flags
<1>4. ASSUME NEW t \in Threads, NEW c \in Conns
      PROVE  /\ age'[t][c] \in {Absent} \union Ages
             /\ c \in Queued(t)' <=> c \in Queued(t)
             /\ c \in Queued(t) => /\ age[t][c] \in Ages
                                   /\ age'[t][c] = age[t][c] + 1
  <2>1. age'[t][c] = Older(age[t][c])
    BY <1>2
  <2>2. age[t][c] \in {Absent} \union Ages /\ age[t][c] < MaxAge
    BY <1>1, <1>2 DEF Ranges, MayPass
  <2> QED
    BY <2>1, <2>2 DEF Older, Absent, Ages, Queued
<1>5. ASSUME NEW t \in Threads
      PROVE  /\ left'[t] \in {Forever} \union Ages
             /\ left[t] \in {Forever, 0} => left'[t] = left[t]
             /\ left[t] \notin {Forever, 0} => left'[t] = left[t] - 1
             /\ left'[t] = Forever => left[t] = Forever
  <2>1. left'[t] = Sooner(left[t])
    BY <1>2
  <2>2. left[t] \in {Forever} \union Ages
    BY <1>1 DEF Ranges
  <2> QED
    BY <2>1, <2>2 DEF Sooner, Forever, Ages
<1>6. ASSUME NEW t \in Threads
      PROVE  /\ stalled[t] \in 0 .. MaxStall /\ stalled'[t] \in 0 .. MaxStall
             /\ pc[t] = "busy" => stalled'[t] = stalled[t] + 1
             /\ pc[t] # "busy" => stalled'[t] = stalled[t]
  BY <1>1, <1>2 DEF Ranges, MayPass
<1>7. Ranges'
  <2>1. age' \in [Threads -> [Conns -> {Absent} \union Ages]]
    BY <1>2, <1>4
  <2>2. left' \in [Threads -> {Forever} \union Ages]
    BY <1>2, <1>5
  <2>3. stalled' \in [Threads -> 0 .. MaxStall]
    BY <1>2, <1>6
  <2> QED
    BY <1>1, <1>2, <2>1, <2>2, <2>3 DEF Ranges
<1>8. \A t \in Threads : Queued(t)' = Queued(t)
  BY <1>4 DEF Queued
<1>9. Serving' /\ Emptied'
  BY <1>2, <1>5, <1>8 DEF IndInv, Serving, Emptied, Forever
<1>10. ASSUME NEW t \in Threads, NEW c \in Queued(t)
       PROVE  age[t][c] \in Nat /\ age'[t][c] = age[t][c] + 1
  BY <1>4 DEF Queued, Ages
<1>11. Waiting'
  <2> SUFFICES ASSUME OrderedHeap, NEW t \in Threads, pc[t] = "wait",
                      NEW c \in Queued(t), NEW d \in Queued(t)
               PROVE  /\ age'[t][d] <= age'[t][c] + (KEEP_ALIVE_TIMEOUT - 1)
                      /\ age'[t][c] + left'[t] <= Latest(t)'
    BY <1>2, <1>8 DEF Waiting, WaitsInTime, OrderedHeap
  <2>1. /\ age[t][d] <= age[t][c] + (KEEP_ALIVE_TIMEOUT - 1)
        /\ age[t][c] + left[t] <= Latest(t)
    BY DEF IndInv, Waiting, WaitsInTime
  <2>2. left[t] \in Nat
    BY <1>1 DEF IndInv, Emptied, Ranges, Ages
  <2>3. /\ Latest(t)' = Latest(t) /\ Latest(t) \in Nat
        /\ Latest(t) >= LatestAge
    BY <1>1, <1>6, LatestBound DEF Latest, LatestAge
  <2>4. CASE left[t] = 0
    <3>1. PICK r \in Roots(t, Queued(t)) : age[t][r] = 0
      BY <1>2, <2>4 DEF MayPass, Timeout
    <3>2. age[t][c] = 0
      BY <1>10, <3>1 DEF Roots
    <3> QED
      BY <1>5, <1>10, <2>1, <2>3, <2>4, <3>2
  <2>5. CASE left[t] # 0
    <3>1. left'[t] = left[t] - 1
      BY <1>5, <2>2, <2>5 DEF Forever
    <3> QED
      BY <1>10, <2>1, <2>2, <2>3, <3>1
  <2> QED
    BY <2>4, <2>5
<1>12. Awake'
  <2> SUFFICES ASSUME OrderedHeap, NEW t \in Threads,
                      pc[t] \in {"top", "tested", "busy"},
                      NEW c \in Queued(t), NEW d \in Queued(t)
               PROVE  /\ age'[t][c] <= Latest(t)'
                      /\ age'[t][c] < KEEP_ALIVE_TIMEOUT
                           => age'[t][c] + age'[t][d] <= Latest(t)'
    BY <1>2, <1>8 DEF Awake, WakesInTime, OrderedHeap
  <2>1. pc[t] = "busy"
    BY <1>2 DEF MayPass
  <2>2. /\ age[t][c] <= Latest(t)
        /\ age[t][c] < KEEP_ALIVE_TIMEOUT
             => age[t][c] + age[t][d] <= Latest(t)
    BY DEF IndInv, Awake, WakesInTime
  <2>3. Latest(t)' = Latest(t) + 2 /\ Latest(t) \in Nat
    BY <1>1, <1>6, <2>1, LatestBound DEF Latest, LatestAge
  <2> QED
    BY <1>10, <2>2, <2>3
<1>13. Flagged' /\ Warned'
  BY <1>2 DEF IndInv, Flagged, Warned
<1> QED
  BY <1>3, <1>7, <1>9, <1>11, <1>12, <1>13 DEF IndInv

(* The invariant holds in every state.                                     *)
LEMMA AlwaysIndInv == Spec => []IndInv
<1>1. IndInv /\ [Next]_vars => IndInv'
  <2> SUFFICES ASSUME IndInv, [Next]_vars PROVE IndInv'
    OBVIOUS
  <2>1. ASSUME NEW t \in Threads, handleEpoll(t) PROVE IndInv'
    BY <2>1, TestStep, CloseStep, TimeOutStep, EventStep, ServeStep
    DEF handleEpoll, runs
  <2>2. CASE mainThread
    BY <2>2, MainStep, KillStep DEF mainThread
  <2>3. CASE UNCHANGED vars
    <3>1. Serving' /\ Emptied' /\ Waiting' /\ Awake'
      BY <2>3, ThreadsKept DEF vars
    <3>2. Flags' /\ Ranges' /\ Flagged' /\ Warned'
      BY <2>3 DEF vars, threadVars, mainVars, IndInv, Flags, Ranges, Flagged,
                  Warned
    <3> QED
      BY <3>1, <3>2 DEF IndInv
  <2> QED
    BY <2>1, <2>2, <2>3, SigintStep, TickStep DEF Next
<1> QED
  BY <1>1, InitIndInv, PTL DEF Spec

-----------------------------------------------------------------------------
(* The theorems.                                                           *)

(* Every variable keeps its type: no timeout is given to epoll_wait that   *)
(* is not the age of a connection or Forever.                              *)
THEOREM LifecycleTyped == Spec => []TypeOK
<1>1. IndInv => TypeOK
  BY DEF IndInv, Flags, Ranges, TypeOK
<1> QED
  BY <1>1, AlwaysIndInv, PTL

(* An idle connection of a thread with five connections at most is closed  *)
(* late, but within three periods and two seconds for each that the thread *)
(* has spent on requests since its queue was last empty, whenever the      *)
(* connections were used (accept_client_epoll.c:31-63).  With six the root *)
(* of the heap need not be the oldest, and this is not so.                 *)
THEOREM ClosedInTimeHolds ==
  ASSUME Cardinality(Conns) <= 5
  PROVE  Spec => []ClosedInTime
<1>1. OrderedHeap
  BY DEF OrderedHeap
<1>2. IndInv => ClosedInTime
  <2> SUFFICES ASSUME IndInv, NEW t \in Threads, NEW c \in Conns
               PROVE  age[t][c] <= Latest(t)
    BY DEF ClosedInTime, Latest
  <2>1. Latest(t) \in Nat
    BY LatestBound DEF IndInv
  <2>2. CASE c \notin Queued(t)
    BY <2>1, <2>2 DEF Queued, Absent
  <2>3. CASE c \in Queued(t)
    <3>1. pc[t] \in {"top", "tested", "wait", "busy"}
      BY <2>3 DEF IndInv, Ranges, Emptied
    <3>2. WakesInTime(t)
      BY <1>1, <3>1, WakeInTime DEF IndInv, Awake
    <3> QED
      BY <2>3, <3>2 DEF WakesInTime
  <2> QED
    BY <2>2, <2>3
<1> QED
  BY <1>2, AlwaysIndInv, PTL

(* When the process ends, only a thread whose signal came between its test *)
(* of sigintReceived and its epoll_wait still waits                        *)
(* (accept_client_thread_epoll.c:59-64).                                   *)
THEOREM LeftBehindHolds == Spec => []LeftBehind
<1>1. IndInv => LeftBehind
  BY DEF IndInv, Warned, LeftBehind
<1> QED
  BY <1>1, AlwaysIndInv, PTL
=============================================================================
