----------------------------- MODULE Lifecycle -----------------------------
(***************************************************************************)
(* Time in the life of the server: how long epoll_wait sleeps, when an     *)
(* idle connection is closed, and how SIGINT ends the threads              *)
(* (src/src/accept_client_epoll.c, accept_client_thread_epoll.c, main.c).  *)
(*                                                                         *)
(* The clock is in seconds, as time(NULL); what matters of a priorityTime  *)
(* is its age.  Serving a request takes time, as recvRequest and the send   *)
(* functions loop on EAGAIN: stalled counts these seconds.  All else that  *)
(* a thread does takes less than one, and a thread that is woken runs      *)
(* before main's usleep is over.                                           *)
(***************************************************************************)
EXTENDS Integers, FiniteSets

CONSTANTS
  Threads,             \* worker threads
  Conns,               \* keep-alive connections
  NoConn,              \* no connection
  KEEP_ALIVE_TIMEOUT,  \* seconds a connection may stay idle
  MaxStall,            \* bound on the seconds a thread serves requests
  MaxAge               \* bound on ages, above those the property allows

(* How old the property below lets a connection get when serving takes no  *)
(* time.                                                                   *)
LatestAge ==
  IF KEEP_ALIVE_TIMEOUT = 1 THEN 1 ELSE 3 * (KEEP_ALIVE_TIMEOUT - 1)

ASSUME LifecycleAssumption ==
  /\ IsFiniteSet(Conns) /\ NoConn \notin Conns
  /\ KEEP_ALIVE_TIMEOUT \in Nat \ {0}
  /\ MaxStall \in Nat
  /\ MaxAge \in Nat /\ MaxAge > LatestAge + 2 * MaxStall

VARIABLES
  age,         \* thread -> its queue: connection -> age in seconds, or Absent
  pc,          \* thread -> where it is in handleEpoll
  left,        \* thread -> seconds left of its epoll_wait, or Forever
  events,      \* thread -> connections of its events array still to serve
  cur,         \* thread -> the connection it serves
  stalled,     \* history: thread -> seconds it has served requests since
               \* it last began to wait with no connection
  sigint,      \* sigintReceived
  main,        \* where the main thread is
  toKill,      \* threads main has still to signal
  missed       \* history: thread -> the signal came after its test of
               \* sigintReceived and before its epoll_wait

threadVars == <<age, pc, left, events, cur, stalled>>
mainVars   == <<main, toKill>>
vars == <<threadVars, sigint, mainVars, missed>>

Absent  == -1
Forever == -1
Ages    == 0 .. MaxAge

TypeOK ==
  /\ age \in [Threads -> [Conns -> {Absent} \union Ages]]
  /\ pc \in [Threads -> {"top", "tested", "wait", "busy", "end"}]
  /\ left \in [Threads -> {Forever} \union Ages]
  /\ events \in [Threads -> SUBSET Conns]
  /\ cur \in [Threads -> Conns \union {NoConn}]
  /\ stalled \in [Threads -> 0 .. MaxStall]
  /\ sigint \in BOOLEAN
  /\ main \in {"sleep", "kill", "grace", "exited"}
  /\ toKill \subseteq Threads
  /\ missed \in [Threads -> BOOLEAN]

NoConns == [c \in Conns |-> Absent]

Init ==
  /\ age = [t \in Threads |-> NoConns]
  /\ pc = [t \in Threads |-> "top"]
  /\ left = [t \in Threads |-> Forever]
  /\ events = [t \in Threads |-> {}]
  /\ cur = [t \in Threads |-> NoConn]
  /\ stalled = [t \in Threads |-> 0]
  /\ sigint = FALSE
  /\ main = "sleep"
  /\ toKill = {}
  /\ missed = [t \in Threads |-> FALSE]

Alive == main # "exited"
Go(t, label) == pc' = [pc EXCEPT ![t] = label]

Queued(t) == {c \in Conns : age[t][c] # Absent}

-----------------------------------------------------------------------------
(* The worker threads: handleEpoll.                                        *)

(* while (!sigintReceived); behind the loop the connections are freed.     *)
testSigint(t) ==
  /\ pc[t] = "top"
  /\ IF sigint
     THEN /\ age' = [age EXCEPT ![t] = NoConns]
          /\ Go(t, "end")
     ELSE /\ UNCHANGED age
          /\ Go(t, "tested")
  /\ UNCHANGED <<left, events, cur, stalled, sigint, mainVars, missed>>

(* The root of a heap that holds the connections S is one of the oldest as *)
(* long as there are no more than five connections; with six it may be any *)
(* of them, see ConnectionQueue and its theorem OldestOfFive.              *)
OrderedHeap == Cardinality(Conns) <= 5

Roots(t, S) ==
  {r \in S : OrderedHeap => \A c \in S : age[t][c] <= age[t][r]}

Due(t) == {c \in Conns : age[t][c] >= KEEP_ALIVE_TIMEOUT}

(* epoll_wait's timeout is the age of the root, taken before the loop that *)
(* closes roots that are due.                                              *)
Timeout_Forever(t, r) == Forever

Timeout(t, r) == age[t][r]

(* What the loop may close when it starts with the root r: roots, one      *)
(* after the other, until one is not due or the queue is empty.            *)
Expired(t, r) ==
  IF r \notin Due(t)
  THEN {{}}
  ELSE {S \in SUBSET Due(t) :
          /\ r \in S
          /\ \/ S = Queued(t)
             \/ \E q \in Roots(t, Queued(t) \ S) : q \notin Due(t)}

closeDueAndWait(t) ==
  /\ pc[t] = "tested"
  /\ \/ /\ Queued(t) = {}
        /\ left' = [left EXCEPT ![t] = Forever]
        /\ stalled' = [stalled EXCEPT ![t] = 0]
        /\ UNCHANGED age
     \/ \E r \in Roots(t, Queued(t)) : \E closed \in Expired(t, r) :
        /\ left' = [left EXCEPT ![t] = Timeout(t, r)]
        /\ age' = [age EXCEPT ![t] =
                     [c \in Conns |-> IF c \in closed THEN Absent ELSE @[c]]]
        /\ UNCHANGED stalled
  /\ Go(t, "wait")
  /\ UNCHANGED <<events, cur, sigint, mainVars, missed>>

(* epoll_wait returns 0: its time is over.                                 *)
timeOut(t) ==
  /\ pc[t] = "wait"
  /\ left[t] = 0
  /\ left' = [left EXCEPT ![t] = Forever]
  /\ Go(t, "top")
  /\ UNCHANGED <<age, events, cur, stalled, sigint, mainVars, missed>>

(* The next event, of those that are left: its connection enters the queue *)
(* if it is not in it.  Behind the last the loop begins anew.              *)
getConnectionOrCreateByFd(t, ready, queues) ==
  \/ /\ ready = {}
     /\ age' = queues
     /\ events' = [events EXCEPT ![t] = {}]
     /\ cur' = [cur EXCEPT ![t] = NoConn]
     /\ Go(t, "top")
  \/ \E c \in ready :
     /\ age' = [queues EXCEPT ![t][c] = IF @ = Absent THEN 0 ELSE @]
     /\ events' = [events EXCEPT ![t] = ready \ {c}]
     /\ cur' = [cur EXCEPT ![t] = c]
     /\ Go(t, "busy")

(* epoll_wait returns events of connections that no other thread has       *)
(* (EPOLLONESHOT), or none but the listener's.                             *)
Taken == UNION {events[u] \union {cur[u]} : u \in Threads}

epoll_wait(t) ==
  /\ pc[t] = "wait"
  /\ \E ready \in SUBSET (Conns \ Taken) :
       getConnectionOrCreateByFd(t, ready, age)
  /\ left' = [left EXCEPT ![t] = Forever]
  /\ UNCHANGED <<stalled, sigint, mainVars, missed>>

(* The end of the request: the connection is kept and its priorityTime is  *)
(* now, or it is closed.                                                   *)
Refreshed(a) == 0

serve(t) ==
  /\ pc[t] = "busy"
  /\ \E a \in {Refreshed(age[t][cur[t]]), Absent} :
       getConnectionOrCreateByFd(t, events[t], [age EXCEPT ![t][cur[t]] = a])
  /\ UNCHANGED <<left, stalled, sigint, mainVars, missed>>

(* What a thread does by itself, and with the clients.                     *)
runs(t) ==
  /\ Alive
  /\ \/ testSigint(t)
     \/ closeDueAndWait(t)
     \/ timeOut(t)
     \/ serve(t)

handleEpoll(t) == runs(t) \/ (Alive /\ epoll_wait(t))

-----------------------------------------------------------------------------
(* A signal for a thread interrupts its epoll_wait; in any other place it  *)
(* leaves the thread where it is, SA_RESTART or not.                       *)
Signalled(t) ==
  /\ pc' = [pc EXCEPT ![t] = IF @ = "wait" THEN "top" ELSE @]
  /\ left' = [left EXCEPT ![t] = Forever]
  /\ missed' = [missed EXCEPT ![t] = @ \/ pc[t] = "tested"]

(* sigIntHandler: the kernel runs it in one of the threads.                *)
sigIntHandler ==
  /\ Alive /\ ~sigint
  /\ sigint' = TRUE
  /\ \/ UNCHANGED <<pc, left, missed>>
     \/ \E t \in Threads : pc[t] # "end" /\ Signalled(t)
  /\ UNCHANGED <<age, events, cur, stalled, mainVars>>

(* acceptClientsThreadEpoll: main looks at the flag every second.          *)
KillList_LessOne == IF Cardinality(Threads) < 2 THEN Threads
                    ELSE Threads \ {CHOOSE t \in Threads : TRUE}

KillList == Threads

wakeMain ==
  /\ main = "sleep"
  /\ sigint
  /\ main' = "kill"
  /\ toKill' = KillList
  /\ UNCHANGED <<threadVars, sigint, missed>>

(* The threads are signalled one after the other, in the order of the      *)
(* array: the next is some thread of those that are left.                  *)
NextToKill == CHOOSE t \in toKill : TRUE

(* pthread_kill of a thread that runs.                                     *)
pthread_kill(t) ==
  /\ main = "kill"
  /\ t \in toKill /\ t = NextToKill
  /\ pc[t] # "end"
  /\ Signalled(t)
  /\ toKill' = toKill \ {t}
  /\ UNCHANGED <<age, events, cur, stalled, sigint, main>>

(* pthread_kill of a detached thread that has ended is undefined: nothing  *)
(* happens, or the process is gone.                                        *)
pthread_kill_ended(t) ==
  /\ main = "kill"
  /\ t \in toKill /\ t = NextToKill
  /\ pc[t] = "end"
  /\ toKill' = toKill \ {t}
  /\ main' \in {"kill", "exited"}
  /\ UNCHANGED <<threadVars, sigint, missed>>

allKilled ==
  /\ main = "kill"
  /\ toKill = {}
  /\ main' = "grace"
  /\ UNCHANGED <<threadVars, sigint, toKill, missed>>

(* usleep(100000) is over and main returns: the process ends.  Threads     *)
(* that were woken have run, those that serve a request may not be done.   *)
TimeToFinish_Join == \A t \in Threads : pc[t] = "end"

TimeToFinish == \A t \in Threads : pc[t] \in {"wait", "busy", "end"}

mainReturn ==
  /\ main = "grace"
  /\ TimeToFinish
  /\ main' = "exited"
  /\ UNCHANGED <<threadVars, sigint, toKill, missed>>

mainThread ==
  \/ wakeMain
  \/ \E t \in Threads : pthread_kill(t) \/ pthread_kill_ended(t)
  \/ allKilled
  \/ mainReturn

(* A second passes when no thread has anything to do at once but to serve  *)
(* a request, or to ask again: with a root of this second the timeout is   *)
(* 0, and epoll_wait is called over and over until the next.  The second   *)
(* in which main sleeps may pass, not its tenth of a second.               *)
Older(a)  == IF a = Absent THEN Absent ELSE a + 1
Sooner(s) == IF s \in {Forever, 0} THEN s ELSE s - 1

MayPass(t) ==
  /\ pc[t] \in {"wait", "busy", "end"}
  /\ pc[t] = "busy" => stalled[t] < MaxStall
  /\ left[t] = 0 => \E r \in Roots(t, Queued(t)) : Timeout(t, r) = 0
  /\ \A c \in Conns : age[t][c] < MaxAge

Tick ==
  /\ main = "sleep"
  /\ \A t \in Threads : MayPass(t)
  /\ age' = [t \in Threads |-> [c \in Conns |-> Older(age[t][c])]]
  /\ left' = [t \in Threads |-> Sooner(left[t])]
  /\ stalled' = [t \in Threads |->
                   IF pc[t] = "busy" THEN stalled[t] + 1 ELSE stalled[t]]
  /\ UNCHANGED <<pc, events, cur, sigint, mainVars, missed>>

Next ==
  \/ \E t \in Threads : handleEpoll(t)
  \/ sigIntHandler
  \/ mainThread
  \/ Tick

Spec == Init /\ [][Next]_vars

(* Threads that can run do, main too, and a request that is served ends;   *)
(* no client has to send anything.                                         *)
FairSpec ==
  /\ Spec
  /\ \A t \in Threads : WF_vars(runs(t))
  /\ WF_vars(mainThread)

-----------------------------------------------------------------------------
(* How late an idle connection is closed.  The wait before it is as long   *)
(* as the oldest connection was old, and the timeout is taken before that  *)
(* one is closed: a connection that is not due yet may have to wait for as *)
(* long as another one, that was itself late, was old.  It gets older than *)
(* KEEP_ALIVE_TIMEOUT, but no older than three times the last second in    *)
(* which it was not due, and two seconds more for each that its thread has *)
(* served requests since its queue was last empty: the delay is handed on  *)
(* from each connection to the next (accept_client_epoll.c:31-63).  It     *)
(* speaks of queues of five at most: the root of a larger one need not be  *)
(* the oldest.                                                             *)
ClosedInTime ==
  \A t \in Threads, c \in Conns : age[t][c] <= LatestAge + 2 * stalled[t]

(* When the process ends, a thread that waits is one whose signal came     *)
(* between its test of sigintReceived and its epoll_wait: every other      *)
(* thread has left its loop or serves a request                            *)
(* (accept_client_thread_epoll.c:59-64).                                   *)
LeftBehind ==
  \A t \in Threads :
    main = "exited" /\ toKill = {} /\ pc[t] = "wait" => missed[t]

(* A signal ends the process, whatever threads do at that moment.          *)
SigintEnds == sigint ~> main = "exited"
=============================================================================
