-------------------------- MODULE EventLoopProofs --------------------------
(***************************************************************************)
(* Proofs about EventLoop for any number of threads, descriptors, clients, *)
(* pieces and seconds: no connection is orphaned or left in the backlog,   *)
(* and a single worker never dies on epoll_ctl, never has an event of an   *)
(* armed descriptor, closes only idle connections and serves every client  *)
(* as Exchange says.                                                       *)
(***************************************************************************)
EXTENDS EventLoop, FiniteSetTheorems, TLAPS

(* TypeOK in three parts: the flags, the kernel with the clients, and the  *)
(* threads.                                                                *)
Flags == listenEdge \in BOOLEAN /\ died \in BOOLEAN

KernelTyped ==
  /\ sock \in [Fds -> Clients \union {NoClient}]
  /\ epoll \in [Fds -> {"absent", "armed", "disarmed"}]
  /\ backlog \subseteq Clients
  /\ unread \in [Clients -> 0 .. Pieces]
  /\ asked \in [Clients -> 0 .. Pieces]
  /\ requests \in [Clients -> 0 .. MaxRequests]
  /\ peer \in [Clients -> {"new", "up", "down"}]
  /\ now \in Time
  /\ lastUse \in [Clients -> Time]

ThreadsTyped ==
  /\ workers \in SUBSET Threads
  /\ pc \in [Threads -> States]
  /\ cur \in [Threads -> Fds \union {NoFd}]
  /\ batch \in [Threads -> SUBSET (Fds \union {Listen})]
  /\ got \in [Threads -> 0 .. (Pieces - 1)]
  /\ tnow \in [Threads -> Time]
  /\ timeout \in [Threads -> {Forever} \union 0 .. (2 * MaxTime)]
  /\ queue \in [Threads -> [Fds -> {Absent} \union Time]]
  /\ queueMutex \in Threads \union {NoThread}

(* A thread works on a descriptor, and has no events left when it begins   *)
(* another turn of its loop.                                               *)
Owned == \A t \in Threads : pc[t] \in Working => cur[t] \in Fds

Turned ==
  \A t \in Threads :
    pc[t] \in {"top", "expire", "expireClose", "wait"} => batch[t] = {}

(* Nothing was noted in the future; the timeout computed is an age.        *)
Past ==
  /\ \A t \in Threads : \A fd \in Fds : queue[t][fd] <= now
  /\ \A c \in Clients : lastUse[c] <= now
  /\ \A t \in Threads :
       pc[t] \in {"expire", "expireClose"} => timeout[t] <= MaxTime

(* A client has at most one descriptor and none before it was accepted.    *)
OneSocket ==
  /\ \A f, g \in Fds : Open(f) /\ sock[f] = sock[g] => f = g
  /\ \A c \in Clients : c \in backlog \/ peer[c] = "new" =>
       \A fd \in Fds : sock[fd] # c
  /\ \A c \in Clients : peer[c] = "new" => c \notin backlog

(* A thread that was not created does nothing.                             *)
Unused ==
  \A t \in Threads \ workers : pc[t] = "top" /\ batch[t] = {}

(* A single worker.  Descriptors it is about to register, or has removed   *)
(* from the epoll set, are the only open ones that are not registered; the *)
(* events it has are of open descriptors, of each once; and its queue      *)
(* holds no closed one.                                                    *)
Unregistered == {"add", "close", "expireClose"}

Registered(t) ==
  /\ ~died
  /\ \A fd \in Fds : epoll[fd] = "absent" <=>
       ~Open(fd) \/ (fd = cur[t] /\ pc[t] \in Unregistered)
  /\ pc[t] \in Unregistered => Open(cur[t])

Disarmed(t) ==
  /\ \A fd \in Fds : fd \in batch[t] => epoll[fd] = "disarmed"
  /\ pc[t] \in {"recv", "send", "rearm", "del"} =>
       epoll[cur[t]] = "disarmed" /\ cur[t] \notin batch[t]

QueueOpen(t) ==
  \A fd \in Queued(t) :
    Open(fd) /\ ~(fd = cur[t] /\ pc[t] \in Unregistered)

(* Its queue has the time of the last response of a connection, unless one *)
(* has just been sent.                                                     *)
QueueRecent(t) ==
  /\ \A fd \in Queued(t) :
       \/ lastUse[sock[fd]] <= queue[t][fd]
       \/ fd = cur[t] /\ pc[t] \in {"rearm", "del"}
  /\ pc[t] = "expireClose" =>
       tnow[t] - lastUse[sock[cur[t]]] >= KEEP_ALIVE_TIMEOUT

Sole ==
  Alone => \A t \in workers :
             Registered(t) /\ Disarmed(t) /\ QueueOpen(t) /\ QueueRecent(t)

Typed == Flags /\ KernelTyped /\ ThreadsTyped /\ Owned /\ Turned /\ Past

IndInv == Typed /\ OneSocket /\ Unused /\ NoOrphan /\ Sole
-----------------------------------------------------------------------------
(* Types.                                                                  *)

(* The flags stay flags.                                                   *)
LEMMA FlagsStep == ASSUME Typed, Next PROVE Flags'
<1> USE DEF Typed, Flags
<1>1. ASSUME NEW t \in workers,
             computeTimeout(t) \/ startWait(t) \/ epollWaitTimeout(t)
             \/ dispatchEnd(t) \/ dispatchListen(t) \/ dispatchClient(t)
             \/ acceptEnd(t) \/ acceptConnection(t) \/ recvData(t)
             \/ recvEnd(t) \/ sendResponse(t) \/ sendFails(t)
             \/ expireClose(t) \/ closeConnection(t)
      PROVE  Flags'
  BY <1>1, Zenon DEF computeTimeout, startWait, epollWaitTimeout,
    dispatchEnd, dispatchListen, dispatchClient, acceptEnd, acceptConnection,
    recvData, recvEnd, sendResponse, sendFails, expireClose, closeConnection,
    kernelVars
<1>2. ASSUME NEW t \in workers, epollWait(t)
      PROVE  Flags'
  BY <1>2, Zenon DEF epollWait
<1>3. ASSUME NEW t \in workers,
             expireConnection(t) \/ deleteConnection(t)
      PROVE  Flags'
  BY <1>3, Zenon DEF expireConnection, deleteConnection, delEpollClient
<1>4. ASSUME NEW t \in workers, addConnection(t)
      PROVE  Flags'
  BY <1>4, Zenon DEF addConnection, addEpollClient
<1>5. ASSUME NEW t \in workers, rearmConnection(t)
      PROVE  Flags'
  BY <1>5, Zenon DEF rearmConnection, modEpollClient
<1>6. ASSUME NEW c \in Clients,
             Connect(c) \/ SendPiece(c) \/ HangUp(c)
      PROVE  Flags'
  BY <1>6, Zenon DEF Connect, SendPiece, HangUp, kernelVars
<1>7. CASE Tick
  BY <1>7, Zenon DEF Tick, kernelVars
<1> QED
  BY <1>1, <1>2, <1>3, <1>4, <1>5, <1>6, <1>7, Zenon
     DEF Next, ThreadStep, ClientStep

(* The kernel's and the clients' part of TypeOK.                           *)
LEMMA KernelStep == ASSUME Typed, Next PROVE KernelTyped'
<1> USE EventLoopAssumption DEF Typed, KernelTyped, ThreadsTyped, At
<1>1. ASSUME NEW t \in workers,
             computeTimeout(t) \/ startWait(t) \/ epollWaitTimeout(t)
             \/ dispatchEnd(t) \/ dispatchListen(t) \/ dispatchClient(t)
             \/ acceptEnd(t) \/ recvEnd(t) \/ sendFails(t)
      PROVE  KernelTyped'
  BY <1>1 DEF computeTimeout, startWait, epollWaitTimeout, dispatchEnd,
    dispatchListen, dispatchClient, acceptEnd, recvEnd, sendFails,
    kernelVars, clientVars
<1>2. ASSUME NEW t \in workers,
             expireConnection(t) \/ deleteConnection(t)
      PROVE  KernelTyped'
  BY <1>2 DEF expireConnection, deleteConnection, delEpollClient, clientVars
<1>3. ASSUME NEW t \in workers,
             expireClose(t) \/ closeConnection(t)
      PROVE  KernelTyped'
  BY <1>3 DEF expireClose, closeConnection, closeFd, clientVars
<1>4. ASSUME NEW t \in workers, epollWait(t)
      PROVE  KernelTyped'
  BY <1>4 DEF epollWait, clientVars
<1>5. ASSUME NEW t \in workers, acceptConnection(t)
      PROVE  KernelTyped'
  BY <1>5 DEF acceptConnection, clientVars
<1>6. ASSUME NEW t \in workers, addConnection(t)
      PROVE  KernelTyped'
  BY <1>6 DEF addConnection, addEpollClient, clientVars
<1>7. ASSUME NEW t \in workers, recvData(t)
      PROVE  KernelTyped'
  BY <1>7 DEF recvData, clientVars, Open, Owned, Working
<1>8. ASSUME NEW t \in workers, sendResponse(t)
      PROVE  KernelTyped'
  BY <1>8 DEF sendResponse, kernelVars, Open, Owned, Working
<1>9. ASSUME NEW t \in workers, rearmConnection(t)
      PROVE  KernelTyped'
  BY <1>9 DEF rearmConnection, modEpollClient, clientVars
<1>10. ASSUME NEW c \in Clients,
             Connect(c) \/ HangUp(c)
      PROVE  KernelTyped'
  BY <1>10 DEF Connect, HangUp, kernelVars
<1>12. ASSUME NEW c \in Clients, SendPiece(c)
      PROVE  KernelTyped'
  BY <1>12 DEF SendPiece
<1>11. CASE Tick
  BY <1>11 DEF Tick, kernelVars, clientVars, Time
<1> QED
  BY <1>1, <1>2, <1>3, <1>4, <1>5, <1>6, <1>7, <1>8, <1>9, <1>10, <1>11, <1>12
     DEF Next, ThreadStep, ClientStep

(* The threads' part: the timeout computed is no less than 0 since the queue *)
(* holds no time of the future.                                            *)
LEMMA ThreadsStep == ASSUME Typed, Next PROVE ThreadsTyped'
<1> USE EventLoopAssumption
    DEF Typed, KernelTyped, ThreadsTyped, At, Goto
<1>0. workers' = workers /\ workers \subseteq Threads
  BY DEF Next
<1>a. {"top", "expire", "expireClose", "wait", "dispatch", "accept", "add",
        "recv", "send", "rearm", "del", "close"} \subseteq States
  BY DEF States
<1>1. ASSUME NEW t \in workers, dispatchEnd(t)
      PROVE  ThreadsTyped'
  BY <1>1, <1>0, <1>a DEF dispatchEnd, localVars
<1>2. ASSUME NEW t \in workers, acceptEnd(t)
      PROVE  ThreadsTyped'
  BY <1>2, <1>0, <1>a DEF acceptEnd, localVars
<1>3. ASSUME NEW t \in workers, recvEnd(t)
      PROVE  ThreadsTyped'
  BY <1>3, <1>0, <1>a DEF recvEnd, localVars
<1>4. ASSUME NEW t \in workers, sendResponse(t)
      PROVE  ThreadsTyped'
  <2>1. UNCHANGED <<workers, cur, batch, got, tnow, timeout, queue, queueMutex>>
    BY <1>0, <1>4 DEF sendResponse, localVars
  <2>2. pc' \in [Threads -> States]
    BY <1>0, <1>4, <1>a DEF sendResponse
  <2> QED
    BY <2>1, <2>2
<1>5. ASSUME NEW t \in workers, sendFails(t)
      PROVE  ThreadsTyped'
  BY <1>5, <1>0, <1>a DEF sendFails, localVars
<1>6. ASSUME NEW t \in workers, computeTimeout(t)
      PROVE  ThreadsTyped'
  BY <1>6, <1>0, <1>a DEF computeTimeout, TimeoutOf, Past, Peek, Queued,
    Absent, Forever, Time
<1>7. ASSUME NEW t \in workers, expireConnection(t)
      PROVE  ThreadsTyped'
  BY <1>7, <1>0, <1>a DEF expireConnection, ExpiredAt, Peek, Queued
<1>8. ASSUME NEW t \in workers, expireClose(t)
      PROVE  ThreadsTyped'
  BY <1>8, <1>0, <1>a DEF expireClose, ForgetConnection
<1>9. ASSUME NEW t \in workers, closeConnection(t)
      PROVE  ThreadsTyped'
  BY <1>9, <1>0, <1>a DEF closeConnection, ForgetConnection
<1>10. ASSUME NEW t \in workers, startWait(t)
      PROVE  ThreadsTyped'
  BY <1>10, <1>0, <1>a DEF startWait, Past, Forever, Time
<1>11. ASSUME NEW t \in workers, epollWait(t)
      PROVE  ThreadsTyped'
  BY <1>11, <1>0, <1>a DEF epollWait, Ready, ForgetClock, Time
<1>12. ASSUME NEW t \in workers, epollWaitTimeout(t)
      PROVE  ThreadsTyped'
  BY <1>12, <1>0, <1>a DEF epollWaitTimeout, ForgetClock, Time
<1>13. ASSUME NEW t \in workers, dispatchListen(t)
      PROVE  ThreadsTyped'
  BY <1>13, <1>0, <1>a DEF dispatchListen
<1>14. ASSUME NEW t \in workers, dispatchClient(t)
      PROVE  ThreadsTyped'
  BY <1>14, <1>0, <1>a DEF dispatchClient, getConnectionOrCreateByFd
<1>15. ASSUME NEW t \in workers, acceptConnection(t)
      PROVE  ThreadsTyped'
  BY <1>15, <1>0, <1>a DEF acceptConnection
<1>16. ASSUME NEW t \in workers, addConnection(t)
      PROVE  ThreadsTyped'
  BY <1>16, <1>0, <1>a DEF addConnection, ForgetConnection
<1>17. ASSUME NEW t \in workers, recvData(t)
      PROVE  ThreadsTyped'
  BY <1>17, <1>0, <1>a DEF recvData, OffsetAfter, isRequestComplete, Open, Owned, Working
<1>18. ASSUME NEW t \in workers, rearmConnection(t)
      PROVE  ThreadsTyped'
  BY <1>18, <1>0, <1>a DEF rearmConnection, ForgetConnection, Owned, Working
<1>19. ASSUME NEW t \in workers, deleteConnection(t)
      PROVE  ThreadsTyped'
  BY <1>19, <1>0, <1>a DEF deleteConnection, localVars, Owned, Working
<1>20. ASSUME NEW c \in Clients,
             Connect(c) \/ SendPiece(c) \/ HangUp(c)
      PROVE  ThreadsTyped'
  BY <1>20, <1>0 DEF Connect, SendPiece, HangUp, localVars
<1>21. CASE Tick
  BY <1>0, <1>21 DEF Tick, localVars
<1> QED
  BY <1>1, <1>2, <1>3, <1>4, <1>5, <1>6, <1>7, <1>8, <1>9, <1>10,
     <1>11, <1>12, <1>13, <1>14, <1>15, <1>16, <1>17, <1>18, <1>19, <1>20, <1>21
     DEF Next, ThreadStep, ClientStep
-----------------------------------------------------------------------------
(* Threads, clocks and sockets.                                           *)

(* A thread works on a descriptor.                                         *)
LEMMA OwnedStep == ASSUME Typed, Next PROVE Owned'
<1> USE EventLoopAssumption
    DEF Typed, KernelTyped, ThreadsTyped, Owned, Working, At, Goto
<1>0. workers' = workers /\ workers \subseteq Threads
  BY DEF Next
<1>1. ASSUME NEW t \in workers,
             computeTimeout(t) \/ startWait(t) \/ epollWait(t)
             \/ epollWaitTimeout(t)
      PROVE  Owned'
  BY <1>1, <1>0 DEF computeTimeout, startWait, epollWait, epollWaitTimeout,
    localVars, ForgetConnection, ForgetClock
<1>2. ASSUME NEW t \in workers,
             dispatchEnd(t) \/ dispatchListen(t) \/ acceptEnd(t)
      PROVE  Owned'
  BY <1>2, <1>0 DEF dispatchEnd, dispatchListen, acceptEnd, localVars,
    ForgetConnection, ForgetClock
<1>3. ASSUME NEW t \in workers, dispatchClient(t)
      PROVE  Owned'
  BY <1>3, <1>0 DEF dispatchClient, localVars, ForgetConnection, ForgetClock
<1>4. ASSUME NEW t \in workers, expireConnection(t)
      PROVE  Owned'
  BY <1>4, <1>0 DEF expireConnection, ExpiredAt, Peek, Queued
<1>5. ASSUME NEW t \in workers,
             expireClose(t) \/ closeConnection(t)
      PROVE  Owned'
  BY <1>5, <1>0 DEF expireClose, closeConnection, localVars,
    ForgetConnection, ForgetClock
<1>6. ASSUME NEW t \in workers, acceptConnection(t)
      PROVE  Owned'
  BY <1>6, <1>0 DEF acceptConnection, localVars, ForgetConnection,
    ForgetClock
<1>7. ASSUME NEW t \in workers, addConnection(t)
      PROVE  Owned'
  BY <1>7, <1>0 DEF addConnection, localVars, ForgetConnection, ForgetClock
<1>8. ASSUME NEW t \in workers,
             recvData(t) \/ recvEnd(t)
      PROVE  Owned'
  BY <1>8, <1>0 DEF recvData, recvEnd, localVars, ForgetConnection,
    ForgetClock
<1>9. ASSUME NEW t \in workers,
             sendResponse(t) \/ sendFails(t)
      PROVE  Owned'
  BY <1>9, <1>0 DEF sendResponse, sendFails, localVars, ForgetConnection,
    ForgetClock
<1>10. ASSUME NEW t \in workers, rearmConnection(t)
      PROVE  Owned'
  BY <1>10, <1>0 DEF rearmConnection, localVars, ForgetConnection,
    ForgetClock
<1>11. ASSUME NEW t \in workers, deleteConnection(t)
      PROVE  Owned'
  BY <1>11, <1>0 DEF deleteConnection, localVars, ForgetConnection,
    ForgetClock
<1>12. ASSUME NEW c \in Clients,
             Connect(c) \/ SendPiece(c) \/ HangUp(c)
      PROVE  Owned'
  BY <1>12, <1>0 DEF Connect, SendPiece, HangUp, localVars
<1>13. CASE Tick
  BY <1>0, <1>13 DEF Tick, localVars
<1> QED
  BY <1>1, <1>2, <1>3, <1>4, <1>5, <1>6, <1>7, <1>8, <1>9, <1>10, <1>11,
     <1>12, <1>13
     DEF Next, ThreadStep, ClientStep

(* The batch is handled before the next turn.                              *)
LEMMA TurnedStep == ASSUME Typed, Next PROVE Turned'
<1> USE EventLoopAssumption
    DEF Typed, ThreadsTyped, Turned, At, Goto
<1>0. workers' = workers /\ workers \subseteq Threads
  BY DEF Next
<1>1. ASSUME NEW t \in workers,
             computeTimeout(t) \/ startWait(t) \/ epollWait(t)
             \/ epollWaitTimeout(t)
      PROVE  Turned'
  BY <1>1, <1>0 DEF computeTimeout, startWait, epollWait, epollWaitTimeout,
    localVars
<1>2. ASSUME NEW t \in workers,
             dispatchEnd(t) \/ dispatchListen(t) \/ acceptEnd(t)
      PROVE  Turned'
  BY <1>2, <1>0 DEF dispatchEnd, dispatchListen, acceptEnd, localVars
<1>3. ASSUME NEW t \in workers, dispatchClient(t)
      PROVE  Turned'
  BY <1>3, <1>0 DEF dispatchClient, localVars
<1>4. ASSUME NEW t \in workers, expireConnection(t)
      PROVE  Turned'
  BY <1>4, <1>0 DEF expireConnection, localVars
<1>5. ASSUME NEW t \in workers,
             expireClose(t) \/ closeConnection(t)
      PROVE  Turned'
  BY <1>5, <1>0 DEF expireClose, closeConnection, localVars
<1>6. ASSUME NEW t \in workers, acceptConnection(t)
      PROVE  Turned'
  BY <1>6, <1>0 DEF acceptConnection, localVars
<1>7. ASSUME NEW t \in workers, addConnection(t)
      PROVE  Turned'
  BY <1>7, <1>0 DEF addConnection, localVars
<1>8. ASSUME NEW t \in workers,
             recvData(t) \/ recvEnd(t)
      PROVE  Turned'
  BY <1>8, <1>0 DEF recvData, recvEnd, localVars
<1>9. ASSUME NEW t \in workers,
             sendResponse(t) \/ sendFails(t)
      PROVE  Turned'
  BY <1>9, <1>0 DEF sendResponse, sendFails, localVars
<1>10. ASSUME NEW t \in workers, rearmConnection(t)
      PROVE  Turned'
  BY <1>10, <1>0 DEF rearmConnection, localVars
<1>11. ASSUME NEW t \in workers, deleteConnection(t)
      PROVE  Turned'
  BY <1>11, <1>0 DEF deleteConnection, localVars
<1>12. ASSUME NEW c \in Clients,
             Connect(c) \/ SendPiece(c) \/ HangUp(c)
      PROVE  Turned'
  BY <1>12, <1>0 DEF Connect, SendPiece, HangUp, localVars
<1>13. CASE Tick
  BY <1>0, <1>13 DEF Tick, localVars
<1> QED
  BY <1>1, <1>2, <1>3, <1>4, <1>5, <1>6, <1>7, <1>8, <1>9, <1>10, <1>11,
     <1>12, <1>13
     DEF Next, ThreadStep, ClientStep

(* Nothing is noted in the future.                                         *)
LEMMA PastStep == ASSUME Typed, Next PROVE Past'
<1> USE EventLoopAssumption
    DEF Typed, KernelTyped, ThreadsTyped, Owned, Working, Past, At, Goto
<1>0. workers' = workers /\ workers \subseteq Threads
  BY DEF Next
<1>1. ASSUME NEW t \in workers, computeTimeout(t)
      PROVE  Past'
  BY <1>1, <1>0 DEF computeTimeout, Forever, Absent, Time, TimeoutOf, Peek,
    Queued
<1>2. ASSUME NEW t \in workers,
             startWait(t) \/ epollWait(t) \/ epollWaitTimeout(t)
      PROVE  Past'
  <2>1. /\ UNCHANGED <<queue, lastUse, now>>
        /\ timeout' = [timeout EXCEPT ![t] = timeout'[t]]
        /\ pc'[t] \notin {"expire", "expireClose"}
        /\ \A u \in Threads \ {t} : pc'[u] = pc[u]
    BY <1>0, <1>2 DEF startWait, epollWait, epollWaitTimeout, ForgetClock
  <2> QED
    BY <2>1, <1>0
<1>3. ASSUME NEW t \in workers,
             dispatchEnd(t) \/ dispatchListen(t) \/ acceptEnd(t)
      PROVE  Past'
  BY <1>3, <1>0 DEF dispatchEnd, dispatchListen, acceptEnd, localVars,
    ForgetClock, Time
<1>4. ASSUME NEW t \in workers, dispatchClient(t)
      PROVE  Past'
  BY <1>4, <1>0 DEF dispatchClient, getConnectionOrCreateByFd, Time, Absent
<1>5. ASSUME NEW t \in workers, expireConnection(t)
      PROVE  Past'
  BY <1>5, <1>0 DEF expireConnection, Absent, Time, ExpiredAt, Peek, Queued
<1>6. ASSUME NEW t \in workers,
             expireClose(t) \/ closeConnection(t)
      PROVE  Past'
  BY <1>6, <1>0 DEF expireClose, closeConnection, localVars, ForgetClock,
    Time
<1>7. ASSUME NEW t \in workers, acceptConnection(t)
      PROVE  Past'
  BY <1>7, <1>0 DEF acceptConnection, localVars, ForgetClock, Time
<1>8. ASSUME NEW t \in workers, addConnection(t)
      PROVE  Past'
  BY <1>8, <1>0 DEF addConnection, localVars, ForgetClock, Time
<1>9. ASSUME NEW t \in workers,
             recvData(t) \/ recvEnd(t)
      PROVE  Past'
  BY <1>9, <1>0 DEF recvData, recvEnd, localVars, ForgetClock, Time
<1>10. ASSUME NEW t \in workers, sendResponse(t)
      PROVE  Past'
  BY <1>10, <1>0 DEF sendResponse, localVars, Time, Open
<1>11. ASSUME NEW t \in workers, sendFails(t)
      PROVE  Past'
  BY <1>11, <1>0 DEF sendFails, localVars
<1>12. ASSUME NEW t \in workers, rearmConnection(t)
      PROVE  Past'
  BY <1>12, <1>0 DEF rearmConnection, localVars, ForgetClock, Time
<1>13. ASSUME NEW t \in workers, deleteConnection(t)
      PROVE  Past'
  BY <1>13, <1>0 DEF deleteConnection, Absent, Time, localVars
<1>14. ASSUME NEW c \in Clients,
             Connect(c) \/ SendPiece(c) \/ HangUp(c)
      PROVE  Past'
  BY <1>14, <1>0 DEF Connect, SendPiece, HangUp, localVars
<1>15. CASE Tick
  <2>1. now' = now + 1 /\ UNCHANGED <<queue, lastUse, pc, timeout>>
    BY <1>15 DEF Tick, localVars
  <2>2. ASSUME NEW t \in Threads, NEW fd \in Fds
        PROVE  queue'[t][fd] <= now'
    <3>1. queue[t][fd] \in Int /\ now \in Int
      BY DEF Time, Absent
    <3> QED
      BY <2>1, <3>1
  <2>3. ASSUME NEW c \in Clients PROVE lastUse'[c] <= now'
    BY <2>1 DEF Time
  <2> QED
    BY <2>1, <2>2, <2>3
<1> QED
  BY <1>1, <1>2, <1>3, <1>4, <1>5, <1>6, <1>7, <1>8, <1>9, <1>10, <1>11,
     <1>12, <1>13, <1>14, <1>15
     DEF Next, ThreadStep, ClientStep

(* A client has one descriptor.                                            *)
LEMMA OneSocketStep == ASSUME Typed, OneSocket, Next PROVE OneSocket'
<1> USE EventLoopAssumption
    DEF Typed, KernelTyped, ThreadsTyped, OneSocket, Open
<1>0. workers' = workers /\ workers \subseteq Threads
  BY DEF Next
<1>1. ASSUME NEW t \in workers,
             computeTimeout(t) \/ startWait(t) \/ epollWait(t)
             \/ epollWaitTimeout(t)
      PROVE  OneSocket'
  BY <1>1, <1>0 DEF computeTimeout, startWait, epollWait, epollWaitTimeout,
    kernelVars, clientVars
<1>2. ASSUME NEW t \in workers,
             dispatchEnd(t) \/ dispatchListen(t) \/ acceptEnd(t)
      PROVE  OneSocket'
  BY <1>2, <1>0 DEF dispatchEnd, dispatchListen, acceptEnd, kernelVars,
    clientVars
<1>3. ASSUME NEW t \in workers, dispatchClient(t)
      PROVE  OneSocket'
  BY <1>3, <1>0 DEF dispatchClient, kernelVars, clientVars
<1>4. ASSUME NEW t \in workers, expireConnection(t)
      PROVE  OneSocket'
  BY <1>4, <1>0 DEF expireConnection, kernelVars, clientVars
<1>5. ASSUME NEW t \in workers,
             expireClose(t) \/ closeConnection(t)
      PROVE  OneSocket'
  <2>1. /\ cur[t] \in Fds /\ sock' = [sock EXCEPT ![cur[t]] = NoClient]
        /\ backlog' = backlog /\ peer' = peer
    BY <1>5, <1>0 DEF expireClose, closeConnection, clientVars, closeFd,
      Owned, Working, At
  <2>2. \A fd \in Fds : sock'[fd] = sock[fd] \/ sock'[fd] = NoClient
    BY <2>1
  <2> QED
    BY <2>1, <2>2
<1>6. ASSUME NEW t \in workers, acceptConnection(t)
      PROVE  OneSocket'
  BY <1>6, <1>0 DEF acceptConnection, kernelVars, clientVars
<1>7. ASSUME NEW t \in workers, addConnection(t)
      PROVE  OneSocket'
  BY <1>7, <1>0 DEF addConnection, kernelVars, clientVars
<1>8. ASSUME NEW t \in workers,
             recvData(t) \/ recvEnd(t)
      PROVE  OneSocket'
  BY <1>8, <1>0 DEF recvData, recvEnd, kernelVars, clientVars
<1>9. ASSUME NEW t \in workers,
             sendResponse(t) \/ sendFails(t)
      PROVE  OneSocket'
  BY <1>9, <1>0 DEF sendResponse, sendFails, kernelVars, clientVars
<1>10. ASSUME NEW t \in workers, rearmConnection(t)
      PROVE  OneSocket'
  BY <1>10, <1>0 DEF rearmConnection, kernelVars, clientVars
<1>11. ASSUME NEW t \in workers, deleteConnection(t)
      PROVE  OneSocket'
  BY <1>11, <1>0 DEF deleteConnection, kernelVars, clientVars
<1>12. ASSUME NEW c \in Clients,
             Connect(c) \/ SendPiece(c) \/ HangUp(c)
      PROVE  OneSocket'
  BY <1>12, <1>0 DEF Connect, SendPiece, HangUp, kernelVars, clientVars
<1>13. CASE Tick
  BY <1>0, <1>13 DEF Tick, kernelVars, clientVars
<1> QED
  BY <1>1, <1>2, <1>3, <1>4, <1>5, <1>6, <1>7, <1>8, <1>9, <1>10, <1>11,
     <1>12, <1>13
     DEF Next, ThreadStep, ClientStep
-----------------------------------------------------------------------------
(* No connection is orphaned.                                              *)

(* A thread leaves the others alone.                                       *)
LEMMA OthersStay ==
  ASSUME Typed, NEW t \in Threads, ThreadStep(t)
  PROVE  \A u \in Threads \ {t} :
           /\ pc'[u] = pc[u] /\ cur'[u] = cur[u] /\ batch'[u] = batch[u]
           /\ queue'[u] = queue[u]
<1> USE DEF Typed, ThreadsTyped, Goto, localVars, ForgetConnection
<1>1. CASE computeTimeout(t) \/ startWait(t) \/ epollWait(t)
           \/ epollWaitTimeout(t)
  BY <1>1 DEF computeTimeout, startWait, epollWait, epollWaitTimeout
<1>2. CASE dispatchEnd(t) \/ dispatchListen(t) \/ acceptEnd(t)
  BY <1>2 DEF dispatchEnd, dispatchListen, acceptEnd
<1>3. CASE dispatchClient(t)
  BY <1>3 DEF dispatchClient, getConnectionOrCreateByFd
<1>4. CASE expireConnection(t)
  BY <1>4 DEF expireConnection
<1>5. CASE expireClose(t) \/ closeConnection(t)
  BY <1>5 DEF expireClose, closeConnection
<1>6. CASE acceptConnection(t)
  BY <1>6 DEF acceptConnection
<1>7. CASE addConnection(t)
  BY <1>7 DEF addConnection
<1>8. CASE recvData(t) \/ recvEnd(t)
  BY <1>8 DEF recvData, recvEnd
<1>9. CASE sendResponse(t) \/ sendFails(t)
  BY <1>9 DEF sendResponse, sendFails
<1>10. CASE rearmConnection(t)
  BY <1>10 DEF rearmConnection
<1>11. CASE deleteConnection(t)
  BY <1>11 DEF deleteConnection
<1> QED
  BY <1>1, <1>2, <1>3, <1>4, <1>5, <1>6, <1>7, <1>8, <1>9, <1>10, <1>11
     DEF ThreadStep

(* The process is up when a thread takes a step.                           *)
LEMMA StepAlive == ASSUME NEW t, ThreadStep(t) PROVE ~died
BY DEF ThreadStep, computeTimeout, expireConnection, expireClose, startWait,
  epollWait, epollWaitTimeout, dispatchEnd, dispatchListen, dispatchClient,
  acceptConnection, addConnection, acceptEnd, recvData, recvEnd, sendResponse,
  sendFails, rearmConnection, deleteConnection, closeConnection, At

(* A connection that is neither armed nor in the hands of a thread after a *)
(* step of that thread was so before.                                      *)
LEMMA NotDropped ==
  ASSUME Typed, NEW t \in Threads, ThreadStep(t), ~died', NEW fd \in Fds,
         Open(fd)', epoll'[fd] # "armed", ~Holds(t, fd)'
  PROVE  Open(fd) /\ epoll[fd] # "armed" /\ ~Holds(t, fd)
<1> USE EventLoopAssumption
    DEF Typed, KernelTyped, ThreadsTyped, Turned, Owned, Open, Holds, Working,
        At, Goto
<1>1. CASE computeTimeout(t) \/ startWait(t) \/ epollWaitTimeout(t)
  BY <1>1 DEF computeTimeout, startWait, epollWaitTimeout, kernelVars
<1>2. CASE epollWait(t)
  BY <1>2 DEF epollWait, Ready
<1>3. CASE dispatchEnd(t) \/ dispatchListen(t) \/ acceptEnd(t)
  BY <1>3 DEF dispatchEnd, dispatchListen, acceptEnd, kernelVars, localVars
<1>4. CASE dispatchClient(t)
  BY <1>4 DEF dispatchClient, kernelVars
<1>5. CASE expireConnection(t)
  BY <1>5 DEF expireConnection, delEpollClient, ExpiredAt, Peek, Queued
<1>6. CASE expireClose(t) \/ closeConnection(t)
  BY <1>6 DEF expireClose, closeConnection, closeFd, ForgetConnection
<1>7. CASE acceptConnection(t)
  BY <1>7 DEF acceptConnection
<1>8. CASE addConnection(t)
  BY <1>8 DEF addConnection, addEpollClient, ForgetConnection
<1>9. CASE recvData(t) \/ recvEnd(t)
  BY <1>9 DEF recvData, recvEnd, kernelVars, localVars
<1>10. CASE sendResponse(t) \/ sendFails(t)
  BY <1>10 DEF sendResponse, sendFails, kernelVars, localVars
<1>11. CASE rearmConnection(t)
  BY <1>11 DEF rearmConnection, modEpollClient, ForgetConnection
<1>12. CASE deleteConnection(t)
  BY <1>12 DEF deleteConnection, delEpollClient, localVars
<1> QED
  BY <1>1, <1>2, <1>3, <1>4, <1>5, <1>6, <1>7, <1>8, <1>9, <1>10, <1>11,
     <1>12
     DEF ThreadStep

(* Whoever holds a connection that is not armed goes on holding it.        *)
LEMMA NoOrphanStep == ASSUME Typed, NoOrphan, Next PROVE NoOrphan'
<1>1. ASSUME NEW t \in workers, ThreadStep(t) PROVE NoOrphan'
  <2>1. t \in Threads
    BY DEF Typed, ThreadsTyped
  <2>2. SUFFICES ASSUME ~died', NEW fd \in Fds, Open(fd)',
                        epoll'[fd] # "armed", ~Holds(t, fd)'
                 PROVE  \E u \in Threads : Holds(u, fd)'
    BY <2>1 DEF NoOrphan
  <2>3. Open(fd) /\ epoll[fd] # "armed" /\ ~Holds(t, fd)
    BY <1>1, <2>1, <2>2, NotDropped
  <2>4. ~died
    BY <1>1, StepAlive
  <2>5. PICK u \in Threads : Holds(u, fd)
    BY <2>3, <2>4 DEF NoOrphan
  <2>6. Holds(u, fd)'
    BY <1>1, <2>1, <2>3, <2>5, OthersStay DEF Holds
  <2> QED
    BY <2>6
<1>2. ASSUME NEW c \in Clients, ClientStep(c) PROVE NoOrphan'
  BY <1>2 DEF ClientStep, Connect, SendPiece, HangUp, kernelVars, localVars,
    NoOrphan, Open, Holds
<1>3. CASE Tick
  BY <1>3 DEF Tick, kernelVars, localVars, NoOrphan, Open, Holds
<1> QED
  BY <1>1, <1>2, <1>3 DEF Next
-----------------------------------------------------------------------------
(* A single worker.                                                        *)

(* Its calls of epoll_ctl succeed.                                         *)
LEMMA RegisteredStep ==
  ASSUME Typed, OneSocket, NEW t \in Threads, ThreadStep(t),
         Registered(t), Disarmed(t), QueueOpen(t), QueueRecent(t)
  PROVE  Registered(t)'
<1> USE EventLoopAssumption
    DEF Typed, KernelTyped, ThreadsTyped, Owned, Working, Open, At, Goto,
        Registered, Unregistered
<1>1. CASE computeTimeout(t) \/ startWait(t) \/ epollWaitTimeout(t)
  BY <1>1 DEF computeTimeout, startWait, epollWaitTimeout, kernelVars
<1>2. CASE epollWait(t)
  BY <1>2 DEF epollWait, Ready
<1>3. CASE dispatchEnd(t) \/ dispatchListen(t) \/ acceptEnd(t)
  BY <1>3 DEF dispatchEnd, dispatchListen, acceptEnd, kernelVars, localVars
<1>4. CASE dispatchClient(t)
  BY <1>4 DEF dispatchClient, kernelVars
<1>5. CASE expireConnection(t)
  BY <1>5 DEF expireConnection, delEpollClient, ExpiredAt, Peek, QueueOpen,
    Queued
<1>6. CASE expireClose(t)
  BY <1>6 DEF expireClose, closeFd, ForgetConnection
<1>7. CASE closeConnection(t)
  BY <1>7 DEF closeConnection, closeFd, ForgetConnection
<1>8. CASE acceptConnection(t)
  BY <1>8 DEF acceptConnection
<1>9. CASE addConnection(t)
  BY <1>9 DEF addConnection, addEpollClient, ForgetConnection
<1>10. CASE recvData(t) \/ recvEnd(t)
  BY <1>10 DEF recvData, recvEnd, kernelVars, localVars
<1>11. CASE sendResponse(t) \/ sendFails(t)
  BY <1>11 DEF sendResponse, sendFails, kernelVars, localVars
<1>12. CASE rearmConnection(t)
  BY <1>12 DEF rearmConnection, modEpollClient, ForgetConnection, Disarmed
<1>13. CASE deleteConnection(t)
  BY <1>13 DEF deleteConnection, delEpollClient, localVars, Disarmed
<1> QED
  BY <1>1, <1>2, <1>3, <1>4, <1>5, <1>6, <1>7, <1>8, <1>9, <1>10, <1>11,
     <1>12, <1>13
     DEF ThreadStep

(* It has the events of descriptors that are disarmed.                     *)
LEMMA DisarmedStep ==
  ASSUME Typed, OneSocket, NEW t \in Threads, ThreadStep(t),
         Registered(t), Disarmed(t), QueueOpen(t), QueueRecent(t)
  PROVE  Disarmed(t)'
<1> USE EventLoopAssumption
    DEF Typed, KernelTyped, ThreadsTyped, Owned, Working, Open, At, Goto,
        Registered, Unregistered, Disarmed
<1>1. CASE computeTimeout(t) \/ startWait(t) \/ epollWaitTimeout(t)
  BY <1>1 DEF computeTimeout, startWait, epollWaitTimeout, kernelVars
<1>2. CASE epollWait(t)
  BY <1>2 DEF epollWait, Ready
<1>3. CASE dispatchEnd(t) \/ dispatchListen(t) \/ acceptEnd(t)
  BY <1>3 DEF dispatchEnd, dispatchListen, acceptEnd, kernelVars, localVars
<1>4. CASE dispatchClient(t)
  BY <1>4 DEF dispatchClient, kernelVars
<1>5. CASE expireConnection(t)
  BY <1>5 DEF expireConnection, Turned
<1>6. CASE expireClose(t) \/ closeConnection(t)
  BY <1>6 DEF expireClose, closeConnection, closeFd, ForgetConnection
<1>7. CASE acceptConnection(t)
  BY <1>7 DEF acceptConnection
<1>8. CASE addConnection(t)
  BY <1>8 DEF addConnection, addEpollClient, ForgetConnection
<1>9. CASE recvData(t) \/ recvEnd(t)
  BY <1>9 DEF recvData, recvEnd, kernelVars, localVars
<1>10. CASE sendResponse(t) \/ sendFails(t)
  BY <1>10 DEF sendResponse, sendFails, kernelVars, localVars
<1>11. CASE rearmConnection(t)
  BY <1>11 DEF rearmConnection, modEpollClient, ForgetConnection
<1>12. CASE deleteConnection(t)
  BY <1>12 DEF deleteConnection, delEpollClient, localVars
<1> QED
  BY <1>1, <1>2, <1>3, <1>4, <1>5, <1>6, <1>7, <1>8, <1>9, <1>10, <1>11,
     <1>12
     DEF ThreadStep

(* Its queue holds open connections.                                       *)
LEMMA QueueOpenStep ==
  ASSUME Typed, OneSocket, NEW t \in Threads, ThreadStep(t),
         Registered(t), Disarmed(t), QueueOpen(t), QueueRecent(t)
  PROVE  QueueOpen(t)'
<1> USE EventLoopAssumption
    DEF Typed, KernelTyped, ThreadsTyped, Owned, Working, Open, At, Goto,
        Registered, Unregistered, QueueOpen, Queued
<1>1. CASE computeTimeout(t) \/ startWait(t) \/ epollWaitTimeout(t)
  BY <1>1 DEF computeTimeout, startWait, epollWaitTimeout, kernelVars
<1>2. CASE epollWait(t)
  BY <1>2 DEF epollWait
<1>3. CASE dispatchEnd(t) \/ dispatchListen(t) \/ acceptEnd(t)
  BY <1>3 DEF dispatchEnd, dispatchListen, acceptEnd, kernelVars, localVars
<1>4. CASE dispatchClient(t)
  BY <1>4 DEF dispatchClient, kernelVars, getConnectionOrCreateByFd, Disarmed
<1>5. CASE expireConnection(t)
  BY <1>5 DEF expireConnection, ExpiredAt, Peek
<1>6. CASE expireClose(t) \/ closeConnection(t)
  BY <1>6 DEF expireClose, closeConnection, closeFd, ForgetConnection
<1>7. CASE acceptConnection(t)
  BY <1>7 DEF acceptConnection
<1>8. CASE addConnection(t)
  BY <1>8 DEF addConnection, ForgetConnection
<1>9. CASE recvData(t) \/ recvEnd(t)
  BY <1>9 DEF recvData, recvEnd, kernelVars, localVars
<1>10. CASE sendResponse(t) \/ sendFails(t)
  BY <1>10 DEF sendResponse, sendFails, kernelVars, localVars
<1>11. CASE rearmConnection(t)
  BY <1>11 DEF rearmConnection, ForgetConnection, Disarmed
<1>12. CASE deleteConnection(t)
  BY <1>12 DEF deleteConnection, localVars
<1> QED
  BY <1>1, <1>2, <1>3, <1>4, <1>5, <1>6, <1>7, <1>8, <1>9, <1>10, <1>11,
     <1>12
     DEF ThreadStep

(* Its queue has the last use of every connection.                         *)
LEMMA QueueRecentStep ==
  ASSUME Typed, OneSocket, NEW t \in Threads, ThreadStep(t),
         Registered(t), Disarmed(t), QueueOpen(t), QueueRecent(t)
  PROVE  QueueRecent(t)'
<1>0. ASSUME sock' = sock, lastUse' = lastUse, queue' = queue,
             pc[t] \notin {"rearm", "del"}, pc'[t] # "expireClose"
      PROVE  QueueRecent(t)'
  BY <1>0 DEF QueueRecent, Queued
<1> USE EventLoopAssumption
    DEF Typed, KernelTyped, ThreadsTyped, Owned, Working, Open, At, Goto,
        QueueRecent, QueueOpen, Queued, OneSocket, Past
<1>1. CASE computeTimeout(t) \/ startWait(t) \/ epollWaitTimeout(t)
  <2>1. /\ sock' = sock /\ lastUse' = lastUse /\ queue' = queue
        /\ pc[t] \notin {"rearm", "del"} /\ pc'[t] # "expireClose"
    BY <1>1 DEF computeTimeout, startWait, epollWaitTimeout, kernelVars
  <2> QED
    BY <1>0, <2>1
<1>2. CASE epollWait(t)
  BY <1>0, <1>2 DEF epollWait
<1>3. CASE dispatchEnd(t) \/ dispatchListen(t) \/ acceptEnd(t)
  <2>1. /\ sock' = sock /\ lastUse' = lastUse /\ queue' = queue
        /\ pc[t] \notin {"rearm", "del"} /\ pc'[t] # "expireClose"
    BY <1>3 DEF dispatchEnd, dispatchListen, acceptEnd, kernelVars
  <2> QED
    BY <1>0, <2>1
<1>4. CASE dispatchClient(t)
  BY <1>4 DEF dispatchClient, kernelVars, getConnectionOrCreateByFd,
    Disarmed, Registered
<1>5. CASE expireConnection(t)
  BY <1>5 DEF expireConnection, ExpiredAt, Peek, Time, Absent
<1>6. CASE expireClose(t) \/ closeConnection(t)
  BY <1>6 DEF expireClose, closeConnection, closeFd, ForgetConnection,
    Unregistered
<1>7. CASE acceptConnection(t)
  BY <1>7 DEF acceptConnection
<1>8. CASE addConnection(t)
  BY <1>8 DEF addConnection, ForgetConnection
<1>9. CASE recvData(t) \/ recvEnd(t)
  <2>1. /\ sock' = sock /\ lastUse' = lastUse /\ queue' = queue
        /\ pc[t] = "recv"
    BY <1>9 DEF recvData, recvEnd, kernelVars
  <2>2. pc'[t] \in {"recv", "send", "del"}
    BY <1>9 DEF recvData, recvEnd
  <2> QED
    BY <1>0, <2>1, <2>2
<1>10. CASE sendResponse(t) \/ sendFails(t)
  BY <1>10 DEF sendResponse, sendFails, kernelVars, localVars
<1>11. CASE rearmConnection(t)
  BY <1>11 DEF rearmConnection, ForgetConnection, Registered, Disarmed, Time
<1>12. CASE deleteConnection(t)
  BY <1>12 DEF deleteConnection, localVars
<1> QED
  BY <1>1, <1>2, <1>3, <1>4, <1>5, <1>6, <1>7, <1>8, <1>9, <1>10, <1>11,
     <1>12
     DEF ThreadStep

(* With one worker, the worker that takes a step is the one.               *)
LEMMA OneWorker ==
  ASSUME Typed, Alone, NEW t \in workers, NEW u \in workers
  PROVE  t = u
<1>1. IsFiniteSet(workers)
  BY EventLoopAssumption, FS_Subset DEF Typed, ThreadsTyped
<1>2. PICK x : workers = {x}
  BY <1>1, FS_Singleton DEF Alone
<1> QED
  BY <1>2

(* What holds of a single worker stays true.                               *)
LEMMA SoleStep == ASSUME Typed, OneSocket, Sole, Next PROVE Sole'
<1>1. workers' = workers /\ workers \subseteq Threads
  BY DEF Next, Typed, ThreadsTyped
<1>2. SUFFICES ASSUME Alone, NEW t \in workers
               PROVE  /\ Registered(t)' /\ Disarmed(t)'
                      /\ QueueOpen(t)' /\ QueueRecent(t)'
  BY <1>1 DEF Sole, Alone
<1>3. Registered(t) /\ Disarmed(t) /\ QueueOpen(t) /\ QueueRecent(t)
  BY <1>2 DEF Sole
<1>4. ASSUME NEW u \in workers, ThreadStep(u)
      PROVE  /\ Registered(t)' /\ Disarmed(t)'
             /\ QueueOpen(t)' /\ QueueRecent(t)'
  <2>1. t \in Threads /\ ThreadStep(t)
    BY <1>1, <1>2, <1>4, OneWorker
  <2> QED
    BY <1>3, <2>1, RegisteredStep, DisarmedStep, QueueOpenStep, QueueRecentStep
<1>5. ASSUME UNCHANGED <<sock, epoll, died, pc, cur, batch, tnow, queue, lastUse>>
      PROVE  /\ Registered(t)' /\ Disarmed(t)'
             /\ QueueOpen(t)' /\ QueueRecent(t)'
  BY <1>3, <1>5 DEF Registered, Disarmed, QueueOpen, QueueRecent, Open, Queued
<1>6. ASSUME NEW c \in Clients, ClientStep(c)
      PROVE  UNCHANGED <<sock, epoll, died, pc, cur, batch, tnow, queue, lastUse>>
  BY <1>6 DEF ClientStep, Connect, SendPiece, HangUp, kernelVars, localVars
<1>7. CASE Tick
  BY <1>5, <1>7 DEF Tick, kernelVars, localVars
<1> QED
  BY <1>4, <1>5, <1>6, <1>7 DEF Next

(* Threads that were not created do nothing.                               *)
LEMMA UnusedStep == ASSUME Typed, Unused, Next PROVE Unused'
<1>1. workers' = workers /\ workers \subseteq Threads
  BY DEF Next, Typed, ThreadsTyped
<1>2. ASSUME NEW t \in workers, ThreadStep(t) PROVE Unused'
  <2>1. \A u \in Threads \ workers : pc'[u] = pc[u] /\ batch'[u] = batch[u]
    BY <1>1, <1>2, OthersStay
  <2> QED
    BY <1>1, <2>1 DEF Unused
<1>3. ASSUME NEW c \in Clients, ClientStep(c) PROVE Unused'
  BY <1>1, <1>3
     DEF Unused, ClientStep, Connect, SendPiece, HangUp, localVars
<1>4. CASE Tick
  BY <1>1, <1>4 DEF Unused, Tick, localVars
<1> QED
  BY <1>2, <1>3, <1>4 DEF Next
-----------------------------------------------------------------------------
(* The inductive invariant.                                                *)

(* The invariant holds when the threads have been created.                 *)
LEMMA InitIndInv == ASSUME Init PROVE IndInv
<1> USE EventLoopAssumption DEF Init
<1>1. Flags
  BY Zenon DEF Flags
<1>2. KernelTyped
  BY DEF KernelTyped, Time
<1>3. ThreadsTyped /\ Owned /\ Turned
  BY DEF ThreadsTyped, Owned, Turned, States, Time, Working
<1>4. Past
  BY DEF Past, Absent
<1>5. OneSocket /\ NoOrphan
  BY DEF OneSocket, NoOrphan, Open
<1>6. Unused
  BY DEF Unused
<1>7. ASSUME NEW t \in workers
      PROVE  Registered(t) /\ Disarmed(t) /\ QueueOpen(t) /\ QueueRecent(t)
  <2>1. t \in Threads
    BY <1>3 DEF ThreadsTyped
  <2> QED
    BY <2>1 DEF Registered, Disarmed, QueueOpen, QueueRecent, Queued, Open,
      Unregistered
<1> QED
  BY <1>1, <1>2, <1>3, <1>4, <1>5, <1>6, <1>7 DEF IndInv, Typed, Sole

(* Every step of a thread, a client or the clock keeps it, ...             *)
LEMMA NextIndInv == ASSUME IndInv, Next PROVE IndInv'
<1>1. Typed'
  BY FlagsStep, KernelStep, ThreadsStep, OwnedStep, TurnedStep, PastStep
     DEF IndInv, Typed
<1>2. OneSocket' /\ Unused' /\ NoOrphan' /\ Sole'
  BY OneSocketStep, UnusedStep, NoOrphanStep, SoleStep DEF IndInv
<1> QED
  BY <1>1, <1>2 DEF IndInv

(* ... and so does a step of anything else.                                *)
LEMMA StutterIndInv == ASSUME IndInv, UNCHANGED vars PROVE IndInv'
<1> USE DEF vars, kernelVars, clientVars, localVars
<1>1. Flags' /\ KernelTyped' /\ ThreadsTyped'
  BY DEF IndInv, Typed, Flags, KernelTyped, ThreadsTyped
<1>2. Owned' /\ Turned' /\ Past'
  BY DEF IndInv, Typed, Owned, Turned, Past
<1>3. OneSocket' /\ Unused' /\ NoOrphan'
  BY DEF IndInv, OneSocket, Unused, NoOrphan, Open, Holds
<1>4. Sole'
  BY DEF IndInv, Sole, Alone, Registered, Disarmed, QueueOpen, QueueRecent,
    Queued, Open
<1> QED
  BY <1>1, <1>2, <1>3, <1>4 DEF IndInv, Typed

(* So it holds in every state.                                             *)
LEMMA AlwaysIndInv == Spec => []IndInv
<1>1. IndInv /\ [Next]_vars => IndInv'
  BY NextIndInv, StutterIndInv
<1> QED
  BY <1>1, InitIndInv, PTL DEF Spec

-----------------------------------------------------------------------------
(* The theorems.                                                           *)

(* Every variable keeps its type; among others the age of the oldest       *)
(* connection, which handleEpoll gives to epoll_wait as its timeout, is    *)
(* never negative (-1 would be for ever).                                  *)
THEOREM EventLoopTyped == Spec => []TypeOK
<1>1. IndInv => TypeOK
  BY DEF IndInv, Typed, Flags, KernelTyped, ThreadsTyped, TypeOK
<1> QED
  BY <1>1, AlwaysIndInv, PTL

(* However many threads share the epoll instance, an open connection whose *)
(* event EPOLLONESHOT has disarmed is in the hands of one of them          *)
(* (accept_client_epoll.c, handleEpoll).                                   *)
THEOREM NoOrphanHolds == Spec => []NoOrphan
<1>1. IndInv => NoOrphan
  BY DEF IndInv
<1> QED
  BY <1>1, AlwaysIndInv, PTL

(* A single worker never arms a descriptor it has an event of, although    *)
(* descriptors are used again.                                             *)
THEOREM ArmedWhenProcessedAloneHolds == Spec => []ArmedWhenProcessedAlone
<1>1. ASSUME IndInv PROVE ArmedWhenProcessedAlone
  <2>1. SUFFICES ASSUME Alone, NEW t \in Threads, NEW fd \in Fds,
                        Processing(t, fd)
                 PROVE  epoll[fd] # "armed"
    BY DEF ArmedWhenProcessedAlone, ArmedWhenProcessed
  <2>2. CASE t \in workers
    BY <1>1, <2>1, <2>2 DEF IndInv, Sole, Disarmed, Processing
  <2>3. CASE t \notin workers
    BY <1>1, <2>1, <2>3 DEF IndInv, Unused, Processing
  <2> QED
    BY <2>2, <2>3
<1> QED
  BY <1>1, AlwaysIndInv, PTL

(* Every epoll_ctl of a single worker succeeds, so that the checkError     *)
(* calls behind addEpollClient, modEpollClient and closeEpollClient never  *)
(* end the process.                                                        *)
THEOREM NeverDiesAloneHolds == Spec => []NeverDiesAlone
<1>1. ASSUME IndInv PROVE NeverDiesAlone
  <2>1. SUFFICES ASSUME Alone PROVE ~died
    BY DEF NeverDiesAlone
  <2>2. PICK t : t \in workers
    <3>1. IsFiniteSet(workers)
      BY <1>1, EventLoopAssumption, FS_Subset DEF IndInv, Typed, ThreadsTyped
    <3> QED
      BY <2>1, <3>1, FS_Singleton DEF Alone
  <2> QED
    BY <1>1, <2>1, <2>2 DEF IndInv, Sole, Registered
<1> QED
  BY <1>1, AlwaysIndInv, PTL

(* The connections a single worker closes for their age have had no        *)
(* response for KEEP_ALIVE_TIMEOUT seconds.                                *)
THEOREM OnlyIdleExpireAloneHolds == Spec => OnlyIdleExpireAlone
<1>1. ASSUME IndInv, NEW t \in Threads, Alone, expireClose(t), Open(cur[t])
      PROVE  tnow[t] - lastUse[sock[cur[t]]] >= KEEP_ALIVE_TIMEOUT
  <2>1. pc[t] = "expireClose"
    BY <1>1 DEF expireClose, At
  <2>2. t \in workers
    BY <1>1, <2>1 DEF IndInv, Unused
  <2> QED
    BY <1>1, <2>1, <2>2 DEF IndInv, Sole, QueueRecent
<1>2. IndInv =>
        [\A t \in Threads :
           Alone /\ expireClose(t) /\ Open(cur[t]) =>
             tnow[t] - lastUse[sock[cur[t]]] >= KEEP_ALIVE_TIMEOUT]_vars
  BY <1>1
<1> QED
  BY <1>2, AlwaysIndInv, PTL DEF OnlyIdleExpireAlone

-----------------------------------------------------------------------------
(* The backlog.  accept() fails for want of a descriptor only when there   *)
(* are more clients than descriptors.                                      *)

Enough == IsFiniteSet(Clients) /\ Cardinality(Clients) <= Cardinality(Fds)

(* While a connection waits a descriptor is free.                          *)
LEMMA DescriptorFree ==
  ASSUME Enough, Typed, OneSocket, backlog # {}
  PROVE  \E fd \in Fds : ~Open(fd)
<1>1. PICK c : c \in backlog
  OBVIOUS
<1>2. SUFFICES ASSUME \A fd \in Fds : Open(fd) PROVE FALSE
  OBVIOUS
<1>3. c \in Clients
  BY <1>1 DEF Typed, KernelTyped
<1>4. sock \in [Fds -> Clients \ {c}]
  BY <1>1, <1>2, <1>3 DEF Typed, KernelTyped, OneSocket, Open
<1>5. /\ IsFiniteSet(Clients \ {c})
      /\ Cardinality(Clients \ {c}) = Cardinality(Clients) - 1
  BY <1>3, FS_RemoveElement, Zenon DEF Enough
<1>6. Cardinality(Clients) \in Nat /\ Cardinality(Fds) \in Nat
  BY EventLoopAssumption, FS_CardinalityType DEF Enough
<1>7. Cardinality(Clients \ {c}) < Cardinality(Fds)
  BY <1>5, <1>6 DEF Enough
<1>8. \E f, g \in Fds : f # g /\ sock[f] = sock[g]
  BY <1>4, <1>5, <1>7, EventLoopAssumption, FS_PigeonHole
<1> QED
  BY <1>2, <1>8 DEF OneSocket

(* A thread that will come to accept().                                    *)
Accepting(t) == Listen \in batch[t] \/ pc[t] \in {"accept", "add"}

(* A step takes no connection's edge without coming to accept() it.        *)
LEMMA BacklogKept ==
  ASSUME Enough, Typed, OneSocket, NEW t \in Threads, ThreadStep(t),
         backlog' # {}, ~listenEdge', ~Accepting(t)'
  PROVE  backlog # {} /\ ~listenEdge /\ ~Accepting(t)
<1> USE EventLoopAssumption
    DEF Typed, ThreadsTyped, Turned, Accepting, At, Goto
<1>1. CASE computeTimeout(t) \/ startWait(t) \/ epollWaitTimeout(t)
  BY <1>1 DEF computeTimeout, startWait, epollWaitTimeout, kernelVars
<1>2. CASE epollWait(t)
  BY <1>2 DEF epollWait, Ready
<1>3. CASE dispatchEnd(t) \/ dispatchListen(t)
  BY <1>3 DEF dispatchEnd, dispatchListen, kernelVars, localVars
<1>4. CASE acceptEnd(t)
  BY <1>4, DescriptorFree DEF acceptEnd, kernelVars, localVars
<1>5. CASE dispatchClient(t)
  BY <1>5 DEF dispatchClient, kernelVars
<1>6. CASE expireConnection(t)
  BY <1>6 DEF expireConnection
<1>7. CASE expireClose(t) \/ closeConnection(t)
  BY <1>7 DEF expireClose, closeConnection
<1>8. CASE acceptConnection(t) \/ addConnection(t)
  BY <1>8 DEF acceptConnection, addConnection
<1>9. CASE recvData(t) \/ recvEnd(t)
  BY <1>9 DEF recvData, recvEnd, kernelVars, localVars
<1>10. CASE sendResponse(t) \/ sendFails(t)
  BY <1>10 DEF sendResponse, sendFails, kernelVars, localVars
<1>11. CASE rearmConnection(t)
  BY <1>11 DEF rearmConnection
<1>12. CASE deleteConnection(t)
  BY <1>12 DEF deleteConnection, localVars
<1> QED
  BY <1>1, <1>2, <1>3, <1>4, <1>5, <1>6, <1>7, <1>8, <1>9, <1>10, <1>11,
     <1>12
     DEF ThreadStep

(* So that the backlog stays watched.                                      *)
LEMMA BacklogStep ==
  ASSUME Enough, IndInv, BacklogWatched, [Next]_vars
  PROVE  BacklogWatched'
<1>1. ASSUME NEW t \in workers, ThreadStep(t) PROVE BacklogWatched'
  <2>1. t \in Threads
    BY DEF IndInv, Typed, ThreadsTyped
  <2>2. SUFFICES ASSUME backlog' # {}, ~listenEdge', ~Accepting(t)', ~died'
                 PROVE  \E u \in Threads : Accepting(u)'
    BY <2>1 DEF BacklogWatched, Accepting
  <2>3. backlog # {} /\ ~listenEdge /\ ~Accepting(t)
    BY <1>1, <2>1, <2>2, BacklogKept DEF IndInv
  <2>4. ~died
    BY <1>1, StepAlive
  <2>5. PICK u \in Threads : Accepting(u)
    BY <2>3, <2>4 DEF BacklogWatched, Accepting
  <2>6. Accepting(u)'
    BY <1>1, <2>1, <2>3, <2>5, OthersStay DEF IndInv, Accepting
  <2> QED
    BY <2>6
<1>2. ASSUME NEW c \in Clients, Connect(c) PROVE BacklogWatched'
  BY <1>2 DEF Connect, BacklogWatched
<1>3. ASSUME NEW c \in Clients, SendPiece(c) \/ HangUp(c) PROVE BacklogWatched'
  BY <1>3 DEF SendPiece, HangUp, kernelVars, localVars, BacklogWatched
<1>4. CASE Tick
  BY <1>4 DEF Tick, kernelVars, localVars, BacklogWatched
<1>5. CASE UNCHANGED vars
  BY <1>5 DEF vars, kernelVars, localVars, BacklogWatched
<1> QED
  BY <1>1, <1>2, <1>3, <1>4, <1>5 DEF Next, ClientStep

(* With a descriptor for every client, each connection in the backlog has  *)
(* an edge pending or a thread that comes to accept() it, for any number   *)
(* of threads (acceptEpollConnection).                                     *)
THEOREM BacklogWatchedHolds == Enough => (Spec => []BacklogWatched)
<1> SUFFICES ASSUME Enough PROVE Spec => []BacklogWatched
  OBVIOUS
<1>1. Init => BacklogWatched
  BY DEF Init, BacklogWatched
<1>2. IndInv /\ BacklogWatched /\ [Next]_vars => BacklogWatched'
  BY BacklogStep
<1> QED
  BY <1>1, <1>2, AlwaysIndInv, PTL DEF Spec

-----------------------------------------------------------------------------
(* A single worker serves its clients as Exchange says.                    *)

Ending == {"del", "close", "expireClose"}

(* The connection of c is closed.                                          *)
Gone(c) == peer[c] # "new" /\ ~Connected(c)

(* Every piece of a request that is not answered is in the socket, or in   *)
(* the buffer of the worker that reads it; the worker that answers has     *)
(* read the whole request.                                                 *)
AccountedFor(t, c) ==
  /\ Attends(t, c, {"recv"}) => asked[c] = unread[c] + got[t]
  /\ Attends(t, c, {"send"}) => asked[c] = Pieces /\ unread[c] = 0
  /\ ~Attends(t, c, {"recv", "send"} \union Ending) =>
       asked[c] = unread[c] \/ Gone(c)

Accounted(t) == \A c \in Clients : AccountedFor(t, c)

AccountedAlone == Alone => \A t \in workers : Accounted(t)

(* The steps of a worker that has no connection in hand.                   *)
Unattended == {"top", "expire", "wait", "dispatch", "accept", "add"}

(* A single worker works on an open descriptor.                            *)
LEMMA WorksOnOpen ==
  ASSUME Typed, NEW t \in Threads, Registered(t), Disarmed(t),
         pc[t] \in Working
  PROVE  cur[t] \in Fds /\ sock[cur[t]] \in Clients
BY DEF Typed, KernelTyped, Owned, Registered, Disarmed, Unregistered, Working,
       Open

(* So are the events it has.                                               *)
LEMMA EventsOpen ==
  ASSUME Typed, NEW t \in Threads, Registered(t), Disarmed(t),
         NEW fd \in Fds, fd \in batch[t]
  PROVE  sock[fd] \in Clients
BY DEF Typed, KernelTyped, Registered, Disarmed, Open

(* A worker with no connection in hand attends no client.                  *)
LEMMA AttendsNone ==
  ASSUME NEW t, NEW c, pc[t] \in Unattended
  PROVE  /\ ~Attends(t, c, {"recv"}) /\ ~Attends(t, c, {"send"})
         /\ ~Attends(t, c, {"rearm"}) /\ ~Attends(t, c, Ending)
         /\ ~Attends(t, c, {"recv", "send"} \union Ending)
BY DEF Attends, Unattended, Ending

(* The pieces are accounted for after a step of the worker.                *)
LEMMA AccountedStep ==
  ASSUME Typed, OneSocket, NEW t \in Threads, ThreadStep(t),
         Registered(t), Disarmed(t), QueueOpen(t), Accounted(t)
  PROVE  Accounted(t)'
<1> SUFFICES ASSUME NEW c \in Clients PROVE AccountedFor(t, c)'
  BY DEF Accounted
<1>0. AccountedFor(t, c)
  BY DEF Accounted
<1>t. /\ pc \in [Threads -> States] /\ cur \in [Threads -> Fds \union {NoFd}]
      /\ sock \in [Fds -> Clients \union {NoClient}]
      /\ got \in [Threads -> 0 .. (Pieces - 1)]
      /\ unread \in [Clients -> 0 .. Pieces] /\ asked \in [Clients -> 0 .. Pieces]
  BY DEF Typed, KernelTyped, ThreadsTyped
<1>a. ASSUME UNCHANGED <<sock, backlog, unread, asked, peer>>,
             pc[t] \in Unattended, pc'[t] \in Unattended
      PROVE  AccountedFor(t, c)'
  BY <1>0, <1>a DEF AccountedFor, Attends, Gone, Connected, Unattended, Ending
<1> USE DEF At, Goto
<1>1. CASE computeTimeout(t) \/ startWait(t) \/ epollWaitTimeout(t) \/ epollWait(t)
  <2>1. UNCHANGED <<sock, backlog, unread, asked, peer>>
    BY <1>1 DEF computeTimeout, startWait, epollWaitTimeout, epollWait,
      kernelVars, clientVars
  <2>2. pc[t] \in Unattended /\ pc'[t] \in Unattended
    BY <1>1, <1>t DEF computeTimeout, startWait, epollWaitTimeout, epollWait,
      Unattended
  <2> QED
    BY <1>a, <2>1, <2>2
<1>2. CASE dispatchEnd(t) \/ dispatchListen(t) \/ acceptEnd(t) \/ addConnection(t)
  <2>1. UNCHANGED <<sock, backlog, unread, asked, peer>>
    BY <1>2 DEF dispatchEnd, dispatchListen, acceptEnd, addConnection,
      kernelVars, clientVars
  <2>2. pc[t] \in Unattended /\ pc'[t] \in Unattended
    BY <1>2, <1>t DEF dispatchEnd, dispatchListen, acceptEnd, addConnection,
      Unattended
  <2> QED
    BY <1>a, <2>1, <2>2
<1>3. CASE dispatchClient(t)
  <2>1. PICK fd \in batch[t] \ {Listen} : cur' = [cur EXCEPT ![t] = fd]
    BY <1>3 DEF dispatchClient
  <2>2. fd \in Fds
    BY <2>1 DEF Typed, ThreadsTyped
  <2>3. /\ cur'[t] = fd /\ pc[t] = "dispatch" /\ pc'[t] = "recv" /\ got'[t] = 0
        /\ UNCHANGED <<sock, backlog, unread, asked, peer>>
    BY <1>3, <1>t, <2>1 DEF dispatchClient, kernelVars, clientVars
  <2>4. asked[c] = unread[c] \/ Gone(c)
    BY <1>0, <2>3 DEF AccountedFor, Attends, Ending
  <2>5. sock[fd] = c => ~Gone(c)
    BY <2>2 DEF Gone, Connected
  <2>6. unread[c] \in Nat
    BY <1>t
  <2> QED
    BY <2>2, <2>3, <2>4, <2>5, <2>6 DEF AccountedFor, Attends, Gone, Connected
<1>4. CASE expireConnection(t)
  <2>1. PICK fd \in Fds : cur' = [cur EXCEPT ![t] = fd]
    BY <1>4 DEF expireConnection, ExpiredAt, Peek, Queued
  <2>3. /\ pc[t] = "expire" /\ pc'[t] = "expireClose"
        /\ UNCHANGED <<sock, backlog, unread, asked, peer>>
    BY <1>4, <1>t DEF expireConnection, clientVars
  <2>4. asked[c] = unread[c] \/ Gone(c)
    BY <1>0, <2>3 DEF AccountedFor, Attends, Ending
  <2> QED
    BY <2>3, <2>4 DEF AccountedFor, Attends, Gone, Connected
<1>5. CASE expireClose(t) \/ closeConnection(t)
  <2>1. /\ pc[t] \in {"expireClose", "close"} /\ pc'[t] \in {"expire", "dispatch"}
        /\ sock' = [sock EXCEPT ![cur[t]] = NoClient]
        /\ UNCHANGED <<backlog, unread, asked, peer>>
    BY <1>5, <1>t DEF expireClose, closeConnection, closeFd, clientVars
  <2>2. cur[t] \in Fds /\ sock[cur[t]] \in Clients
    BY <2>1, WorksOnOpen DEF Working
  <2>3. CASE sock[cur[t]] = c
    <3>1. \A fd \in Fds : sock'[fd] # c
      BY <1>t, <2>1, <2>2, <2>3, EventLoopAssumption DEF OneSocket, Open
    <3>2. peer[c] # "new" /\ c \notin backlog
      BY <2>2, <2>3 DEF OneSocket
    <3>3. Gone(c)'
      BY <2>1, <3>1, <3>2 DEF Gone, Connected
    <3> QED
      BY <2>1, <3>3 DEF AccountedFor, Attends
  <2>4. CASE sock[cur[t]] # c
    <3>1. asked[c] = unread[c] \/ Gone(c)
      BY <1>0, <2>4 DEF AccountedFor, Attends
    <3>2. Gone(c) => Gone(c)'
      BY <1>t, <2>1, <2>2, EventLoopAssumption DEF Gone, Connected
    <3> QED
      BY <2>1, <3>1, <3>2 DEF AccountedFor, Attends
  <2> QED
    BY <2>3, <2>4
<1>6. CASE acceptConnection(t)
  <2>1. PICK d \in backlog, fd \in Fds : /\ ~Open(fd)
                                          /\ sock' = [sock EXCEPT ![fd] = d]
                                          /\ backlog' = backlog \ {d}
    BY <1>6 DEF acceptConnection
  <2>2. /\ pc[t] = "accept" /\ pc'[t] = "add"
        /\ UNCHANGED <<unread, asked, peer>>
    BY <1>6, <1>t DEF acceptConnection, clientVars
  <2>3. asked[c] = unread[c] \/ Gone(c)
    BY <1>0, <2>2 DEF AccountedFor, Attends, Ending
  <2>4. Gone(c) => Gone(c)'
    BY <1>t, <2>1, <2>2 DEF Gone, Connected
  <2> QED
    BY <2>2, <2>3, <2>4 DEF AccountedFor, Attends
<1>7. CASE recvData(t)
  <2> DEFINE d == sock[cur[t]]
             n == got[t] + unread[d]
  <2>1. cur[t] \in Fds /\ d \in Clients /\ pc[t] = "recv"
    BY <1>7, WorksOnOpen DEF recvData, Working
  <2>2. /\ unread' = [unread EXCEPT ![d] = 0]
        /\ got' = [got EXCEPT ![t] = OffsetAfter(n)]
        /\ UNCHANGED <<sock, backlog, cur, asked, peer>>
        /\ pc' = [pc EXCEPT ![t] = IF isRequestComplete(n) THEN "send" ELSE "recv"]
    BY <1>7 DEF recvData, clientVars
  <2>3. CASE d = c
    <3>1. asked[c] = n /\ asked[c] <= Pieces /\ n \in Nat
      BY <1>0, <1>t, <2>1, <2>3, EventLoopAssumption DEF AccountedFor, Attends
    <3>2. unread'[c] = 0 /\ got'[t] = OffsetAfter(n)
      BY <1>t, <2>1, <2>2, <2>3
    <3> HIDE DEF n, d
    <3>3. CASE isRequestComplete(n)
      <4>1. pc'[t] = "send" /\ asked[c] = Pieces
        BY <1>t, <2>2, <3>1, <3>3, EventLoopAssumption DEF isRequestComplete
      <4> QED
        BY <2>1, <2>2, <2>3, <3>2, <4>1 DEF AccountedFor, Attends, d
    <3>4. CASE ~isRequestComplete(n)
      <4>1. pc'[t] = "recv" /\ got'[t] = n
        BY <1>t, <2>2, <3>2, <3>4 DEF OffsetAfter
      <4> QED
        BY <2>1, <2>2, <2>3, <3>1, <3>2, <4>1 DEF AccountedFor, Attends, d
    <3> QED
      BY <3>3, <3>4
  <2>4. CASE d # c
    <3>1. asked[c] = unread[c] \/ Gone(c)
      BY <1>0, <2>4 DEF AccountedFor, Attends
    <3>2. unread'[c] = unread[c] /\ sock'[cur'[t]] # c
      BY <1>t, <2>1, <2>2, <2>4
    <3> QED
      BY <2>2, <3>1, <3>2 DEF AccountedFor, Attends, Gone, Connected
  <2> QED
    BY <2>3, <2>4
<1>8. CASE recvEnd(t) \/ sendFails(t) \/ deleteConnection(t)
  <2>1. /\ pc[t] \in {"recv", "send", "del"} /\ pc'[t] \in {"del", "close"}
        /\ UNCHANGED <<sock, backlog, unread, asked, peer, cur>>
    BY <1>8, <1>t DEF recvEnd, sendFails, deleteConnection, kernelVars,
      clientVars, localVars
  <2> QED
    BY <1>0, <2>1 DEF AccountedFor, Attends, Gone, Connected, Ending
<1>9. CASE sendResponse(t)
  <2> DEFINE d == sock[cur[t]]
  <2>1. cur[t] \in Fds /\ d \in Clients /\ pc[t] = "send"
    BY <1>9, WorksOnOpen DEF sendResponse, Working
  <2>2. /\ asked' = [asked EXCEPT ![d] = 0] /\ pc'[t] \in {"rearm", "del"}
        /\ UNCHANGED <<sock, backlog, unread, peer, cur>>
    BY <1>9, <1>t DEF sendResponse, kernelVars, localVars
  <2>3. CASE d = c
    <3>1. asked'[c] = 0 /\ unread'[c] = 0
      BY <1>0, <1>t, <2>1, <2>2, <2>3 DEF AccountedFor, Attends
    <3> QED
      BY <2>2, <3>1 DEF AccountedFor, Attends
  <2>4. CASE d # c
    <3>1. asked[c] = unread[c] \/ Gone(c)
      BY <1>0, <2>4 DEF AccountedFor, Attends
    <3>2. asked'[c] = asked[c] /\ unread'[c] = unread[c]
      BY <1>t, <2>1, <2>2, <2>4
    <3> QED
      BY <2>2, <3>1, <3>2 DEF AccountedFor, Attends, Gone, Connected
  <2> QED
    BY <2>3, <2>4
<1>10. CASE rearmConnection(t)
  <2>1. /\ pc[t] = "rearm" /\ pc'[t] = "dispatch"
        /\ UNCHANGED <<sock, backlog, unread, asked, peer>>
    BY <1>10, <1>t DEF rearmConnection, clientVars
  <2> QED
    BY <1>0, <2>1 DEF AccountedFor, Attends, Gone, Connected, Ending
<1> QED
  BY <1>1, <1>2, <1>3, <1>4, <1>5, <1>6, <1>7, <1>8, <1>9, <1>10
     DEF ThreadStep

(* ... and after a step of a client: a piece it sends is in its socket.    *)
LEMMA AccountedClient ==
  ASSUME Typed, OneSocket, NEW t \in Threads, NEW d \in Clients, ClientStep(d),
         Accounted(t)
  PROVE  Accounted(t)'
<1> SUFFICES ASSUME NEW c \in Clients PROVE AccountedFor(t, c)'
  BY DEF Accounted
<1>0. AccountedFor(t, c)
  BY DEF Accounted
<1>1. CASE Connect(d)
  <2>1. /\ peer' = [peer EXCEPT ![d] = "up"] /\ peer[d] = "new"
        /\ backlog' = backlog \union {d}
        /\ UNCHANGED <<sock, unread, asked, pc, cur, got>>
    BY <1>1 DEF Connect, localVars
  <2>2. Gone(c) => Gone(c)'
    BY <2>1 DEF Gone, Connected, Typed, KernelTyped
  <2> QED
    BY <1>0, <2>1, <2>2 DEF AccountedFor, Attends
<1>2. CASE SendPiece(d)
  <2>1. /\ Connected(d) /\ asked[d] < Pieces
        /\ asked' = [asked EXCEPT ![d] = @ + 1]
        /\ unread' = [unread EXCEPT ![d] = @ + 1]
        /\ UNCHANGED <<sock, backlog, peer, pc, cur, got>>
    BY <1>2 DEF SendPiece, localVars
  <2>2. asked[c] \in Nat /\ unread[c] \in Nat /\ got[t] \in Nat /\ Pieces \in Nat
    BY EventLoopAssumption DEF Typed, KernelTyped, ThreadsTyped
  <2>3. CASE c = d
    <3>1. asked'[c] = asked[c] + 1 /\ unread'[c] = unread[c] + 1
      BY <2>1, <2>3 DEF Typed, KernelTyped
    <3>2. ~Gone(c) /\ asked[c] # Pieces
      BY <2>1, <2>2, <2>3 DEF Gone
    <3> QED
      BY <1>0, <2>1, <2>2, <3>1, <3>2 DEF AccountedFor, Attends
  <2>4. CASE c # d
    <3>1. asked'[c] = asked[c] /\ unread'[c] = unread[c]
      BY <2>1, <2>4 DEF Typed, KernelTyped
    <3> QED
      BY <1>0, <2>1, <3>1 DEF AccountedFor, Attends, Gone, Connected
  <2> QED
    BY <2>3, <2>4
<1>3. CASE HangUp(d)
  <2>1. /\ peer' = [peer EXCEPT ![d] = "down"]
        /\ UNCHANGED <<sock, backlog, unread, asked, pc, cur, got>>
    BY <1>3 DEF HangUp, kernelVars, localVars
  <2>2. Gone(c) => Gone(c)'
    BY <2>1 DEF Gone, Connected, Typed, KernelTyped
  <2> QED
    BY <1>0, <2>1, <2>2 DEF AccountedFor, Attends
<1> QED
  BY <1>1, <1>2, <1>3 DEF ClientStep

(* The pieces are accounted for as long as there is a single worker.       *)
LEMMA AccountedAloneStep ==
  ASSUME IndInv, AccountedAlone, [Next]_vars
  PROVE  AccountedAlone'
<1>1. workers' = workers /\ workers \subseteq Threads
  BY DEF Next, vars, IndInv, Typed, ThreadsTyped
<1> SUFFICES ASSUME Alone, NEW t \in workers PROVE Accounted(t)'
  BY <1>1 DEF AccountedAlone, Alone
<1>2. /\ t \in Threads /\ Accounted(t) /\ Typed /\ OneSocket
      /\ Registered(t) /\ Disarmed(t) /\ QueueOpen(t)
  BY <1>1 DEF AccountedAlone, IndInv, Sole
<1>3. ASSUME NEW u \in workers, ThreadStep(u) PROVE Accounted(t)'
  <2>1. u = t
    BY <1>2, <1>3, OneWorker
  <2> QED
    BY <1>2, <1>3, <2>1, AccountedStep
<1>4. ASSUME NEW d \in Clients, ClientStep(d) PROVE Accounted(t)'
  BY <1>2, <1>4, AccountedClient
<1>5. ASSUME UNCHANGED <<sock, backlog, unread, asked, peer, pc, cur, got>>
      PROVE  Accounted(t)'
  BY <1>2, <1>5 DEF Accounted, AccountedFor, Attends, Gone, Connected
<1>6. CASE Tick
  BY <1>5, <1>6 DEF Tick, kernelVars, clientVars, localVars
<1>7. CASE UNCHANGED vars
  BY <1>5, <1>7 DEF vars, kernelVars, clientVars, localVars
<1> QED
  BY <1>3, <1>4, <1>6, <1>7 DEF Next

(* It holds in every state.                                                *)
LEMMA AlwaysAccounted == Spec => [](IndInv /\ AccountedAlone)
<1>1. Init => AccountedAlone
  <2> SUFFICES ASSUME Init, NEW t \in workers, NEW c \in Clients
               PROVE  AccountedFor(t, c)
    BY DEF AccountedAlone, Accounted
  <2>1. t \in Threads
    BY DEF Init
  <2> QED
    BY <2>1 DEF Init, AccountedFor, Attends
<1>2. IndInv /\ AccountedAlone /\ [Next]_vars => AccountedAlone'
  BY AccountedAloneStep
<1> QED
  BY <1>1, <1>2, AlwaysIndInv, PTL DEF Spec

(* What the single worker t does for c, in the terms of Exchange.          *)
PhaseBy(t, c) ==
  IF Gone(c) \/ Attends(t, c, Ending) THEN "over"
  ELSE IF Attends(t, c, {"recv"}) THEN "recv"
  ELSE IF Attends(t, c, {"send"}) THEN "send"
  ELSE IF Attends(t, c, {"rearm"}) THEN "done"
  ELSE "idle"

PartBy(t, c) ==
  IF asked[c] = 0 \/ PhaseBy(t, c) = "over" THEN "none"
  ELSE IF asked[c] < Pieces THEN "partly" ELSE "whole"

(* The mapping of EventLoop, when t is the only worker.                    *)
LEMMA PhaseByOne ==
  ASSUME NEW t, workers = {t}, NEW c
  PROVE  PhaseOf(c) = PhaseBy(t, c) /\ PartOf(c) = PartBy(t, c)
<1>1. \A states : Serving(c, states) <=> Attends(t, c, states)
  BY DEF Serving
<1>2. Over(c) <=> Gone(c) \/ Attends(t, c, Ending)
  BY <1>1 DEF Over, Gone, Ending
<1> HIDE DEF Over
<1>3. PhaseOf(c) = PhaseBy(t, c)
  BY <1>1, <1>2 DEF PhaseOf, PhaseBy
<1>4. Over(c) <=> PhaseBy(t, c) = "over"
  BY <1>2 DEF PhaseBy
<1> QED
  BY <1>3, <1>4 DEF PartOf, PartBy

(* The same for the state a step leads to.                                 *)
LEMMA PhaseByOnePrimed ==
  ASSUME NEW t, workers' = {t}, NEW c
  PROVE  PhaseOf(c)' = PhaseBy(t, c)' /\ PartOf(c)' = PartBy(t, c)'
<1>1. \A states : Serving(c, states)' <=> Attends(t, c, states)'
  BY DEF Serving
<1>2. Over(c)' <=> Gone(c)' \/ Attends(t, c, Ending)'
  BY DEF Over, Serving, Gone, Ending
<1>3. PhaseOf(c)' = PhaseBy(t, c)'
  BY <1>1, <1>2 DEF PhaseOf, PhaseBy
<1>4. Over(c)' <=> PhaseBy(t, c)' = "over"
  BY <1>2 DEF PhaseBy
<1> QED
  BY <1>3, <1>4 DEF PartOf, PartBy

(* A step of Exchange for one client, and one that leaves a client alone.  *)
Moves(p, r, q, s) ==
  \/ q = p /\ s = r
  \/ p # "over" /\ r # "whole" /\ q = p /\ s \in {"partly", "whole"}
  \/ p = "idle" /\ q = "recv" /\ s = r
  \/ p = "recv" /\ r = "whole" /\ q = "send" /\ s = "whole"
  \/ p = "send" /\ q = "done" /\ s = "none"
  \/ p = "done" /\ q = "idle" /\ s = r
  \/ p # "over" /\ q = "over" /\ s = "none"

Stays(t, c) == PhaseBy(t, c)' = PhaseBy(t, c) /\ PartBy(t, c)' = PartBy(t, c)

Serves(t) ==
  \/ \A c \in Clients : Stays(t, c)
  \/ \E d \in Clients :
       /\ Moves(PhaseBy(t, d), PartBy(t, d), PhaseBy(t, d)', PartBy(t, d)')
       /\ \A c \in Clients \ {d} : Stays(t, c)

(* The phase of a client its worker attends to, and of one it does not.    *)
LEMMA PhaseOfAttended ==
  ASSUME NEW t, NEW c, cur[t] \in Fds, sock[cur[t]] = c
  PROVE  /\ ~Gone(c)
         /\ pc[t] = "recv" => PhaseBy(t, c) = "recv"
         /\ pc[t] = "send" => PhaseBy(t, c) = "send"
         /\ pc[t] = "rearm" => PhaseBy(t, c) = "done"
         /\ pc[t] \in Ending => PhaseBy(t, c) = "over"
<1>1. ~Gone(c)
  BY DEF Gone, Connected
<1> QED
  BY <1>1 DEF PhaseBy, Attends, Ending

(* A worker with no connection in hand, or with that of another client.    *)
LEMMA PhaseOfOthers ==
  ASSUME NEW t, NEW c,
         pc[t] \in Unattended \/ ~(cur[t] \in Fds /\ sock[cur[t]] = c)
  PROVE  PhaseBy(t, c) = IF Gone(c) THEN "over" ELSE "idle"
BY DEF PhaseBy, Attends, Unattended, Ending

(* Every step of the single worker is a step of Exchange.                  *)
LEMMA WorkerServes ==
  ASSUME Typed, OneSocket, NEW t \in Threads, ThreadStep(t),
         Registered(t), Disarmed(t), QueueOpen(t), Accounted(t)
  PROVE  Serves(t)
<1>t. /\ pc \in [Threads -> States] /\ cur \in [Threads -> Fds \union {NoFd}]
      /\ sock \in [Fds -> Clients \union {NoClient}]
      /\ asked \in [Clients -> 0 .. Pieces] /\ Pieces \in Nat \ {0}
  BY EventLoopAssumption DEF Typed, KernelTyped, ThreadsTyped
<1>b. ASSUME NEW c \in Clients, asked'[c] = asked[c],
             PhaseBy(t, c)' = PhaseBy(t, c)
      PROVE  Stays(t, c)
  BY <1>b DEF Stays, PartBy
<1>c. ASSUME NEW d \in Clients, UNCHANGED <<sock, backlog, peer>>,
             \A c \in Clients \ {d} : asked'[c] = asked[c],
             pc[t] \in Unattended \/ (cur[t] \in Fds /\ sock[cur[t]] = d),
             pc'[t] \in Unattended \/ (cur'[t] \in Fds /\ sock[cur'[t]] = d),
             NEW c \in Clients \ {d}
      PROVE  Stays(t, c)
  <2>1. Gone(c)' = Gone(c)
    BY <1>c DEF Gone, Connected
  <2>2. PhaseBy(t, c) = IF Gone(c) THEN "over" ELSE "idle"
    BY <1>c, PhaseOfOthers
  <2>3. PhaseBy(t, c)' = IF Gone(c)' THEN "over" ELSE "idle"
    BY <1>c DEF PhaseBy, Attends, Unattended, Ending
  <2> QED
    BY <1>b, <1>c, <2>1, <2>2, <2>3
<1>d. ASSUME UNCHANGED <<sock, backlog, peer, asked>>,
             pc[t] \in Unattended, pc'[t] \in Unattended
      PROVE  Serves(t)
  <2> SUFFICES ASSUME NEW c \in Clients PROVE Stays(t, c)
    BY DEF Serves
  <2>1. PhaseBy(t, c)' = PhaseBy(t, c)
    BY <1>d DEF PhaseBy, Attends, Unattended, Ending, Gone, Connected
  <2> QED
    BY <1>b, <1>d, <2>1
<1> USE DEF At, Goto
<1>1. CASE computeTimeout(t) \/ startWait(t) \/ epollWaitTimeout(t) \/ epollWait(t)
  <2>1. UNCHANGED <<sock, backlog, peer, asked>>
    BY <1>1 DEF computeTimeout, startWait, epollWaitTimeout, epollWait,
      kernelVars, clientVars
  <2>2. pc[t] \in Unattended /\ pc'[t] \in Unattended
    BY <1>1, <1>t DEF computeTimeout, startWait, epollWaitTimeout, epollWait,
      Unattended
  <2> QED
    BY <1>d, <2>1, <2>2
<1>2. CASE dispatchEnd(t) \/ dispatchListen(t) \/ acceptEnd(t) \/ addConnection(t)
  <2>1. UNCHANGED <<sock, backlog, peer, asked>>
    BY <1>2 DEF dispatchEnd, dispatchListen, acceptEnd, addConnection,
      kernelVars, clientVars
  <2>2. pc[t] \in Unattended /\ pc'[t] \in Unattended
    BY <1>2, <1>t DEF dispatchEnd, dispatchListen, acceptEnd, addConnection,
      Unattended
  <2> QED
    BY <1>d, <2>1, <2>2
<1>3. CASE dispatchClient(t)
  <2>1. PICK fd \in batch[t] \ {Listen} : cur' = [cur EXCEPT ![t] = fd]
    BY <1>3 DEF dispatchClient
  <2>2. fd \in Fds /\ sock[fd] \in Clients
    BY <2>1, EventsOpen DEF Typed, ThreadsTyped
  <2>3. /\ cur'[t] = fd /\ pc[t] = "dispatch" /\ pc'[t] = "recv"
        /\ UNCHANGED <<sock, backlog, peer, asked>>
    BY <1>3, <1>t, <2>1 DEF dispatchClient, kernelVars, clientVars
  <2>4. \A c \in Clients \ {sock[fd]} : Stays(t, c)
    BY <1>c, <2>2, <2>3 DEF Unattended
  <2>5. ~Gone(sock[fd])
    BY <2>2 DEF Gone, Connected
  <2>6. PhaseBy(t, sock[fd]) = "idle"
    BY <2>3, <2>5, PhaseOfOthers DEF Unattended
  <2>7. PICK d \in Clients : d = sock[fd]
    BY <2>2
  <2>8. PhaseBy(t, d)' = "recv"
    BY <2>2, <2>3, <2>5, <2>7 DEF PhaseBy, Attends, Ending, Gone, Connected
  <2>9. PartBy(t, d)' = PartBy(t, d)
    BY <2>3, <2>6, <2>7, <2>8 DEF PartBy
  <2> QED
    BY <2>4, <2>6, <2>7, <2>8, <2>9 DEF Serves, Moves
<1>4. CASE expireConnection(t)
  <2>1. PICK fd \in Queued(t) : cur' = [cur EXCEPT ![t] = fd]
    BY <1>4 DEF expireConnection, ExpiredAt, Peek
  <2>2. fd \in Fds /\ sock[fd] \in Clients
    BY <1>t, <2>1 DEF Queued, QueueOpen, Open
  <2>3. /\ cur'[t] = fd /\ pc[t] = "expire" /\ pc'[t] = "expireClose"
        /\ UNCHANGED <<sock, backlog, peer, asked>>
    BY <1>4, <1>t, <2>1 DEF expireConnection, clientVars
  <2>4. \A c \in Clients \ {sock[fd]} : Stays(t, c)
    BY <1>c, <2>2, <2>3 DEF Unattended
  <2>5. ~Gone(sock[fd])
    BY <2>2 DEF Gone, Connected
  <2>6. PhaseBy(t, sock[fd]) = "idle"
    BY <2>3, <2>5, PhaseOfOthers DEF Unattended
  <2>7. PICK d \in Clients : d = sock[fd]
    BY <2>2
  <2>8. PhaseBy(t, d)' = "over" /\ PartBy(t, d)' = "none"
    BY <2>2, <2>3, <2>7 DEF PartBy, PhaseBy, Attends, Ending
  <2> QED
    BY <2>4, <2>6, <2>7, <2>8 DEF Serves, Moves
<1>5. CASE expireClose(t) \/ closeConnection(t)
  <2>1. /\ pc[t] \in {"expireClose", "close"} /\ pc'[t] \in {"expire", "dispatch"}
        /\ sock' = [sock EXCEPT ![cur[t]] = NoClient]
        /\ UNCHANGED <<backlog, asked, peer>>
    BY <1>5, <1>t DEF expireClose, closeConnection, closeFd, clientVars
  <2>2. cur[t] \in Fds /\ sock[cur[t]] \in Clients
    BY <2>1, WorksOnOpen DEF Working
  <2> SUFFICES ASSUME NEW c \in Clients PROVE Stays(t, c)
    BY DEF Serves
  <2>3. CASE sock[cur[t]] = c
    <3>1. \A fd \in Fds : sock'[fd] # c
      BY <1>t, <2>1, <2>2, <2>3, EventLoopAssumption DEF OneSocket, Open
    <3>2. peer[c] # "new" /\ c \notin backlog
      BY <2>2, <2>3 DEF OneSocket
    <3>3. Gone(c)'
      BY <2>1, <3>1, <3>2 DEF Gone, Connected
    <3>4. PhaseBy(t, c) = "over" /\ PhaseBy(t, c)' = "over"
      BY <2>1, <2>2, <2>3, <3>3 DEF PhaseBy, Attends, Ending
    <3> QED
      BY <1>b, <2>1, <3>4
  <2>4. CASE sock[cur[t]] # c
    <3>1. Gone(c)' = Gone(c)
      BY <1>t, <2>1, <2>2, <2>4, EventLoopAssumption DEF Gone, Connected
    <3>2. PhaseBy(t, c) = IF Gone(c) THEN "over" ELSE "idle"
      BY <2>4, PhaseOfOthers
    <3>3. PhaseBy(t, c)' = IF Gone(c)' THEN "over" ELSE "idle"
      BY <2>1 DEF PhaseBy, Attends, Ending
    <3> QED
      BY <1>b, <2>1, <3>1, <3>2, <3>3
  <2> QED
    BY <2>3, <2>4
<1>6. CASE acceptConnection(t)
  <2>1. PICK d \in backlog, fd \in Fds : /\ ~Open(fd)
                                          /\ sock' = [sock EXCEPT ![fd] = d]
                                          /\ backlog' = backlog \ {d}
    BY <1>6 DEF acceptConnection
  <2>2. /\ pc[t] = "accept" /\ pc'[t] = "add"
        /\ UNCHANGED <<asked, peer>>
    BY <1>6, <1>t DEF acceptConnection, clientVars
  <2> SUFFICES ASSUME NEW c \in Clients PROVE Stays(t, c)
    BY DEF Serves
  <2>3. Connected(c)' = Connected(c)
    BY <1>t, <2>1, EventLoopAssumption DEF Connected, Open
  <2>4. Gone(c)' = Gone(c)
    BY <2>2, <2>3 DEF Gone
  <2>5. PhaseBy(t, c) = IF Gone(c) THEN "over" ELSE "idle"
    BY <2>2, PhaseOfOthers DEF Unattended
  <2>6. PhaseBy(t, c)' = IF Gone(c)' THEN "over" ELSE "idle"
    BY <2>2 DEF PhaseBy, Attends, Ending
  <2> QED
    BY <1>b, <2>2, <2>4, <2>5, <2>6
<1>7. CASE recvData(t)
  <2>1. /\ cur[t] \in Fds /\ sock[cur[t]] \in Clients /\ pc[t] = "recv"
        /\ UNCHANGED <<sock, backlog, peer, asked, cur>>
    BY <1>7, WorksOnOpen DEF recvData, Working, clientVars
  <2>2. PICK d \in Clients : d = sock[cur[t]]
    BY <2>1
  <2>3. asked[d] = unread[d] + got[t]
    BY <2>1, <2>2 DEF Accounted, AccountedFor, Attends
  <2>4. pc'[t] = IF isRequestComplete(got[t] + unread[d]) THEN "send" ELSE "recv"
    BY <1>7, <1>t, <2>2 DEF recvData
  <2>5. \A c \in Clients \ {d} : Stays(t, c)
    BY <1>c, <2>1, <2>2
  <2>6. PhaseBy(t, d) = "recv" /\ ~Gone(d)
    BY <2>1, <2>2, PhaseOfAttended
  <2>7. ~Gone(d)'
    BY <2>1, <2>6 DEF Gone, Connected
  <2>8. CASE pc'[t] = "recv"
    <3>1. PhaseBy(t, d)' = "recv"
      BY <2>1, <2>2, <2>7, <2>8 DEF PhaseBy, Attends, Ending
    <3> QED
      BY <1>b, <2>1, <2>5, <2>6, <3>1 DEF Serves, Moves, Stays
  <2>9. CASE pc'[t] = "send"
    <3>1. PhaseBy(t, d)' = "send"
      BY <2>1, <2>2, <2>7, <2>9 DEF PhaseBy, Attends, Ending
    <3>2. asked[d] = Pieces
      <4>1. isRequestComplete(got[t] + unread[d])
        BY <2>4, <2>9
      <4>2. asked[d] \in 0 .. Pieces /\ unread[d] \in 0 .. Pieces /\ got[t] \in Nat
        BY <1>t DEF Typed, KernelTyped, ThreadsTyped
      <4> QED
        BY <1>t, <2>3, <4>1, <4>2 DEF isRequestComplete
    <3>3. PartBy(t, d) = "whole" /\ PartBy(t, d)' = "whole"
      BY <1>t, <2>1, <2>6, <3>1, <3>2 DEF PartBy
    <3> QED
      BY <2>5, <2>6, <3>1, <3>3 DEF Serves, Moves
  <2> QED
    BY <2>4, <2>8, <2>9
<1>8. CASE recvEnd(t) \/ sendFails(t) \/ deleteConnection(t)
  <2>1. /\ pc[t] \in {"recv", "send", "del"} /\ pc'[t] \in {"del", "close"}
        /\ UNCHANGED <<sock, backlog, asked, peer, cur>>
    BY <1>8, <1>t DEF recvEnd, sendFails, deleteConnection, kernelVars,
      clientVars, localVars
  <2>2. cur[t] \in Fds /\ sock[cur[t]] \in Clients
    BY <2>1, WorksOnOpen DEF Working
  <2>3. PICK d \in Clients : d = sock[cur[t]]
    BY <2>2
  <2>4. \A c \in Clients \ {d} : Stays(t, c)
    BY <1>c, <2>1, <2>2, <2>3
  <2>5. PhaseBy(t, d)' = "over" /\ PartBy(t, d)' = "none"
    BY <2>1, <2>2, <2>3 DEF PartBy, PhaseBy, Attends, Ending
  <2>6. PhaseBy(t, d) \in {"recv", "send", "over"}
    BY <2>1, <2>2, <2>3, PhaseOfAttended DEF Ending
  <2>7. PhaseBy(t, d) = "over" => PartBy(t, d) = "none"
    BY DEF PartBy
  <2> QED
    BY <2>4, <2>5, <2>6, <2>7 DEF Serves, Moves
<1>9. CASE sendResponse(t)
  <2>1. cur[t] \in Fds /\ sock[cur[t]] \in Clients /\ pc[t] = "send"
    BY <1>9, WorksOnOpen DEF sendResponse, Working
  <2>2. PICK d \in Clients : d = sock[cur[t]]
    BY <2>1
  <2>3. /\ asked' = [asked EXCEPT ![d] = 0] /\ pc'[t] \in {"rearm", "del"}
        /\ UNCHANGED <<sock, backlog, peer, cur>>
    BY <1>9, <1>t, <2>2 DEF sendResponse, kernelVars, localVars
  <2>4. asked'[d] = 0 /\ \A c \in Clients \ {d} : asked'[c] = asked[c]
    BY <1>t, <2>3
  <2>5. \A c \in Clients \ {d} : Stays(t, c)
    BY <1>c, <2>1, <2>2, <2>3, <2>4
  <2>6. PhaseBy(t, d) = "send" /\ ~Gone(d)
    BY <2>1, <2>2, PhaseOfAttended
  <2>7. ~Gone(d)'
    BY <2>3, <2>6 DEF Gone, Connected
  <2>8. PhaseBy(t, d)' \in {"done", "over"}
    BY <2>1, <2>2, <2>3, <2>7 DEF PhaseBy, Attends, Ending
  <2>9. PartBy(t, d)' = "none"
    BY <2>4 DEF PartBy
  <2> QED
    BY <2>5, <2>6, <2>8, <2>9 DEF Serves, Moves
<1>10. CASE rearmConnection(t)
  <2>1. /\ pc[t] = "rearm" /\ pc'[t] = "dispatch"
        /\ UNCHANGED <<sock, backlog, peer, asked>>
    BY <1>10, <1>t DEF rearmConnection, clientVars
  <2>2. cur[t] \in Fds /\ sock[cur[t]] \in Clients
    BY <2>1, WorksOnOpen DEF Working
  <2>3. PICK d \in Clients : d = sock[cur[t]]
    BY <2>2
  <2>4. \A c \in Clients \ {d} : Stays(t, c)
    BY <1>c, <2>1, <2>2, <2>3 DEF Unattended
  <2>5. PhaseBy(t, d) = "done" /\ ~Gone(d)
    BY <2>1, <2>2, <2>3, PhaseOfAttended
  <2>6. PhaseBy(t, d)' = "idle"
    BY <2>1, <2>5 DEF PhaseBy, Attends, Ending, Gone, Connected
  <2>7. PartBy(t, d)' = PartBy(t, d)
    BY <2>1, <2>5, <2>6 DEF PartBy
  <2> QED
    BY <2>4, <2>5, <2>6, <2>7 DEF Serves, Moves
<1> QED
  BY <1>1, <1>2, <1>3, <1>4, <1>5, <1>6, <1>7, <1>8, <1>9, <1>10
     DEF ThreadStep

(* A client only ever sends a part of a request; connecting and hanging up *)
(* are no steps of Exchange.                                               *)
LEMMA ClientServed ==
  ASSUME Typed, NEW t \in Threads, NEW d \in Clients, ClientStep(d)
  PROVE  Serves(t)
<1>t. /\ peer \in [Clients -> {"new", "up", "down"}]
      /\ asked \in [Clients -> 0 .. Pieces] /\ Pieces \in Nat \ {0}
  BY EventLoopAssumption DEF Typed, KernelTyped
<1>a. ASSUME NEW c \in Clients, UNCHANGED <<sock, pc, cur>>, Gone(c)' = Gone(c)
      PROVE  PhaseBy(t, c)' = PhaseBy(t, c)
  BY <1>a DEF PhaseBy, Attends
<1>1. CASE Connect(d)
  <2>1. /\ peer' = [peer EXCEPT ![d] = "up"] /\ peer[d] = "new"
        /\ backlog' = backlog \union {d}
        /\ UNCHANGED <<sock, asked, pc, cur>>
    BY <1>1 DEF Connect, localVars
  <2> SUFFICES ASSUME NEW c \in Clients PROVE Stays(t, c)
    BY DEF Serves
  <2>2. Gone(c)' = Gone(c)
    BY <1>t, <2>1 DEF Gone, Connected
  <2> QED
    BY <1>a, <2>1, <2>2 DEF Stays, PartBy
<1>2. CASE HangUp(d)
  <2>1. /\ peer' = [peer EXCEPT ![d] = "down"] /\ peer[d] = "up"
        /\ UNCHANGED <<sock, backlog, asked, pc, cur>>
    BY <1>2 DEF HangUp, kernelVars, localVars
  <2> SUFFICES ASSUME NEW c \in Clients PROVE Stays(t, c)
    BY DEF Serves
  <2>2. Gone(c)' = Gone(c)
    BY <1>t, <2>1 DEF Gone, Connected
  <2> QED
    BY <1>a, <2>1, <2>2 DEF Stays, PartBy
<1>3. CASE SendPiece(d)
  <2>1. /\ asked' = [asked EXCEPT ![d] = @ + 1] /\ asked[d] < Pieces
        /\ UNCHANGED <<sock, backlog, peer, pc, cur>>
    BY <1>3 DEF SendPiece, localVars
  <2>2. \A c \in Clients : PhaseBy(t, c)' = PhaseBy(t, c)
    BY <1>a, <2>1 DEF Gone, Connected
  <2>3. \A c \in Clients \ {d} : Stays(t, c)
    BY <1>t, <2>1, <2>2 DEF Stays, PartBy
  <2>4. asked'[d] = asked[d] + 1 /\ asked[d] \in Nat
    BY <1>t, <2>1
  <2>5. CASE PhaseBy(t, d) = "over"
    BY <2>2, <2>3, <2>5 DEF Serves, Moves, PartBy
  <2>6. CASE PhaseBy(t, d) # "over"
    <3>1. PartBy(t, d) # "whole"
      BY <2>1, <2>6 DEF PartBy
    <3>2. PartBy(t, d)' \in {"partly", "whole"}
      BY <2>2, <2>4, <2>6 DEF PartBy
    <3> QED
      BY <2>2, <2>3, <2>6, <3>1, <3>2 DEF Serves, Moves
  <2> QED
    BY <2>5, <2>6
<1> QED
  BY <1>1, <1>2, <1>3 DEF ClientStep

(* Changing one client's entry of both functions is a step of Exchange.    *)
LEMMA LiftMove ==
  ASSUME NEW p, NEW r, NEW q, NEW s, NEW d \in Clients,
         p = [c \in Clients |-> p[c]], r = [c \in Clients |-> r[c]],
         q = [c \in Clients |-> q[c]], s = [c \in Clients |-> s[c]],
         \A c \in Clients \ {d} : q[c] = p[c] /\ s[c] = r[c]
  PROVE  q = [p EXCEPT ![d] = q[d]] /\ s = [r EXCEPT ![d] = s[d]]
<1>1. \A c \in Clients : q[c] = [p EXCEPT ![d] = q[d]][c]
  OBVIOUS
<1>2. \A c \in Clients : s[c] = [r EXCEPT ![d] = s[d]][c]
  OBVIOUS
<1> QED
  BY <1>1, <1>2

(* The steps described by Serves are those of Exchange, when t is the only *)
(* worker.                                                                 *)
LEMMA ServesIsExchange ==
  ASSUME NEW t, workers = {t}, workers' = {t}, Serves(t)
  PROVE  [Served!ExchangeNext]_(Served!exchangeVars)
<1> DEFINE p == [c \in Clients |-> PhaseOf(c)]
           r == [c \in Clients |-> PartOf(c)]
<1>1. \A c \in Clients : PhaseOf(c) = PhaseBy(t, c) /\ PartOf(c) = PartBy(t, c)
  BY PhaseByOne
<1>2. ASSUME NEW c \in Clients
      PROVE  PhaseOf(c)' = PhaseBy(t, c)' /\ PartOf(c)' = PartBy(t, c)'
  BY PhaseByOnePrimed
<1>3. /\ \A c \in Clients : p[c] = PhaseBy(t, c) /\ r[c] = PartBy(t, c)
      /\ \A c \in Clients : p'[c] = PhaseBy(t, c)' /\ r'[c] = PartBy(t, c)'
  BY <1>1, <1>2
<1>4. CASE \A c \in Clients : Stays(t, c)
  <2>1. p' = p /\ r' = r
    BY <1>1, <1>2, <1>4 DEF Stays
  <2> QED
    BY <2>1 DEF Served!exchangeVars
<1>5. ASSUME NEW d \in Clients,
             Moves(PhaseBy(t, d), PartBy(t, d), PhaseBy(t, d)', PartBy(t, d)'),
             \A c \in Clients \ {d} : Stays(t, c)
      PROVE  [Served!ExchangeNext]_(Served!exchangeVars)
  <2>1. \A c \in Clients \ {d} : p'[c] = p[c] /\ r'[c] = r[c]
    BY <1>3, <1>5 DEF Stays
  <2>2. /\ p = [c \in Clients |-> p[c]] /\ r = [c \in Clients |-> r[c]]
        /\ p' = [c \in Clients |-> p'[c]] /\ r' = [c \in Clients |-> r'[c]]
    OBVIOUS
  <2>3. Moves(p[d], r[d], p'[d], r'[d])
    BY <1>3, <1>5
  <2> HIDE DEF p, r
  <2>4. p' = [p EXCEPT ![d] = p'[d]] /\ r' = [r EXCEPT ![d] = r'[d]]
    BY <2>1, <2>2, LiftMove
  <2>5. \/ p' = p /\ r' = r
        \/ /\ p[d] # "over" /\ r[d] # "whole"
           /\ \E x \in {"partly", "whole"} :
                p' = [p EXCEPT ![d] = p[d]] /\ r' = [r EXCEPT ![d] = x]
        \/ p[d] = "idle" /\ p' = [p EXCEPT ![d] = "recv"] /\ r' = [r EXCEPT ![d] = r[d]]
        \/ /\ p[d] = "recv" /\ r[d] = "whole"
           /\ p' = [p EXCEPT ![d] = "send"] /\ r' = [r EXCEPT ![d] = "whole"]
        \/ p[d] = "send" /\ p' = [p EXCEPT ![d] = "done"] /\ r' = [r EXCEPT ![d] = "none"]
        \/ p[d] = "done" /\ p' = [p EXCEPT ![d] = "idle"] /\ r' = [r EXCEPT ![d] = r[d]]
        \/ p[d] # "over" /\ p' = [p EXCEPT ![d] = "over"] /\ r' = [r EXCEPT ![d] = "none"]
    BY <2>2, <2>3, <2>4 DEF Moves
  <2> QED
    BY <2>5 DEF p, r, Served!ExchangeNext, Served!exchangeVars, Served!Become,
      Served!SendPart, Served!Begin, Served!Complete, Served!Answer,
      Served!Again, Served!GiveUp
<1> QED
  BY <1>4, <1>5 DEF Serves

(* Each client of a single worker is served as Exchange says, for any      *)
(* number of clients and descriptors and any cut of the requests: one      *)
(* response to each whole request, in order, none to a part of one or to   *)
(* what an earlier owner of the descriptor has sent, and nothing after the *)
(* connection is given up (accept_client_epoll.c, handleEpoll).            *)
THEOREM ExchangeAloneHolds == Spec => ExchangeAlone
<1>1. Init => Served!ExchangeInit
  <2> SUFFICES ASSUME Init, NEW c \in Clients
               PROVE  PhaseOf(c) = "idle" /\ PartOf(c) = "none"
    BY DEF Served!ExchangeInit
  <2>1. \A states : states \subseteq Working => ~Serving(c, states)
    BY DEF Init, Serving, Attends, Working
  <2>2. ~Over(c) /\ ~Serving(c, {"recv"}) /\ ~Serving(c, {"send"})
        /\ ~Serving(c, {"rearm"})
    BY <2>1 DEF Init, Over, Working
  <2> QED
    BY <2>2 DEF PhaseOf, PartOf, Init
<1>2. ASSUME IndInv, AccountedAlone, Alone, Next
      PROVE  [Served!ExchangeNext]_(Served!exchangeVars)
  <2>1. workers' = workers /\ workers \subseteq Threads
    BY <1>2 DEF Next, IndInv, Typed, ThreadsTyped
  <2>2. PICK t : workers = {t}
    <3>1. IsFiniteSet(workers)
      BY <2>1, EventLoopAssumption, FS_Subset
    <3> QED
      BY <1>2, <3>1, FS_Singleton DEF Alone
  <2>3. /\ t \in Threads /\ Accounted(t) /\ Typed /\ OneSocket
        /\ Registered(t) /\ Disarmed(t) /\ QueueOpen(t)
    BY <1>2, <2>1, <2>2 DEF AccountedAlone, IndInv, Sole
  <2>4. Serves(t)
    <3>1. ASSUME NEW u \in workers, ThreadStep(u) PROVE Serves(t)
      BY <2>2, <2>3, <3>1, WorkerServes
    <3>2. ASSUME NEW d \in Clients, ClientStep(d) PROVE Serves(t)
      BY <2>3, <3>2, ClientServed
    <3>3. CASE Tick
      BY <3>3 DEF Tick, kernelVars, clientVars, localVars, Serves, Stays,
        PhaseBy, PartBy, Attends, Gone, Connected
    <3> QED
      BY <1>2, <3>1, <3>2, <3>3 DEF Next
  <2> QED
    BY <2>1, <2>2, <2>4, ServesIsExchange
<1>3. IndInv /\ AccountedAlone /\ [Next]_vars
        => [Alone => [Served!ExchangeNext]_(Served!exchangeVars)]_vars
  BY <1>2
<1> QED
  BY <1>1, <1>3, AlwaysAccounted, PTL DEF Spec, ExchangeAlone
=============================================================================
