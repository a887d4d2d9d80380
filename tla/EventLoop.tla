------------------------------ MODULE EventLoop ------------------------------
(***************************************************************************)
(* The worker threads of src/src/accept_client_epoll.c: every thread runs  *)
(* handleEpoll over one epoll instance they all share, with its own event  *)
(* array and its own queue of connections.                                 *)
(*                                                                         *)
(* A thread's step ends at each system call whose effect other threads can *)
(* see, so that the calls of different threads interleave.  The queue is   *)
(* the table of KeepAliveTable (implemented by ConnectionQueue), one per   *)
(* thread.  The kernel's part (descriptors, epoll registrations, backlog,  *)
(* socket buffers) is modelled from how the code uses it.  The states of a *)
(* connection between the first byte and the last are one recv loop and    *)
(* one send step.                                                          *)
(*                                                                         *)
(* A connection is used once: a client that connects again is another      *)
(* member of Clients.  A request arrives in Pieces pieces.                 *)
(***************************************************************************)
EXTENDS Integers, FiniteSets

CONSTANTS
  Threads,             \* the most worker threads there can be
  Fds,                 \* descriptors the kernel can give to client sockets
  Clients,             \* client connections
  NoClient,            \* what a free descriptor is connected to
  NoFd,                \* no descriptor
  NoThread,            \* queueMutex is unlocked
  Listen,              \* socketServerFd, as an event
  KEEP_ALIVE_TIMEOUT,  \* seconds a connection may stay idle
  Pieces,              \* number of segments a request arrives in
  MaxRequests,         \* bound on the requests of one client
  MaxTime              \* bound on the clock; it stands for all later times

ASSUME EventLoopAssumption ==
  /\ IsFiniteSet(Fds)
  /\ IsFiniteSet(Threads)
  /\ NoClient \notin Clients
  /\ NoFd \notin Fds
  /\ Listen \notin Fds
  /\ NoThread \notin Threads
  /\ KEEP_ALIVE_TIMEOUT \in Nat \ {0}
  /\ Pieces \in Nat \ {0}
  /\ MaxRequests \in Nat
  /\ MaxTime \in Nat

VARIABLES
  (* kernel and clients *)
  sock,        \* descriptor -> the client it is connected to
  epoll,       \* descriptor -> its registration: "absent", "armed", "disarmed"
  backlog,     \* connections that wait for accept()
  listenEdge,  \* an edge-triggered event of the listening socket is pending
  unread,      \* client -> pieces in the receive buffer of its socket
  asked,       \* client -> pieces sent of the request it is waiting for
  requests,    \* client -> requests it has begun
  peer,        \* client -> "new", "up" or "down" (it closed its side)
  now,         \* what time(NULL) returns
  died,        \* die() was called: the process has exited
  (* threads *)
  workers,     \* the threads created, one for each processor that is online
  pc,          \* thread -> where it is in handleEpoll
  cur,         \* thread -> the descriptor it works on
  batch,       \* thread -> events of its last epoll_wait still to be handled
  got,         \* thread -> pieces in the request buffer of cur
  tnow,        \* thread -> its local variable now
  timeout,     \* thread -> epoll_wait's timeout; once in it, when it ends
  queue,       \* thread -> its queue: descriptor -> priorityTime or Absent
  queueMutex,  \* the owner of queueMutex
  (* history *)
  lastUse      \* client -> second of its accept() or of its last response

kernelVars == <<sock, epoll, backlog, listenEdge, unread>>
clientVars == <<asked, requests, peer>>
localVars  == <<cur, batch, got, tnow, timeout>>
vars == <<kernelVars, clientVars, now, died, workers, pc, localVars, queue,
          queueMutex, lastUse>>

Absent  == -1
Forever == -1
Time    == 0 .. MaxTime

States == {"top", "expire", "expireClose", "wait", "dispatch", "accept", "add",
           "recv", "send", "rearm", "del", "close"}

TypeOK ==
  /\ sock \in [Fds -> Clients \union {NoClient}]
  /\ epoll \in [Fds -> {"absent", "armed", "disarmed"}]
  /\ backlog \subseteq Clients
  /\ listenEdge \in BOOLEAN
  /\ unread \in [Clients -> 0 .. Pieces]
  /\ asked \in [Clients -> 0 .. Pieces]
  /\ requests \in [Clients -> 0 .. MaxRequests]
  /\ peer \in [Clients -> {"new", "up", "down"}]
  /\ now \in Time
  /\ died \in BOOLEAN
  /\ workers \in SUBSET Threads
  /\ pc \in [Threads -> States]
  /\ cur \in [Threads -> Fds \union {NoFd}]
  /\ batch \in [Threads -> SUBSET (Fds \union {Listen})]
  /\ got \in [Threads -> 0 .. (Pieces - 1)]
  /\ tnow \in [Threads -> Time]
  /\ timeout \in [Threads -> {Forever} \union 0 .. (2 * MaxTime)]
  /\ queue \in [Threads -> [Fds -> {Absent} \union Time]]
  /\ queueMutex \in Threads \union {NoThread}
  /\ lastUse \in [Clients -> Time]

(* acceptClientsThreadEpoll creates as many threads as sysconf() reports   *)
(* processors, at least one.                                               *)
Init ==
  /\ workers \in SUBSET Threads \ {{}}
  /\ sock = [fd \in Fds |-> NoClient]
  /\ epoll = [fd \in Fds |-> "absent"]
  /\ backlog = {}
  /\ listenEdge = FALSE
  /\ unread = [c \in Clients |-> 0]
  /\ asked = [c \in Clients |-> 0]
  /\ requests = [c \in Clients |-> 0]
  /\ peer = [c \in Clients |-> "new"]
  /\ now = 0
  /\ died = FALSE
  /\ pc = [t \in Threads |-> "top"]
  /\ cur = [t \in Threads |-> NoFd]
  /\ batch = [t \in Threads |-> {}]
  /\ got = [t \in Threads |-> 0]
  /\ tnow = [t \in Threads |-> 0]
  /\ timeout = [t \in Threads |-> Forever]
  /\ queue = [t \in Threads |-> [fd \in Fds |-> Absent]]
  /\ queueMutex = NoThread
  /\ lastUse = [c \in Clients |-> 0]

-----------------------------------------------------------------------------
(* The environment: clients and the clock.  A definition X_Y that precedes *)
(* X is a mutant of X, a form the code does not have; it is used only to   *)
(* show that the properties would notice it.                               *)

Connected(c) == c \in backlog \/ \E fd \in Fds : sock[fd] = c

(* A connection enters the backlog: an edge on the listening socket.       *)
Connect(c) ==
  /\ ~died
  /\ peer[c] = "new"
  /\ peer' = [peer EXCEPT ![c] = "up"]
  /\ backlog' = backlog \union {c}
  /\ listenEdge' = TRUE
  /\ UNCHANGED <<sock, epoll, unread, asked, requests, now, died, pc,
                 localVars, queue, queueMutex, lastUse>>

(* A client sends the next piece of a request.  It waits for the response  *)
(* before it begins another request.                                       *)
SendPiece(c) ==
  /\ ~died
  /\ peer[c] = "up" /\ Connected(c)
  /\ asked[c] < Pieces /\ unread[c] < Pieces
  /\ asked[c] = 0 => requests[c] < MaxRequests
  /\ requests' = [requests EXCEPT ![c] = IF asked[c] = 0 THEN @ + 1 ELSE @]
  /\ asked' = [asked EXCEPT ![c] = @ + 1]
  /\ unread' = [unread EXCEPT ![c] = @ + 1]
  /\ UNCHANGED <<sock, epoll, backlog, listenEdge, peer, now, died, pc,
                 localVars, queue, queueMutex, lastUse>>

HangUp(c) ==
  /\ ~died
  /\ peer[c] = "up"
  /\ peer' = [peer EXCEPT ![c] = "down"]
  /\ UNCHANGED <<kernelVars, asked, requests, now, died, pc, localVars, queue,
                 queueMutex, lastUse>>

Tick ==
  /\ ~died
  /\ now < MaxTime
  /\ now' = now + 1
  /\ UNCHANGED <<kernelVars, clientVars, died, pc, localVars, queue,
                 queueMutex, lastUse>>

-----------------------------------------------------------------------------
(* System calls.                                                           *)

Open(fd) == sock[fd] # NoClient

(* Events epoll_wait would return: the pending edge of the listening       *)
(* socket, and the armed descriptors with something to read.  A one-shot   *)
(* descriptor is checked again when it is armed, so it is ready as long as *)
(* its buffer is not empty or its peer has closed.                         *)
Readable(fd) == Open(fd) /\ (unread[sock[fd]] > 0 \/ peer[sock[fd]] = "down")

Ready ==
  {fd \in Fds : epoll[fd] = "armed" /\ Readable(fd)}
    \union (IF listenEdge THEN {Listen} ELSE {})

(* close(fd), which also drops the registration.  On a descriptor that is  *)
(* closed already it fails and changes nothing.                            *)
closeFd(fd) ==
  /\ sock' = [sock EXCEPT ![fd] = NoClient]
  /\ epoll' = [epoll EXCEPT ![fd] = "absent"]

(* addEpollClient, after makeSocketNonBlocking: EPOLL_CTL_ADD fails, and   *)
(* the server dies, if fd is closed or registered already.  Mutant: the    *)
(* call is left out.                                                       *)
addEpollClient_Missing(fd) == UNCHANGED <<epoll, died>>
addEpollClient(fd) ==
  IF ~Open(fd) \/ epoll[fd] # "absent"
  THEN died' = TRUE /\ UNCHANGED epoll
  ELSE epoll' = [epoll EXCEPT ![fd] = "armed"] /\ UNCHANGED died

(* modEpollClient: EPOLL_CTL_MOD fails, and the server dies, if fd is      *)
(* closed (EBADF) or not registered (ENOENT).  Mutants: the call is left   *)
(* out, or the descriptor is added a second time.                          *)
modEpollClient_Missing(fd) == UNCHANGED <<epoll, died>>
modEpollClient_Adds(fd) == addEpollClient(fd)
modEpollClient(fd) ==
  IF epoll[fd] = "absent"
  THEN died' = TRUE /\ UNCHANGED epoll
  ELSE epoll' = [epoll EXCEPT ![fd] = "armed"] /\ UNCHANGED died

(* The EPOLL_CTL_DEL of closeEpollClient: on a closed descriptor it fails  *)
(* with EBADF, which is accepted; on an open descriptor that is not        *)
(* registered with ENOENT, and the server dies.                            *)
delEpollClient(fd) ==
  IF Open(fd) /\ epoll[fd] = "absent"
  THEN died' = TRUE /\ UNCHANGED epoll
  ELSE epoll' = [epoll EXCEPT ![fd] = "absent"] /\ UNCHANGED died

-----------------------------------------------------------------------------
(* handleEpoll, one action per stretch of code between two visible steps.  *)

At(t, state)   == ~died /\ pc[t] = state
Goto(t, state) == pc' = [pc EXCEPT ![t] = state]

(* A thread forgets its local variables when it is through with them.      *)
ForgetConnection(t) ==
  /\ cur' = [cur EXCEPT ![t] = NoFd]
  /\ got' = [got EXCEPT ![t] = 0]
ForgetClock(t) ==
  /\ tnow' = [tnow EXCEPT ![t] = 0]
  /\ timeout' = [timeout EXCEPT ![t] = Forever]

Queued(t) == {fd \in Fds : queue[t][fd] # Absent}

(* What peekQueueConnections returns: the connection with the oldest time, *)
(* any of them when several have it.                                       *)
Peek(t) ==
  {fd \in Queued(t) : \A g \in Queued(t) : queue[t][fd] <= queue[t][g]}

ExpiredAt(t) == {fd \in Peek(t) : tnow[t] - queue[t][fd] >= KEEP_ALIVE_TIMEOUT}

(* getConnectionOrCreateByFd on the queue of t: a connection that is there *)
(* already keeps its time.                                                 *)
getConnectionOrCreateByFd(t, fd) ==
  IF queue[t][fd] = Absent THEN [queue EXCEPT ![t][fd] = now] ELSE queue

(* The timeout for epoll_wait is the age of the oldest connection.         *)
(* Mutant: wait without a timeout.                                         *)
TimeoutOf_Forever(t, fd) == Forever
TimeoutOf(t, fd) == now - queue[t][fd]

(* Top of the loop: read the clock and compute the timeout from the oldest *)
(* connection, before the expired ones are removed.                        *)
computeTimeout(t) ==
  /\ At(t, "top")
  /\ tnow' = [tnow EXCEPT ![t] = now]
  /\ \/ /\ Queued(t) = {}
        /\ timeout' = [timeout EXCEPT ![t] = Forever]
     \/ \E fd \in Peek(t) : timeout' = [timeout EXCEPT ![t] = TimeoutOf(t, fd)]
  /\ Goto(t, "expire")
  /\ UNCHANGED <<kernelVars, clientVars, now, died, cur, batch, got, queue,
                 queueMutex, lastUse>>

(* Under queueMutex, an expired connection is dequeued and its descriptor  *)
(* removed from the epoll set ...                                          *)
expireConnection(t) ==
  /\ At(t, "expire")
  /\ queueMutex = NoThread
  /\ \E fd \in ExpiredAt(t) :
       /\ queue' = [queue EXCEPT ![t][fd] = Absent]
       /\ delEpollClient(fd)
       /\ cur' = [cur EXCEPT ![t] = fd]
  /\ queueMutex' = t
  /\ Goto(t, "expireClose")
  /\ UNCHANGED <<sock, backlog, listenEdge, unread, clientVars, now, batch,
                 got, tnow, timeout, lastUse>>

(* ... and closed.                                                         *)
expireClose(t) ==
  /\ At(t, "expireClose")
  /\ closeFd(cur[t])
  /\ ForgetConnection(t)
  /\ queueMutex' = NoThread
  /\ Goto(t, "expire")
  /\ UNCHANGED <<backlog, listenEdge, unread, clientVars, now, died, batch,
                 tnow, timeout, queue, lastUse>>

(* No connection is expired: epoll_wait is called.                         *)
startWait(t) ==
  /\ At(t, "expire")
  /\ ExpiredAt(t) = {}
  /\ timeout' = [timeout EXCEPT ![t] = IF @ = Forever THEN @ ELSE now + @]
  /\ tnow' = [tnow EXCEPT ![t] = 0]
  /\ Goto(t, "wait")
  /\ UNCHANGED <<kernelVars, clientVars, now, died, cur, batch, got, queue,
                 queueMutex, lastUse>>

(* epoll_wait returns every ready event.  One-shot descriptors are         *)
(* disarmed, the edge of the listening socket is consumed.  Mutant: the    *)
(* descriptors stay armed, as without EPOLLONESHOT.                        *)
epollWait_NoOneshot(t) ==
  /\ At(t, "wait")
  /\ Ready # {}
  /\ batch' = [batch EXCEPT ![t] = Ready]
  /\ listenEdge' = FALSE
  /\ ForgetClock(t)
  /\ Goto(t, "dispatch")
  /\ UNCHANGED <<sock, epoll, backlog, unread, clientVars, now, died, cur, got,
                 queue, queueMutex, lastUse>>
epollWait(t) ==
  /\ At(t, "wait")
  /\ Ready # {}
  /\ batch' = [batch EXCEPT ![t] = Ready]
  /\ epoll' = [fd \in Fds |-> IF fd \in Ready THEN "disarmed" ELSE epoll[fd]]
  /\ listenEdge' = FALSE
  /\ ForgetClock(t)
  /\ Goto(t, "dispatch")
  /\ UNCHANGED <<sock, backlog, unread, clientVars, now, died, cur, got, queue,
                 queueMutex, lastUse>>

(* epoll_wait times out.  At the bound of the clock, which stands for any  *)
(* later second, every finite timeout may have passed.                     *)
epollWaitTimeout(t) ==
  /\ At(t, "wait")
  /\ Ready = {}
  /\ timeout[t] # Forever
  /\ now >= timeout[t] \/ now = MaxTime
  /\ ForgetClock(t)
  /\ Goto(t, "top")
  /\ UNCHANGED <<kernelVars, clientVars, now, died, cur, batch, got, queue,
                 queueMutex, lastUse>>

(* The loop over the events of the batch.                                  *)
dispatchEnd(t) ==
  /\ At(t, "dispatch")
  /\ batch[t] = {}
  /\ Goto(t, "top")
  /\ UNCHANGED <<kernelVars, clientVars, now, died, localVars, queue,
                 queueMutex, lastUse>>

dispatchListen(t) ==
  /\ At(t, "dispatch")
  /\ Listen \in batch[t]
  /\ batch' = [batch EXCEPT ![t] = @ \ {Listen}]
  /\ Goto(t, "accept")
  /\ UNCHANGED <<kernelVars, clientVars, now, died, cur, got, tnow, timeout,
                 queue, queueMutex, lastUse>>

dispatchClient(t) ==
  /\ At(t, "dispatch")
  /\ \E fd \in batch[t] \ {Listen} :
       /\ batch' = [batch EXCEPT ![t] = @ \ {fd}]
       /\ cur' = [cur EXCEPT ![t] = fd]
       /\ queue' = getConnectionOrCreateByFd(t, fd)
  /\ got' = [got EXCEPT ![t] = 0]
  /\ Goto(t, "recv")
  /\ UNCHANGED <<kernelVars, clientVars, now, died, tnow, timeout, queueMutex,
                 lastUse>>

(* One turn of acceptEpollConnection: a connection of the backlog gets a   *)
(* free descriptor ...                                                     *)
acceptConnection(t) ==
  /\ At(t, "accept")
  /\ \E c \in backlog, fd \in Fds :
       /\ ~Open(fd)
       /\ sock' = [sock EXCEPT ![fd] = c]
       /\ backlog' = backlog \ {c}
       /\ cur' = [cur EXCEPT ![t] = fd]
       /\ lastUse' = [lastUse EXCEPT ![c] = now]
  /\ Goto(t, "add")
  /\ UNCHANGED <<epoll, listenEdge, unread, clientVars, now, died, batch, got,
                 tnow, timeout, queue, queueMutex>>

(* ... which is registered before the next turn.  Mutant: one connection   *)
(* is accepted per event.                                                  *)
addConnection_Once(t) ==
  /\ At(t, "add")
  /\ addEpollClient(cur[t])
  /\ ForgetConnection(t)
  /\ Goto(t, "dispatch")
  /\ UNCHANGED <<sock, backlog, listenEdge, unread, clientVars, now, batch,
                 tnow, timeout, queue, queueMutex, lastUse>>
addConnection(t) ==
  /\ At(t, "add")
  /\ addEpollClient(cur[t])
  /\ ForgetConnection(t)
  /\ Goto(t, "accept")
  /\ UNCHANGED <<sock, backlog, listenEdge, unread, clientVars, now, batch,
                 tnow, timeout, queue, queueMutex, lastUse>>

(* accept() fails: EAGAIN on an empty backlog, EMFILE without a free       *)
(* descriptor.  Both end the loop.                                         *)
acceptEnd(t) ==
  /\ At(t, "accept")
  /\ backlog = {} \/ \A fd \in Fds : Open(fd)
  /\ Goto(t, "dispatch")
  /\ UNCHANGED <<kernelVars, clientVars, now, died, localVars, queue,
                 queueMutex, lastUse>>

(* isRequestComplete, with n pieces in the buffer.  Mutant: some data is   *)
(* taken for a request.                                                    *)
isRequestComplete_SomeData(n) == n > 0
isRequestComplete(n) == n >= Pieces

(* requestBufferOffset after recvRequest has n pieces.                     *)
OffsetAfter(n) == IF isRequestComplete(n) THEN 0 ELSE n

(* recvRequest reads what has arrived.  With the request complete the      *)
(* response is next; without, the state stays RECV and the state machine   *)
(* calls recvRequest again, so that a thread whose client has nothing to   *)
(* read stays here.                                                        *)
recvData(t) ==
  LET c == sock[cur[t]]
      n == got[t] + unread[c]
  IN  /\ At(t, "recv")
      /\ Open(cur[t])
      /\ unread[c] > 0
      /\ unread' = [unread EXCEPT ![c] = 0]
      /\ got' = [got EXCEPT ![t] = OffsetAfter(n)]
      /\ Goto(t, IF isRequestComplete(n) THEN "send" ELSE "recv")
      /\ UNCHANGED <<sock, epoll, backlog, listenEdge, clientVars, now, died,
                     cur, batch, tnow, timeout, queue, queueMutex, lastUse>>

(* recv() returns 0, the peer has closed, or fails with EBADF.             *)
recvEnd(t) ==
  /\ At(t, "recv")
  /\ Open(cur[t]) => unread[sock[cur[t]]] = 0 /\ peer[sock[cur[t]]] = "down"
  /\ Goto(t, "del")
  /\ UNCHANGED <<kernelVars, clientVars, now, died, localVars, queue,
                 queueMutex, lastUse>>

(* The response is sent to whoever the descriptor is connected to.  The    *)
(* connection is kept if the request asks for it, and closed if not or if  *)
(* the request is bad.                                                     *)
sendResponse(t) ==
  /\ At(t, "send")
  /\ Open(cur[t])
  /\ asked' = [asked EXCEPT ![sock[cur[t]]] = 0]
  /\ lastUse' = [lastUse EXCEPT ![sock[cur[t]]] = now]
  /\ Goto(t, "rearm") \/ Goto(t, "del")
  /\ UNCHANGED <<kernelVars, requests, peer, now, died, localVars, queue,
                 queueMutex>>

(* The descriptor is closed, or the peer is gone and send() fails.         *)
sendFails(t) ==
  /\ At(t, "send")
  /\ Open(cur[t]) => peer[sock[cur[t]]] = "down"
  /\ Goto(t, "del")
  /\ UNCHANGED <<kernelVars, clientVars, now, died, localVars, queue,
                 queueMutex, lastUse>>

(* STATE_CONNECTION_DONE with keepAlive: under queueMutex, restart the     *)
(* period of the connection and arm its descriptor again.                  *)
rearmConnection(t) ==
  /\ At(t, "rearm")
  /\ queueMutex = NoThread
  /\ queue' = [queue EXCEPT ![t][cur[t]] = now]
  /\ modEpollClient(cur[t])
  /\ lastUse' = [c \in Clients |->
                   IF c = sock[cur[t]] THEN now ELSE lastUse[c]]
  /\ ForgetConnection(t)
  /\ Goto(t, "dispatch")
  /\ UNCHANGED <<sock, backlog, listenEdge, unread, clientVars, now, batch,
                 tnow, timeout, queueMutex>>

(* STATE_CONNECTION_DONE_FOR_CLOSE, without queueMutex: dequeue, remove    *)
(* from the epoll set ...  Mutant: the queue keeps the connection.         *)
deleteConnection_KeepsEntry(t) ==
  /\ At(t, "del")
  /\ delEpollClient(cur[t])
  /\ Goto(t, "close")
  /\ UNCHANGED <<sock, backlog, listenEdge, unread, clientVars, now, localVars,
                 queue, queueMutex, lastUse>>
deleteConnection(t) ==
  /\ At(t, "del")
  /\ queue' = [queue EXCEPT ![t][cur[t]] = Absent]
  /\ delEpollClient(cur[t])
  /\ Goto(t, "close")
  /\ UNCHANGED <<sock, backlog, listenEdge, unread, clientVars, now, localVars,
                 queueMutex, lastUse>>

(* ... and close.                                                          *)
closeConnection(t) ==
  /\ At(t, "close")
  /\ closeFd(cur[t])
  /\ ForgetConnection(t)
  /\ Goto(t, "dispatch")
  /\ UNCHANGED <<backlog, listenEdge, unread, clientVars, now, died, batch,
                 tnow, timeout, queue, queueMutex, lastUse>>

-----------------------------------------------------------------------------
ThreadStep(t) ==
  \/ computeTimeout(t) \/ expireConnection(t) \/ expireClose(t)
  \/ startWait(t) \/ epollWait(t) \/ epollWaitTimeout(t)
  \/ dispatchEnd(t) \/ dispatchListen(t) \/ dispatchClient(t)
  \/ acceptConnection(t) \/ addConnection(t) \/ acceptEnd(t)
  \/ recvData(t) \/ recvEnd(t) \/ sendResponse(t) \/ sendFails(t)
  \/ rearmConnection(t) \/ deleteConnection(t) \/ closeConnection(t)

ClientStep(c) == Connect(c) \/ SendPiece(c) \/ HangUp(c)

Next ==
  /\ \/ \E t \in workers : ThreadStep(t)
     \/ \E c \in Clients : ClientStep(c)
     \/ Tick
  /\ UNCHANGED workers

Spec == Init /\ [][Next]_vars

(* The scheduler lets every thread that can run take its next step, and    *)
(* the clock advances.  Clients owe nothing.                               *)
FairSpec ==
  /\ Spec
  /\ WF_vars(Tick /\ UNCHANGED workers)
  /\ \A t \in Threads :
       WF_vars(t \in workers /\ ThreadStep(t) /\ UNCHANGED workers)

-----------------------------------------------------------------------------
(* Properties.                                                             *)

Working == {"add", "recv", "send", "rearm", "del", "close", "expireClose"}

Holds(t, fd) == fd \in batch[t] \/ (cur[t] = fd /\ pc[t] \in Working)

Processing(t, fd) ==
  \/ fd \in batch[t]
  \/ cur[t] = fd /\ pc[t] \in {"recv", "send", "rearm", "del"}

(* No connection is orphaned: an open client socket is armed in the epoll  *)
(* set, or a thread is working on it or has its event.  EPOLLONESHOT       *)
(* disarms a descriptor with each event, so a path of the state machine    *)
(* that forgets to arm it again would keep the client waiting for ever.    *)
NoOrphan ==
  ~died => \A fd \in Fds :
             Open(fd) => epoll[fd] = "armed" \/ \E t \in Threads : Holds(t, fd)

(* A connection in the backlog has an edge pending or a thread that will   *)
(* come to accept() it: with an edge-triggered listening socket nothing    *)
(* else reports it.  There must be a descriptor for every client: when     *)
(* accept() fails for want of one the edge is spent.                       *)
BacklogWatched ==
  ~died /\ backlog # {} =>
    \/ listenEdge
    \/ \E t \in Threads : Listen \in batch[t] \/ pc[t] \in {"accept", "add"}

(* A descriptor is armed "only when the event is full processed": while a  *)
(* thread has an event of it, epoll reports no other one.                  *)
ArmedWhenProcessed ==
  ~died => \A t \in Threads, fd \in Fds :
             Processing(t, fd) => epoll[fd] # "armed"

(* On a machine with one processor there is one worker, and the queue of   *)
(* that worker knows every connection it has answered.                     *)
Alone == Cardinality(workers) = 1

(* With one worker that still holds when descriptors are used again, ...   *)
ArmedWhenProcessedAlone == Alone => ArmedWhenProcessed

(* ... the server never dies on an error of epoll_ctl, ...                 *)
NeverDiesAlone == Alone => ~died

(* ... and the timeout closes only connections that have had no response   *)
(* for KEEP_ALIVE_TIMEOUT seconds, "that are not being used for a while".  *)
OnlyIdleExpireAlone ==
  [][\A t \in Threads :
       Alone /\ expireClose(t) /\ Open(cur[t]) =>
         tnow[t] - lastUse[sock[cur[t]]] >= KEEP_ALIVE_TIMEOUT]_vars

(* What the threads do for a client, in the terms of Exchange.  A client   *)
(* that is not accepted yet, or whose event no thread has taken up, is     *)
(* idle.                                                                   *)
Attends(t, c, states) ==
  pc[t] \in states /\ cur[t] \in Fds /\ sock[cur[t]] = c

Serving(c, states) == \E t \in workers : Attends(t, c, states)

Over(c) ==
  \/ Serving(c, {"del", "close", "expireClose"})
  \/ peer[c] # "new" /\ ~Connected(c)

PhaseOf(c) ==
  IF Over(c) THEN "over"
  ELSE IF Serving(c, {"recv"}) THEN "recv"
  ELSE IF Serving(c, {"send"}) THEN "send"
  ELSE IF Serving(c, {"rearm"}) THEN "done"
  ELSE "idle"

PartOf(c) ==
  IF asked[c] = 0 \/ Over(c) THEN "none"
  ELSE IF asked[c] < Pieces THEN "partly" ELSE "whole"

Served == INSTANCE Exchange WITH
            phase   <- [c \in Clients |-> PhaseOf(c)],
            request <- [c \in Clients |-> PartOf(c)]

(* Every client of a single worker is served as Exchange says, however     *)
(* its events mix with those of other clients, with the timeout of its     *)
(* connection and with the reuse of its descriptor: it gets no response to *)
(* a part of a request, nor to what another client has sent.               *)
ExchangeAlone ==
  /\ Served!ExchangeInit
  /\ [][Alone => [Served!ExchangeNext]_(Served!exchangeVars)]_vars

(* A request that has arrived on an open connection is read, or the        *)
(* connection is closed.                                                   *)
RequestRead ==
  \A c \in Clients :
    (Connected(c) /\ unread[c] > 0) ~> (unread[c] = 0 \/ ~Connected(c) \/ died)

(* A connection that has had a response and is then not used for           *)
(* KEEP_ALIVE_TIMEOUT seconds is used again or closed.  (One that never    *)
(* sends anything is in no queue and stays open.)                          *)
ServedIdleClosed ==
  \A c \in Clients :
    (/\ Connected(c) /\ requests[c] > 0 /\ asked[c] = 0
     /\ now - lastUse[c] >= KEEP_ALIVE_TIMEOUT)
      ~> (now - lastUse[c] < KEEP_ALIVE_TIMEOUT \/ ~Connected(c) \/ died)
=============================================================================
