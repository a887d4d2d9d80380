--------------------------- MODULE ConnectionQueue ---------------------------
(***************************************************************************)
(* One worker's queue of client connections, src/src/queue_connections.c:  *)
(* an array-backed binary heap ordered by priorityTime, and indexQueue,    *)
(* the array that gives for every client descriptor its slot in the heap.  *)
(*                                                                         *)
(* Each worker thread owns one queue and calls it sequentially, so an      *)
(* operation is never interleaved with another one.  The two loops of the  *)
(* heap (the shift-up loops and the recursion of heapify) are modelled one *)
(* iteration per step: while `loop' is not "none" the call is still        *)
(* running and no other operation of the queue can start.                  *)
(*                                                                         *)
(* A connection element keeps the two fields the queue reads, clientFd and *)
(* priorityTime.  The memory an element owns is abstracted to its request  *)
(* buffer, counted per descriptor in `buffers'.                            *)
(***************************************************************************)
EXTENDS Integers, FiniteSets

CONSTANTS
  Fds,        \* descriptors of client sockets; they index indexQueue
  NoFd,       \* clientFd = 0, the descriptor of an empty element
  Capacity,   \* MAX_EPOLL_EVENTS, the size of both arrays
  MaxTime     \* bound on the clock, in seconds

(* indexQueue has MAX_EPOLL_EVENTS entries indexed by descriptor and       *)
(* descriptor 0 is not a client, so fewer than Capacity descriptors fit.   *)
ASSUME QueueAssumption ==
  /\ IsFiniteSet(Fds)
  /\ NoFd \notin Fds
  /\ Capacity \in Nat
  /\ Cardinality(Fds) < Capacity
  /\ MaxTime \in Nat

VARIABLES
  connections,   \* the heap array
  currentSize,   \* number of elements in the heap
  indexQueue,    \* descriptor -> slot of its element, or -1
  buffers,       \* descriptor -> live request buffers (malloc minus free)
  died,          \* die() was called: the process has exited
  now,           \* what time(NULL) returns
  loop,          \* the loop a running call is in: "none", "shiftUp", "heapify"
  at,            \* the slot that loop looks at
  who            \* the descriptor a running shift-up moves

queueVars == <<connections, currentSize, indexQueue, buffers, died, now,
               loop, at, who>>

Index == 0 .. (Capacity - 1)
Time  == 0 .. MaxTime

Connection == [clientFd : Fds \union {NoFd}, priorityTime : Time]

TypeOK ==
  /\ connections \in [Index -> Connection]
  /\ currentSize \in 0 .. Capacity
  /\ indexQueue \in [Fds -> {-1} \union Index]
  /\ buffers \in [Fds -> Int]
  /\ died \in BOOLEAN
  /\ now \in Time
  /\ loop \in {"none", "shiftUp", "heapify"}
  /\ at \in Index
  /\ who \in Fds \union {NoFd}

-----------------------------------------------------------------------------
(* Heap arithmetic and elements.  A definition X_Y that precedes X is a    *)
(* mutant of X, a form the code does not have; it is used only to show     *)
(* that the properties would notice it.                                    *)

leftChildHeap(element)  == 2 * element + 1
rightChildHeap_SameAsLeft(element) == 2 * element + 1
rightChildHeap(element) == 2 * element + 2
parentHeap(element)     == (element - 1) \div 2

emptyConnection == [clientFd |-> NoFd, priorityTime |-> 0]

(* The element getConnectionOrCreateByFd and updateQueueConnection build.  *)
(* Mutants: it holds the end of the period, or no time at all.             *)
NewConnection_EndOfPeriod(fd) == [clientFd |-> fd, priorityTime |-> now + 1]
NewConnection_NoTime(fd) == [clientFd |-> fd, priorityTime |-> 0]
NewConnection(fd) == [clientFd |-> fd, priorityTime |-> now]

Earlier(i, j) == connections[i].priorityTime < connections[j].priorityTime

swapConnectionElementHeap(i, j) ==
  [connections EXCEPT ![i] = connections[j], ![j] = connections[i]]

(* indexQueue once the elements of slots i and j changed places.  Mutant:  *)
(* only one of the two entries is written.                                 *)
Reindexed_One(i, j) == [indexQueue EXCEPT ![connections[j].clientFd] = i]
Reindexed(i, j) ==
  [indexQueue EXCEPT ![connections[j].clientFd] = i,
                     ![connections[i].clientFd] = j]

(* The live buffers once freeConnection released those of an element.      *)
(* Mutant: the buffer is not freed.                                        *)
freeConnection_Leaks(element) == buffers
freeConnection(element) ==
  IF element.clientFd \in Fds
  THEN [buffers EXCEPT ![element.clientFd] = @ - 1]
  ELSE buffers

existsConnection(fd) == indexQueue[fd] # -1

Idle == loop = "none" /\ ~died

Return == loop' = "none" /\ at' = 0 /\ who' = NoFd

-----------------------------------------------------------------------------
(* createQueueConnections.                                                 *)
Init ==
  /\ connections = [i \in Index |-> emptyConnection]
  /\ currentSize = 0
  /\ indexQueue = [fd \in Fds |-> -1]
  /\ buffers = [fd \in Fds |-> 0]
  /\ died = FALSE
  /\ now = 0
  /\ loop = "none"
  /\ at = 0
  /\ who = NoFd

(* getConnectionOrCreateByFd for a descriptor that is not in the queue,    *)
(* with enqueueConnection up to its shift-up loop.  A full queue leaves    *)
(* the index at -1, which is fatal.                                        *)
getConnectionOrCreateByFd(fd) ==
  LET full == currentSize = Capacity
  IN  /\ Idle
      /\ ~existsConnection(fd)
      /\ buffers' = [buffers EXCEPT ![fd] = @ + 1]
      /\ died' = full
      /\ connections' = IF full THEN connections
                        ELSE [connections EXCEPT ![currentSize] = NewConnection(fd)]
      /\ currentSize' = IF full THEN currentSize ELSE currentSize + 1
      /\ loop' = IF full THEN "none" ELSE "shiftUp"
      /\ at' = IF full THEN 0 ELSE currentSize
      /\ who' = IF full THEN NoFd ELSE fd
      /\ UNCHANGED <<indexQueue, now>>

(* One turn of a shift-up loop.  The parents it moves down keep their old  *)
(* entry in indexQueue; only the moved element's entry is written, after   *)
(* the loop.                                                               *)
shiftUp ==
  LET parent == parentHeap(at)
      rise   == at # 0 /\ Earlier(at, parent)
  IN  /\ loop = "shiftUp"
      /\ IF rise
         THEN /\ connections' = swapConnectionElementHeap(at, parent)
              /\ at' = parent
              /\ UNCHANGED <<indexQueue, loop, who>>
         ELSE /\ indexQueue' = [indexQueue EXCEPT ![who] = at]
              /\ Return
              /\ UNCHANGED connections
      /\ UNCHANGED <<currentSize, buffers, died, now>>

(* The slot heapify finds to hold the earliest of an element and its two   *)
(* children.                                                               *)
SmallerOf(i, child) ==
  IF child < currentSize /\ Earlier(child, i) THEN child ELSE i

smallest(index) ==
  SmallerOf(SmallerOf(index, leftChildHeap(index)), rightChildHeap(index))

(* One call of heapify; its recursive call is the next step.               *)
heapify ==
  LET child == smallest(at)
  IN  /\ loop = "heapify"
      /\ \/ /\ child # at
            /\ connections' = swapConnectionElementHeap(at, child)
            /\ indexQueue' = Reindexed(at, child)
            /\ at' = child
            /\ UNCHANGED <<loop, who>>
         \/ /\ child = at
            /\ Return
            /\ UNCHANGED <<connections, indexQueue>>
      /\ UNCHANGED <<currentSize, buffers, died, now>>

(* updateQueueConnection, called for a descriptor that is in the queue:    *)
(* the element is rebuilt in place, then moved.                            *)
updateQueueConnection(fd) ==
  LET index == indexQueue[fd]
      old   == connections[index]
  IN  /\ Idle
      /\ existsConnection(fd)
      /\ buffers' = [freeConnection(old) EXCEPT ![fd] = @ + 1]
      /\ connections' = [connections EXCEPT ![index] = NewConnection(fd)]
      /\ loop' = IF now < old.priorityTime THEN "shiftUp" ELSE "heapify"
      /\ at' = index
      /\ who' = fd
      /\ UNCHANGED <<currentSize, indexQueue, died, now>>

(* The body dequeueConnection and dequeueConnectionByFd share: the element *)
(* at slot `index' is freed, the last element takes its slot and is sifted *)
(* down from there.  When fd is also the last element nothing moves and    *)
(* slot `cleared' is emptied.                                              *)
RemoveAt(fd, index, cleared) ==
  LET last   == currentSize - 1
      fdLast == connections[last].clientFd
  IN  /\ Idle
      /\ buffers' = freeConnection(connections[index])
      /\ currentSize' = last
      /\ \/ /\ fdLast = fd
            /\ connections' = [connections EXCEPT ![cleared] = emptyConnection]
            /\ indexQueue' = [indexQueue EXCEPT ![fd] = -1]
            /\ UNCHANGED <<loop, at, who>>
         \/ /\ fdLast # fd
            /\ connections' = [connections EXCEPT ![index] = connections[last],
                                                  ![last] = emptyConnection]
            /\ indexQueue' = [indexQueue EXCEPT ![fd] = -1, ![fdLast] = index]
            /\ loop' = "heapify"
            /\ at' = index
            /\ who' = fdLast
      /\ UNCHANGED <<died, now>>

dequeueConnection ==
  /\ currentSize # 0
  /\ RemoveAt(connections[0].clientFd, 0, 0)

(* Mutant: the entry in indexQueue goes, the element stays in the heap.    *)
dequeueConnectionByFd_IndexOnly(fd) ==
  /\ Idle
  /\ existsConnection(fd)
  /\ indexQueue' = [indexQueue EXCEPT ![fd] = -1]
  /\ UNCHANGED <<connections, currentSize, buffers, died, now, loop, at, who>>

dequeueConnectionByFd(fd) ==
  /\ currentSize # 0
  /\ existsConnection(fd)
  /\ RemoveAt(fd, indexQueue[fd], currentSize - 1)

(* The clock.  An operation reads it once, when it starts, so it is enough *)
(* to let it advance between operations.                                   *)
Tick ==
  /\ Idle
  /\ now < MaxTime
  /\ now' = now + 1
  /\ UNCHANGED <<connections, currentSize, indexQueue, buffers, died, loop,
                 at, who>>

Next ==
  \/ \E fd \in Fds : \/ getConnectionOrCreateByFd(fd)
                     \/ updateQueueConnection(fd)
                     \/ dequeueConnectionByFd(fd)
  \/ dequeueConnection
  \/ shiftUp
  \/ heapify
  \/ Tick

Spec == Init /\ [][Next]_queueVars

-----------------------------------------------------------------------------
(* Properties.                                                             *)

Queued == 0 .. (currentSize - 1)

(* Between two operations indexQueue and the heap agree: every element is  *)
(* where its descriptor's entry says, and every entry points to an element *)
(* of that descriptor.  printQueueConnections prints both "to see if they  *)
(* match between updates and deletes".                                     *)
IndexCoherent ==
  Idle =>
    /\ \A i \in Queued : /\ connections[i].clientFd \in Fds
                         /\ indexQueue[connections[i].clientFd] = i
    /\ \A fd \in Fds : existsConnection(fd) =>
         /\ indexQueue[fd] < currentSize
         /\ connections[indexQueue[fd]].clientFd = fd

(* Between two operations each queued descriptor owns exactly one request  *)
(* buffer and no other buffer is live: freeConnection never frees another  *)
(* connection's memory, frees twice or leaks.                              *)
BuffersBalanced ==
  Idle => \A fd \in Fds :
            buffers[fd] = IF existsConnection(fd) THEN 1 ELSE 0

(* The root of the heap, which peekQueueConnections returns and the event  *)
(* loop tests against KEEP_ALIVE_TIMEOUT, is a connection whose keep-alive *)
(* period started first.                                                   *)
PeekIsOldest ==
  Idle => \A i \in Queued :
            connections[0].priorityTime <= connections[i].priorityTime

(* getConnectionOrCreateByFd never reaches its die(): the heap has room    *)
(* for every descriptor that fits into indexQueue, whatever the order in   *)
(* which connections were opened, refreshed and closed.                    *)
NeverFull == ~died

(* The heap implements the table of keep-alive periods: moving an element  *)
(* inside the heap never loses, duplicates or re-dates a connection.       *)
Table == INSTANCE KeepAliveTable WITH
           table <- [fd \in Fds |-> IF existsConnection(fd)
                                    THEN connections[indexQueue[fd]].priorityTime
                                    ELSE -1]

ImplementsTable == Table!TableSpec
=============================================================================
