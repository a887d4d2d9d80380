------------------------ MODULE ConnectionQueueProofs ------------------------
(***************************************************************************)
(* Proofs about ConnectionQueue for any set of descriptors, any capacity   *)
(* and any clock that does not go back.  The properties speak of the       *)
(* states between two operations; IndInv extends them to the states in the *)
(* middle of a shift-up loop or of heapify's recursion, and OrderedInv     *)
(* adds the order of the heap, which holds as long as nothing is misplaced *)
(* by a removal.                                                           *)
(***************************************************************************)
EXTENDS ConnectionQueue, FiniteSetTheorems, WellFoundedInduction, TLAPS

(* Every element of the heap is a client whose period has started.         *)
Elements ==
  \A i \in Queued : /\ connections[i].clientFd \in Fds
                    /\ connections[i].priorityTime <= now

(* The only shift-up is that of enqueueConnection, and the new element, in *)
(* the last slot, has no entry in indexQueue yet.                          *)
Enqueuing ==
  loop = "shiftUp" => /\ currentSize # 0
                      /\ at = currentSize - 1
                      /\ who \in Fds
                      /\ connections[at] = NewConnection(who)
                      /\ indexQueue[who] = -1

Sifting == loop = "heapify" => at < currentSize

(* Coherence, but for the element that is being enqueued.                  *)
SlotIndexed ==
  \A i \in Queued : \/ indexQueue[connections[i].clientFd] = i
                    \/ loop = "shiftUp" /\ i = at

EntryFilled ==
  \A fd \in Fds : existsConnection(fd) =>
    /\ indexQueue[fd] < currentSize
    /\ connections[indexQueue[fd]].clientFd = fd

BufferOwned ==
  \A fd \in Fds :
    buffers[fd] = IF existsConnection(fd) \/ (loop = "shiftUp" /\ fd = who)
                  THEN 1 ELSE 0

IndInv ==
  /\ TypeOK
  /\ NeverFull
  /\ Elements
  /\ Enqueuing
  /\ Sifting
  /\ SlotIndexed
  /\ EntryFilled
  /\ BufferOwned

-----------------------------------------------------------------------------
(* Lemmas about the heap.                                                  *)

(* The arrays have at least one slot and the clock starts in its range.    *)
LEMMA FirstSlot == 0 \in Index /\ 0 \in Time
<1>1. Cardinality(Fds) \in Nat
  BY QueueAssumption, FS_CardinalityType
<1> QED
  BY <1>1, QueueAssumption DEF Index, Time

(* heapify only looks at slots of the heap: the slot it picks is occupied. *)
LEMMA SmallestInHeap ==
  ASSUME IndInv, loop = "heapify"
  PROVE  smallest(at) \in Queued
<1> USE QueueAssumption
<1>1. at \in Queued
  BY DEF IndInv, TypeOK, Sifting, Queued, Index
<1>2. ASSUME NEW i \in Queued, NEW c \in Nat
      PROVE  SmallerOf(i, c) \in Queued
  BY <1>2 DEF SmallerOf, Queued, IndInv, TypeOK
<1>3. leftChildHeap(at) \in Nat /\ rightChildHeap(at) \in Nat
  BY <1>1 DEF leftChildHeap, rightChildHeap, Queued
<1> QED
  BY <1>1, <1>2, <1>3 DEF smallest

(* Two slots of the heap never hold the same descriptor between two        *)
(* operations, so the heap is no larger than the set of descriptors.       *)
LEMMA QueueFitsFds ==
  ASSUME IndInv, loop = "none"
  PROVE  currentSize <= Cardinality(Fds)
<1> DEFINE fdOf == [i \in Queued |-> connections[i].clientFd]
<1>1. fdOf \in Injection(Queued, Fds)
  BY DEF Injection, IsInjective, IndInv, Elements, SlotIndexed
<1>2. Cardinality(Queued) <= Cardinality(Fds)
  BY <1>1, FS_Injection, QueueAssumption
<1>3. currentSize \in Nat
  BY QueueAssumption DEF IndInv, TypeOK
<1>4. Cardinality(Queued) = currentSize
  BY <1>3, FS_Interval DEF Queued
<1> QED
  BY <1>2, <1>4

(* The heap is never full when a connection is enqueued.                   *)
LEMMA RoomLeft ==
  ASSUME IndInv, loop = "none"
  PROVE  currentSize < Capacity
<1>1. currentSize \in Nat
  BY QueueAssumption DEF IndInv, TypeOK
<1>2. Cardinality(Fds) \in Nat
  BY QueueAssumption, FS_CardinalityType
<1> QED
  BY <1>1, <1>2, QueueFitsFds, QueueAssumption

-----------------------------------------------------------------------------
(* IndInv is inductive.                                                    *)

(* createQueueConnections makes an empty heap and an empty index.          *)
LEMMA InitIndInv == Init => IndInv
<1> SUFFICES ASSUME Init PROVE IndInv
  OBVIOUS
<1> USE QueueAssumption DEF Init
<1>1. emptyConnection \in Connection
  BY FirstSlot DEF emptyConnection, Connection
<1>2. TypeOK
  <2>1. connections \in [Index -> Connection]
    BY <1>1
  <2>2. indexQueue \in [Fds -> {-1} \union Index]
    OBVIOUS
  <2>3. died \in BOOLEAN
    BY Zenon
  <2> QED
    BY <2>1, <2>2, <2>3, FirstSlot DEF TypeOK
<1>3. NeverFull /\ Elements /\ Enqueuing /\ Sifting /\ SlotIndexed
  BY DEF NeverFull, Elements, Enqueuing, Sifting, SlotIndexed, Queued
<1>4. EntryFilled /\ BufferOwned
  BY DEF EntryFilled, BufferOwned, existsConnection
<1> QED
  BY <1>2, <1>3, <1>4 DEF IndInv

(* getConnectionOrCreateByFd puts the new element into the last slot; only *)
(* the end of its shift-up will enter it into indexQueue.                  *)
LEMMA CreateIndInv ==
  ASSUME IndInv, NEW fd \in Fds, getConnectionOrCreateByFd(fd)
  PROVE  IndInv'
<1> USE QueueAssumption DEF IndInv, getConnectionOrCreateByFd, Idle
<1>1. currentSize < Capacity
  BY RoomLeft
<1>2. currentSize \in Index /\ NewConnection(fd) \in Connection
  BY <1>1 DEF TypeOK, Index, NewConnection, Connection
<1> HIDE QueueAssumption
<1>3. TypeOK'
  <2>1. died' \in BOOLEAN
    BY Zenon
  <2>2. currentSize' \in 0 .. Capacity
    BY <1>1, QueueAssumption DEF TypeOK
  <2> QED
    BY <1>1, <1>2, <2>1, <2>2, FirstSlot DEF TypeOK
<1>4. NeverFull'
  BY <1>1 DEF NeverFull, TypeOK
<1>5. Elements'
  BY <1>1, <1>2, QueueAssumption DEF Elements, Queued, TypeOK, Index, Time, NewConnection
<1>6. Enqueuing' /\ Sifting'
  BY <1>1, <1>2, QueueAssumption DEF Enqueuing, Sifting, TypeOK, Index, NewConnection, existsConnection
<1>7. SlotIndexed'
  BY <1>1, <1>2, QueueAssumption DEF SlotIndexed, Queued, TypeOK, Index
<1>8. EntryFilled'
  BY <1>1, <1>2, QueueAssumption DEF EntryFilled, existsConnection, TypeOK, Index
<1>9. BufferOwned'
  BY <1>1, <1>2 DEF BufferOwned, existsConnection, TypeOK
<1> QED
  BY <1>3, <1>4, <1>5, <1>6, <1>7, <1>8, <1>9

(* With a clock that does not go back the new element is no earlier than   *)
(* any other, so the shift-up loop ends where it starts.                   *)
LEMMA ShiftUpStays ==
  ASSUME IndInv, shiftUp
  PROVE  ~(at # 0 /\ Earlier(at, parentHeap(at)))
BY QueueAssumption
   DEF IndInv, shiftUp, Enqueuing, Elements, Earlier, parentHeap,
       NewConnection, TypeOK, Index, Queued, Time, Connection

(* The end of the shift-up writes the one entry that was missing.          *)
LEMMA ShiftUpIndInv ==
  ASSUME IndInv, shiftUp
  PROVE  IndInv'
<1> USE DEF IndInv
<1>1. ~(at # 0 /\ Earlier(at, parentHeap(at)))
  BY ShiftUpStays
<1>2. /\ loop = "shiftUp"
      /\ indexQueue' = [indexQueue EXCEPT ![who] = at]
      /\ loop' = "none" /\ at' = 0 /\ who' = NoFd
      /\ UNCHANGED <<connections, currentSize, buffers, died, now>>
  BY <1>1 DEF shiftUp, Return
<1>3. TypeOK'
  BY <1>2, FirstSlot DEF TypeOK
<1>4. NeverFull' /\ Elements' /\ Enqueuing' /\ Sifting'
  BY <1>2 DEF NeverFull, Elements, Queued, Enqueuing, Sifting
<1>5. SlotIndexed'
  BY <1>2, QueueAssumption
     DEF SlotIndexed, Enqueuing, Queued, NewConnection, TypeOK, Elements, Index
<1>6. EntryFilled'
  BY <1>2, QueueAssumption
     DEF EntryFilled, Enqueuing, existsConnection, NewConnection, TypeOK, Index
<1>7. BufferOwned'
  BY <1>2, QueueAssumption
     DEF BufferOwned, Enqueuing, existsConnection, TypeOK, Index
<1> QED
  BY <1>3, <1>4, <1>5, <1>6, <1>7

(* A swap of heapify re-enters both elements it moves.                     *)
LEMMA HeapifyIndInv ==
  ASSUME IndInv, heapify
  PROVE  IndInv'
<1> DEFINE child == smallest(at)
<1> USE DEF IndInv
<1>1. /\ loop = "heapify"
      /\ UNCHANGED <<currentSize, buffers, died, now>>
  BY DEF heapify
<1>2. at \in Queued /\ child \in Queued /\ Queued \subseteq Index
  BY <1>1, SmallestInHeap, QueueAssumption
     DEF Sifting, Queued, TypeOK, Index
<1>3. CASE child = at
  <2>1. /\ loop' = "none" /\ at' = 0 /\ who' = NoFd
        /\ UNCHANGED <<connections, indexQueue>>
    BY <1>3 DEF heapify, Return
  <2>2. TypeOK'
    BY <1>1, <2>1, FirstSlot DEF TypeOK
  <2>3. NeverFull' /\ Elements' /\ Enqueuing' /\ Sifting' /\ SlotIndexed'
    BY <1>1, <2>1
       DEF NeverFull, Elements, Queued, Enqueuing, Sifting, SlotIndexed
  <2>4. EntryFilled' /\ BufferOwned'
    BY <1>1, <2>1 DEF EntryFilled, BufferOwned, existsConnection
  <2> QED
    BY <2>2, <2>3, <2>4
<1>4. CASE child # at
  <2> DEFINE a == connections[at].clientFd
             c == connections[child].clientFd
  <2>1. /\ connections' = [connections EXCEPT ![at] = connections[child],
                                              ![child] = connections[at]]
        /\ indexQueue' = [indexQueue EXCEPT ![c] = at, ![a] = child]
        /\ at' = child
        /\ UNCHANGED <<loop, who>>
    BY <1>4 DEF heapify, Reindexed, swapConnectionElementHeap
  <2>2. /\ a \in Fds /\ c \in Fds
        /\ indexQueue[a] = at /\ indexQueue[c] = child /\ a # c
    BY <1>1, <1>2, <1>4 DEF Elements, SlotIndexed
  <2> HIDE DEF child, a, c
  <2>3. /\ connections'[at].clientFd = c /\ connections'[child].clientFd = a
        /\ \A i \in Queued \ {at, child} : connections'[i] = connections[i]
        /\ connections'[at].priorityTime <= now
        /\ connections'[child].priorityTime <= now
    BY <1>2, <1>4, <2>1 DEF TypeOK, a, c, Elements
  <2>4. /\ indexQueue'[a] = child /\ indexQueue'[c] = at
        /\ \A fd \in Fds \ {a, c} : indexQueue'[fd] = indexQueue[fd]
    BY <2>1, <2>2 DEF TypeOK
  <2>5. Queued' = Queued
    BY <1>1 DEF Queued
  <2>6. TypeOK'
    BY <1>1, <1>2, <2>1, <2>2 DEF TypeOK
  <2>7. NeverFull' /\ Enqueuing' /\ Sifting'
    BY <1>1, <1>2, <2>1 DEF NeverFull, Enqueuing, Sifting, Queued, TypeOK
  <2>8. Elements'
    BY <1>1, <2>2, <2>3, <2>5 DEF Elements
  <2>9. SlotIndexed'
    <3> SUFFICES ASSUME NEW i \in Queued
                 PROVE  indexQueue'[connections'[i].clientFd] = i
      BY <2>5 DEF SlotIndexed
    <3>1. CASE i \in {at, child}
      BY <3>1, <2>3, <2>4
    <3>2. CASE i \notin {at, child}
      <4>1. /\ connections[i].clientFd \in Fds
            /\ indexQueue[connections[i].clientFd] = i
        BY <1>1 DEF Elements, SlotIndexed
      <4> QED
        BY <3>2, <4>1, <2>2, <2>3, <2>4
    <3> QED
      BY <3>1, <3>2
  <2>10. EntryFilled'
    <3> SUFFICES ASSUME NEW fd \in Fds, indexQueue'[fd] # -1
                 PROVE  /\ indexQueue'[fd] < currentSize
                        /\ connections'[indexQueue'[fd]].clientFd = fd
      BY <1>1 DEF EntryFilled, existsConnection
    <3>1. CASE fd \in {a, c}
      BY <3>1, <1>2, <2>3, <2>4 DEF Queued, TypeOK
    <3>2. CASE fd \notin {a, c}
      <4>1. indexQueue[fd] \in Queued /\ connections[indexQueue[fd]].clientFd = fd
        BY <3>2, <2>4, QueueAssumption
           DEF EntryFilled, existsConnection, TypeOK, Queued, Index
      <4>2. indexQueue[fd] \notin {at, child}
        BY <3>2, <4>1 DEF a, c
      <4> QED
        BY <3>2, <2>3, <2>4, <4>1, <4>2 DEF Queued, TypeOK
    <3> QED
      BY <3>1, <3>2
  <2>11. BufferOwned'
    <3>1. \A fd \in Fds : (indexQueue'[fd] # -1) <=> (indexQueue[fd] # -1)
      BY <1>2, <2>2, <2>4 DEF Queued, TypeOK
    <3> QED
      BY <1>1, <2>1, <3>1 DEF BufferOwned, existsConnection
  <2> QED
    BY <2>6, <2>7, <2>8, <2>9, <2>10, <2>11
<1> QED
  BY <1>3, <1>4

(* updateQueueConnection rebuilds the element in its slot, frees one       *)
(* buffer and allocates one, and goes on to heapify.                       *)
LEMMA UpdateIndInv ==
  ASSUME IndInv, NEW fd \in Fds, updateQueueConnection(fd)
  PROVE  IndInv'
<1> DEFINE index == indexQueue[fd]
<1> USE DEF IndInv
<1>1. /\ loop = "none" /\ existsConnection(fd)
      /\ UNCHANGED <<currentSize, indexQueue, died, now>>
      /\ at' = index /\ who' = fd
      /\ connections' = [connections EXCEPT ![index] = NewConnection(fd)]
  BY DEF updateQueueConnection, Idle
<1>2. /\ index \in Queued /\ Queued \subseteq Index
      /\ connections[index].clientFd = fd
  BY <1>1, QueueAssumption
     DEF EntryFilled, existsConnection, TypeOK, Queued, Index
<1>3. loop' = "heapify"
  BY <1>1, <1>2, QueueAssumption
     DEF updateQueueConnection, Elements, TypeOK, Time, Connection
<1>4. buffers' = buffers
  <2>1. buffers' = [[buffers EXCEPT ![fd] = @ - 1] EXCEPT ![fd] = @ + 1]
    BY <1>2 DEF updateQueueConnection, freeConnection
  <2> QED
    BY <2>1 DEF TypeOK
<1>5. NewConnection(fd) \in Connection
  BY DEF NewConnection, Connection, TypeOK
<1>6. TypeOK'
  BY <1>1, <1>2, <1>3, <1>4, <1>5 DEF TypeOK
<1>7. NeverFull' /\ Enqueuing' /\ Sifting'
  BY <1>1, <1>2, <1>3 DEF NeverFull, Enqueuing, Sifting, Queued, TypeOK
<1>8. \A i \in Queued : connections'[i].clientFd = connections[i].clientFd
  BY <1>1, <1>2 DEF NewConnection, TypeOK
<1>9. Elements'
  BY <1>1, <1>2, <1>8, QueueAssumption
     DEF Elements, Queued, NewConnection, TypeOK, Time, Index
<1>10. SlotIndexed'
  BY <1>1, <1>3, <1>8 DEF SlotIndexed, Queued
<1>11. EntryFilled'
  BY <1>1, <1>8, QueueAssumption
     DEF EntryFilled, existsConnection, Queued, TypeOK, Index
<1>12. BufferOwned'
  BY <1>1, <1>3, <1>4 DEF BufferOwned, existsConnection
<1> QED
  BY <1>6, <1>7, <1>9, <1>10, <1>11, <1>12

(* Removing the element of fd, from the slot indexQueue gives for it.      *)
LEMMA RemoveIndInv ==
  ASSUME IndInv, NEW fd \in Fds, existsConnection(fd),
         RemoveAt(fd, indexQueue[fd], currentSize - 1)
  PROVE  IndInv'
<1> DEFINE index == indexQueue[fd]
           last == currentSize - 1
           fdLast == connections[last].clientFd
<1> USE DEF IndInv
<1>1. /\ loop = "none"
      /\ buffers' = freeConnection(connections[index])
      /\ currentSize' = last
      /\ UNCHANGED <<died, now>>
  BY DEF RemoveAt, Idle
<1>2. /\ index \in Queued /\ Queued \subseteq Index /\ last \in Queued
      /\ connections[index].clientFd = fd /\ indexQueue[fd] = index
      /\ Queued' = Queued \ {last}
  BY <1>1, QueueAssumption
     DEF EntryFilled, existsConnection, TypeOK, Queued, Index
<1>3. /\ fdLast \in Fds /\ indexQueue[fdLast] = last
      /\ fdLast = fd <=> index = last
  BY <1>1, <1>2 DEF Elements, SlotIndexed
<1>4. buffers' = [buffers EXCEPT ![fd] = @ - 1]
  BY <1>1, <1>2 DEF freeConnection
<1>5. emptyConnection \in Connection
  BY FirstSlot DEF emptyConnection, Connection
<1>6. last \in 0 .. Capacity
  BY <1>2, QueueAssumption DEF Queued, TypeOK
<1>7. CASE fdLast = fd
  <2>1. /\ connections' = [connections EXCEPT ![last] = emptyConnection]
        /\ indexQueue' = [indexQueue EXCEPT ![fd] = -1]
        /\ UNCHANGED <<loop, at, who>>
    BY <1>7 DEF RemoveAt
  <2> HIDE DEF last, index, fdLast
  <2>2. \A i \in Queued' : connections'[i] = connections[i] /\ i # last
    BY <1>2, <2>1 DEF TypeOK
  <2>3. TypeOK'
    BY <1>1, <1>2, <1>4, <1>5, <1>6, <2>1 DEF TypeOK
  <2>4. NeverFull' /\ Enqueuing' /\ Sifting'
    BY <1>1, <2>1 DEF NeverFull, Enqueuing, Sifting
  <2>5. Elements'
    BY <1>1, <1>2, <2>2 DEF Elements
  <2>6. SlotIndexed'
    BY <1>1, <1>2, <1>3, <1>7, <2>1, <2>2 DEF SlotIndexed, Elements, TypeOK
  <2>7. EntryFilled'
    <3> SUFFICES ASSUME NEW g \in Fds, indexQueue'[g] # -1
                 PROVE  /\ indexQueue'[g] < currentSize'
                        /\ connections'[indexQueue'[g]].clientFd = g
      BY DEF EntryFilled, existsConnection
    <3>1. g # fd /\ indexQueue'[g] = indexQueue[g]
      BY <2>1 DEF TypeOK
    <3>2. indexQueue[g] \in Queued /\ connections[indexQueue[g]].clientFd = g
      BY <3>1, QueueAssumption
         DEF EntryFilled, existsConnection, TypeOK, Queued, Index
    <3>3. indexQueue[g] \in Queued'
      BY <3>1, <3>2, <1>2, <1>7 DEF fdLast
    <3> QED
      BY <3>1, <3>2, <3>3, <2>2, <1>1, <1>6 DEF Queued
  <2>8. BufferOwned'
    BY <1>1, <1>4, <2>1 DEF BufferOwned, existsConnection, TypeOK
  <2> QED
    BY <2>3, <2>4, <2>5, <2>6, <2>7, <2>8
<1>8. CASE fdLast # fd
  <2>1. /\ connections' = [connections EXCEPT ![index] = connections[last],
                                              ![last] = emptyConnection]
        /\ indexQueue' = [indexQueue EXCEPT ![fd] = -1, ![fdLast] = index]
        /\ loop' = "heapify" /\ at' = index /\ who' = fdLast
    BY <1>8 DEF RemoveAt
  <2> HIDE DEF last, index, fdLast
  <2>2. /\ \A i \in Queued' \ {index} : connections'[i] = connections[i]
        /\ connections'[index] = connections[last]
        /\ index \in Queued'
    BY <1>2, <1>3, <1>8, <2>1 DEF TypeOK
  <2>3. /\ indexQueue'[fd] = -1 /\ indexQueue'[fdLast] = index
        /\ \A g \in Fds \ {fd, fdLast} : indexQueue'[g] = indexQueue[g]
    BY <1>3, <1>8, <2>1 DEF TypeOK
  <2>4. TypeOK'
    BY <1>1, <1>2, <1>3, <1>4, <1>5, <1>6, <2>1 DEF TypeOK
  <2>5. NeverFull' /\ Enqueuing' /\ Sifting'
    BY <1>1, <1>6, <2>1, <2>2 DEF NeverFull, Enqueuing, Sifting, Queued
  <2>6. Elements'
    BY <1>1, <1>2, <1>3, <2>2 DEF Elements, fdLast
  <2>7. SlotIndexed'
    <3> SUFFICES ASSUME NEW i \in Queued'
                 PROVE  indexQueue'[connections'[i].clientFd] = i
      BY DEF SlotIndexed
    <3>1. CASE i = index
      BY <3>1, <2>2, <2>3 DEF fdLast
    <3>2. CASE i # index
      <4>1. /\ connections'[i] = connections[i] /\ i \in Queued /\ i # last
            /\ connections[i].clientFd \in Fds
            /\ indexQueue[connections[i].clientFd] = i
        BY <3>2, <2>2, <1>1, <1>2 DEF SlotIndexed, Elements
      <4> QED
        BY <3>2, <4>1, <2>3, <1>2, <1>3
    <3> QED
      BY <3>1, <3>2
  <2>8. EntryFilled'
    <3> SUFFICES ASSUME NEW g \in Fds, indexQueue'[g] # -1
                 PROVE  /\ indexQueue'[g] \in Queued'
                        /\ connections'[indexQueue'[g]].clientFd = g
      BY <1>1, <1>6 DEF EntryFilled, existsConnection, Queued
    <3>1. CASE g = fdLast
      BY <3>1, <2>2, <2>3 DEF fdLast
    <3>2. CASE g # fdLast
      <4>1. g # fd /\ indexQueue'[g] = indexQueue[g]
        BY <3>2, <2>3
      <4>2. indexQueue[g] \in Queued /\ connections[indexQueue[g]].clientFd = g
        BY <4>1, QueueAssumption
           DEF EntryFilled, existsConnection, TypeOK, Queued, Index
      <4>3. indexQueue[g] \in Queued' \ {index}
        BY <3>2, <4>1, <4>2, <1>2 DEF fdLast
      <4> QED
        BY <4>1, <4>2, <4>3, <2>2
    <3> QED
      BY <3>1, <3>2
  <2>9. BufferOwned'
    <3>1. \A g \in Fds \ {fd} : (indexQueue'[g] # -1) <=> (indexQueue[g] # -1)
      BY <1>2, <1>3, <2>3 DEF Queued, TypeOK
    <3> QED
      BY <1>1, <1>4, <2>1, <2>3, <3>1 DEF BufferOwned, existsConnection, TypeOK
  <2> QED
    BY <2>4, <2>5, <2>6, <2>7, <2>8, <2>9
<1> QED
  BY <1>7, <1>8

(* dequeueConnection is the removal of the root's descriptor: its entry in *)
(* indexQueue is slot 0, and it is also the last element only when the     *)
(* root is the only element, so that both calls clear the same slot.       *)
LEMMA DequeueIsRemoval ==
  ASSUME IndInv, dequeueConnection
  PROVE  \E fd \in Fds : /\ existsConnection(fd)
                         /\ indexQueue[fd] = 0
                         /\ RemoveAt(fd, indexQueue[fd], currentSize - 1)
<1> DEFINE fd == connections[0].clientFd
           last == currentSize - 1
<1>1. currentSize # 0 /\ RemoveAt(fd, 0, 0) /\ loop = "none"
  BY DEF dequeueConnection, RemoveAt, Idle
<1>2. 0 \in Queued /\ last \in Queued
  BY <1>1, QueueAssumption DEF IndInv, TypeOK, Queued
<1>3. /\ fd \in Fds /\ indexQueue[fd] = 0
      /\ indexQueue[connections[last].clientFd] = last
  BY <1>1, <1>2 DEF IndInv, Elements, SlotIndexed
<1>4. RemoveAt(fd, 0, last)
  BY <1>1, <1>3 DEF RemoveAt
<1>5. existsConnection(fd)
  BY <1>3 DEF existsConnection
<1> QED
  BY <1>3, <1>4, <1>5

(* Time passes between operations and only forward.                        *)
LEMMA TickIndInv ==
  ASSUME IndInv, Tick
  PROVE  IndInv'
<1> USE DEF IndInv, Tick
<1>1. TypeOK'
  BY QueueAssumption DEF TypeOK, Time
<1>2. Elements'
  BY QueueAssumption DEF Elements, Queued, TypeOK, Time, Index, Connection
<1>3. NeverFull' /\ Enqueuing' /\ Sifting' /\ SlotIndexed'
  BY DEF NeverFull, Enqueuing, Sifting, SlotIndexed, Queued, Idle
<1>4. EntryFilled' /\ BufferOwned'
  BY DEF EntryFilled, BufferOwned, existsConnection
<1> QED
  BY <1>1, <1>2, <1>3, <1>4

(* Every step of the queue keeps the invariant.                            *)
LEMMA NextIndInv == IndInv /\ [Next]_queueVars => IndInv'
<1> SUFFICES ASSUME IndInv, [Next]_queueVars PROVE IndInv'
  OBVIOUS
<1>1. ASSUME NEW fd \in Fds, getConnectionOrCreateByFd(fd) PROVE IndInv'
  BY <1>1, CreateIndInv
<1>2. ASSUME NEW fd \in Fds, updateQueueConnection(fd) PROVE IndInv'
  BY <1>2, UpdateIndInv
<1>3. ASSUME NEW fd \in Fds, dequeueConnectionByFd(fd) PROVE IndInv'
  BY <1>3, RemoveIndInv DEF dequeueConnectionByFd
<1>4. CASE dequeueConnection
  BY <1>4, DequeueIsRemoval, RemoveIndInv
<1>5. CASE shiftUp
  BY <1>5, ShiftUpIndInv
<1>6. CASE heapify
  BY <1>6, HeapifyIndInv
<1>7. CASE Tick
  BY <1>7, TickIndInv
<1>8. CASE UNCHANGED queueVars
  BY <1>8 DEF queueVars, IndInv, TypeOK, NeverFull, Elements, Enqueuing, Sifting,
              SlotIndexed, EntryFilled, BufferOwned, Queued, existsConnection,
              NewConnection
<1> QED
  BY <1>1, <1>2, <1>3, <1>4, <1>5, <1>6, <1>7, <1>8 DEF Next

(* The invariant holds in every reachable state.                           *)
LEMMA AlwaysIndInv == Spec => []IndInv
  BY InitIndInv, NextIndInv, PTL DEF Spec

-----------------------------------------------------------------------------
(* Theorems.                                                               *)

(* Every field of the queue keeps its type in every reachable state of     *)
(* queue_connections.c; in particular no loop indexes outside the arrays.  *)
THEOREM TypeCorrect == Spec => []TypeOK
<1>1. IndInv => TypeOK
  BY DEF IndInv
<1> QED
  BY <1>1, AlwaysIndInv, PTL

(* Between two operations of the queue indexQueue gives the slot of every  *)
(* queued descriptor and of no other.                                      *)
THEOREM Coherence == Spec => []IndexCoherent
<1>1. IndInv => IndexCoherent
  BY DEF IndInv, Elements, SlotIndexed, EntryFilled, IndexCoherent, Idle
<1> QED
  BY <1>1, AlwaysIndInv, PTL

(* Between two operations each queued descriptor owns one request buffer,  *)
(* and no removed one owns any: freeConnection and malloc are balanced.    *)
THEOREM Balance == Spec => []BuffersBalanced
<1>1. IndInv => BuffersBalanced
  BY DEF IndInv, BufferOwned, BuffersBalanced, Idle
<1> QED
  BY <1>1, AlwaysIndInv, PTL

(* The die() of getConnectionOrCreateByFd is unreachable: a heap with one  *)
(* slot more than there are descriptors is never full.                     *)
THEOREM Room == Spec => []NeverFull
<1>1. IndInv => NeverFull
  BY DEF IndInv
<1> QED
  BY <1>1, AlwaysIndInv, PTL

-----------------------------------------------------------------------------
(* The heap implements the keep-alive table.                               *)

Dated == [fd \in Fds |-> IF existsConnection(fd)
                         THEN connections[indexQueue[fd]].priorityTime
                         ELSE -1]

(* Every step of the heap is a step of the table or leaves it alone.       *)
LEMMA NextRefines ==
  ASSUME IndInv, [Next]_queueVars
  PROVE  [Table!TableNext]_(Table!tableVars)
<1> USE DEF IndInv
<1> SUFFICES \/ Dated' = Dated /\ now' = now
             \/ \E fd \in Fds : /\ Dated[fd] = -1
                                /\ Dated' = [Dated EXCEPT ![fd] = now]
                                /\ now' = now
             \/ \E fd \in Fds : /\ Dated[fd] # -1
                                /\ Dated' = [Dated EXCEPT ![fd] = now]
                                /\ now' = now
             \/ \E fd \in Fds : /\ Dated[fd] # -1
                                /\ Dated' = [Dated EXCEPT ![fd] = -1]
                                /\ now' = now
             \/ now < MaxTime /\ now' = now + 1 /\ Dated' = Dated
  BY DEF Dated, Table!TableNext, Table!tableVars, Table!Open, Table!Refresh,
         Table!Close, Table!Pass, Table!Absent
<1>1. \A fd \in Fds : existsConnection(fd) =>
        /\ indexQueue[fd] \in Queued /\ indexQueue[fd] \in Index
        /\ connections[indexQueue[fd]].clientFd = fd
        /\ connections[indexQueue[fd]].priorityTime \in Time
  BY QueueAssumption
     DEF EntryFilled, existsConnection, TypeOK, Queued, Index, Connection
<1>2. \A fd \in Fds : existsConnection(fd) <=> Dated[fd] # -1
  BY <1>1, QueueAssumption DEF Dated, Time
<1>3. ASSUME NEW fd \in Fds, getConnectionOrCreateByFd(fd)
      PROVE  Dated' = Dated /\ now' = now
  <2>1. UNCHANGED <<indexQueue, now>>
    BY <1>3 DEF getConnectionOrCreateByFd
  <2>2. \A i \in Queued : connections'[i] = connections[i]
    BY <1>3 DEF getConnectionOrCreateByFd, Queued, TypeOK, Index
  <2> QED
    BY <1>1, <2>1, <2>2 DEF Dated, existsConnection
<1>4. ASSUME NEW fd \in Fds, updateQueueConnection(fd)
      PROVE  /\ Dated[fd] # -1
             /\ Dated' = [Dated EXCEPT ![fd] = now]
             /\ now' = now
  <2>1. /\ existsConnection(fd) /\ UNCHANGED <<indexQueue, now>>
        /\ connections' = [connections EXCEPT ![indexQueue[fd]] = NewConnection(fd)]
    BY <1>4 DEF updateQueueConnection
  <2>2. \A g \in Fds \ {fd} : existsConnection(g) =>
          connections'[indexQueue[g]] = connections[indexQueue[g]]
    BY <1>1, <2>1 DEF TypeOK
  <2>3. connections'[indexQueue[fd]].priorityTime = now
    BY <1>1, <2>1 DEF TypeOK, NewConnection
  <2>4. \A g \in Fds : Dated'[g] = IF g = fd THEN now ELSE Dated[g]
    BY <2>1, <2>2, <2>3 DEF Dated, existsConnection
  <2>5. Dated' = [Dated EXCEPT ![fd] = now]
    BY <2>4 DEF Dated
  <2> QED
    BY <1>2, <2>1, <2>5
<1>5. ASSUME NEW fd \in Fds, existsConnection(fd),
             RemoveAt(fd, indexQueue[fd], currentSize - 1)
      PROVE  /\ Dated[fd] # -1
             /\ Dated' = [Dated EXCEPT ![fd] = -1]
             /\ now' = now
  <2> DEFINE last == currentSize - 1
             fdLast == connections[last].clientFd
  <2>1. now' = now /\ loop = "none" /\ last \in Queued /\ last \in Index
    BY <1>1, <1>5, QueueAssumption DEF RemoveAt, Idle, Queued, TypeOK, Index
  <2>2. fdLast \in Fds /\ indexQueue[fdLast] = last
    BY <2>1 DEF Elements, SlotIndexed
  <2>3. CASE fdLast = fd
    <3>1. /\ connections' = [connections EXCEPT ![last] = emptyConnection]
          /\ indexQueue' = [indexQueue EXCEPT ![fd] = -1]
      BY <2>3, <1>5 DEF RemoveAt
    <3>2. \A g \in Fds \ {fd} : /\ indexQueue'[g] = indexQueue[g]
                                /\ existsConnection(g) => indexQueue[g] # last
      BY <1>1, <2>3, <3>1 DEF TypeOK
    <3>3. \A g \in Fds \ {fd} : existsConnection(g) =>
            connections'[indexQueue[g]] = connections[indexQueue[g]]
      BY <1>1, <3>1, <3>2 DEF TypeOK
    <3>4. indexQueue'[fd] = -1
      BY <3>1 DEF TypeOK
    <3>5. \A g \in Fds : Dated'[g] = IF g = fd THEN -1 ELSE Dated[g]
      <4> TAKE g \in Fds
      <4>1. CASE g = fd
        BY <3>4, <4>1 DEF Dated, existsConnection
      <4>2. CASE g # fd
        <5>1. indexQueue'[g] = indexQueue[g]
          BY <3>2, <4>2
        <5>2. indexQueue[g] # -1 => connections'[indexQueue[g]] = connections[indexQueue[g]]
          BY <3>3, <4>2 DEF existsConnection
        <5> QED
          BY <4>2, <5>1, <5>2 DEF Dated, existsConnection
      <4> QED
        BY <4>1, <4>2
    <3>6. Dated' = [Dated EXCEPT ![fd] = -1]
      BY <3>5 DEF Dated
    <3> QED
      BY <1>2, <1>5, <2>1, <3>6
  <2>4. CASE fdLast # fd
    <3>1. /\ connections' = [connections EXCEPT ![indexQueue[fd]] = connections[last],
                                                ![last] = emptyConnection]
          /\ indexQueue' = [indexQueue EXCEPT ![fd] = -1,
                                              ![fdLast] = indexQueue[fd]]
      BY <2>4, <1>5 DEF RemoveAt
    <3> HIDE DEF last, fdLast
    <3>2. /\ indexQueue'[fd] = -1 /\ indexQueue'[fdLast] = indexQueue[fd]
          /\ \A g \in Fds \ {fd, fdLast} : indexQueue'[g] = indexQueue[g]
      BY <2>2, <2>4, <3>1 DEF TypeOK
    <3>3. indexQueue[fd] # last /\ indexQueue[fd] # -1
      BY <1>1, <1>5, <2>4 DEF fdLast, existsConnection
    <3>4. connections'[indexQueue[fd]] = connections[last]
      BY <1>1, <1>5, <2>1, <3>1, <3>3 DEF TypeOK
    <3>5. \A g \in Fds \ {fd, fdLast} : existsConnection(g) =>
            connections'[indexQueue[g]] = connections[indexQueue[g]]
      BY <1>1, <1>5, <3>1 DEF TypeOK, fdLast
    <3>6. existsConnection(fdLast)
      BY <2>1, <2>2, QueueAssumption DEF existsConnection, Queued
    <3>7. \A g \in Fds : Dated'[g] = IF g = fd THEN -1 ELSE Dated[g]
      BY <2>2, <3>2, <3>3, <3>4, <3>5, <3>6 DEF Dated, existsConnection
    <3>8. Dated' = [Dated EXCEPT ![fd] = -1]
      BY <3>7 DEF Dated
    <3> QED
      BY <1>2, <1>5, <2>1, <3>8
  <2> QED
    BY <2>3, <2>4
<1>6. ASSUME shiftUp
      PROVE  \E fd \in Fds : /\ Dated[fd] = -1
                             /\ Dated' = [Dated EXCEPT ![fd] = now]
                             /\ now' = now
  <2>1. ~(at # 0 /\ Earlier(at, parentHeap(at)))
    BY <1>6, ShiftUpStays
  <2>2. /\ loop = "shiftUp" /\ UNCHANGED <<connections, now>>
        /\ indexQueue' = [indexQueue EXCEPT ![who] = at]
    BY <1>6, <2>1 DEF shiftUp
  <2>3. /\ who \in Fds /\ ~existsConnection(who) /\ at \in Index
        /\ connections[at].priorityTime = now
    BY <2>2 DEF Enqueuing, existsConnection, NewConnection, TypeOK
  <2>4. /\ indexQueue'[who] = at /\ at # -1
        /\ \A g \in Fds \ {who} : indexQueue'[g] = indexQueue[g]
    BY <2>2, <2>3, QueueAssumption DEF TypeOK, Index
  <2>5. \A g \in Fds : Dated'[g] = IF g = who THEN now ELSE Dated[g]
    BY <2>2, <2>3, <2>4 DEF Dated, existsConnection
  <2>6. Dated' = [Dated EXCEPT ![who] = now]
    BY <2>5 DEF Dated
  <2> QED
    BY <1>2, <2>2, <2>3, <2>6
<1>7. ASSUME heapify
      PROVE  Dated' = Dated /\ now' = now
  <2> DEFINE child == smallest(at)
  <2>1. /\ at \in Queued /\ child \in Queued /\ Queued \subseteq Index
        /\ loop = "heapify" /\ now' = now
    BY <1>7, SmallestInHeap, QueueAssumption
       DEF heapify, Sifting, Queued, TypeOK, Index
  <2>2. CASE child = at
    BY <1>7, <2>1, <2>2 DEF heapify, Dated, existsConnection
  <2>3. CASE child # at
    <3> DEFINE a == connections[at].clientFd
               c == connections[child].clientFd
    <3>1. /\ connections' = [connections EXCEPT ![at] = connections[child],
                                                ![child] = connections[at]]
          /\ indexQueue' = [indexQueue EXCEPT ![c] = at, ![a] = child]
      BY <1>7, <2>3 DEF heapify, Reindexed, swapConnectionElementHeap
    <3>2. /\ a \in Fds /\ c \in Fds
          /\ indexQueue[a] = at /\ indexQueue[c] = child /\ a # c
      BY <2>1, <2>3 DEF Elements, SlotIndexed
    <3> HIDE DEF child, a, c
    <3>3. /\ connections'[at] = connections[child]
          /\ connections'[child] = connections[at]
          /\ \A i \in Index \ {at, child} : connections'[i] = connections[i]
      BY <2>1, <2>3, <3>1 DEF TypeOK
    <3>4. /\ indexQueue'[a] = child /\ indexQueue'[c] = at
          /\ \A g \in Fds \ {a, c} : indexQueue'[g] = indexQueue[g]
      BY <3>1, <3>2 DEF TypeOK
    <3>5. at # -1 /\ child # -1
      BY <2>1 DEF Queued, TypeOK
    <3>6. \A g \in Fds \ {a, c} : existsConnection(g) =>
            /\ indexQueue[g] \in Index \ {at, child}
      BY <1>1 DEF a, c
    <3>7. \A g \in Fds : Dated'[g] = Dated[g]
      BY <3>2, <3>3, <3>4, <3>5, <3>6 DEF Dated, existsConnection
    <3> QED
      BY <2>1, <3>7 DEF Dated
  <2> QED
    BY <2>2, <2>3
<1>8. ASSUME Tick
      PROVE  now < MaxTime /\ now' = now + 1 /\ Dated' = Dated
  BY <1>8 DEF Tick, Dated, existsConnection
<1>9. ASSUME UNCHANGED queueVars
      PROVE  Dated' = Dated /\ now' = now
  BY <1>9 DEF queueVars, Dated, existsConnection
<1>10. ASSUME NEW fd \in Fds, dequeueConnectionByFd(fd)
       PROVE  /\ Dated[fd] # -1
              /\ Dated' = [Dated EXCEPT ![fd] = -1]
              /\ now' = now
  BY <1>5, <1>10 DEF dequeueConnectionByFd
<1>11. ASSUME dequeueConnection
       PROVE  \E fd \in Fds : /\ Dated[fd] # -1
                              /\ Dated' = [Dated EXCEPT ![fd] = -1]
                              /\ now' = now
  BY <1>5, <1>11, DequeueIsRemoval
<1> HIDE DEF IndInv
<1> QED
  BY <1>3, <1>4, <1>6, <1>7, <1>8, <1>9, <1>10, <1>11 DEF Next

(* queue_connections.c implements the table of keep-alive periods: each    *)
(* completed enqueue, update and dequeue changes the period of its own     *)
(* descriptor and of no other, and the steps of the heap change none.      *)
THEOREM Refinement == Spec => ImplementsTable
<1>1. Init => Table!TableInit
  BY DEF Init, Table!TableInit, Table!Absent, existsConnection
<1>2. IndInv /\ [Next]_queueVars => [Table!TableNext]_(Table!tableVars)
  BY NextRefines
<1> QED
  BY <1>1, <1>2, AlwaysIndInv, PTL DEF Spec, ImplementsTable, Table!TableSpec

-----------------------------------------------------------------------------
(* The root of the heap is the oldest connection.                          *)

(* The order of the heap: no element is earlier than its parent.  While    *)
(* heapify looks at slot `at' the children of that slot may be earlier     *)
(* than it; they are not earlier than its parent, so that the one that     *)
(* rises fits there.                                                       *)
Under(i, slot) == loop = "heapify" /\ parentHeap(i) = slot

HeapOrder ==
  \A i \in Queued \ {0} :
    IF Under(i, at) THEN at # 0 => ~Earlier(i, parentHeap(at))
                    ELSE ~Earlier(i, parentHeap(i))

(* A removal from the middle of the heap whose replacement, the last       *)
(* element, is earlier than the parent of the slot it is put into.         *)
(* dequeueConnectionByFd only sifts it down, so it stays out of order.     *)
Misplaces ==
  \E fd \in Fds :
    /\ dequeueConnectionByFd(fd)
    /\ indexQueue[fd] \notin {0, currentSize - 1}
    /\ Earlier(currentSize - 1, parentHeap(indexQueue[fd]))

OrderedInv == IndInv /\ HeapOrder

(* A slot's parent comes before it.                                        *)
LEMMA ParentBefore ==
  ASSUME NEW i \in Nat \ {0}
  PROVE  parentHeap(i) \in Nat /\ parentHeap(i) < i
BY DEF parentHeap

(* The macros of queue_connections.h agree: the slots below p are its left *)
(* and its right child.                                                    *)
LEMMA ChildrenOf ==
  ASSUME NEW i \in Nat \ {0}, NEW p \in Nat
  PROVE  parentHeap(i) = p <=> i = leftChildHeap(p) \/ i = rightChildHeap(p)
BY DEF parentHeap, leftChildHeap, rightChildHeap

(* Every slot of the heap has a time, and the parent of one is one.        *)
LEMMA SlotsTyped ==
  ASSUME IndInv
  PROVE  /\ currentSize \in Nat /\ Queued \subseteq Nat /\ Queued \subseteq Index
         /\ \A i \in Queued : connections[i].priorityTime \in Nat
         /\ \A i \in Queued \ {0} : parentHeap(i) \in Queued /\ parentHeap(i) < i
<1>1. currentSize \in Nat /\ Queued \subseteq Nat /\ Queued \subseteq Index
  BY QueueAssumption DEF IndInv, TypeOK, Queued, Index
<1>2. \A i \in Queued : connections[i].priorityTime \in Nat
  BY <1>1, QueueAssumption DEF IndInv, TypeOK, Connection, Time
<1>3. ASSUME NEW i \in Queued \ {0}
      PROVE  parentHeap(i) \in Queued /\ parentHeap(i) < i
  <2>1. parentHeap(i) \in Nat /\ parentHeap(i) < i
    BY <1>1, ParentBefore
  <2> QED
    BY <1>1, <2>1 DEF Queued
<1> QED
  BY <1>1, <1>2, <1>3

(* What heapify picks: a slot no later than the one it looks at and than   *)
(* its children, and when it is another slot, one of the children.         *)
LEMMA SmallestIsEarliest ==
  ASSUME IndInv, loop = "heapify"
  PROVE  /\ smallest(at) \in Queued
         /\ ~Earlier(at, smallest(at))
         /\ \A i \in Queued \ {0} :
              parentHeap(i) = at => ~Earlier(i, smallest(at))
         /\ smallest(at) # at => /\ smallest(at) # 0
                                 /\ parentHeap(smallest(at)) = at
<1> DEFINE l == leftChildHeap(at)
           r == rightChildHeap(at)
           m == SmallerOf(at, l)
           s == SmallerOf(m, r)
<1>1. at \in Queued /\ at \in Nat /\ l \in Nat \ {0} /\ r \in Nat \ {0}
  BY QueueAssumption
     DEF IndInv, TypeOK, Sifting, Queued, Index, leftChildHeap, rightChildHeap
<1>2. \A i \in Queued \ {0} : parentHeap(i) = at => i = l \/ i = r
  BY <1>1, SlotsTyped, ChildrenOf
<1>3. parentHeap(l) = at /\ parentHeap(r) = at
  BY <1>1, ChildrenOf
<1>4. smallest(at) = s
  BY DEF smallest
<1> HIDE DEF l, r
<1>5. /\ m \in Queued /\ m \in {at, l} /\ ~Earlier(at, m)
      /\ l \in Queued => ~Earlier(l, m)
  BY <1>1, SlotsTyped DEF SmallerOf, Earlier, Queued
<1> HIDE DEF m
<1>6. /\ s \in Queued /\ s \in {m, r} /\ ~Earlier(m, s)
      /\ r \in Queued => ~Earlier(r, s)
  BY <1>1, <1>5, SlotsTyped DEF SmallerOf, Earlier, Queued
<1> HIDE DEF s
<1>7. ~Earlier(at, s) /\ (l \in Queued => ~Earlier(l, s))
  BY <1>1, <1>5, <1>6, SlotsTyped DEF Earlier
<1> QED
  BY <1>1, <1>2, <1>3, <1>4, <1>5, <1>6, <1>7

(* In an ordered heap nothing is earlier than the root: the first slot     *)
(* that was would be earlier than its parent, which is not.                *)
LEMMA RootIsEarliest ==
  ASSUME IndInv, HeapOrder, loop # "heapify"
  PROVE  \A i \in Queued : ~Earlier(i, 0)
<1> DEFINE S == {i \in Queued : Earlier(i, 0)}
<1> SUFFICES ASSUME S # {} PROVE FALSE
  OBVIOUS
<1>1. S \subseteq Nat
  BY SlotsTyped
<1>2. PICK m \in S : \A y \in S : ~(<<y, m>> \in OpToRel(<, Nat))
  BY <1>1, NatLessThanWellFounded, WFMin
<1>3. ASSUME NEW y \in S, y < m PROVE FALSE
  <2>1. <<y, m>> \in {ss \in Nat \X Nat : ss[1] < ss[2]}
    BY <1>1, <1>3
  <2> QED
    BY <1>2, <1>3, <2>1 DEF OpToRel
<1>4. m \in Queued /\ 0 \in Queued /\ Earlier(m, 0)
  BY SlotsTyped DEF Queued
<1>5. m # 0
  BY <1>4, SlotsTyped DEF Earlier
<1>6. parentHeap(m) \in Queued /\ parentHeap(m) < m
  BY <1>4, <1>5, SlotsTyped
<1>7. ~Earlier(m, parentHeap(m))
  BY <1>4, <1>5 DEF HeapOrder, Under
<1>8. ~Earlier(parentHeap(m), 0)
  BY <1>3, <1>6
<1> QED
  BY <1>4, <1>6, <1>7, <1>8, SlotsTyped DEF Earlier

(* A new connection is put last, below a parent that is not later than it. *)
LEMMA CreateOrdered ==
  ASSUME OrderedInv, NEW fd \in Fds, getConnectionOrCreateByFd(fd)
  PROVE  HeapOrder'
<1>1. IndInv /\ IndInv' /\ loop = "none"
  BY CreateIndInv DEF OrderedInv, getConnectionOrCreateByFd, Idle
<1>2. currentSize < Capacity
  BY <1>1, RoomLeft
<1>3. currentSize \in Index
  BY <1>1, <1>2, SlotsTyped, QueueAssumption DEF Index
<1>4. /\ loop' = "shiftUp" /\ currentSize' = currentSize + 1
      /\ connections' = [connections EXCEPT ![currentSize] = NewConnection(fd)]
  BY <1>1, <1>2, SlotsTyped, QueueAssumption DEF getConnectionOrCreateByFd
<1>5. /\ \A i \in Queued : connections'[i] = connections[i]
      /\ connections'[currentSize].priorityTime = now
  BY <1>1, <1>3, <1>4, SlotsTyped DEF IndInv, TypeOK, Queued, NewConnection
<1>6. ASSUME NEW i \in Queued' \ {0}
      PROVE  ~Earlier(i, parentHeap(i))'
  <2>1. CASE i \in Queued
    <3>1. parentHeap(i) \in Queued
      BY <2>1, <1>1, SlotsTyped
    <3>2. ~Earlier(i, parentHeap(i))
      BY <2>1, <1>1 DEF OrderedInv, HeapOrder, Under
    <3> QED
      BY <2>1, <3>1, <3>2, <1>5 DEF Earlier, parentHeap
  <2>2. CASE i \notin Queued
    <3>1. i = currentSize
      BY <2>2, <1>1, <1>4, SlotsTyped DEF Queued
    <3>2. parentHeap(i) \in Queued
      BY <3>1, <1>1, SlotsTyped, ParentBefore DEF Queued
    <3>3. connections'[parentHeap(i)].priorityTime <= now
      BY <3>2, <1>1, <1>5 DEF IndInv, Elements
    <3>4. now \in Nat
      BY <1>1, QueueAssumption DEF IndInv, TypeOK, Time
    <3> QED
      BY <3>1, <3>2, <3>3, <3>4, <1>1, <1>5, SlotsTyped DEF Earlier, parentHeap
  <2> QED
    BY <2>1, <2>2
<1> QED
  BY <1>4, <1>6 DEF HeapOrder, Under

(* updateQueueConnection re-dates an element to the present: it stays      *)
(* below its parent, and what it leaves out of order is below it.          *)
LEMMA UpdateOrdered ==
  ASSUME OrderedInv, NEW fd \in Fds, updateQueueConnection(fd)
  PROVE  HeapOrder'
<1> DEFINE index == indexQueue[fd]
<1>1. IndInv /\ IndInv' /\ loop = "none"
  BY UpdateIndInv DEF OrderedInv, updateQueueConnection, Idle
<1>2. /\ at' = index /\ currentSize' = currentSize
      /\ connections' = [connections EXCEPT ![index] = NewConnection(fd)]
      /\ existsConnection(fd)
  BY DEF updateQueueConnection
<1>3. index \in Queued
  BY <1>1, <1>2, QueueAssumption
     DEF IndInv, EntryFilled, existsConnection, TypeOK, Queued, Index
<1> HIDE DEF index
<1>4. /\ \A i \in Queued \ {index} : connections'[i] = connections[i]
      /\ connections'[index].priorityTime = now
  BY <1>1, <1>2, <1>3, SlotsTyped DEF IndInv, TypeOK, NewConnection
<1>5. loop' = "heapify"
  BY <1>1, <1>3, SlotsTyped, QueueAssumption
     DEF updateQueueConnection, IndInv, Elements, TypeOK, Time, index
<1>6. now \in Nat /\ Queued' = Queued
  BY <1>1, <1>2, QueueAssumption DEF IndInv, TypeOK, Time, Queued
<1>7. \A i \in Queued \ {0} : ~Earlier(i, parentHeap(i))
  BY <1>1 DEF OrderedInv, HeapOrder, Under
<1>8. ASSUME NEW i \in Queued \ {0}, parentHeap(i) # index
      PROVE  ~Earlier(i, parentHeap(i))'
  <2>1. parentHeap(i) \in Queued \ {index} /\ ~Earlier(i, parentHeap(i))
    BY <1>1, <1>7, <1>8, SlotsTyped
  <2>2. connections'[parentHeap(i)] = connections[parentHeap(i)]
    BY <1>4, <2>1
  <2>3. CASE i = index
    BY <1>1, <1>4, <1>6, <2>1, <2>2, <2>3, SlotsTyped
       DEF IndInv, Elements, Earlier, parentHeap
  <2>4. CASE i # index
    BY <1>4, <2>1, <2>2, <2>4 DEF Earlier, parentHeap
  <2> QED
    BY <2>3, <2>4
<1>9. ASSUME NEW i \in Queued \ {0}, parentHeap(i) = index, index # 0
      PROVE  ~(connections'[i].priorityTime
                  < connections'[parentHeap(index)].priorityTime)
  <2>1. ~Earlier(i, index) /\ ~Earlier(index, parentHeap(index))
    BY <1>3, <1>7, <1>9
  <2>2. i # index /\ parentHeap(index) \in Queued \ {index}
    BY <1>1, <1>3, <1>9, SlotsTyped
  <2>3. ~Earlier(i, parentHeap(index))
    BY <1>1, <1>3, <2>1, <2>2, SlotsTyped DEF Earlier
  <2> QED
    BY <1>4, <2>2, <2>3 DEF Earlier
<1> QED
  BY <1>2, <1>5, <1>6, <1>8, <1>9 DEF HeapOrder, Under, Earlier, parentHeap

(* A removal that does not misplace the last element leaves at most the    *)
(* slot it moves to out of order with the slots below it.                  *)
LEMMA RemoveOrdered ==
  ASSUME OrderedInv, NEW fd \in Fds, existsConnection(fd),
         RemoveAt(fd, indexQueue[fd], currentSize - 1),
         \/ indexQueue[fd] \in {0, currentSize - 1}
         \/ ~Earlier(currentSize - 1, parentHeap(indexQueue[fd]))
  PROVE  HeapOrder'
<1> DEFINE index == indexQueue[fd]
           last == currentSize - 1
           fdLast == connections[last].clientFd
<1>1. IndInv /\ IndInv' /\ loop = "none" /\ currentSize' = last
  BY RemoveIndInv DEF OrderedInv, RemoveAt, Idle
<1>2. index \in Queued /\ connections[index].clientFd = fd
  BY <1>1, QueueAssumption
     DEF IndInv, EntryFilled, existsConnection, TypeOK, Queued, Index
<1>3. /\ last \in Queued
      /\ Queued' = Queued \ {last}
      /\ \A i \in Queued \ {last} : i < last
  BY <1>1, <1>2, SlotsTyped DEF Queued
<1>4. fdLast = fd <=> index = last
  BY <1>1, <1>2, <1>3 DEF IndInv, Elements, SlotIndexed
<1>5. \A i \in Queued \ {0} : ~Earlier(i, parentHeap(i))
  BY <1>1 DEF OrderedInv, HeapOrder, Under
<1>6. ASSUME NEW i \in Queued' \ {0} PROVE parentHeap(i) \in Queued'
  <2>1. i \in Queued \ {0} /\ i < last /\ last \in Nat
    BY <1>1, <1>3, SlotsTyped
  <2>2. parentHeap(i) \in Queued /\ parentHeap(i) < i /\ parentHeap(i) \in Nat
        /\ i \in Nat
    BY <1>1, <2>1, SlotsTyped
  <2>3. parentHeap(i) # last
    BY <2>1, <2>2
  <2> QED
    BY <1>3, <2>2, <2>3
<1>7. CASE index = last
  <2>1. /\ connections' = [connections EXCEPT ![last] = emptyConnection]
        /\ loop' = "none"
    BY <1>1, <1>4, <1>7 DEF RemoveAt
  <2> HIDE DEF last, index, fdLast
  <2>2. \A i \in Queued' : connections'[i] = connections[i]
    BY <1>1, <1>3, <2>1, SlotsTyped DEF IndInv, TypeOK
  <2>3. ASSUME NEW i \in Queued' \ {0}
        PROVE  ~Earlier(i, parentHeap(i))'
    BY <1>3, <1>5, <1>6, <2>2 DEF Earlier, parentHeap
  <2> QED
    BY <2>1, <2>3 DEF HeapOrder, Under
<1>8. CASE index # last
  <2>1. /\ connections' = [connections EXCEPT ![index] = connections[last],
                                              ![last] = emptyConnection]
        /\ loop' = "heapify" /\ at' = index
    BY <1>4, <1>8 DEF RemoveAt
  <2>2. index = 0 \/ ~Earlier(last, parentHeap(index))
    BY <1>8
  <2> HIDE DEF last, index, fdLast
  <2>3. /\ \A i \in Queued' \ {index} : connections'[i] = connections[i]
        /\ connections'[index] = connections[last]
        /\ index \in Queued'
    BY <1>1, <1>2, <1>3, <1>8, <2>1, SlotsTyped DEF IndInv, TypeOK
  <2>4. ASSUME NEW i \in Queued' \ {0}, parentHeap(i) # index
        PROVE  ~Earlier(i, parentHeap(i))'
    <3>1. parentHeap(i) \in Queued' \ {index}
      BY <1>6, <2>4
    <3>2. connections'[parentHeap(i)] = connections[parentHeap(i)]
      BY <2>3, <3>1
    <3>3. CASE i = index
      BY <2>2, <2>3, <3>2, <3>3 DEF Earlier, parentHeap
    <3>4. CASE i # index
      BY <1>3, <1>5, <2>3, <3>2, <3>4 DEF Earlier, parentHeap
    <3> QED
      BY <3>3, <3>4
  <2>5. ASSUME NEW i \in Queued' \ {0}, parentHeap(i) = index, index # 0
        PROVE  ~(connections'[i].priorityTime
                  < connections'[parentHeap(index)].priorityTime)
    <3>1. ~Earlier(i, index) /\ ~Earlier(index, parentHeap(index))
      BY <1>2, <1>3, <1>5, <2>5
    <3>2. i \in Queued' \ {index} /\ parentHeap(index) \in Queued' \ {index}
      BY <1>1, <1>2, <1>6, <2>3, <2>5, <1>3, SlotsTyped
    <3>3. ~Earlier(i, parentHeap(index))
      BY <1>1, <1>2, <1>3, <3>1, <3>2, SlotsTyped DEF Earlier
    <3>4. connections'[parentHeap(index)] = connections[parentHeap(index)]
      BY <2>3, <3>2
    <3> QED
      BY <2>3, <3>2, <3>3, <3>4 DEF Earlier
  <2> QED
    BY <2>1, <2>4, <2>5 DEF HeapOrder, Under, Earlier, parentHeap
<1> QED
  BY <1>7, <1>8

(* A turn of heapify puts the earliest of three slots on top and leaves at *)
(* most the slots below the child it swapped out of order.                 *)
LEMMA HeapifyOrdered ==
  ASSUME OrderedInv, heapify
  PROVE  HeapOrder'
<1> DEFINE child == smallest(at)
<1>1. IndInv /\ IndInv' /\ loop = "heapify" /\ currentSize' = currentSize
  BY HeapifyIndInv DEF OrderedInv, heapify
<1>2. at \in Queued
  BY <1>1, QueueAssumption DEF IndInv, TypeOK, Sifting, Queued, Index
<1>3. /\ child \in Queued
      /\ ~Earlier(at, child)
      /\ \A i \in Queued \ {0} : parentHeap(i) = at => ~Earlier(i, child)
      /\ child # at => child # 0 /\ parentHeap(child) = at
  BY <1>1, SmallestIsEarliest
<1>4. Queued' = Queued
  BY <1>1 DEF Queued
<1>5. /\ \A i \in Queued \ {0} : parentHeap(i) # at => ~Earlier(i, parentHeap(i))
      /\ \A i \in Queued \ {0} :
           parentHeap(i) = at /\ at # 0 => ~Earlier(i, parentHeap(at))
  BY <1>1 DEF OrderedInv, HeapOrder, Under
<1>6. CASE child = at
  <2>1. loop' = "none" /\ UNCHANGED connections
    BY <1>6 DEF heapify, Return
  <2> HIDE DEF child
  <2>2. \A i \in Queued \ {0} : ~Earlier(i, parentHeap(i))
    BY <1>3, <1>5, <1>6
  <2> QED
    BY <1>4, <2>1, <2>2 DEF HeapOrder, Under, Earlier, parentHeap
<1>7. CASE child # at
  <2>1. /\ connections' = [connections EXCEPT ![at] = connections[child],
                                              ![child] = connections[at]]
        /\ at' = child /\ loop' = "heapify"
    BY <1>1, <1>7 DEF heapify, swapConnectionElementHeap
  <2> HIDE DEF child
  <2>2. /\ \A i \in Queued \ {at, child} : connections'[i] = connections[i]
        /\ connections'[at] = connections[child]
        /\ connections'[child] = connections[at]
    BY <1>1, <1>2, <1>3, <1>7, <2>1, SlotsTyped DEF IndInv, TypeOK
  <2>3. at < child /\ child # 0 /\ parentHeap(child) = at
    BY <1>1, <1>3, <1>7, SlotsTyped
  <2>4. \A i \in Queued \ {0} : parentHeap(i) \in Queued /\ parentHeap(i) < i
    BY <1>1, SlotsTyped
  <2>5. \A i \in Queued : connections[i].priorityTime \in Nat /\ i \in Nat
    BY <1>1, SlotsTyped
  <2>6. ASSUME NEW i \in Queued \ {0}, parentHeap(i) # child
        PROVE  ~Earlier(i, parentHeap(i))'
    <3>1. CASE i = at
      <4>1. parentHeap(i) \in Queued \ {at, child}
        BY <1>2, <1>3, <2>3, <2>4, <2>5, <3>1
      <4>2. ~Earlier(child, parentHeap(at))
        BY <1>3, <1>5, <2>3, <3>1
      <4> QED
        BY <2>2, <3>1, <4>1, <4>2 DEF Earlier, parentHeap
    <3>2. CASE i = child
      BY <1>3, <2>2, <2>3, <3>2 DEF Earlier, parentHeap
    <3>3. CASE i \notin {at, child} /\ parentHeap(i) = at
      BY <1>3, <2>2, <3>3 DEF Earlier, parentHeap
    <3>4. CASE i \notin {at, child} /\ parentHeap(i) # at
      <4>1. parentHeap(i) \in Queued \ {at, child}
        BY <2>4, <2>6, <3>4
      <4>2. ~Earlier(i, parentHeap(i))
        BY <1>5, <3>4
      <4> QED
        BY <2>2, <3>4, <4>1, <4>2 DEF Earlier, parentHeap
    <3> QED
      BY <3>1, <3>2, <3>3, <3>4
  <2>7. ASSUME NEW i \in Queued \ {0}, parentHeap(i) = child
        PROVE  ~(connections'[i].priorityTime
                  < connections'[parentHeap(child)].priorityTime)
    <3>1. i \in Queued \ {at, child} /\ ~Earlier(i, child)
      BY <1>2, <1>3, <1>5, <2>3, <2>4, <2>5, <2>7
    <3>2. connections'[at] = connections[child] /\ connections'[i] = connections[i]
      BY <2>2, <3>1
    <3> QED
      BY <2>3, <3>1, <3>2 DEF Earlier
  <2> QED
    BY <1>4, <2>1, <2>6, <2>7 DEF HeapOrder, Under, Earlier, parentHeap
<1> QED
  BY <1>6, <1>7

(* Every step but a misplacing removal keeps the heap ordered.             *)
LEMMA NextOrdered ==
  ASSUME OrderedInv, [Next /\ ~Misplaces]_queueVars
  PROVE  OrderedInv'
<1>1. IndInv /\ IndInv'
  BY NextIndInv DEF OrderedInv
<1> SUFFICES HeapOrder'
  BY <1>1 DEF OrderedInv
<1>2. ASSUME NEW fd \in Fds, getConnectionOrCreateByFd(fd) PROVE HeapOrder'
  BY <1>2, CreateOrdered
<1>3. ASSUME NEW fd \in Fds, updateQueueConnection(fd) PROVE HeapOrder'
  BY <1>3, UpdateOrdered
<1>4. ASSUME NEW fd \in Fds, dequeueConnectionByFd(fd), ~Misplaces
      PROVE  HeapOrder'
  <2>1. \/ indexQueue[fd] \in {0, currentSize - 1}
        \/ ~Earlier(currentSize - 1, parentHeap(indexQueue[fd]))
    BY <1>4 DEF Misplaces
  <2> QED
    BY <1>4, <2>1, RemoveOrdered DEF dequeueConnectionByFd
<1>5. CASE dequeueConnection
  <2>1. PICK fd \in Fds : /\ existsConnection(fd)
                          /\ indexQueue[fd] = 0
                          /\ RemoveAt(fd, indexQueue[fd], currentSize - 1)
    BY <1>1, <1>5, DequeueIsRemoval
  <2> QED
    BY <2>1, RemoveOrdered
<1>6. CASE shiftUp
  <2>1. /\ loop = "shiftUp" /\ loop' = "none"
        /\ UNCHANGED <<connections, currentSize>>
    BY <1>1, <1>6, ShiftUpStays DEF shiftUp, Return
  <2> QED
    BY <2>1 DEF OrderedInv, HeapOrder, Under, Earlier, Queued
<1>7. CASE heapify
  BY <1>7, HeapifyOrdered
<1>8. CASE Tick
  BY <1>8 DEF Tick, OrderedInv, HeapOrder, Under, Earlier, Queued
<1>9. CASE UNCHANGED queueVars
  BY <1>9 DEF queueVars, OrderedInv, HeapOrder, Under, Earlier, Queued
<1> QED
  BY <1>2, <1>3, <1>4, <1>5, <1>6, <1>7, <1>8, <1>9 DEF Next

(* The empty heap is ordered.                                              *)
LEMMA InitOrdered == Init => OrderedInv
BY InitIndInv DEF Init, OrderedInv, HeapOrder, Queued

(* Between two operations the root of an ordered heap is an oldest         *)
(* connection.                                                             *)
LEMMA OrderedOldest == OrderedInv => PeekIsOldest
<1> SUFFICES ASSUME OrderedInv, Idle, NEW i \in Queued
             PROVE  connections[0].priorityTime <= connections[i].priorityTime
  BY DEF PeekIsOldest
<1>1. IndInv /\ ~Earlier(i, 0)
  BY RootIsEarliest DEF OrderedInv, Idle
<1>2. 0 \in Queued
  BY <1>1, SlotsTyped DEF Queued
<1> QED
  BY <1>1, <1>2, SlotsTyped DEF Earlier

(* With at most five connections no removal misplaces: the slots it may    *)
(* empty lie below the root, or share their parent with the last slot.     *)
LEMMA FiveInOrder ==
  ASSUME Cardinality(Fds) <= 5, OrderedInv
  PROVE  ~Misplaces
<1> SUFFICES ASSUME NEW fd \in Fds, dequeueConnectionByFd(fd),
                    indexQueue[fd] \notin {0, currentSize - 1},
                    Earlier(currentSize - 1, parentHeap(indexQueue[fd]))
             PROVE  FALSE
  BY DEF Misplaces
<1> DEFINE index == indexQueue[fd]
           last == currentSize - 1
<1>1. IndInv /\ loop = "none" /\ existsConnection(fd)
  BY DEF OrderedInv, dequeueConnectionByFd, RemoveAt, Idle
<1>2. currentSize <= 5 /\ currentSize \in Nat
  BY <1>1, QueueFitsFds, SlotsTyped, QueueAssumption, FS_CardinalityType
<1>3. index \in Queued /\ index \in Nat
  BY <1>1, SlotsTyped, QueueAssumption
     DEF IndInv, EntryFilled, existsConnection, TypeOK, Queued, Index
<1>4. /\ last \in Queued /\ last \in Nat /\ index < last /\ last <= 4
      /\ index # 0 /\ last # 0
  BY <1>2, <1>3 DEF Queued
<1>5. ~Earlier(last, 0)
  BY <1>1, <1>4, RootIsEarliest DEF OrderedInv
<1>6. ~Earlier(last, parentHeap(last))
  BY <1>1, <1>4 DEF OrderedInv, HeapOrder, Under
<1> HIDE DEF index, last
<1>7. parentHeap(index) = 0 \/ parentHeap(index) = parentHeap(last)
  BY <1>3, <1>4 DEF parentHeap
<1>8. Earlier(last, parentHeap(index))
  BY DEF index, last
<1> QED
  BY <1>5, <1>6, <1>7, <1>8

(* peekQueueConnections returns a connection whose keep-alive period       *)
(* started first, however many connections there are, as long as no        *)
(* removal puts an element below a later one.                              *)
THEOREM OldestUnlessMisplaced ==
  Init /\ [][Next /\ ~Misplaces]_queueVars => []PeekIsOldest
<1>1. OrderedInv /\ [Next /\ ~Misplaces]_queueVars => OrderedInv'
  BY NextOrdered
<1> QED
  BY <1>1, InitOrdered, OrderedOldest, PTL

(* With at most five client descriptors peekQueueConnections returns a     *)
(* connection whose keep-alive period started first, for every capacity of *)
(* the arrays and every clock.                                             *)
THEOREM OldestOfFive ==
  ASSUME Cardinality(Fds) <= 5
  PROVE  Spec => []PeekIsOldest
<1>1. OrderedInv /\ [Next]_queueVars => OrderedInv'
  BY FiveInOrder, NextOrdered
<1> QED
  BY <1>1, InitOrdered, OrderedOldest, PTL DEF Spec
=============================================================================
