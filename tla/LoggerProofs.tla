---------------------------- MODULE LoggerProofs ----------------------------
(***************************************************************************)
(* Proofs about Logger for any set of threads, any number of descriptors   *)
(* and of clients, and any day.  The invariants of Logger speak of the     *)
(* states in which no thread is between close() and open() of the log;     *)
(* IndInv adds who holds the lock, what holds between the two calls, and   *)
(* what a thread that nobody crossed may rely on at each step of its call. *)
(***************************************************************************)
EXTENDS Logger, FiniteSetTheorems, WellFoundedInduction, TLAPS

(* The lock is held from the second test to the unlock, by one thread.     *)
Holding == {"retest", "close", "open", "unlock"}
LockOwned == \A t \in Threads : pc[t] \in Holding <=> lock = t

Opening == \E t \in Threads : pc[t] = "open"

(* Without the option threads only write.                                  *)
OnlyActive ==
  ~active => \A t \in Threads : pc[t] \in {"idle", "write"}

(* Between close() and open() no descriptor is the log's or stderr's;      *)
(* otherwise the one in LOGGER is, and no other one.                       *)
Placed ==
  \A d \in Descriptors :
    files[d] \in {Free, Client} <=> Opening \/ d # fileFd

(* The kernel never runs out of numbers.                                   *)
FewClients == Cardinality(Clients) <= MaxClients

(* The flag is down while the log is opened again, and when it is up the   *)
(* log is open.                                                            *)
FlagDown ==
  active /\ initialized =>
    /\ \A t \in Threads : pc[t] \notin {"close", "open"}
    /\ files[fileFd].is = "log"

(* Names and paths are dates of the past, a path never older than the name *)
(* of the same call, and LOGGER's name is that of the thread that opens.   *)
Dated ==
  \A t \in Threads :
    /\ name[t] <= day
    /\ pc[t] \in {"close", "open"} => name[t] <= path[t]
    /\ pc[t] = "open" => fileName = name[t]

(* The file in LOGGER is the log of the day d or of a later one.           *)
LogSince(f, d) == files[f].is = "log" /\ files[f].of >= d

(* A thread that nobody crossed: where it has seen or put the flag up, the *)
(* log that is open is not older than its name.                            *)
Uncrossed ==
  \A t \in Threads : ~crossed[t] =>
    /\ pc[t] \in {"test", "lock", "retest"} /\ initialized
         => LogSince(fileFd, name[t])
    /\ pc[t] = "unlock" => LogSince(fileFd, name[t])
    /\ pc[t] = "return" => LogSince(fileFd, name[t])
    /\ pc[t] = "write" /\ active => LogSince(fd[t], name[t])

IndInv ==
  /\ TypeOK
  /\ LockOwned
  /\ OnlyActive
  /\ Placed
  /\ FewClients
  /\ FlagDown
  /\ Dated
  /\ NameNotAhead
  /\ Uncrossed

(* The two halves of TypeOK: the flags and the rest.                       *)
Flags ==
  /\ initialized \in BOOLEAN
  /\ active \in BOOLEAN
  /\ crossed \in [Threads -> BOOLEAN]

Ranges ==
  /\ day \in Days
  /\ files \in [Descriptors -> Targets]
  /\ fileName \in Days
  /\ fileFd \in Descriptors
  /\ lock \in Threads \union {NoThread}
  /\ pc \in [Threads -> States]
  /\ name \in [Threads -> Days]
  /\ path \in [Threads -> Days]
  /\ fd \in [Threads -> Descriptors]
  /\ line \in [Threads -> Targets]

(* TypeOK is its two halves.                                               *)
LEMMA TypeParts == TypeOK <=> Flags /\ Ranges
BY DEF TypeOK, Flags, Ranges

-----------------------------------------------------------------------------
(* Lemmas about descriptors.                                               *)

(* A non-empty set of naturals has a least element.                        *)
LEMMA MinNat ==
  ASSUME NEW S \in SUBSET Nat, S # {}
  PROVE  Min(S) \in S
<1>1. PICK x \in S : \A y \in S : ~(<<y, x>> \in OpToRel(<, Nat))
  BY NatLessThanWellFounded, WFMin
<1>2. ASSUME NEW y \in S, ~(x =< y)
      PROVE  FALSE
  <2>1. y < x /\ y \in Nat /\ x \in Nat
    BY <1>2
  <2>2. <<y, x>> \in {ss \in Nat \X Nat : ss[1] < ss[2]}
    BY <2>1
  <2> QED
    BY <1>1, <2>2 DEF OpToRel
<1> QED
  BY <1>2 DEF Min

(* The four things a descriptor may be open on are told apart.             *)
LEMMA TargetsDiffer ==
  /\ Free # Stderr /\ Free # Client /\ Stderr # Client
  /\ Free.is = "free" /\ Client.is = "client" /\ Stderr.is = "stderr"
  /\ \A d \in Days : /\ Log(d) \notin {Free, Stderr, Client}
                     /\ Log(d).is = "log" /\ Log(d).of = d
BY DEF Free, Stderr, Client, Log

(* There is a free descriptor number while the log is being opened, and    *)
(* when one more client may connect; the kernel gives out a free one.      *)
LEMMA LowestFree ==
  ASSUME IndInv, Opening \/ Cardinality(Clients) < MaxClients
  PROVE  Lowest \in Descriptors /\ files[Lowest] = Free
<1> USE LoggerAssumption
<1> DEFINE Rest == Descriptors \ Clients
<1>1. IsFiniteSet(Clients) /\ Cardinality(Clients) \in Nat
  BY FS_Subset, FS_CardinalityType DEF Clients
<1>2. Cardinality(Descriptors) \in Nat
  BY FS_CardinalityType
<1>3. /\ IsFiniteSet(Rest)
      /\ Cardinality(Rest) = Cardinality(Descriptors) - Cardinality(Clients)
  <2>1. Descriptors \intersect Clients = Clients
    BY DEF Clients
  <2> QED
    BY <2>1, FS_Difference
<1>4. Cardinality(Rest) > 1
  BY <1>1, <1>2, <1>3 DEF IndInv, FewClients
<1>5. IsFiniteSet(Rest \ {fileFd}) /\ Cardinality(Rest \ {fileFd}) > 0
  <2> HIDE DEF Rest
  <2>1. Cardinality(Rest) \in Nat
    BY <1>3, FS_CardinalityType
  <2>2. /\ IsFiniteSet(Rest \ {fileFd})
        /\ Cardinality(Rest \ {fileFd}) = IF fileFd \in Rest
                                          THEN Cardinality(Rest) - 1
                                          ELSE Cardinality(Rest)
    BY <1>3, FS_RemoveElement, Zenon
  <2> QED
    BY <1>4, <2>1, <2>2
<1>6. PICK d \in Rest : d # fileFd
  <2>1. Rest \ {fileFd} # {}
    BY <1>5, FS_EmptySet
  <2> QED
    BY <2>1
<1>7. d \in FreeDescriptors
  BY <1>6 DEF IndInv, Placed, FreeDescriptors, Clients
<1>8. FreeDescriptors \in SUBSET Nat
  BY DEF FreeDescriptors
<1> QED
  BY <1>7, <1>8, MinNat DEF Lowest, FreeDescriptors

-----------------------------------------------------------------------------
(* IndInv is an invariant of the specification.                            *)

(* Before the first call LOGGER has the standard error.                    *)
LEMMA InitIndInv == Init => IndInv
<1> SUFFICES ASSUME Init PROVE IndInv
  OBVIOUS
<1> USE LoggerAssumption, TargetsDiffer DEF Init
<1>1. TypeOK
  <2>1. Flags
    BY DEF Flags
  <2>2. Ranges
    BY DEF Ranges, Days, Targets, States
  <2> QED
    BY <2>1, <2>2, TypeParts
<1>2. LockOwned /\ OnlyActive /\ FlagDown /\ Uncrossed /\ NameNotAhead
  BY DEF LockOwned, Holding, OnlyActive, FlagDown, Uncrossed, NameNotAhead,
         LogFds
<1>3. Placed
  BY DEF Placed, Opening
<1>4. FewClients
  <2>1. Clients = {}
    BY DEF Clients
  <2> QED
    BY <2>1, FS_EmptySet DEF FewClients
<1>5. Dated
  BY DEF Dated
<1> QED
  BY <1>1, <1>2, <1>3, <1>4, <1>5 DEF IndInv

(* A step of a thread's call that leaves the descriptors alone, and neither *)
(* begins nor ends an open().                                              *)
LEMMA FilesKept ==
  ASSUME IndInv, UNCHANGED <<files, fileFd, fileName>>,
         \A t \in Threads : pc'[t] = "open" <=> pc[t] = "open"
  PROVE  Placed' /\ FewClients' /\ NameNotAhead'
<1>1. Opening' <=> Opening
  BY DEF Opening
<1>2. Clients' = Clients
  BY DEF Clients
<1> QED
  BY <1>1, <1>2 DEF IndInv, Placed, FewClients, NameNotAhead, LogFds

(* A call that goes to stderr, or makes the file name of the day.          *)
LEMMA BeginStep ==
  ASSUME IndInv, NEW t \in Threads, logToStderr(t) \/ getLoggerFileName(t)
  PROVE  IndInv'
<1> USE LoggerAssumption
<1>1. Flags /\ Ranges
  BY TypeParts DEF IndInv
<1>2. Flags'
  BY <1>1 DEF Flags, logToStderr, getLoggerFileName, sharedVars
<1>3. Ranges'
  BY <1>1 DEF Ranges, logToStderr, getLoggerFileName, sharedVars, Go, States
<1>4. \A u \in Threads : pc'[u] = "open" <=> pc[u] = "open"
  BY <1>1 DEF Ranges, logToStderr, getLoggerFileName, Go
<1>5. Placed' /\ FewClients' /\ NameNotAhead'
  BY <1>4, FilesKept DEF logToStderr, getLoggerFileName, sharedVars
<1>6. LockOwned' /\ OnlyActive'
  BY <1>1 DEF IndInv, LockOwned, OnlyActive, Holding, Ranges, logToStderr,
    getLoggerFileName, sharedVars, Go
<1>7. FlagDown'
  BY <1>1 DEF IndInv, FlagDown, Ranges, logToStderr,
    getLoggerFileName, sharedVars, Go
<1>8. Dated'
  BY <1>1 DEF IndInv, Dated, Ranges, logToStderr, Days,
    getLoggerFileName, sharedVars, Go
<1>9. Uncrossed'
  BY <1>1 DEF IndInv, Uncrossed, LogSince, OnlyActive, Ranges, Flags,
     logToStderr,
    getLoggerFileName, sharedVars, Go
<1> QED
  BY <1>2, <1>3, <1>5, <1>6, <1>7, <1>8, <1>9, TypeParts DEF IndInv, TypeOK,
   Flags, Ranges

(* The tests whether the log must be opened: of the name, and of the flag. *)
LEMMA TestStep ==
  ASSUME IndInv, NEW t \in Threads, compareName(t) \/ testInitialized(t)
  PROVE  IndInv'
<1> USE LoggerAssumption
<1>1. Flags /\ Ranges
  BY TypeParts DEF IndInv
<1>2. Flags'
  BY <1>1 DEF Flags, compareName, testInitialized, sharedVars, threadVars,
     StillInitialized
<1>3. Ranges'
  BY <1>1 DEF Ranges, compareName, testInitialized, sharedVars, threadVars,
     Go, States
<1>4. \A u \in Threads : pc'[u] = "open" <=> pc[u] = "open"
  BY <1>1 DEF Ranges, compareName, testInitialized, Go
<1>5. Placed' /\ FewClients' /\ NameNotAhead'
  BY <1>4, FilesKept DEF compareName, testInitialized, sharedVars
<1>6. LockOwned' /\ OnlyActive'
  BY <1>1 DEF IndInv, LockOwned, OnlyActive, Holding, Ranges, compareName,
     testInitialized,
    sharedVars, Go
<1>7. FlagDown'
  BY <1>1 DEF IndInv, FlagDown, Ranges, compareName, testInitialized,
    StillInitialized, sharedVars, Go
<1>8. Dated'
  BY <1>1 DEF IndInv, Dated, Ranges, compareName, testInitialized,
    sharedVars, threadVars, Go
<1>9. Uncrossed'
  BY <1>1 DEF IndInv, Uncrossed, LogSince, OnlyActive, FlagDown,
     NameNotAhead, LogFds, Ranges, Flags,
    StillInitialized,
    compareName, testInitialized, sharedVars, threadVars, Go
<1> QED
  BY <1>2, <1>3, <1>5, <1>6, <1>7, <1>8, <1>9, TypeParts DEF IndInv, TypeOK,
   Flags, Ranges

(* The lock is taken and given back by one thread at a time.               *)
LEMMA LockStep ==
  ASSUME IndInv, NEW t \in Threads, lockLogger(t) \/ unlockLogger(t)
  PROVE  IndInv'
<1> USE LoggerAssumption
<1>1. Flags /\ Ranges
  BY TypeParts DEF IndInv
<1>2. Flags'
  BY <1>1 DEF Flags, lockLogger, unlockLogger, sharedVars, threadVars, Go,
     Unlocked
<1>3. Ranges'
  BY <1>1 DEF Ranges, lockLogger, unlockLogger, sharedVars, threadVars, Go,
     Unlocked, States
<1>4. \A u \in Threads : pc'[u] = "open" <=> pc[u] = "open"
  BY <1>1 DEF Ranges, lockLogger, unlockLogger, Go
<1>5. Placed' /\ FewClients' /\ NameNotAhead'
  BY <1>4, FilesKept DEF lockLogger, unlockLogger, sharedVars, threadVars,
     Go, Unlocked
<1>6. LockOwned' /\ OnlyActive'
  BY <1>1 DEF IndInv, LockOwned, OnlyActive, Holding, Ranges, lockLogger,
     unlockLogger, sharedVars, threadVars, Go, Unlocked
<1>7. FlagDown'
  BY <1>1 DEF IndInv, FlagDown, Ranges, lockLogger, unlockLogger, sharedVars,
     threadVars, Go, Unlocked
<1>8. Dated'
  BY <1>1 DEF IndInv, Dated, Ranges, Days, lockLogger, unlockLogger,
     sharedVars, threadVars, Go, Unlocked
<1>9. Uncrossed'
  BY <1>1 DEF IndInv, Uncrossed, LogSince, OnlyActive, FlagDown, Ranges,
              Flags, lockLogger, unlockLogger, sharedVars, threadVars, Go,
              Unlocked
<1> QED
  BY <1>2, <1>3, <1>5, <1>6, <1>7, <1>8, <1>9
  DEF IndInv, TypeOK, Flags, Ranges

(* The path is made from the date of now.                                  *)
LEMMA RetestStep ==
  ASSUME IndInv, NEW t \in Threads, retestInitialized(t)
  PROVE  IndInv'
<1> USE LoggerAssumption
<1>1. Flags /\ Ranges
  BY TypeParts DEF IndInv
<1>2. Flags'
  BY <1>1 DEF Flags, retestInitialized, sharedVars, threadVars, Go, NewPath
<1>3. Ranges'
  BY <1>1 DEF Ranges, retestInitialized, sharedVars, threadVars, Go, NewPath,
     States
<1>4. \A u \in Threads : pc'[u] = "open" <=> pc[u] = "open"
  BY <1>1 DEF Ranges, retestInitialized, Go
<1>5. Placed' /\ FewClients' /\ NameNotAhead'
  BY <1>4, FilesKept DEF retestInitialized, sharedVars, threadVars, Go,
     NewPath
<1>6. LockOwned' /\ OnlyActive'
  BY <1>1 DEF IndInv, LockOwned, OnlyActive, Holding, Ranges,
     retestInitialized, sharedVars, threadVars, Go, NewPath
<1>7. FlagDown'
  BY <1>1 DEF IndInv, FlagDown, Ranges, retestInitialized, sharedVars,
     threadVars, Go, NewPath
<1>8. Dated'
  BY <1>1 DEF IndInv, Dated, Ranges, Days, retestInitialized, sharedVars,
     threadVars, Go, NewPath
<1>9. Uncrossed'
  BY <1>1 DEF IndInv, Uncrossed, LogSince, OnlyActive, FlagDown, Ranges,
              Flags, retestInitialized, sharedVars, threadVars, Go, NewPath
<1> QED
  BY <1>2, <1>3, <1>5, <1>6, <1>7, <1>8, <1>9
  DEF IndInv, TypeOK, Flags, Ranges

(* The descriptor is read outside the lock.                                *)
LEMMA ReturnStep ==
  ASSUME IndInv, NEW t \in Threads, returnFd(t)
  PROVE  IndInv'
<1> USE LoggerAssumption
<1>1. Flags /\ Ranges
  BY TypeParts DEF IndInv
<1>2. Flags'
  BY <1>1 DEF Flags, returnFd, sharedVars, threadVars, Go
<1>3. Ranges'
  BY <1>1 DEF Ranges, returnFd, sharedVars, threadVars, Go, States
<1>4. \A u \in Threads : pc'[u] = "open" <=> pc[u] = "open"
  BY <1>1 DEF Ranges, returnFd, Go
<1>5. Placed' /\ FewClients' /\ NameNotAhead'
  BY <1>4, FilesKept DEF returnFd, sharedVars, threadVars, Go
<1>6. LockOwned' /\ OnlyActive'
  BY <1>1 DEF IndInv, LockOwned, OnlyActive, Holding, Ranges, returnFd,
     sharedVars, threadVars, Go
<1>7. FlagDown'
  BY <1>1 DEF IndInv, FlagDown, Ranges, returnFd, sharedVars, threadVars, Go
<1>8. Dated'
  BY <1>1 DEF IndInv, Dated, Ranges, Days, returnFd, sharedVars, threadVars,
     Go
<1>9. Uncrossed'
  BY <1>1 DEF IndInv, Uncrossed, LogSince, OnlyActive, FlagDown, Ranges,
              Flags, returnFd, sharedVars, threadVars, Go
<1> QED
  BY <1>2, <1>3, <1>5, <1>6, <1>7, <1>8, <1>9
  DEF IndInv, TypeOK, Flags, Ranges

(* The line is written to whatever the number is open on.                  *)
LEMMA WriteStep ==
  ASSUME IndInv, NEW t \in Threads, aioWrite(t)
  PROVE  IndInv'
<1> USE LoggerAssumption
<1>1. Flags /\ Ranges
  BY TypeParts DEF IndInv
<1>2. Flags'
  BY <1>1 DEF Flags, aioWrite, sharedVars
<1>3. Ranges'
  BY <1>1 DEF Ranges, aioWrite, sharedVars, Go, States
<1>4. \A u \in Threads : pc'[u] = "open" <=> pc[u] = "open"
  BY <1>1 DEF Ranges, aioWrite, Go
<1>5. Placed' /\ FewClients' /\ NameNotAhead'
  BY <1>4, FilesKept DEF aioWrite, sharedVars
<1>6. LockOwned' /\ OnlyActive' /\ FlagDown' /\ Dated' /\ Uncrossed'
  BY <1>1 DEF IndInv, LockOwned, OnlyActive, FlagDown, Dated, Uncrossed,
              LogSince, Holding, Ranges, aioWrite, sharedVars, Go
<1> QED
  BY <1>2, <1>3, <1>5, <1>6 DEF IndInv, TypeOK, Flags, Ranges

(* close() of the log: it was the only one, and all other threads that are *)
(* in a call are crossed.                                                  *)
LEMMA CloseStep ==
  ASSUME IndInv, NEW t \in Threads, closeOld(t)
  PROVE  IndInv'
<1> USE LoggerAssumption, TargetsDiffer DEF closeOld, Closed, NewName, Go
<1>1. Flags /\ Ranges
  BY TypeParts DEF IndInv
<1>2. Flags'
  BY <1>1, Zenon DEF Flags
<1>3. Ranges'
  BY <1>1 DEF Ranges, Targets, States
<1>4. Opening'
  BY <1>1 DEF Ranges, Opening
<1>5. ~Opening /\ \A u \in Threads : u # t => pc[u] \notin Holding
  BY <1>1 DEF IndInv, LockOwned, Opening, Holding
<1>6. Placed'
  BY <1>1, <1>4, <1>5 DEF IndInv, Placed, Ranges
<1>7. FewClients'
  <2>1. Clients' = Clients
    BY <1>1, <1>5 DEF IndInv, Placed, Ranges, Clients
  <2> QED
    BY <2>1 DEF IndInv, FewClients
<1>8. LockOwned' /\ OnlyActive'
  BY <1>1 DEF IndInv, LockOwned, OnlyActive, Holding, Ranges
<1>9. FlagDown'
  BY <1>1 DEF IndInv, FlagDown, Ranges
<1>10. Dated'
  BY <1>1, <1>5 DEF IndInv, Dated, Ranges, Holding
<1>11. NameNotAhead'
  BY <1>4 DEF NameNotAhead, Opening
<1>12. Uncrossed'
  BY <1>1, <1>5 DEF IndInv, Uncrossed, Ranges, Flags
<1> QED
  BY <1>2, <1>3, <1>6, <1>7, <1>8, <1>9, <1>10, <1>11, <1>12
  DEF IndInv, TypeOK, Flags, Ranges

(* open() of the new log, on a number that was free.                       *)
LEMMA OpenStep ==
  ASSUME IndInv, NEW t \in Threads, openNew(t)
  PROVE  IndInv'
<1> USE LoggerAssumption, TargetsDiffer DEF openNew, Go
<1>1. Flags /\ Ranges
  BY TypeParts DEF IndInv
<1>2. Opening /\ \A u \in Threads : u # t => pc[u] \notin Holding
  BY <1>1 DEF IndInv, LockOwned, Opening, Holding
<1>3. Lowest \in Descriptors /\ files[Lowest] = Free
  BY <1>2, LowestFree
<1>4. Flags'
  BY <1>1, Zenon DEF Flags
<1>5. Ranges'
  BY <1>1, <1>3 DEF Ranges, Targets, States
<1>6. ~Opening'
  BY <1>1, <1>2 DEF Ranges, Opening, Holding
<1>7. Placed'
  BY <1>1, <1>2, <1>3, <1>6 DEF IndInv, Placed, Ranges
<1>8. FewClients'
  <2>1. Clients' = Clients
    BY <1>1, <1>3 DEF Ranges, Clients
  <2> QED
    BY <2>1 DEF IndInv, FewClients
<1>9. LockOwned' /\ OnlyActive'
  BY <1>1 DEF IndInv, LockOwned, OnlyActive, Holding, Ranges
<1>10. FlagDown'
  BY <1>1, <1>2, <1>3 DEF IndInv, FlagDown, Ranges, Holding
<1>11. Dated'
  BY <1>1, <1>2 DEF IndInv, Dated, Ranges, Holding
<1>12. NameNotAhead'
  <2>1. LogFds' \subseteq {Lowest}
    BY <1>1, <1>2, <1>3 DEF IndInv, Placed, LogFds, Ranges
  <2> QED
    BY <1>1, <1>3, <2>1 DEF IndInv, Dated, NameNotAhead, Ranges
<1>13. Uncrossed'
  <2>1. ASSUME NEW u \in Threads, u # t, ~crossed'[u]
        PROVE  pc'[u] = "idle"
    BY <1>1, <2>1 DEF Ranges, Flags
  <2>2. pc'[t] = "unlock" /\ name'[t] = name[t] /\ name[t] <= path[t]
    BY <1>1 DEF IndInv, Dated, Ranges
  <2>3. files'[fileFd'] = Log(path[t])
    BY <1>1, <1>3 DEF Ranges
  <2>4. LogSince(fileFd, name[t])'
    <3>1. name[t] \in Nat /\ path[t] \in Nat
      BY <1>1, LoggerAssumption DEF Ranges, Days
    <3> QED
      BY <2>2, <2>3, <3>1 DEF LogSince, Log
  <2> QED
    BY <2>1, <2>2, <2>4 DEF Uncrossed
<1> QED
  BY <1>4, <1>5, <1>7, <1>8, <1>9, <1>10, <1>11, <1>12, <1>13
  DEF IndInv, TypeOK, Flags, Ranges

(* Clients come and go on numbers that are not the log's.                  *)
LEMMA ClientStep ==
  ASSUME IndInv, AcceptClient \/ CloseClient
  PROVE  IndInv'
<1> USE LoggerAssumption, TargetsDiffer DEF AcceptClient, CloseClient,
        sharedVars, threadVars
<1>1. Flags /\ Ranges
  BY TypeParts DEF IndInv
<1>2. PICK d \in Descriptors, what \in {Free, Client} :
        /\ files[d] \in {Free, Client}
        /\ files' = [files EXCEPT ![d] = what]
        /\ what = Client => Cardinality(Clients) < MaxClients
  BY LowestFree DEF Clients
<1>3. UNCHANGED <<day, initialized, active, fileName, fileFd, lock, pc,
                 name, path, fd, line, crossed>>
  OBVIOUS
<1> HIDE DEF AcceptClient, CloseClient
<1>4. Flags'
  BY <1>1, <1>3 DEF Flags
<1>5. Ranges'
  BY <1>1, <1>2, <1>3 DEF Ranges, Targets
<1>6. \A f \in Descriptors : files[f].is = "log" => files'[f] = files[f]
  BY <1>1, <1>2 DEF Ranges
<1>7. \A f \in Descriptors : files'[f].is = "log" => files'[f] = files[f]
  BY <1>1, <1>2 DEF Ranges
<1>8. Placed'
  BY <1>1, <1>2, <1>3 DEF IndInv, Placed, Ranges, Opening
<1>9. FewClients'
  <2>1. IsFiniteSet(Clients) /\ Cardinality(Clients) \in Nat
    BY FS_Subset, FS_CardinalityType DEF Clients
  <2>2. CASE what = Client
    <3>1. Clients' = Clients \union {d}
      BY <1>1, <1>2, <2>2 DEF Ranges, Clients
    <3>2. /\ Cardinality(Clients') \in Nat
          /\ Cardinality(Clients') <= Cardinality(Clients) + 1
      <4>1. Cardinality(Clients \union {d}) = IF d \in Clients
                                              THEN Cardinality(Clients)
                                              ELSE Cardinality(Clients) + 1
        BY <2>1, FS_AddElement, Zenon
      <4> QED
        BY <2>1, <3>1, <4>1
    <3> QED
      BY <3>2, <2>1, <1>2, <2>2 DEF FewClients
  <2>3. CASE what = Free
    <3>1. Clients' \in SUBSET Clients
      BY <1>1, <1>2, <2>3 DEF Ranges, Clients
    <3>2. /\ Cardinality(Clients') \in Nat
          /\ Cardinality(Clients') <= Cardinality(Clients)
      BY <3>1, <2>1, FS_Subset, FS_CardinalityType
    <3> QED
      BY <3>2, <2>1 DEF FewClients, IndInv
  <2> QED
    BY <2>2, <2>3
<1>10. LockOwned' /\ OnlyActive' /\ Dated'
  BY <1>3 DEF IndInv, LockOwned, OnlyActive, Dated
<1>11. FlagDown' /\ NameNotAhead'
  BY <1>1, <1>3, <1>6, <1>7 DEF IndInv, FlagDown, NameNotAhead, LogFds, Ranges
<1>12. Uncrossed'
  <2>1. \A f \in Descriptors, e \in Days : LogSince(f, e) => LogSince(f, e)'
    BY <1>6 DEF LogSince
  <2>2. \A u \in Threads : name[u] \in Days /\ fd[u] \in Descriptors
    BY <1>1 DEF Ranges
  <2>3. fileFd \in Descriptors
    BY <1>1 DEF Ranges
  <2> HIDE DEF sharedVars, threadVars
  <2> QED
    BY <1>3, <2>1, <2>2, <2>3 DEF IndInv, Uncrossed
<1> QED
  BY <1>4, <1>5, <1>8, <1>9, <1>10, <1>11, <1>12
  DEF IndInv, TypeOK, Flags, Ranges

(* At midnight the clock passes every name.                                *)
LEMMA MidnightStep ==
  ASSUME IndInv, Midnight
  PROVE  IndInv'
<1> USE LoggerAssumption DEF Midnight, sharedVars, threadVars
<1>1. Flags /\ Ranges
  BY TypeParts DEF IndInv
<1>2. Flags' /\ Ranges'
  BY <1>1 DEF Flags, Ranges, Days
<1>3. Placed' /\ FewClients' /\ NameNotAhead'
  BY FilesKept
<1>4. LockOwned' /\ OnlyActive' /\ FlagDown' /\ Uncrossed'
  BY DEF IndInv, LockOwned, OnlyActive, FlagDown, Uncrossed, LogSince
<1>5. Dated'
  BY <1>1 DEF IndInv, Dated, Ranges, Days
<1> QED
  BY <1>2, <1>3, <1>4, <1>5 DEF IndInv, TypeOK, Flags, Ranges

(* The invariant holds in every state.                                     *)
LEMMA AlwaysIndInv == Spec => []IndInv
<1>1. IndInv /\ [Next]_vars => IndInv'
  <2> SUFFICES ASSUME IndInv, [Next]_vars PROVE IndInv'
    OBVIOUS
  <2>1. ASSUME NEW t \in Threads, logMessage(t) PROVE IndInv'
    BY <2>1, BeginStep, TestStep, LockStep, RetestStep, CloseStep, OpenStep,
       ReturnStep, WriteStep DEF logMessage
  <2>2. CASE UNCHANGED vars
    BY <2>2 DEF vars, sharedVars, threadVars, IndInv, TypeOK, LockOwned,
       OnlyActive, Placed, Opening, FewClients, Clients, FlagDown, Dated,
       NameNotAhead, LogFds, Uncrossed, LogSince
  <2> QED
    BY <2>1, <2>2, ClientStep, MidnightStep DEF Next
<1> QED
  BY <1>1, InitIndInv, PTL DEF Spec

-----------------------------------------------------------------------------
(* The theorems.                                                           *)

(* Every variable keeps its type; no thread is given a descriptor number   *)
(* the process does not have.                                              *)
THEOREM LoggerTyped == Spec => []TypeOK
<1>1. IndInv => TypeOK
  BY DEF IndInv
<1> QED
  BY <1>1, AlwaysIndInv, PTL

(* However many threads find out at the same time that a new day began,    *)
(* one of them opens the log, closes the old one once and closes no        *)
(* client's descriptor in its place (logger.c:111-132).                    *)
THEOREM OneLogFileHolds == Spec => []OneLogFile
<1>1. IndInv => OneLogFile
  BY TargetsDiffer DEF IndInv, TypeOK, OneLogFile, Placed, Opening, LogFds
<1> QED
  BY <1>1, AlwaysIndInv, PTL

(* LOGGER's name is never that of a later day than the file that is open,  *)
(* although the name is made before the lock is taken (logger.c:104-121).  *)
THEOREM NameNotAheadHolds == Spec => []NameNotAhead
<1>1. IndInv => NameNotAhead
  BY DEF IndInv
<1> QED
  BY <1>1, AlwaysIndInv, PTL

(* A thread nobody crossed writes to the log, of its day or a later one,   *)
(* although flag and descriptor are read outside the lock                  *)
(* (logger.c:107-134).                                                     *)
THEOREM LinePlacedHolds == Spec => []LinePlaced
<1>1. IndInv => LinePlaced
  BY DEF IndInv, Uncrossed, LogSince, LinePlaced
<1> QED
  BY <1>1, AlwaysIndInv, PTL
=============================================================================
