------------------------------- MODULE Logger -------------------------------
(***************************************************************************)
(* src/lib/logger/logger.c: threads that call logMessage share one struct  *)
(* LOGGER, whose descriptor is opened by the first call and opened again   *)
(* by the first call of a new day.  The name and the flag initialized are  *)
(* looked at outside the lock, and the descriptor is used outside it.      *)
(*                                                                         *)
(* A step ends at each access to what threads share.  Descriptor numbers   *)
(* are those of the process: the kernel gives out the lowest free one, to  *)
(* the logger as to the clients other threads accept.                      *)
(***************************************************************************)
EXTENDS Integers, FiniteSets, FiniteSetsExt

CONSTANTS
  Threads,       \* threads that log
  NoThread,      \* LOGGER.lock is unlocked
  Descriptors,   \* descriptor numbers, STDERR_FILENO the lowest
  MaxClients,    \* bound on the descriptors other threads hold
  MaxDay         \* bound on the days; it stands for all later ones

STDERR_FILENO == 2

ASSUME LoggerAssumption ==
  /\ NoThread \notin Threads
  /\ Descriptors \subseteq Nat /\ IsFiniteSet(Descriptors)
  /\ STDERR_FILENO \in Descriptors
  /\ MaxClients \in Nat /\ MaxClients + 1 < Cardinality(Descriptors)
  /\ MaxDay \in Nat

VARIABLES
  day,           \* the date of the clock
  files,         \* descriptor -> what it is open on
  initialized,   \* LOGGER.initialized
  active,        \* LOGGER.active: the options ask for a log file
  fileName,      \* LOGGER.fileName, a date
  fileFd,        \* LOGGER.fileFd
  lock,          \* owner of LOGGER.lock
  pc,            \* thread -> where it is in logMessage
  name,          \* thread -> newLoggerFileName
  path,          \* thread -> loggerFullPath, a date
  fd,            \* thread -> the descriptor getLoggerFileDescriptor returned
  line,          \* thread -> where its last line went
  crossed        \* history: thread -> another one opened the log during its
                 \* call

sharedVars == <<initialized, active, fileName, fileFd, lock>>
threadVars == <<name, path, fd, line, crossed>>
vars == <<day, files, sharedVars, pc, threadVars>>

Days   == 0 .. MaxDay
Free   == [is |-> "free"]
Stderr == [is |-> "stderr"]
Client == [is |-> "client"]
Log(d) == [is |-> "log", of |-> d]
Targets == {Free, Stderr, Client} \union {Log(d) : d \in Days}

States == {"idle", "compare", "test", "lock", "retest", "close", "open",
           "unlock", "return", "write"}

TypeOK ==
  /\ day \in Days
  /\ files \in [Descriptors -> Targets]
  /\ initialized \in BOOLEAN
  /\ active \in BOOLEAN
  /\ fileName \in Days
  /\ fileFd \in Descriptors
  /\ lock \in Threads \union {NoThread}
  /\ pc \in [Threads -> States]
  /\ name \in [Threads -> Days]
  /\ path \in [Threads -> Days]
  /\ fd \in [Threads -> Descriptors]
  /\ line \in [Threads -> Targets]
  /\ crossed \in [Threads -> BOOLEAN]

(* getOptions: the logger starts on stderr, with the date of today as its  *)
(* file name when it is active.                                            *)
Init ==
  /\ day = 0
  /\ files = [d \in Descriptors |->
                IF d = STDERR_FILENO THEN Stderr ELSE Free]
  /\ initialized = FALSE
  /\ active \in BOOLEAN
  /\ fileName = 0
  /\ fileFd = STDERR_FILENO
  /\ lock = NoThread
  /\ pc = [t \in Threads |-> "idle"]
  /\ name = [t \in Threads |-> 0]
  /\ path = [t \in Threads |-> 0]
  /\ fd = [t \in Threads |-> STDERR_FILENO]
  /\ line = [t \in Threads |-> Stderr]
  /\ crossed = [t \in Threads |-> FALSE]

Go(t, label) == pc' = [pc EXCEPT ![t] = label]

(* The kernel's choice of a descriptor number.                             *)
FreeDescriptors == {d \in Descriptors : files[d] = Free}
Lowest == Min(FreeDescriptors)
Clients == {d \in Descriptors : files[d] = Client}

-----------------------------------------------------------------------------
(* Midnight, and the descriptors other threads open and close.             *)
Midnight ==
  /\ day < MaxDay
  /\ day' = day + 1
  /\ UNCHANGED <<files, sharedVars, pc, threadVars>>

AcceptClient ==
  /\ Cardinality(Clients) < MaxClients
  /\ files' = [files EXCEPT ![Lowest] = Client]
  /\ UNCHANGED <<day, sharedVars, pc, threadVars>>

CloseClient ==
  /\ \E d \in Clients : files' = [files EXCEPT ![d] = Free]
  /\ UNCHANGED <<day, sharedVars, pc, threadVars>>

(* logMessage without the option: the line goes to stderr's number.        *)
logToStderr(t) ==
  /\ pc[t] = "idle"
  /\ ~active
  /\ initialized' = TRUE
  /\ fd' = [fd EXCEPT ![t] = STDERR_FILENO]
  /\ crossed' = [crossed EXCEPT ![t] = FALSE]
  /\ Go(t, "write")
  /\ UNCHANGED <<day, files, active, fileName, fileFd, lock, name, path, line>>

(* getLoggerFileName: the name of today's file.                            *)
getLoggerFileName(t) ==
  /\ pc[t] = "idle"
  /\ active
  /\ name' = [name EXCEPT ![t] = day]
  /\ crossed' = [crossed EXCEPT ![t] = FALSE]
  /\ Go(t, "compare")
  /\ UNCHANGED <<day, files, sharedVars, path, fd, line>>

(* It is not the name in LOGGER: the file has to be opened.                *)
StillInitialized_AlwaysTrusted(t) == initialized

StillInitialized(t) == initialized /\ name[t] = fileName

compareName(t) ==
  /\ pc[t] = "compare"
  /\ initialized' = StillInitialized(t)
  /\ Go(t, "test")
  /\ UNCHANGED <<day, files, active, fileName, fileFd, lock, threadVars>>

testInitialized(t) ==
  /\ pc[t] = "test"
  /\ Go(t, IF initialized THEN "return" ELSE "lock")
  /\ UNCHANGED <<day, files, sharedVars, threadVars>>

lockLogger(t) ==
  /\ pc[t] = "lock"
  /\ lock = NoThread
  /\ lock' = t
  /\ Go(t, "retest")
  /\ UNCHANGED <<day, files, initialized, active, fileName, fileFd,
                 threadVars>>

(* The second test, under the lock; the path is made from the date of now. *)
NewPath_OldName(t) == fileName

NewPath_Tomorrow(t) == day + 1

NewPath(t) == day

retestInitialized(t) ==
  /\ pc[t] = "retest"
  /\ path' = IF initialized THEN path ELSE [path EXCEPT ![t] = NewPath(t)]
  /\ Go(t, IF initialized THEN "unlock" ELSE "close")
  /\ UNCHANGED <<day, files, sharedVars, name, fd, line, crossed>>

(* close() of the old descriptor, the first time stderr; LOGGER gets the   *)
(* name made before the lock was taken.                                    *)
Closed_Not(d) == files

Closed(d) == [files EXCEPT ![d] = Free]

NewName_Kept(t) == fileName

NewName(t) == name[t]

closeOld(t) ==
  /\ pc[t] = "close"
  /\ files' = Closed(fileFd)
  /\ fileName' = NewName(t)
  /\ crossed' = [u \in Threads |-> crossed[u] \/ (u # t /\ pc[u] # "idle")]
  /\ Go(t, "open")
  /\ UNCHANGED <<day, initialized, active, fileFd, lock, name, path, fd, line>>

openNew(t) ==
  /\ pc[t] = "open"
  /\ files' = [files EXCEPT ![Lowest] = Log(path[t])]
  /\ fileFd' = Lowest
  /\ initialized' = TRUE
  /\ crossed' = [u \in Threads |-> crossed[u] \/ (u # t /\ pc[u] # "idle")]
  /\ Go(t, "unlock")
  /\ UNCHANGED <<day, active, fileName, lock, name, path, fd, line>>

Unlocked_Held == lock

Unlocked == NoThread

unlockLogger(t) ==
  /\ pc[t] = "unlock"
  /\ lock' = Unlocked
  /\ Go(t, "return")
  /\ UNCHANGED <<day, files, initialized, active, fileName, fileFd,
                 threadVars>>

returnFd(t) ==
  /\ pc[t] = "return"
  /\ fd' = [fd EXCEPT ![t] = fileFd]
  /\ Go(t, "write")
  /\ UNCHANGED <<day, files, sharedVars, name, path, line, crossed>>

(* aio_write() and the wait for its end: the line goes to whatever the     *)
(* number is open on; on none it is lost.                                  *)
aioWrite(t) ==
  /\ pc[t] = "write"
  /\ line' = [line EXCEPT ![t] = files[fd[t]]]
  /\ Go(t, "idle")
  /\ UNCHANGED <<day, files, sharedVars, name, path, fd, crossed>>

logMessage(t) ==
  \/ logToStderr(t)
  \/ getLoggerFileName(t)
  \/ compareName(t)
  \/ testInitialized(t)
  \/ lockLogger(t)
  \/ retestInitialized(t)
  \/ closeOld(t)
  \/ openNew(t)
  \/ unlockLogger(t)
  \/ returnFd(t)
  \/ aioWrite(t)

Next ==
  \/ \E t \in Threads : logMessage(t)
  \/ Midnight
  \/ AcceptClient
  \/ CloseClient

Spec == Init /\ [][Next]_vars

(* A call that was begun runs to its end; threads begin calls when they    *)
(* like.                                                                   *)
FairSpec ==
  /\ Spec
  /\ \A t \in Threads : WF_vars(pc[t] # "idle" /\ logMessage(t))

-----------------------------------------------------------------------------
LogFds == {d \in Descriptors : files[d].is = "log"}

(* The log is open on one descriptor and LOGGER has its number, whatever   *)
(* threads find out at the same time that it must be opened again: the     *)
(* descriptor of yesterday is closed, once, and no client's in its place   *)
(* (logger.c:111-132).                                                     *)
OneLogFile ==
  (\A t \in Threads : pc[t] # "open")
    => LogFds \subseteq {fileFd} /\ files[fileFd] \notin {Free, Client}

(* LOGGER never has the name of a later day than that of the file that is  *)
(* open, or the lines of that day would go to the older file until the     *)
(* next midnight (logger.c:104-121: the name is made before the path).     *)
NameNotAhead ==
  (\A t \in Threads : pc[t] # "open")
    => \A d \in LogFds : fileName <= files[d].of

(* A line goes to the log, and to the file of the day the call began or a  *)
(* later one, unless another thread opened the log again during the call   *)
(* (logger.c:107-134).                                                     *)
LinePlaced ==
  \A t \in Threads :
    active /\ pc[t] = "write" /\ ~crossed[t]
      => files[fd[t]].is = "log" /\ files[fd[t]].of >= name[t]

(* Nobody waits for the lock for ever: a call that was begun ends          *)
(* (logger.c:112-131).                                                     *)
CallEnds ==
  \A t \in Threads : pc[t] # "idle" ~> pc[t] = "idle"

(* While some thread goes on logging, the log moves to the file of the     *)
(* last day for good, also when a call that began before midnight writes   *)
(* its old name over the new one (logger.c:107, 121).                      *)
LogCatchesUp ==
  active /\ (\E t \in Threads : []<>(pc[t] = "compare"))
    => <>[](day = MaxDay => \E d \in LogFds : files[d].of = MaxDay)
=============================================================================
