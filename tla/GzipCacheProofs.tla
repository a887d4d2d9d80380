-------------------------- MODULE GzipCacheProofs --------------------------
(***************************************************************************)
(* Proofs about the compressed files of Services, for any number of        *)
(* threads, edits and touches and any lengths of the versions: a file that *)
(* several threads create at the same time ends up complete.  The argument *)
(* follows the last thread that emptied the file: all it has written since *)
(* is still there.                                                         *)
(***************************************************************************)
EXTENDS ServicesProofs

Chunk == Versions \union {Hole}

CacheTyped ==
  /\ version \in Versions
  /\ atime \in Keys
  /\ cache \in [Keys -> Seq(Chunk) \union {NoFile}]
  /\ key \in [Threads -> Keys]
  /\ announced \in [Threads -> Chunk]
  /\ opened \in [Threads -> Chunk]
  /\ done \in [Threads -> Nat]
  /\ pending \in [Threads -> Seq(Versions)]
  /\ written \in [Threads -> Nat]
  /\ bodyLength \in [Threads -> Nat]
  /\ body \in [Threads -> Seq(Chunk)]

CacheMarked ==
  /\ gzipped \in [Threads -> BOOLEAN]
  /\ raced \in [Threads -> BOOLEAN]

(* A thread that creates a file has written and compressed what it read.   *)
Progress ==
  \A t \in Threads :
    /\ pc[t] \in {"access", "gzopen"} => done[t] = 0
    /\ Creating(t) => written[t] + Len(pending[t]) = done[t]

(* A file that was found or created is not removed.                        *)
Present ==
  \A t \in Threads :
    pc[t] \in {"copy", "open", "fstat"} \/ (pc[t] = "send" /\ gzipped[t])
      => cache[key[t]] # NoFile

(* An open source is a version, and while the source is not edited it is   *)
(* the one that is there.                                                  *)
OneSource ==
  \A t \in Threads : Compressing(t) =>
    /\ opened[t] \in Versions
    /\ key[t] \notin blended => opened[t] = version

(* So all that is read and written is of that version.                     *)
OneVersion ==
  \A k \in Keys : k \notin blended =>
    \A t \in CreatorsOf(k) :
      /\ Len(cache[k]) <= version.length
      /\ done[t] <= version.length
      /\ \A i \in 1 .. Len(cache[k]) : cache[k][i] \in {Hole, version}
      /\ \A i \in 1 .. Len(pending[t]) : pending[t][i] = version

(* All a thread has written is in the file.                                *)
Filled(k, t) ==
  /\ written[t] <= Len(cache[k])
  /\ \A i \in 1 .. written[t] : cache[k][i] # Hole

(* A file is complete or one of its creators, the last to empty it, has    *)
(* lost nothing.                                                           *)
Leader ==
  \A k \in Keys :
    cache[k] # NoFile /\ k \notin torn \union blended
      => IF CreatorsOf(k) = {} THEN Complete(cache[k])
         ELSE \/ cache[k] = Copy(version)
              \/ \E t \in CreatorsOf(k) : Filled(k, t)

(* A response about to be sent announces the length of its file, unless    *)
(* the file was created or edited since.                                   *)
FullLength ==
  \A t \in Threads : pc[t] = "send" =>
    IF gzipped[t]
    THEN \/ raced[t] \/ key[t] \in torn \union blended
         \/ CreatorsOf(key[t]) = {} /\ bodyLength[t] = Len(cache[key[t]])
    ELSE /\ opened[t] \in Versions
         /\ announced[t].edit <= version.edit
         /\ opened[t] = announced[t] => bodyLength[t] = opened[t].length

(* A file is never sent as a template.                                     *)
NoTemplate ==
  \A t \in Threads : pc[t] = "sendAll" => request[t].kind # "file"

CacheInv ==
  /\ CacheTyped /\ CacheMarked
  /\ Progress /\ Present
  /\ OneSource /\ OneVersion /\ Leader
  /\ FullLength /\ NoTemplate /\ BodyWhole

-----------------------------------------------------------------------------
(* Lemmas about files.                                                     *)

(* What is written never looks like a missing file.                        *)
LEMMA NoFileApart == NoFile \notin Seq(Chunk)
<1>1. ASSUME NoFile \in Seq(Chunk) PROVE FALSE
  <2>1. Len(NoFile) = 1 /\ NoFile[1].edit = -2
    BY DEF NoFile
  <2>2. NoFile[1] \in Chunk
    <3>1. \A f \in Seq(Chunk) : \A i \in 1 .. Len(f) : f[i] \in Chunk
      OBVIOUS
    <3>2. 1 \in 1 .. Len(NoFile)
      BY <2>1
    <3> QED
      BY <1>1, <3>1, <3>2, Zenon
  <2>3. \A c \in Chunk : c.edit # -2
    BY GzipCacheAssumption DEF Chunk, Versions, Hole
  <2> QED
    BY <2>1, <2>2, <2>3
<1> QED
  BY <1>1

(* A version has a length, and is no hole.                                 *)
LEMMA VersionFacts ==
  ASSUME NEW v \in Versions
  PROVE  v \in Chunk /\ v # Hole /\ v.length \in Nat /\ v.edit \in Nat
<1>1. v \in Chunk
  BY DEF Chunk
<1>2. v.length \in Nat /\ v.edit \in Nat
  <2>1. v.length \in Lengths /\ v.edit \in 0 .. MaxEdits
    BY DEF Versions
  <2>2. Lengths \subseteq Nat /\ MaxEdits \in Nat
    BY GzipCacheAssumption
  <2>3. v.length \in Nat
    BY <2>1, <2>2, Zenon
  <2>4. v.edit \in Nat
    BY <2>1, <2>2
  <2> QED
    BY <2>3, <2>4
<1>3. Hole.edit \notin Nat
  BY DEF Hole
<1> QED
  BY <1>1, <1>2, <1>3

(* The copy of a version is a complete file of its length.                 *)
LEMMA CopyFacts ==
  ASSUME NEW v \in Versions
  PROVE  /\ Copy(v) \in Seq(Chunk) /\ Len(Copy(v)) = v.length
         /\ \A i \in 1 .. v.length : Copy(v)[i] = v
         /\ Complete(Copy(v))
<1>1. v \in Chunk /\ v.length \in Nat
  BY VersionFacts
<1> QED
  BY <1>1 DEF Copy, Complete

(* A file of that length without a hole and with nothing of another        *)
(* version is the copy.                                                    *)
LEMMA CopyIs ==
  ASSUME NEW v \in Versions, NEW file \in Seq(Chunk), Len(file) = v.length,
         \A i \in 1 .. Len(file) : file[i] \in {Hole, v} /\ file[i] # Hole
  PROVE  file = Copy(v)
<1>1. v.length \in Nat
  BY VersionFacts
<1>2. file = [i \in 1 .. v.length |-> file[i]]
  BY <1>1
<1>3. \A i \in 1 .. v.length : file[i] = v
  OBVIOUS
<1> QED
  BY <1>2, <1>3 DEF Copy

(* What WriteAt leaves: the chunks at the position, what was there around  *)
(* them, and a hole only behind the old end.                               *)
LEMMA WriteAtResult ==
  ASSUME NEW file \in Seq(Chunk), NEW p \in Nat, NEW chunks \in Seq(Versions)
  PROVE  LET new == WriteAt(file, p, chunks)
             end == p + Len(chunks)
         IN  /\ new \in Seq(Chunk)
             /\ Len(new) = IF Len(file) > end THEN Len(file) ELSE end
             /\ \A i \in (p + 1) .. end : new[i] = chunks[i - p]
             /\ \A i \in 1 .. Len(file) : i \notin (p + 1) .. end
                                            => new[i] = file[i]
             /\ \A i \in 1 .. p : i > Len(file) => new[i] = Hole
<1> DEFINE end == p + Len(chunks)
           top == IF Len(file) > end THEN Len(file) ELSE end
           new == WriteAt(file, p, chunks)
           at0(i) == CASE i \in (p + 1) .. end -> chunks[i - p]
                       [] i <= p /\ i > Len(file) -> Hole
                       [] OTHER -> file[i]
<1>1. end \in Nat /\ top \in Nat /\ Len(file) \in Nat /\ Len(chunks) \in Nat
  OBVIOUS
<1>2. new = [i \in 1 .. top |-> at0(i)]
  BY DEF WriteAt
<1>3. ASSUME NEW i \in 1 .. top
      PROVE  /\ i \in (p + 1) .. end => at0(i) = chunks[i - p]
             /\ i \notin (p + 1) .. end /\ i <= p /\ i > Len(file)
                  => at0(i) = Hole
             /\ i \notin (p + 1) .. end /\ i <= Len(file) => at0(i) = file[i]
             /\ \/ i \in (p + 1) .. end
                \/ i <= Len(file)
                \/ i <= p /\ i > Len(file)
  BY <1>1
<1>4. ASSUME NEW i \in 1 .. top
      PROVE  at0(i) \in Chunk
  <2>1. CASE i \in (p + 1) .. end
    <3>1. i - p \in 1 .. Len(chunks)
      BY <1>1, <2>1
    <3>2. chunks[i - p] \in Versions
      BY <3>1
    <3> QED
      BY <1>3, <2>1, <3>2 DEF Chunk
  <2>2. CASE i \notin (p + 1) .. end /\ i <= Len(file)
    <3>1. file[i] \in Chunk
      BY <1>1, <2>2
    <3> QED
      BY <1>3, <2>2, <3>1
  <2>3. CASE i \notin (p + 1) .. end /\ i <= p /\ i > Len(file)
    BY <1>3, <2>3 DEF Chunk
  <2> QED
    BY <1>3, <2>1, <2>2, <2>3
<1> HIDE DEF at0, new, top
<1>5. new \in Seq(Chunk) /\ Len(new) = top
  BY <1>1, <1>2, <1>4
<1>6. \A i \in 1 .. top : new[i] = at0(i)
  BY <1>2
<1>7. (p + 1) .. end \subseteq 1 .. top /\ 1 .. Len(file) \subseteq 1 .. top
  BY <1>1 DEF top
<1>8. \A i \in (p + 1) .. end : new[i] = chunks[i - p]
  BY <1>3, <1>6, <1>7
<1>9. \A i \in 1 .. Len(file) : i \notin (p + 1) .. end => new[i] = file[i]
  BY <1>1, <1>3, <1>6, <1>7
<1>10. \A i \in 1 .. p : i > Len(file) => new[i] = Hole
  <2> SUFFICES ASSUME NEW i \in 1 .. p, i > Len(file) PROVE new[i] = Hole
    OBVIOUS
  <2>1. i \in 1 .. top /\ i \notin (p + 1) .. end
    BY <1>1 DEF top
  <2> QED
    BY <1>3, <1>6, <2>1
<1> QED
  BY <1>5, <1>8, <1>9, <1>10 DEF new, top

-----------------------------------------------------------------------------
(* CacheInv is an invariant of the specification.                          *)

(* There are no compressed files at first.                                 *)
LEMMA CacheInvInit == ServicesInit => CacheInv
<1> SUFFICES ASSUME ServicesInit PROVE CacheInv
  OBVIOUS
<1> USE GzipCacheAssumption DEF ServicesInit, GzipCacheInit
<1>1. CacheTyped
  <2>1. 0 \in Keys /\ Unopened \in Chunk
    BY DEF Keys, Unopened, Chunk
  <2> QED
    BY <2>1 DEF CacheTyped
<1>2. CacheMarked
  BY DEF CacheMarked
<1>3. Progress /\ Present /\ OneSource /\ OneVersion /\ Leader
  BY DEF Progress, Present, OneSource, Compressing, OneVersion, Leader,
         Creating, CreatorsOf
<1>4. FullLength /\ NoTemplate /\ BodyWhole
  BY DEF FullLength, NoTemplate, BodyWhole
<1> QED
  BY <1>1, <1>2, <1>3, <1>4 DEF CacheInv

(* Leader and BodyWhole in the state a step leads to.                      *)
LEMMA LeaderNext ==
  ASSUME \A k \in Keys :
           cache'[k] # NoFile /\ k \notin torn' \union blended'
             => IF CreatorsOf(k)' = {} THEN Complete(cache'[k])
                ELSE \/ cache'[k] = Copy(version')
                     \/ \E t \in CreatorsOf(k)' : Filled(k, t)'
  PROVE  Leader'
BY DEF Leader, Complete, Copy

(* A response is logged when its body has been sent, from a copy that is   *)
(* whole or from a source that is still the one announced.                 *)
LEMMA BodyWholeNext ==
  ASSUME \A t \in Threads :
           pc'[t] = "log" /\ request'[t].kind = "file"
             => \/ Complete(body'[t]) /\ Len(body'[t]) = bodyLength'[t]
                \/ gzipped'[t] /\ (raced'[t] \/ key'[t] \in torn' \union blended')
                \/ ~gzipped'[t] /\ opened'[t] # announced'[t]
  PROVE  BodyWhole'
BY DEF BodyWhole, Complete, Copy

(* The latter holds if no thread comes to its log, and those that are      *)
(* there keep what they have.                                              *)
LEMMA BodiesKept ==
  ASSUME BodyWhole, torn \subseteq torn', blended \subseteq blended',
         \A t \in Threads : pc'[t] = "log" /\ request'[t].kind = "file" =>
           /\ pc[t] = "log" /\ request[t].kind = "file"
           /\ body'[t] = body[t] /\ bodyLength'[t] = bodyLength[t]
           /\ gzipped'[t] = gzipped[t] /\ raced'[t] = raced[t]
           /\ key'[t] = key[t] /\ opened'[t] = opened[t]
           /\ announced'[t] = announced[t]
  PROVE  BodyWhole'
<1> SUFFICES ASSUME NEW t \in Threads, pc'[t] = "log",
                    request'[t].kind = "file"
             PROVE  \/ Complete(body'[t]) /\ Len(body'[t]) = bodyLength'[t]
                    \/ /\ gzipped'[t]
                       /\ raced'[t] \/ key'[t] \in torn' \union blended'
                    \/ ~gzipped'[t] /\ opened'[t] # announced'[t]
  BY BodyWholeNext
<1> QED
  BY DEF BodyWhole

(* A step that changes neither the files nor who creates them.             *)
LEMMA QuietFiles ==
  ASSUME CacheInv, UNCHANGED <<version, cache, torn, blended>>,
         \A t \in Threads :
           /\ Creating(t)' <=> Creating(t)
           /\ Creating(t) => /\ key'[t] = key[t]
                             /\ done'[t] = done[t]
                             /\ pending'[t] = pending[t]
                             /\ written'[t] = written[t]
  PROVE  /\ OneVersion' /\ Leader'
         /\ \A k \in Keys : CreatorsOf(k)' = CreatorsOf(k)
<1>1. \A k \in Keys : CreatorsOf(k)' = CreatorsOf(k)
  BY DEF CreatorsOf
<1>2. \A k \in Keys : \A t \in CreatorsOf(k) :
        /\ Filled(k, t)' <=> Filled(k, t)
        /\ pending'[t] = pending[t] /\ done'[t] = done[t]
  BY DEF CreatorsOf, Filled
<1>3. Leader'
  <2>1. \A k \in Keys :
          cache'[k] # NoFile /\ k \notin torn' \union blended'
            => IF CreatorsOf(k)' = {} THEN Complete(cache'[k])
               ELSE \/ cache'[k] = Copy(version')
                    \/ \E t \in CreatorsOf(k)' : Filled(k, t)'
    BY <1>1, <1>2 DEF CacheInv, Leader
  <2> QED
    BY <2>1, LeaderNext
<1>4. OneVersion'
  BY <1>1, <1>2 DEF CacheInv, OneVersion
<1> QED
  BY <1>1, <1>3, <1>4

(* The steps of the other parts of Services.                               *)
CacheLabels == {"access", "gzopen", "copy", "open", "fstat", "send"}

(* Parsing, logging and templates do not touch a compressed file.          *)
LEMMA OtherStep ==
  ASSUME CacheInv, ParseInv, NEW t \in Threads, UNCHANGED gzipVars,
         pc[t] \notin CacheLabels,
         \/ HeaderParseStep(t)
         \/ SendAllStep(t)
  PROVE  CacheInv'
<1> USE DEF gzipVars
<1>1. /\ pc \in [Threads -> Labels]
      /\ request \in [Threads -> Requests \union {NoRequest}]
  BY DEF ParseInv, ParseTyped
<1>2. /\ \A u \in Threads \ {t} : pc'[u] = pc[u] /\ request'[u] = request[u]
      /\ pc'[t] \notin CacheLabels
      /\ pc'[t] = "sendAll" => request'[t].kind # "file"
      /\ pc'[t] = "log" => request'[t].kind # "file"
  <2>1. CASE SendAllStep(t)
    <3>1. request'[t].kind # "file"
      BY <2>1 DEF CacheInv, NoTemplate, SendAllStep, sendAll, sendAllReturn,
         workerVars
    <3> QED
      BY <1>1, <2>1, <3>1 DEF SendAllStep, sendAll, sendAllReturn, workerVars,
         Go, CacheLabels
  <2>2. CASE processRequest(t)
    <3>1. PICK r \in Requests :
            /\ request' = [request EXCEPT ![t] = r]
            /\ Go(t, Answering(r)) \/ Go(t, "scan")
      BY <2>2 DEF processRequest
    <3> QED
      BY <1>1, <3>1 DEF Go, Answering, CacheLabels
  <2>3. CASE strtokNull(t)
    BY <1>1, <2>3 DEF strtokNull, Go, Answering, CacheLabels
  <2>4. CASE strtokEnter(t) \/ strtokToken(t) \/ strtokJunk(t)
    BY <1>1, <2>4 DEF strtokEnter, strtokToken, strtokJunk, Go, CacheLabels
  <2> QED
    BY <2>1, <2>2, <2>3, <2>4 DEF HeaderParseStep
<1>3. \A u \in Threads : Creating(u)' <=> Creating(u)
  BY <1>2 DEF Creating, CacheLabels
<1>4. /\ OneVersion' /\ Leader'
      /\ \A k \in Keys : CreatorsOf(k)' = CreatorsOf(k)
  BY <1>3, QuietFiles
<1>5. CacheTyped' /\ CacheMarked'
  BY DEF CacheInv, CacheTyped, CacheMarked
<1>6. Progress' /\ Present' /\ OneSource'
  BY <1>2 DEF CacheInv, Progress, Present, OneSource, Compressing, Creating,
     CacheLabels
<1>7. FullLength'
  BY <1>2, <1>4 DEF CacheInv, CacheTyped, FullLength, CacheLabels
<1>8. NoTemplate' /\ BodyWhole'
  BY <1>2, BodiesKept DEF CacheInv, NoTemplate, CacheLabels
<1> QED
  BY <1>4, <1>5, <1>6, <1>7, <1>8 DEF CacheInv

(* logRequest: the thread is no creator.                                   *)
LEMMA LogStep ==
  ASSUME CacheInv, ParseInv, NEW t \in Threads, logRequest(t)
  PROVE  CacheInv'
<1> USE GzipCacheAssumption DEF logRequest, Freed, Go
<1>1. /\ pc \in [Threads -> Labels]
      /\ request \in [Threads -> Requests \union {NoRequest}]
  BY DEF ParseInv, ParseTyped
<1>2. CacheTyped /\ CacheMarked
  BY DEF CacheInv
<1>3. /\ \A u \in Threads \ {t} :
           /\ pc'[u] = pc[u] /\ request'[u] = request[u]
           /\ key'[u] = key[u] /\ done'[u] = done[u]
           /\ announced'[u] = announced[u] /\ opened'[u] = opened[u]
           /\ written'[u] = written[u] /\ bodyLength'[u] = bodyLength[u]
           /\ body'[u] = body[u]
      /\ pc[t] = "log" /\ pc'[t] = "idle"
  BY <1>1, <1>2 DEF CacheTyped
<1>4. \A u \in Threads \ {t} : gzipped'[u] = gzipped[u] /\ raced'[u] = raced[u]
  BY <1>2 DEF CacheMarked
<1>5. /\ OneVersion' /\ Leader'
      /\ \A k \in Keys : CreatorsOf(k)' = CreatorsOf(k)
  BY <1>3, QuietFiles DEF Creating
<1>6. CacheMarked'
  BY <1>2 DEF CacheMarked
<1>7. CacheTyped'
  <2>1. 0 \in Keys /\ <<>> \in Seq(Chunk) /\ Unopened \in Chunk
    BY DEF Keys, Unopened, Chunk
  <2> QED
    BY <1>2, <2>1 DEF CacheTyped
<1>8. Progress' /\ Present' /\ OneSource'
  BY <1>3, <1>4 DEF CacheInv, Progress, Present, OneSource, Compressing, Creating
<1>9. FullLength'
  BY <1>2, <1>3, <1>4, <1>5 DEF CacheInv, CacheTyped, FullLength
<1>10. NoTemplate' /\ BodyWhole'
  BY <1>3, <1>4, BodiesKept DEF CacheInv, NoTemplate
<1> QED
  BY <1>5, <1>6, <1>7, <1>8, <1>9, <1>10 DEF CacheInv

(* Reading the source gives it an access time of the range.                *)
LEMMA ReadKeeps ==
  ASSUME atime \in Keys, NEW v, ReadSource(v) \/ UNCHANGED atime
  PROVE  atime' \in Keys
BY GzipCacheAssumption DEF ReadSource, Keys

(* makeResponse opens the source and leaves the compressed files alone.    *)
LEMMA StatStep ==
  ASSUME CacheInv, ParseInv, NEW t \in Threads, NEW g \in BOOLEAN,
         makeResponse(t, g)
  PROVE  CacheInv'
<1> USE GzipCacheAssumption
<1>1. pc \in [Threads -> Labels]
  BY DEF ParseInv, ParseTyped
<1>2. CacheTyped /\ CacheMarked
  BY DEF CacheInv
<1>3. /\ pc[t] = "stat"
      /\ key' = [key EXCEPT ![t] = atime]
      /\ announced' = [announced EXCEPT ![t] = version]
      /\ opened' = [opened EXCEPT ![t] = version]
      /\ done' = [done EXCEPT ![t] = 0]
      /\ bodyLength' = [bodyLength EXCEPT ![t] = version.length]
      /\ gzipped' = [gzipped EXCEPT ![t] = FALSE]
      /\ raced' = [raced EXCEPT ![t] = FALSE]
      /\ \/ pc' = [pc EXCEPT ![t] = "access"]
         \/ pc' = [pc EXCEPT ![t] = "send"]
      /\ UNCHANGED <<request, version, cache, pending, written, body, torn,
                     blended>>
  BY DEF makeResponse, Go
<1>4. atime' \in Keys
  BY <1>2, ReadKeeps DEF CacheTyped, makeResponse
<1>5. /\ version \in Versions /\ version \in Chunk
      /\ version.length \in Nat /\ version.edit \in Nat
  BY <1>2, VersionFacts DEF CacheTyped
<1>6. CacheTyped'
  BY <1>2, <1>3, <1>4, <1>5 DEF CacheTyped
<1>7. CacheMarked'
  BY <1>2, <1>3 DEF CacheMarked
<1>8. /\ \A u \in Threads \ {t} :
           /\ pc'[u] = pc[u] /\ key'[u] = key[u] /\ done'[u] = done[u]
           /\ announced'[u] = announced[u] /\ opened'[u] = opened[u]
           /\ bodyLength'[u] = bodyLength[u]
      /\ pc'[t] \in {"access", "send"}
      /\ announced'[t] = version /\ opened'[t] = version
      /\ done'[t] = 0 /\ bodyLength'[t] = version.length
  BY <1>1, <1>2, <1>3 DEF CacheTyped
<1>9. /\ \A u \in Threads \ {t} : /\ gzipped'[u] = gzipped[u]
                                  /\ raced'[u] = raced[u]
      /\ ~gzipped'[t]
  BY <1>2, <1>3 DEF CacheMarked
<1>10. /\ OneVersion' /\ Leader'
       /\ \A k \in Keys : CreatorsOf(k)' = CreatorsOf(k)
  BY <1>3, <1>8, QuietFiles DEF Creating
<1>11. Progress' /\ Present' /\ OneSource'
  BY <1>3, <1>5, <1>8, <1>9
  DEF CacheInv, Progress, Present, OneSource, Compressing, Creating
<1>12. FullLength'
  BY <1>2, <1>3, <1>5, <1>8, <1>9, <1>10 DEF CacheInv, CacheTyped, FullLength
<1>13. NoTemplate' /\ BodyWhole'
  BY <1>3, <1>8, <1>9, BodiesKept DEF CacheInv, NoTemplate
<1> QED
  BY <1>6, <1>7, <1>10, <1>11, <1>12, <1>13 DEF CacheInv

(* access() and open(): only the label changes, and the source is closed.  *)
LEMMA FindStep ==
  ASSUME CacheInv, ParseInv, NEW t \in Threads, accessCache(t) \/ openCache(t)
  PROVE  CacheInv'
<1> USE DEF accessCache, openCache, Go, gzipVars
<1>1. pc \in [Threads -> Labels]
  BY DEF ParseInv, ParseTyped
<1>2. CacheTyped /\ CacheMarked
  BY DEF CacheInv
<1>3. /\ \A u \in Threads \ {t} : pc'[u] = pc[u] /\ opened'[u] = opened[u]
      /\ \/ pc[t] = "access" /\ pc'[t] = "gzopen" /\ opened'[t] = opened[t]
         \/ pc[t] = "access" /\ pc'[t] = "open" /\ cache[key[t]] # NoFile
         \/ pc[t] = "open" /\ pc'[t] = "fstat"
  BY <1>1, <1>2 DEF CacheTyped
<1>4. UNCHANGED <<request, version, atime, cache, key, announced, done, pending,
                  written, bodyLength, body, gzipped, raced, torn, blended>>
  OBVIOUS
<1>5. /\ OneVersion' /\ Leader'
      /\ \A k \in Keys : CreatorsOf(k)' = CreatorsOf(k)
  BY <1>3, <1>4, QuietFiles DEF Creating
<1>6. CacheTyped' /\ CacheMarked'
  <2>1. Unopened \in Chunk
    BY DEF Unopened, Chunk
  <2>2. opened' \in [Threads -> Chunk]
    BY <1>2, <2>1 DEF CacheTyped
  <2> QED
    BY <1>2, <1>4, <2>2 DEF CacheTyped, CacheMarked
<1>7. Progress' /\ Present' /\ OneSource'
  BY <1>3, <1>4 DEF CacheInv, Progress, Present, OneSource, Compressing, Creating
<1>8. FullLength'
  BY <1>2, <1>3, <1>4, <1>5 DEF CacheInv, CacheTyped, FullLength
<1>9. NoTemplate' /\ BodyWhole'
  BY <1>3, <1>4, BodiesKept DEF CacheInv, NoTemplate
<1> QED
  BY <1>5, <1>6, <1>7, <1>8, <1>9 DEF CacheInv

(* gzopen(): the file is empty and this thread has lost nothing of it.     *)
LEMMA CreateStep ==
  ASSUME CacheInv, ParseInv, NEW t \in Threads, gzopen(t)
  PROVE  CacheInv'
<1> USE GzipCacheAssumption
<1>a. PICK k : k = key[t]
  OBVIOUS
<1>1. pc \in [Threads -> Labels]
  BY DEF ParseInv, ParseTyped
<1>2. CacheTyped /\ CacheMarked
  BY DEF CacheInv
<1>3. /\ pc[t] = "gzopen" /\ pc' = [pc EXCEPT ![t] = "copy"]
      /\ cache' = [cache EXCEPT ![k] = <<>>]
      /\ pending' = [pending EXCEPT ![t] = <<>>]
      /\ written' = [written EXCEPT ![t] = 0]
      /\ UNCHANGED <<request, version, atime, key, announced, opened, done,
                     bodyLength, body, gzipped, torn, blended>>
  BY <1>a DEF gzopen, Go
<1>4. raced' = [u \in Threads |->
                  raced[u] \/ (pc[u] = "send" /\ gzipped[u] /\ key[u] = k)]
  BY <1>a DEF gzopen
<1>5. k \in Keys
  BY <1>a, <1>2 DEF CacheTyped
<1>6. CacheTyped'
  <2>0. <<>> \in Seq(Chunk) \union {NoFile}
    OBVIOUS
  <2>1. cache' \in [Keys -> Seq(Chunk) \union {NoFile}]
    BY <1>2, <1>3, <2>0, Zenon DEF CacheTyped
  <2>2. /\ pending' \in [Threads -> Seq(Versions)]
        /\ written' \in [Threads -> Nat]
    BY <1>2, <1>3 DEF CacheTyped
  <2> QED
    BY <1>2, <1>3, <2>1, <2>2 DEF CacheTyped
<1>7. CacheMarked'
  BY <1>2, <1>3, <1>4, Zenon DEF CacheMarked
<1>8. /\ \A u \in Threads \ {t} : /\ pc'[u] = pc[u]
                                  /\ pending'[u] = pending[u]
                                  /\ written'[u] = written[u]
      /\ pc'[t] = "copy" /\ pending'[t] = <<>> /\ written'[t] = 0
      /\ cache'[k] = <<>>
      /\ \A j \in Keys \ {k} : cache'[j] = cache[j]
  BY <1>1, <1>2, <1>3, <1>5 DEF CacheTyped
<1>9. \A u \in Threads :
        /\ pc[u] = "send" /\ gzipped[u] /\ key[u] = k => raced'[u]
        /\ raced[u] => raced'[u]
        /\ pc[u] # "send" => raced'[u] = raced[u]
  BY <1>2, <1>4, Zenon DEF CacheMarked
<1>10. <<>> # NoFile
  <2>1. <<>> \in Seq(Chunk)
    OBVIOUS
  <2> QED
    BY <2>1, NoFileApart, Zenon
<1>11. /\ CreatorsOf(k)' = CreatorsOf(k) \union {t}
       /\ \A j \in Keys \ {k} : CreatorsOf(j)' = CreatorsOf(j)
       /\ \A j \in Keys : CreatorsOf(j) \subseteq Threads \ {t}
  BY <1>a, <1>3, <1>8 DEF CreatorsOf, Creating
<1>12. Progress' /\ Present' /\ OneSource'
  <2>1. done[t] = 0
    BY <1>3 DEF CacheInv, Progress
  <2> QED
    BY <1>a, <1>2, <1>3, <1>8, <1>10, <2>1
    DEF CacheInv, CacheTyped, Progress, Present, OneSource, Compressing, Creating
<1>13. OneVersion'
  <2> SUFFICES ASSUME NEW j \in Keys, j \notin blended,
                      NEW u \in CreatorsOf(j)'
               PROVE  /\ Len(cache'[j]) <= version.length
                      /\ done[u] <= version.length
                      /\ \A i \in 1 .. Len(cache'[j]) :
                           cache'[j][i] \in {Hole, version}
                      /\ \A i \in 1 .. Len(pending'[u]) :
                           pending'[u][i] = version
    BY <1>3 DEF OneVersion
  <2>1. version.length \in Nat
    BY <1>2, VersionFacts DEF CacheTyped
  <2>2. done[t] = 0
    BY <1>3 DEF CacheInv, Progress
  <2>3. CASE u = t
    <3>1. j = k
      BY <1>a, <1>3, <2>3 DEF CreatorsOf
    <3> QED
      BY <1>8, <2>1, <2>2, <2>3, <3>1
  <2>4. CASE u # t
    <3>1. u \in CreatorsOf(j) /\ u \in Threads
      BY <1>11, <2>4
    <3>2. CASE j = k
      BY <1>8, <2>1, <2>4, <3>1, <3>2 DEF CacheInv, OneVersion
    <3>3. CASE j # k
      BY <1>8, <2>4, <3>1, <3>3 DEF CacheInv, OneVersion
    <3> QED
      BY <3>2, <3>3
  <2> QED
    BY <2>3, <2>4
<1>14. Leader'
  <2>1. Filled(k, t)'
    BY <1>8 DEF Filled
  <2>2. \A j \in Keys \ {k} : \A u \in CreatorsOf(j) :
          Filled(j, u)' <=> Filled(j, u)
    BY <1>8, <1>11 DEF Filled
  <2> SUFFICES ASSUME NEW j \in Keys, cache'[j] # NoFile,
                      j \notin torn \union blended
               PROVE  IF CreatorsOf(j)' = {} THEN Complete(cache'[j])
                      ELSE \/ cache'[j] = Copy(version)
                           \/ \E u \in CreatorsOf(j)' : Filled(j, u)'
    BY <1>3, LeaderNext
  <2>3. CASE j = k
    BY <1>11, <2>1, <2>3
  <2>4. CASE j # k
    BY <1>8, <1>11, <2>2, <2>4 DEF CacheInv, Leader
  <2> QED
    BY <2>3, <2>4
<1>15. FullLength'
  <2> SUFFICES ASSUME NEW u \in Threads, pc[u] = "send"
               PROVE  IF gzipped[u]
                      THEN \/ raced'[u] \/ key[u] \in torn \union blended
                           \/ /\ CreatorsOf(key[u])' = {}
                              /\ bodyLength[u] = Len(cache'[key[u]])
                      ELSE /\ opened[u] \in Versions
                           /\ announced[u].edit <= version.edit
                           /\ opened[u] = announced[u]
                                => bodyLength[u] = opened[u].length
    BY <1>3, <1>8 DEF FullLength
  <2>1. key[u] \in Keys
    BY <1>2 DEF CacheTyped
  <2>2. CASE gzipped[u] /\ key[u] = k
    BY <1>9, <2>2
  <2>3. CASE gzipped[u] /\ key[u] # k
    <3>1. CreatorsOf(key[u])' = CreatorsOf(key[u])
      BY <1>3, <1>11, <2>1, <2>3
    <3> QED
      BY <1>8, <1>9, <2>1, <2>3, <3>1 DEF CacheInv, FullLength
  <2>4. CASE ~gzipped[u]
    BY <2>4 DEF CacheInv, FullLength
  <2> QED
    BY <2>2, <2>3, <2>4
<1>16. NoTemplate' /\ BodyWhole'
  BY <1>3, <1>8, <1>9, BodiesKept DEF CacheInv, NoTemplate
<1> QED
  BY <1>6, <1>7, <1>12, <1>13, <1>14, <1>15, <1>16 DEF CacheInv

(* gzwrite(): one more chunk, of the version that is open.                 *)
LEMMA ReadStep ==
  ASSUME CacheInv, ParseInv, NEW t \in Threads, gzwrite(t)
  PROVE  CacheInv'
<1> USE GzipCacheAssumption
<1>a. PICK v : v = opened[t]
  OBVIOUS
<1>1. pc \in [Threads -> Labels]
  BY DEF ParseInv, ParseTyped
<1>2. CacheTyped /\ CacheMarked
  BY DEF CacheInv
<1>3. /\ Creating(t) /\ done[t] < v.length
      /\ done' = [done EXCEPT ![t] = done[t] + 1]
      /\ pending' = [pending EXCEPT ![t] = Append(pending[t], v)]
      /\ UNCHANGED <<pc, request, version, cache, key, announced, opened,
                     written, bodyLength, body, gzipped, raced, torn, blended>>
  BY <1>a, <1>2 DEF gzwrite, workerVars, CacheTyped
<1>4. atime' \in Keys
  BY <1>2, ReadKeeps DEF CacheTyped, gzwrite
<1>5. /\ v \in Versions /\ v.length \in Nat
      /\ key[t] \notin blended => v = version
  <2>1. v \in Versions /\ (key[t] \notin blended => v = version)
    BY <1>a, <1>3 DEF CacheInv, OneSource, Compressing, Creating
  <2> QED
    BY <2>1, VersionFacts
<1>6. /\ pending[t] \in Seq(Versions) /\ done[t] \in Nat
      /\ Append(pending[t], v) \in Seq(Versions)
  BY <1>2, <1>5 DEF CacheTyped
<1>7. CacheTyped'
  BY <1>2, <1>3, <1>4, <1>6 DEF CacheTyped
<1>8. CacheMarked'
  BY <1>2, <1>3 DEF CacheMarked
<1>9. /\ \A u \in Threads \ {t} : /\ done'[u] = done[u]
                                  /\ pending'[u] = pending[u]
      /\ done'[t] = done[t] + 1
      /\ pending'[t] = Append(pending[t], v)
      /\ Len(pending'[t]) = Len(pending[t]) + 1
  BY <1>2, <1>3, <1>6 DEF CacheTyped
<1>10. \A k \in Keys : CreatorsOf(k)' = CreatorsOf(k)
  BY <1>3 DEF CreatorsOf, Creating
<1>11. Leader'
  <2>1. \A k \in Keys : \A u \in CreatorsOf(k) : Filled(k, u)' <=> Filled(k, u)
    BY <1>3 DEF Filled
  <2> QED
    BY <1>3, <1>10, <2>1, LeaderNext DEF CacheInv, Leader
<1>12. OneVersion'
  <2> SUFFICES ASSUME NEW k \in Keys, k \notin blended,
                      NEW u \in CreatorsOf(k)
               PROVE  /\ Len(cache[k]) <= version.length
                      /\ done'[u] <= version.length
                      /\ \A i \in 1 .. Len(cache[k]) :
                           cache[k][i] \in {Hole, version}
                      /\ \A i \in 1 .. Len(pending'[u]) :
                           pending'[u][i] = version
    BY <1>3, <1>10 DEF OneVersion
  <2>1. /\ Len(cache[k]) <= version.length /\ done[u] <= version.length
        /\ \A i \in 1 .. Len(cache[k]) : cache[k][i] \in {Hole, version}
        /\ \A i \in 1 .. Len(pending[u]) : pending[u][i] = version
    BY DEF CacheInv, OneVersion
  <2>2. CASE u = t
    <3>0. v = version
      BY <1>5, <2>2 DEF CreatorsOf
    <3>1. ASSUME NEW i \in 1 .. Len(pending'[t])
          PROVE  pending'[t][i] = version
      <4>1. CASE i = Len(pending[t]) + 1
        BY <1>6, <1>9, <3>0, <4>1
      <4>2. CASE i # Len(pending[t]) + 1
        <5>1. i \in 1 .. Len(pending[t])
          BY <1>6, <1>9, <3>1, <4>2
        <5>2. pending'[t][i] = pending[t][i]
          BY <1>6, <1>9, <5>1
        <5> QED
          BY <2>1, <2>2, <5>1, <5>2
      <4> QED
        BY <4>1, <4>2
    <3>2. done'[t] <= version.length
      BY <1>3, <1>5, <1>6, <1>9, <3>0
    <3> QED
      BY <2>1, <2>2, <3>1, <3>2
  <2>3. CASE u # t
    BY <1>9, <2>1, <2>3 DEF CreatorsOf
  <2> QED
    BY <2>2, <2>3
<1>13. Progress' /\ Present' /\ OneSource'
  <2>1. Present' /\ OneSource'
    BY <1>3 DEF CacheInv, Present, OneSource, Compressing
  <2>2. /\ written[t] \in Nat /\ Len(pending[t]) \in Nat
        /\ written[t] + Len(pending[t]) = done[t]
    BY <1>2, <1>3, <1>6 DEF CacheInv, CacheTyped, Progress
  <2>3. /\ pc'[t] \notin {"access", "gzopen"}
        /\ written'[t] + Len(pending'[t]) = done'[t]
    BY <1>3, <1>6, <1>9, <2>2 DEF Creating
  <2>4. \A u \in Threads \ {t} :
          /\ pc'[u] = pc[u] /\ Creating(u)' = Creating(u)
          /\ done'[u] = done[u] /\ written'[u] = written[u]
          /\ pending'[u] = pending[u]
    BY <1>3, <1>9 DEF Creating
  <2> QED
    BY <2>1, <2>3, <2>4 DEF CacheInv, Progress
<1>14. FullLength'
  BY <1>2, <1>3, <1>10 DEF CacheInv, CacheTyped, FullLength
<1>15. NoTemplate' /\ BodyWhole'
  BY <1>3, BodiesKept DEF CacheInv, NoTemplate
<1> QED
  BY <1>7, <1>8, <1>11, <1>12, <1>13, <1>14, <1>15 DEF CacheInv

(* zlib writes: nothing a thread has written becomes a hole again.         *)
LEMMA FlushStep ==
  ASSUME CacheInv, ParseInv, NEW t \in Threads, zlibFlush(t)
  PROVE  CacheInv'
<1> USE GzipCacheAssumption
<1>a. PICK k : k = key[t]
  OBVIOUS
<1>b. PICK p : p = written[t]
  OBVIOUS
<1> DEFINE chunks == pending[t]
           new == WriteAt(cache[k], p, chunks)
           end == p + Len(chunks)
<1>1. pc \in [Threads -> Labels]
  BY DEF ParseInv, ParseTyped
<1>2. CacheTyped /\ CacheMarked
  BY DEF CacheInv
<1>3. /\ Creating(t)
      /\ cache' = [cache EXCEPT ![k] = new]
      /\ written' = [written EXCEPT ![t] = end]
      /\ pending' = [pending EXCEPT ![t] = <<>>]
      /\ UNCHANGED <<pc, request, version, atime, key, announced, opened, done,
                     bodyLength, body, gzipped, raced, torn, blended>>
  BY <1>a, <1>b, <1>2 DEF zlibFlush, workerVars, CacheTyped
<1>4. /\ k \in Keys /\ p \in Nat /\ chunks \in Seq(Versions)
      /\ Len(chunks) \in Nat /\ cache[k] # NoFile /\ cache[k] \in Seq(Chunk)
      /\ Len(cache[k]) \in Nat
  BY <1>a, <1>b, <1>2, <1>3 DEF CacheInv, CacheTyped, Present, Creating
<1>5. end = done[t] /\ done[t] \in Nat
  BY <1>b, <1>2, <1>3 DEF CacheInv, CacheTyped, Progress
<1>6. version \in Versions /\ version.length \in Nat /\ version # Hole
  BY <1>2, VersionFacts DEF CacheTyped
<1>7. /\ new \in Seq(Chunk)
      /\ Len(new) = IF Len(cache[k]) > end THEN Len(cache[k]) ELSE end
      /\ \A i \in (p + 1) .. end : new[i] = chunks[i - p]
      /\ \A i \in 1 .. Len(cache[k]) : i \notin (p + 1) .. end
                                         => new[i] = cache[k][i]
      /\ \A i \in 1 .. p : i > Len(cache[k]) => new[i] = Hole
  BY <1>4, WriteAtResult, Zenon
<1> HIDE DEF new
<1>8. /\ \A u \in Threads \ {t} : /\ written'[u] = written[u]
                                  /\ pending'[u] = pending[u]
      /\ written'[t] = end /\ pending'[t] = <<>>
      /\ cache'[k] = new
      /\ \A j \in Keys \ {k} : cache'[j] = cache[j]
  BY <1>2, <1>3, <1>4 DEF CacheTyped
<1>9. new # NoFile
  BY <1>7, NoFileApart, Zenon
<1>10. /\ \A j \in Keys : CreatorsOf(j)' = CreatorsOf(j)
       /\ t \in CreatorsOf(k)
  BY <1>a, <1>3 DEF CreatorsOf, Creating
<1>11. \A i \in (p + 1) .. end : chunks[i - p] \in Versions
  <2> SUFFICES ASSUME NEW i \in (p + 1) .. end PROVE chunks[i - p] \in Versions
    OBVIOUS
  <2>1. i - p \in 1 .. Len(chunks)
    BY <1>4
  <2> QED
    BY <1>4, <2>1
<1>12. Hole \notin Versions
  BY VersionFacts
<1>13. \A i \in 1 .. Len(cache[k]) : cache[k][i] # Hole => new[i] # Hole
  BY <1>4, <1>7, <1>11, <1>12
<1>14. Len(cache[k]) <= Len(new) /\ Len(new) \in Nat /\ end <= Len(new)
  BY <1>4, <1>5, <1>7
<1>15. CacheTyped'
  <2>1. cache' \in [Keys -> Seq(Chunk) \union {NoFile}]
    BY <1>2, <1>3, <1>7 DEF CacheTyped
  <2>2. pending' \in [Threads -> Seq(Versions)]
    BY <1>2, <1>3 DEF CacheTyped
  <2>3. written' \in [Threads -> Nat]
    BY <1>2, <1>3, <1>5 DEF CacheTyped
  <2> QED
    BY <1>2, <1>3, <2>1, <2>2, <2>3 DEF CacheTyped
<1>16. CacheMarked'
  BY <1>2, <1>3 DEF CacheMarked
<1>17. Progress' /\ Present' /\ OneSource'
  <2>1. OneSource'
    BY <1>3 DEF CacheInv, OneSource, Compressing
  <2> QED
    BY <1>a, <1>2, <1>3, <1>5, <1>8, <1>9, <2>1
    DEF CacheInv, CacheTyped, Progress, Present, Creating
<1>18. ASSUME k \notin blended
       PROVE  /\ Len(new) <= version.length
              /\ \A i \in 1 .. Len(new) : new[i] \in {Hole, version}
  <2>1. /\ Len(cache[k]) <= version.length /\ done[t] <= version.length
        /\ \A i \in 1 .. Len(cache[k]) : cache[k][i] \in {Hole, version}
        /\ \A i \in 1 .. Len(chunks) : chunks[i] = version
    BY <1>4, <1>10, <1>18 DEF CacheInv, OneVersion
  <2>2. Len(new) <= version.length
    BY <1>4, <1>5, <1>6, <1>7, <2>1
  <2>3. ASSUME NEW i \in 1 .. Len(new)
        PROVE  new[i] \in {Hole, version}
    <3>1. CASE i \in (p + 1) .. end
      <4>1. i - p \in 1 .. Len(chunks)
        BY <1>4, <3>1
      <4> QED
        BY <1>7, <2>1, <3>1, <4>1
    <3>2. CASE i \notin (p + 1) .. end /\ i <= Len(cache[k])
      BY <1>4, <1>7, <1>14, <2>1, <3>2
    <3>3. CASE i \notin (p + 1) .. end /\ i > Len(cache[k])
      <4>1. i \in 1 .. p
        BY <1>4, <1>7, <1>14, <3>3
      <4> QED
        BY <1>7, <3>3, <4>1
    <3> QED
      BY <1>4, <1>14, <3>1, <3>2, <3>3
  <2> QED
    BY <2>2, <2>3
<1>19. OneVersion'
  <2> SUFFICES ASSUME NEW j \in Keys, j \notin blended,
                      NEW u \in CreatorsOf(j)
               PROVE  /\ Len(cache'[j]) <= version.length
                      /\ done[u] <= version.length
                      /\ \A i \in 1 .. Len(cache'[j]) :
                           cache'[j][i] \in {Hole, version}
                      /\ \A i \in 1 .. Len(pending'[u]) :
                           pending'[u][i] = version
    BY <1>3, <1>10 DEF OneVersion
  <2>1. /\ Len(cache[j]) <= version.length /\ done[u] <= version.length
        /\ \A i \in 1 .. Len(cache[j]) : cache[j][i] \in {Hole, version}
        /\ \A i \in 1 .. Len(pending[u]) : pending[u][i] = version
    BY DEF CacheInv, OneVersion
  <2>2. u \in Threads
    BY DEF CreatorsOf
  <2>3. \A i \in 1 .. Len(pending'[u]) : pending'[u][i] = version
    BY <1>8, <2>1, <2>2
  <2>4. CASE j # k
    BY <1>8, <2>1, <2>3, <2>4
  <2>5. CASE j = k
    BY <1>8, <1>18, <2>1, <2>3, <2>5
  <2> QED
    BY <2>4, <2>5
<1>20. Leader'
  <2> SUFFICES ASSUME NEW j \in Keys, cache'[j] # NoFile,
                      j \notin torn \union blended
               PROVE  IF CreatorsOf(j) = {} THEN Complete(cache'[j])
                      ELSE \/ cache'[j] = Copy(version)
                           \/ \E u \in CreatorsOf(j) : Filled(j, u)'
    BY <1>3, <1>10, LeaderNext
  <2>1. \A u \in CreatorsOf(j) : u \in Threads /\ key[u] = j
    BY DEF CreatorsOf
  <2>2. CASE j # k
    <3>1. cache'[j] = cache[j]
      BY <1>8, <2>2
    <3>2. \A u \in CreatorsOf(j) : written'[u] = written[u]
      BY <1>a, <1>8, <2>1, <2>2
    <3>3. \A u \in CreatorsOf(j) : Filled(j, u)' <=> Filled(j, u)
      BY <3>1, <3>2 DEF Filled
    <3> QED
      BY <3>1, <3>3 DEF CacheInv, Leader
  <2>3. CASE j = k
    <3>1. cache'[k] = new
      BY <1>8
    <3>2. cache[k] = Copy(version) \/ \E u \in CreatorsOf(k) : Filled(k, u)
      BY <1>4, <1>10, <2>3 DEF CacheInv, Leader
    <3>3. CASE cache[k] = Copy(version)
      <4>1. /\ Len(cache[k]) = version.length
            /\ \A i \in 1 .. version.length : cache[k][i] = version
        BY <1>6, <3>3, CopyFacts
      <4>2. Len(new) = version.length
        BY <1>6, <1>14, <1>18, <2>3, <4>1
      <4>3. \A i \in 1 .. Len(new) : new[i] \in {Hole, version} /\ new[i] # Hole
        BY <1>6, <1>13, <1>18, <2>3, <4>1, <4>2
      <4>4. new = Copy(version)
        BY <1>6, <1>7, <4>2, <4>3, CopyIs
      <4> QED
        BY <1>10, <2>3, <3>1, <4>4
    <3>4. ASSUME NEW u \in CreatorsOf(k), Filled(k, u)
          PROVE  Filled(k, u)'
      <4>1. u \in Threads /\ written[u] \in Nat
        BY <1>2, <2>1, <2>3 DEF CacheTyped
      <4>2. /\ written[u] <= Len(cache[k])
            /\ \A i \in 1 .. written[u] : cache[k][i] # Hole
        BY <3>4 DEF Filled
      <4>3. /\ written[u] <= Len(new)
            /\ \A i \in 1 .. written[u] : new[i] # Hole
        BY <1>4, <1>13, <1>14, <4>1, <4>2
      <4>4. CASE u # t
        BY <1>8, <3>1, <4>1, <4>3, <4>4 DEF Filled
      <4>5. CASE u = t
        <5>1. \A i \in 1 .. end : new[i] # Hole
          <6>1. \A i \in 1 .. p : new[i] # Hole
            BY <1>b, <4>3, <4>5
          <6>2. \A i \in (p + 1) .. end : new[i] # Hole
            BY <1>7, <1>11, <1>12
          <6> QED
            BY <1>4, <6>1, <6>2
        <5> QED
          BY <1>8, <1>14, <3>1, <4>5, <5>1 DEF Filled
      <4> QED
        BY <4>4, <4>5
    <3> QED
      BY <1>10, <2>3, <3>2, <3>3, <3>4
  <2> QED
    BY <2>2, <2>3
<1>21. FullLength'
  <2> SUFFICES ASSUME NEW u \in Threads, pc[u] = "send"
               PROVE  IF gzipped[u]
                      THEN \/ raced[u] \/ key[u] \in torn \union blended
                           \/ /\ CreatorsOf(key[u])' = {}
                              /\ bodyLength[u] = Len(cache'[key[u]])
                      ELSE /\ opened[u] \in Versions
                           /\ announced[u].edit <= version.edit
                           /\ opened[u] = announced[u]
                                => bodyLength[u] = opened[u].length
    BY <1>3 DEF FullLength
  <2>1. key[u] \in Keys
    BY <1>2 DEF CacheTyped
  <2>2. CreatorsOf(key[u])' = CreatorsOf(key[u])
    BY <1>3, <1>10, <2>1
  <2>3. key[u] # k => cache'[key[u]] = cache[key[u]]
    BY <1>8, <2>1
  <2> QED
    BY <1>10, <2>2, <2>3 DEF CacheInv, FullLength
<1>22. NoTemplate' /\ BodyWhole'
  BY <1>3, BodiesKept DEF CacheInv, NoTemplate
<1> QED
  BY <1>15, <1>16, <1>17, <1>19, <1>20, <1>21, <1>22 DEF CacheInv

(* gzclose(): the thread has written all there is; if it was the last to   *)
(* empty the file, the file is complete.                                   *)
LEMMA CloseStep ==
  ASSUME CacheInv, ParseInv, NEW t \in Threads, gzclose(t)
  PROVE  CacheInv'
<1> USE GzipCacheAssumption
<1>a. PICK k : k = key[t]
  OBVIOUS
<1>1. pc \in [Threads -> Labels]
  BY DEF ParseInv, ParseTyped
<1>2. CacheTyped /\ CacheMarked
  BY DEF CacheInv
<1>3. /\ pc[t] = "copy" /\ done[t] >= opened[t].length /\ pending[t] = <<>>
      /\ pc' = [pc EXCEPT ![t] = "open"]
      /\ done' = [done EXCEPT ![t] = 0]
      /\ written' = [written EXCEPT ![t] = 0]
      /\ UNCHANGED <<request, version, atime, cache, key, announced, opened,
                     pending, bodyLength, body, gzipped, raced, torn, blended>>
  BY DEF gzclose, Creating, Closable, Go
<1>4. /\ \A u \in Threads \ {t} : /\ pc'[u] = pc[u] /\ done'[u] = done[u]
                                  /\ written'[u] = written[u]
      /\ pc'[t] = "open"
  BY <1>1, <1>2, <1>3 DEF CacheTyped
<1>5. /\ k \in Keys /\ cache[k] # NoFile /\ cache[k] \in Seq(Chunk)
      /\ Len(cache[k]) \in Nat
  BY <1>a, <1>2, <1>3 DEF CacheInv, CacheTyped, Present
<1>6. version \in Versions /\ version.length \in Nat
  BY <1>2, VersionFacts DEF CacheTyped
<1>7. /\ \A j \in Keys \ {k} : CreatorsOf(j)' = CreatorsOf(j)
      /\ CreatorsOf(k)' = CreatorsOf(k) \ {t}
      /\ t \in CreatorsOf(k)
      /\ \A j \in Keys : CreatorsOf(j)' \subseteq Threads \ {t}
  BY <1>a, <1>3, <1>4 DEF CreatorsOf, Creating
<1>8. ASSUME k \notin blended, Filled(k, t)
      PROVE  cache[k] = Copy(version)
  <2>1. opened[t] = version
    BY <1>a, <1>3, <1>8 DEF CacheInv, OneSource, Compressing
  <2>2. written[t] = done[t] /\ done[t] \in Nat
    BY <1>2, <1>3 DEF CacheInv, CacheTyped, Progress, Creating
  <2>3. /\ Len(cache[k]) <= version.length
        /\ \A i \in 1 .. Len(cache[k]) : cache[k][i] \in {Hole, version}
    BY <1>5, <1>7, <1>8 DEF CacheInv, OneVersion
  <2>4. /\ written[t] <= Len(cache[k])
        /\ \A i \in 1 .. written[t] : cache[k][i] # Hole
    BY <1>8 DEF Filled
  <2>5. Len(cache[k]) = version.length /\ written[t] = Len(cache[k])
    BY <1>3, <1>5, <1>6, <2>1, <2>2, <2>3, <2>4
  <2> QED
    BY <1>5, <1>6, <2>3, <2>4, <2>5, CopyIs
<1>9. Leader'
  <2> SUFFICES ASSUME NEW j \in Keys, cache[j] # NoFile,
                      j \notin torn \union blended
               PROVE  IF CreatorsOf(j)' = {} THEN Complete(cache[j])
                      ELSE \/ cache[j] = Copy(version)
                           \/ \E u \in CreatorsOf(j)' : Filled(j, u)'
    BY <1>3, LeaderNext
  <2>1. \A u \in CreatorsOf(j)' : Filled(j, u)' <=> Filled(j, u)
    BY <1>3, <1>4, <1>7 DEF Filled
  <2>2. CASE j # k
    BY <1>7, <2>1, <2>2 DEF CacheInv, Leader
  <2>3. CASE j = k
    <3>1. \/ cache[k] = Copy(version)
          \/ \E u \in CreatorsOf(k) \ {t} : Filled(k, u)
      BY <1>5, <1>7, <1>8, <2>3 DEF CacheInv, Leader
    <3>2. Complete(Copy(version))
      BY <1>6, CopyFacts
    <3> QED
      BY <1>7, <2>1, <2>3, <3>1, <3>2
  <2> QED
    BY <2>2, <2>3
<1>10. OneVersion'
  <2> SUFFICES ASSUME NEW j \in Keys, j \notin blended,
                      NEW u \in CreatorsOf(j)'
               PROVE  /\ Len(cache[j]) <= version.length
                      /\ done'[u] <= version.length
                      /\ \A i \in 1 .. Len(cache[j]) :
                           cache[j][i] \in {Hole, version}
                      /\ \A i \in 1 .. Len(pending[u]) :
                           pending[u][i] = version
    BY <1>3 DEF OneVersion
  <2>1. u \in CreatorsOf(j) /\ done'[u] = done[u]
    BY <1>4, <1>7
  <2> QED
    BY <2>1 DEF CacheInv, OneVersion
<1>11. CacheTyped' /\ CacheMarked'
  BY <1>2, <1>3 DEF CacheTyped, CacheMarked
<1>12. Progress' /\ Present' /\ OneSource'
  BY <1>3, <1>4 DEF CacheInv, Progress, Present, OneSource, Compressing, Creating
<1>13. FullLength'
  <2>1. \A u \in Threads :
          key[u] \in Keys /\ CreatorsOf(key[u])' \subseteq CreatorsOf(key[u])
    BY <1>2, <1>3, <1>7 DEF CacheTyped
  <2> QED
    BY <1>3, <1>4, <2>1 DEF CacheInv, FullLength
<1>14. NoTemplate' /\ BodyWhole'
  BY <1>3, <1>4, BodiesKept DEF CacheInv, NoTemplate
<1> QED
  BY <1>9, <1>10, <1>11, <1>12, <1>13, <1>14 DEF CacheInv

(* fstat(): the length is that of the file; nobody creates it, or the      *)
(* response is raced.                                                      *)
LEMMA LengthStep ==
  ASSUME CacheInv, ParseInv, NEW t \in Threads, fstatCache(t)
  PROVE  CacheInv'
<1> USE GzipCacheAssumption
<1>1. pc \in [Threads -> Labels]
  BY DEF ParseInv, ParseTyped
<1>2. CacheTyped /\ CacheMarked
  BY DEF CacheInv
<1>3. /\ pc[t] = "fstat" /\ pc' = [pc EXCEPT ![t] = "send"]
      /\ bodyLength' = [bodyLength EXCEPT ![t] = Len(cache[key[t]])]
      /\ gzipped' = [gzipped EXCEPT ![t] = TRUE]
      /\ raced' = [raced EXCEPT ![t] = CreatorsOf(key[t]) # {}]
      /\ UNCHANGED <<request, version, atime, cache, key, announced, opened,
                     done, pending, written, body, torn, blended>>
  BY DEF fstatCache, LengthOf, Go
<1>4. /\ key[t] \in Keys /\ cache[key[t]] # NoFile
      /\ cache[key[t]] \in Seq(Chunk) /\ Len(cache[key[t]]) \in Nat
  BY <1>2, <1>3 DEF CacheInv, CacheTyped, Present
<1>5. /\ \A u \in Threads \ {t} : /\ pc'[u] = pc[u]
                                  /\ bodyLength'[u] = bodyLength[u]
      /\ pc'[t] = "send" /\ bodyLength'[t] = Len(cache[key[t]])
  BY <1>1, <1>2, <1>3 DEF CacheTyped
<1>6. /\ \A u \in Threads \ {t} : /\ gzipped'[u] = gzipped[u]
                                  /\ raced'[u] = raced[u]
      /\ gzipped'[t]
      /\ raced'[t] = (CreatorsOf(key[t]) # {})
  BY <1>2, <1>3, Zenon DEF CacheMarked
<1>7. /\ OneVersion' /\ Leader'
      /\ \A k \in Keys : CreatorsOf(k)' = CreatorsOf(k)
  BY <1>3, <1>5, QuietFiles DEF Creating
<1>8. CacheTyped'
  BY <1>2, <1>3, <1>4 DEF CacheTyped
<1>9. CacheMarked'
  BY <1>2, <1>3, Zenon DEF CacheMarked
<1>10. Progress' /\ Present' /\ OneSource'
  BY <1>3, <1>4, <1>5, <1>6
  DEF CacheInv, Progress, Present, OneSource, Compressing, Creating
<1>11. FullLength'
  <2>1. raced'[t] \/ CreatorsOf(key[t]) = {}
    BY <1>6
  <2>2. \A u \in Threads :
          key[u] \in Keys /\ CreatorsOf(key[u])' = CreatorsOf(key[u])
    BY <1>2, <1>3, <1>7 DEF CacheTyped
  <2> QED
    BY <1>3, <1>5, <1>6, <2>1, <2>2 DEF CacheInv, FullLength
<1>12. NoTemplate' /\ BodyWhole'
  BY <1>3, <1>5, <1>6, BodiesKept DEF CacheInv, NoTemplate
<1> QED
  BY <1>7, <1>8, <1>9, <1>10, <1>11, <1>12 DEF CacheInv

(* The beginning of a file, up to its end, is the file.                    *)
LEMMA WholePrefix ==
  ASSUME NEW file \in Seq(Chunk)
  PROVE  SubSeq(file, 1, Len(file)) = file
OBVIOUS

(* The body is sent: all of a version if the file was and is complete.     *)
LEMMA SendStep ==
  ASSUME CacheInv, ParseInv, NEW t \in Threads, sendBody(t)
  PROVE  CacheInv'
<1> USE GzipCacheAssumption
<1> DEFINE file == IF gzipped[t] THEN cache[key[t]] ELSE Copy(opened[t])
           sent == IF bodyLength[t] < Len(file) THEN bodyLength[t]
                   ELSE Len(file)
<1>1. pc \in [Threads -> Labels]
  BY DEF ParseInv, ParseTyped
<1>2. CacheTyped /\ CacheMarked
  BY DEF CacheInv
<1>3. /\ pc[t] = "send" /\ pc' = [pc EXCEPT ![t] = "log"]
      /\ body' = [body EXCEPT ![t] = SubSeq(file, 1, sent)]
      /\ UNCHANGED <<request, version, cache, key, announced, opened, done,
                     pending, written, bodyLength, gzipped, raced, torn,
                     blended>>
  BY DEF sendBody, Go
<1>4. atime' \in Keys
  BY <1>2, ReadKeeps DEF CacheTyped, sendBody
<1>5. file \in Seq(Chunk) /\ Len(file) \in Nat
  <2>1. CASE gzipped[t]
    BY <1>2, <1>3, <2>1 DEF CacheInv, CacheTyped, Present
  <2>2. CASE ~gzipped[t]
    <3>1. opened[t] \in Versions
      BY <1>3, <2>2 DEF CacheInv, FullLength
    <3> QED
      BY <2>2, <3>1, CopyFacts
  <2> QED
    BY <2>1, <2>2
<1>6. /\ \A u \in Threads \ {t} : pc'[u] = pc[u] /\ body'[u] = body[u]
      /\ pc'[t] = "log" /\ body'[t] = SubSeq(file, 1, sent)
  BY <1>1, <1>2, <1>3 DEF CacheTyped
<1>7. /\ OneVersion' /\ Leader'
      /\ \A k \in Keys : CreatorsOf(k)' = CreatorsOf(k)
  BY <1>3, <1>6, QuietFiles DEF Creating
<1>8. CacheMarked'
  BY <1>2, <1>3 DEF CacheMarked
<1>9. CacheTyped'
  <2>1. sent \in Nat /\ sent <= Len(file)
    BY <1>2, <1>5 DEF CacheTyped
  <2> HIDE DEF sent, file
  <2>2. SubSeq(file, 1, sent) \in Seq(Chunk)
    BY <1>5, <2>1
  <2> QED
    BY <1>2, <1>3, <1>4, <2>2 DEF CacheTyped
<1>10. Progress' /\ Present' /\ OneSource'
  BY <1>3, <1>6 DEF CacheInv, Progress, Present, OneSource, Compressing, Creating
<1>11. FullLength'
  <2>1. \A u \in Threads :
          key[u] \in Keys /\ CreatorsOf(key[u])' = CreatorsOf(key[u])
    BY <1>2, <1>3, <1>7 DEF CacheTyped
  <2> QED
    BY <1>3, <1>6, <2>1 DEF CacheInv, FullLength
<1>12. NoTemplate'
  BY <1>3, <1>6 DEF CacheInv, NoTemplate
<1>13. \/ Complete(body'[t]) /\ Len(body'[t]) = bodyLength[t]
       \/ gzipped[t] /\ (raced[t] \/ key[t] \in torn \union blended)
       \/ ~gzipped[t] /\ opened[t] # announced[t]
  <2> SUFFICES ASSUME gzipped[t] => /\ ~raced[t]
                                    /\ key[t] \notin torn \union blended,
                      ~gzipped[t] => opened[t] = announced[t]
               PROVE  Complete(body'[t]) /\ Len(body'[t]) = bodyLength[t]
    OBVIOUS
  <2>1. Complete(file) /\ Len(file) = bodyLength[t]
    <3>1. CASE gzipped[t]
      <4>1. key[t] \in Keys /\ cache[key[t]] # NoFile
        BY <1>2, <1>3, <3>1 DEF CacheInv, CacheTyped, Present
      <4>2. CreatorsOf(key[t]) = {} /\ bodyLength[t] = Len(cache[key[t]])
        BY <1>3, <3>1 DEF CacheInv, FullLength
      <4>3. Complete(cache[key[t]])
        BY <3>1, <4>1, <4>2 DEF CacheInv, Leader
      <4> QED
        BY <3>1, <4>2, <4>3
    <3>2. CASE ~gzipped[t]
      <4>1. opened[t] \in Versions /\ bodyLength[t] = opened[t].length
        BY <1>3, <3>2 DEF CacheInv, FullLength
      <4>2. Complete(Copy(opened[t])) /\ Len(Copy(opened[t])) = opened[t].length
        BY <4>1, CopyFacts
      <4> QED
        BY <3>2, <4>1, <4>2
    <3> QED
      BY <3>1, <3>2
  <2>2. sent = Len(file)
    BY <2>1
  <2> HIDE DEF file, sent
  <2>3. body'[t] = file
    BY <1>5, <1>6, <2>2, WholePrefix
  <2> QED
    BY <2>1, <2>3
<1>14. BodyWhole'
  <2> HIDE DEF file, sent
  <2> SUFFICES ASSUME NEW u \in Threads, pc'[u] = "log",
                      request[u].kind = "file"
               PROVE  \/ Complete(body'[u]) /\ Len(body'[u]) = bodyLength[u]
                      \/ /\ gzipped[u]
                         /\ raced[u] \/ key[u] \in torn \union blended
                      \/ ~gzipped[u] /\ opened[u] # announced[u]
    BY <1>3, BodyWholeNext
  <2>1. CASE u = t
    BY <1>13, <2>1
  <2>2. CASE u # t
    BY <1>6, <2>2 DEF CacheInv, BodyWhole
  <2> QED
    BY <2>1, <2>2
<1> QED
  BY <1>7, <1>8, <1>9, <1>10, <1>11, <1>12, <1>14 DEF CacheInv

(* An edit of either kind marks the files that are being created and, if   *)
(* the source is replaced, those about to be.                              *)
LEMMA EditStep ==
  ASSUME CacheInv, Edit
  PROVE  CacheInv'
<1> USE GzipCacheAssumption
<1>1. CacheTyped /\ CacheMarked
  BY DEF CacheInv
<1>2. /\ version' \in Versions /\ version'.edit = version.edit + 1
      /\ UNCHANGED <<pc, request, cache, key, announced, done, pending, written,
                     bodyLength, body, gzipped, raced, torn>>
  BY DEF Edit, EditSource, ReplaceSource, NewVersion, workerVars
<1>3. /\ version \in Versions /\ version.edit \in Nat
      /\ version' \in Chunk /\ version'.edit \in Nat
  BY <1>1, <1>2, VersionFacts DEF CacheTyped
<1>4. /\ blended \subseteq blended'
      /\ \A t \in Threads : Creating(t) => key[t] \in blended'
  BY DEF Edit, EditSource, ReplaceSource, Compressing, Creating
<1>5. \A t \in Threads :
        /\ opened'[t] \in {opened[t], version'}
        /\ ~SourceOpen(t) => opened'[t] = opened[t]
        /\ (Compressing(t) /\ key[t] \notin blended' /\ opened[t] = version) =>
             opened'[t] = version'
  <2>1. CASE EditSource
    BY <2>1 DEF EditSource, SourceOpen
  <2>2. CASE ReplaceSource
    BY <2>2 DEF ReplaceSource
  <2> QED
    BY <2>1, <2>2 DEF Edit
<1>6. CacheTyped' /\ CacheMarked'
  <2>1. atime' \in Keys
    BY <1>1 DEF Edit, EditSource, ReplaceSource, CacheTyped
  <2>2. opened' \in [Threads -> Chunk]
    <3>1. CASE EditSource
      BY <1>1, <1>3, <3>1 DEF EditSource, CacheTyped
    <3>2. CASE ReplaceSource
      BY <1>1, <3>2 DEF ReplaceSource, CacheTyped
    <3> QED
      BY <3>1, <3>2 DEF Edit
  <2> QED
    BY <1>1, <1>2, <2>1, <2>2 DEF CacheTyped, CacheMarked
<1>7. \A k \in Keys : /\ CreatorsOf(k)' = CreatorsOf(k)
                      /\ k \notin blended' => CreatorsOf(k) = {}
  BY <1>2, <1>4 DEF CreatorsOf, Creating
<1>8. Progress' /\ Present'
  BY <1>2 DEF CacheInv, Progress, Present, Creating
<1>9. OneSource'
  <2> SUFFICES ASSUME NEW t \in Threads, Compressing(t)
               PROVE  /\ opened'[t] \in Versions
                      /\ key[t] \notin blended' => opened'[t] = version'
    BY <1>2 DEF OneSource, Compressing
  <2>1. /\ opened[t] \in Versions
        /\ key[t] \notin blended => opened[t] = version
    BY DEF CacheInv, OneSource
  <2> QED
    BY <1>2, <1>4, <1>5, <2>1
<1>10. OneVersion'
  BY <1>7 DEF OneVersion
<1>11. Leader'
  BY <1>2, <1>4, <1>7, LeaderNext DEF CacheInv, Leader
<1>12. FullLength'
  <2> SUFFICES ASSUME NEW t \in Threads, pc[t] = "send"
               PROVE  IF gzipped[t]
                      THEN \/ raced[t] \/ key[t] \in torn \union blended'
                           \/ /\ CreatorsOf(key[t])' = {}
                              /\ bodyLength[t] = Len(cache[key[t]])
                      ELSE /\ opened'[t] \in Versions
                           /\ announced[t].edit <= version'.edit
                           /\ opened'[t] = announced[t]
                                => bodyLength[t] = opened'[t].length
    BY <1>2 DEF FullLength
  <2>1. CASE gzipped[t]
    <3>1. CreatorsOf(key[t])' = CreatorsOf(key[t])
      BY <1>1, <1>2, <1>7 DEF CacheTyped
    <3> QED
      BY <1>4, <2>1, <3>1 DEF CacheInv, FullLength
  <2>2. CASE ~gzipped[t]
    <3>1. /\ opened[t] \in Versions
          /\ announced[t].edit <= version.edit
          /\ opened[t] = announced[t] => bodyLength[t] = opened[t].length
      BY <2>2 DEF CacheInv, FullLength
    <3>2. announced[t].edit \in Int
      <4>1. announced[t] \in Chunk
        BY <1>1 DEF CacheTyped
      <4>2. \A c \in Chunk : c.edit \in Int
        BY VersionFacts DEF Chunk, Hole
      <4> QED
        BY <4>1, <4>2
    <3>3. announced[t] # version'
      BY <1>2, <1>3, <3>1, <3>2
    <3> QED
      BY <1>2, <1>3, <1>5, <2>2, <3>1, <3>2, <3>3
  <2> QED
    BY <2>1, <2>2
<1>13. NoTemplate'
  BY <1>2 DEF CacheInv, NoTemplate
<1>14. BodyWhole'
  <2>1. \A t \in Threads : pc[t] = "log" => opened'[t] = opened[t]
    BY <1>5 DEF SourceOpen, Compressing
  <2> QED
    BY <1>2, <1>4, <2>1, BodiesKept DEF CacheInv
<1> QED
  BY <1>6, <1>8, <1>9, <1>10, <1>11, <1>12, <1>13, <1>14 DEF CacheInv

(* A crash tears the files that are being created and no other.            *)
LEMMA RestartStep ==
  ASSUME CacheInv, Restart
  PROVE  CacheInv'
<1> USE GzipCacheAssumption
<1>1. CacheTyped'
  <2>1. 0 \in Keys /\ Unopened \in Chunk
    BY DEF Keys, Unopened, Chunk
  <2> QED
    BY <2>1 DEF CacheInv, CacheTyped, Restart
<1>2. CacheMarked'
  BY DEF CacheMarked, Restart
<1>3. Progress' /\ Present' /\ OneSource'
  BY DEF CacheInv, Progress, Present, OneSource, Compressing, Creating, Restart
<1>4. \A k \in Keys : CreatorsOf(k)' = {}
  BY DEF CreatorsOf, Creating, Restart
<1>5. \A k \in Keys : k \notin torn' => k \notin torn /\ CreatorsOf(k) = {}
  BY DEF CreatorsOf, Restart
<1>6. UNCHANGED <<cache, blended>>
  BY DEF Restart
<1>7. Leader'
  BY <1>4, <1>5, <1>6, LeaderNext DEF CacheInv, Leader
<1>8. OneVersion'
  BY <1>4 DEF OneVersion
<1>9. FullLength' /\ NoTemplate' /\ BodyWhole'
  BY DEF FullLength, NoTemplate, BodyWhole, Restart
<1> QED
  BY <1>1, <1>2, <1>3, <1>7, <1>8, <1>9 DEF CacheInv

(* Every step, edits and restarts too, keeps the invariant.                *)
LEMMA CacheInvStep ==
  ASSUME CacheInv, ParseInv, [ServicesNext]_servicesVars
  PROVE  CacheInv'
<1>1. ASSUME NEW t \in Threads, HeaderParseStep(t) \/ SendAllStep(t),
             UNCHANGED gzipVars
      PROVE  CacheInv'
  <2>1. pc[t] \notin CacheLabels
    BY <1>1 DEF HeaderParseStep, processRequest, strtokEnter, strtokToken,
       strtokJunk, strtokNull, SendAllStep, sendAll, sendAllReturn,
       CacheLabels
  <2> QED
    BY <1>1, <2>1, OtherStep
<1>2. ASSUME NEW t \in Threads, NEW g \in BOOLEAN, GzipCacheStep(t, g)
      PROVE  CacheInv'
  BY <1>2, StatStep, FindStep, CreateStep, ReadStep, FlushStep, CloseStep,
     LengthStep, SendStep
  DEF GzipCacheStep
<1>3. ASSUME NEW t \in Threads, ThreadStep(t) PROVE CacheInv'
  <2>1. TakesGzip(t) \in BOOLEAN
    BY DEF TakesGzip, getHeader
  <2> QED
    BY <1>1, <1>2, <1>3, <2>1, LogStep DEF ThreadStep
<1>4. CASE UNCHANGED servicesVars
  <2> USE <1>4 DEF servicesVars, workerVars, gzipVars
  <2>1. /\ OneVersion' /\ Leader'
        /\ \A k \in Keys : CreatorsOf(k)' = CreatorsOf(k)
    BY QuietFiles DEF Creating
  <2>2. CacheTyped' /\ CacheMarked'
    BY DEF CacheInv, CacheTyped, CacheMarked
  <2>3. Progress' /\ Present' /\ OneSource'
    BY DEF CacheInv, Progress, Present, OneSource, Compressing, Creating
  <2>4. FullLength'
    BY <2>1 DEF CacheInv, CacheTyped, FullLength
  <2>5. NoTemplate' /\ BodyWhole'
    BY BodiesKept DEF CacheInv, NoTemplate
  <2> QED
    BY <2>1, <2>2, <2>3, <2>4, <2>5 DEF CacheInv
<1> QED
  BY <1>3, <1>4, EditStep, RestartStep DEF ServicesNext

(* So it holds in every state.                                             *)
LEMMA AlwaysCacheInv == ServicesSpec => []CacheInv
BY CacheInvInit, CacheInvStep, AlwaysParseInv, PTL DEF ServicesSpec

-----------------------------------------------------------------------------
(* The theorems.                                                           *)

(* However many threads create a compressed file at the same time, and     *)
(* whenever each empties it, once none does it holds all of one version,   *)
(* whatever the length of the versions, unless a crash interrupted a       *)
(* creation or the source was edited under one (response.c:297-315).       *)
THEOREM CacheWholeHolds == ServicesSpec => []CacheWhole
<1>1. CacheInv => CacheWhole
  BY DEF CacheInv, Leader, CacheWhole
<1> QED
  BY <1>1, AlwaysCacheInv, PTL

(* A response is all of one version, and as long as it announces, except   *)
(* for the causes BodyWhole names: a compressed file that was being        *)
(* created, torn or blended, and a plain one written in place between      *)
(* fstat and sendfile (response.c:62, 192-195, 318-327).                   *)
THEOREM BodyWholeHolds == ServicesSpec => []BodyWhole
<1>1. CacheInv => BodyWhole
  BY DEF CacheInv
<1> QED
  BY <1>1, AlwaysCacheInv, PTL
=============================================================================
