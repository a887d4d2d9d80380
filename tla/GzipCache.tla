----------------------------- MODULE GzipCache -----------------------------
(***************************************************************************)
(* makeResponse and makeContentEncoding of src/src/response.c for one file *)
(* of the site: the compressed copies under cache/gzip/, named after the   *)
(* second the file was last read (st_atime), which threads create and read *)
(* at the same time and which outlive the process.                         *)
(*                                                                         *)
(* A file is a sequence of chunks; a chunk is the version of the source    *)
(* file it was read from, or a hole.  A version has a number, the edits    *)
(* before it, and a length; its compressed form counts as many chunks.     *)
(* The file may be edited at any moment, also while threads have it open:  *)
(* in place, which they see, or by putting another in its place, which     *)
(* they do not.                                                            *)
(***************************************************************************)
EXTENDS Worker

CONSTANTS
  Lengths,     \* the lengths a version of the file may have, in chunks
  MaxEdits,    \* bound on the edits of the file
  MaxTouches   \* bound on the changes of its access time

ASSUME GzipCacheAssumption ==
  /\ Lengths \subseteq Nat /\ Lengths # {}
  /\ MaxEdits \in Nat
  /\ MaxTouches \in Nat

VARIABLES
  version,     \* version of the source file; its st_mtime tells it
  atime,       \* its st_atime, which changes when it is read ...
  readSince,   \* ... and its last reading is older than its last edit
  cache,       \* access time in the name -> the compressed file, or NoFile
  key,         \* thread -> the access time fstat gave it
  announced,   \* thread -> the version whose date it puts in last-modified
  opened,      \* thread -> the version its body file, the source, now holds
  done,        \* thread -> chunks of its body file read so far
  pending,     \* thread -> chunks compressed and not yet written
  written,     \* thread -> its position in the file it creates
  bodyLength,  \* thread -> length of the body, in chunks
  body,        \* thread -> what it sent
  gzipped,     \* thread -> the response is marked content-encoding: gzip
  raced,       \* history: thread -> its file was being created by another
  torn,        \* history: names whose creation a crash interrupted
  blended      \* history: names a thread creates a file under, or is about
               \* to, from a source that was edited since it was opened

gzipVars == <<version, atime, readSince, cache, key, announced, opened, done,
              pending, written, bodyLength, body, gzipped, raced, torn, blended>>

Versions == [edit : 0 .. MaxEdits, length : Lengths]
Keys     == 0 .. MaxTouches
Hole     == [edit |-> -1, length |-> 0]
NoFile   == <<[edit |-> -2, length |-> 0]>>
Unopened == Hole

(* A file that holds all of a version and nothing else.                    *)
Copy(v)        == [i \in 1 .. v.length |-> v]
Complete(file) == \E v \in Versions : file = Copy(v)

GzipCacheInit ==
  /\ version \in {v \in Versions : v.edit = 0}
  /\ atime = 0
  /\ readSince = TRUE
  /\ cache = [k \in Keys |-> NoFile]
  /\ key = [t \in Threads |-> 0]
  /\ announced = [t \in Threads |-> Unopened]
  /\ opened = [t \in Threads |-> Unopened]
  /\ done = [t \in Threads |-> 0]
  /\ pending = [t \in Threads |-> <<>>]
  /\ written = [t \in Threads |-> 0]
  /\ bodyLength = [t \in Threads |-> 0]
  /\ body = [t \in Threads |-> <<>>]
  /\ gzipped = [t \in Threads |-> FALSE]
  /\ raced = [t \in Threads |-> FALSE]
  /\ torn = {}
  /\ blended = {}

GzipCacheTypeOK ==
  /\ version \in Versions
  /\ atime \in Keys
  /\ readSince \in BOOLEAN
  /\ cache \in [Keys -> Seq(Versions \union {Hole}) \union {NoFile}]
  /\ key \in [Threads -> Keys]
  /\ announced \in [Threads -> Versions \union {Unopened}]
  /\ opened \in [Threads -> Versions \union {Unopened}]
  /\ done \in [Threads -> Nat]
  /\ pending \in [Threads -> Seq(Versions)]
  /\ written \in [Threads -> Nat]
  /\ bodyLength \in [Threads -> Nat]
  /\ body \in [Threads -> Seq(Versions \union {Hole})]
  /\ gzipped \in [Threads -> BOOLEAN]
  /\ raced \in [Threads -> BOOLEAN]
  /\ torn \subseteq Keys
  /\ blended \subseteq Keys

Creating(t)    == pc[t] = "copy"
CreatorsOf(k)  == {t \in Threads : Creating(t) /\ key[t] = k}

(* The thread has the source open to compress it, or to send it as it is.  *)
Compressing(t) == pc[t] \in {"access", "gzopen", "copy"}
SourceOpen(t)  == Compressing(t) \/ (pc[t] = "send" /\ ~gzipped[t])

(* A thread that holds version v reads it.  The file system notes the      *)
(* reading of a file at most once after each edit (relatime) and in whole  *)
(* seconds, or never (noatime).                                            *)
ReadSource(v) ==
  \/ UNCHANGED <<atime, readSince>>
  \/ /\ v = version
     /\ ~readSince /\ atime < MaxTouches
     /\ atime' = atime + 1
     /\ readSince' = TRUE

(* Somebody writes a new version into the file.                            *)
NewVersion ==
  /\ version.edit < MaxEdits
  /\ version' \in {v \in Versions : v.edit = version.edit + 1}
  /\ readSince' = FALSE

EditSource ==
  /\ NewVersion
  /\ opened' = [t \in Threads |-> IF SourceOpen(t) /\ opened[t] = version
                                  THEN version' ELSE opened[t]]
  /\ blended' = blended \union {key[t] : t \in {u \in Threads : Creating(u)}}
  /\ UNCHANGED <<atime, cache, key, announced, done, pending, written,
                 bodyLength, body, gzipped, raced, torn>>

(* Somebody moves a new version over the file; it brings its access time.  *)
ReplaceSource ==
  /\ NewVersion
  /\ atime' \in Keys
  /\ blended' = blended \union {key[t] : t \in {u \in Threads : Compressing(u)}}
  /\ UNCHANGED <<cache, key, announced, opened, done, pending, written,
                 bodyLength, body, gzipped, raced, torn>>

(* makeResponse: open and fstat the file, let libmagic read it, and see    *)
(* whether the client takes gzip.                                          *)
makeResponse(t, takesGzip) ==
  /\ pc[t] = "stat"
  /\ key' = [key EXCEPT ![t] = atime]
  /\ announced' = [announced EXCEPT ![t] = version]
  /\ opened' = [opened EXCEPT ![t] = version]
  /\ ReadSource(version)
  /\ done' = [done EXCEPT ![t] = 0]
  /\ bodyLength' = [bodyLength EXCEPT ![t] = version.length]
  /\ gzipped' = [gzipped EXCEPT ![t] = FALSE]
  /\ raced' = [raced EXCEPT ![t] = FALSE]
  /\ Go(t, IF takesGzip THEN "access" ELSE "send")
  /\ UNCHANGED <<request, version, cache, pending, written, body, torn,
                 blended>>

(* access(): a file of that name is there, whatever it holds.              *)
accessCache(t) ==
  /\ pc[t] = "access"
  /\ Go(t, IF cache[key[t]] = NoFile THEN "gzopen" ELSE "open")
  /\ UNCHANGED <<request, gzipVars>>

(* gzopen(..., "wb") creates the file or empties the one another thread    *)
(* has created meanwhile, and a third one may be about to send.            *)
gzopen(t) ==
  /\ pc[t] = "gzopen"
  /\ cache' = [cache EXCEPT ![key[t]] = <<>>]
  /\ pending' = [pending EXCEPT ![t] = <<>>]
  /\ written' = [written EXCEPT ![t] = 0]
  /\ raced' = [u \in Threads |->
                 raced[u] \/ (pc[u] = "send" /\ gzipped[u] /\ key[u] = key[t])]
  /\ Go(t, "copy")
  /\ UNCHANGED <<request, version, atime, readSince, key, announced, opened,
                 done, bodyLength, body, gzipped, torn, blended>>

(* read() and gzwrite() of one chunk: zlib keeps it.                       *)
gzwrite(t) ==
  /\ Creating(t)
  /\ done[t] < opened[t].length
  /\ ReadSource(opened[t])
  /\ done' = [done EXCEPT ![t] = @ + 1]
  /\ pending' = [pending EXCEPT ![t] = Append(@, opened[t])]
  /\ UNCHANGED <<workerVars, version, cache, key, announced, opened, written,
                 bodyLength, body, gzipped, raced, torn, blended>>

(* zlib writes what it has compressed, at the thread's own position in the *)
(* file: the end another thread's truncation gave it may lie before.       *)
WriteAt(file, position, chunks) ==
  [i \in 1 .. (IF Len(file) > position + Len(chunks)
               THEN Len(file) ELSE position + Len(chunks)) |->
     CASE i \in (position + 1) .. (position + Len(chunks))
            -> chunks[i - position]
       [] i <= position /\ i > Len(file) -> Hole
       [] OTHER -> file[i]]

zlibFlush(t) ==
  /\ Creating(t)
  /\ pending[t] # <<>>
  /\ cache' = [cache EXCEPT ![key[t]] = WriteAt(@, written[t], pending[t])]
  /\ written' = [written EXCEPT ![t] = @ + Len(pending[t])]
  /\ pending' = [pending EXCEPT ![t] = <<>>]
  /\ UNCHANGED <<workerVars, version, atime, readSince, key, announced,
                 opened, done, bodyLength, body, gzipped, raced, torn, blended>>

(* gzclose(): the file has been read to its end and all is written.        *)
Closable_Early(t) == done[t] >= opened[t].length

Closable(t) == done[t] >= opened[t].length /\ pending[t] = <<>>

gzclose(t) ==
  /\ Creating(t)
  /\ Closable(t)
  /\ done' = [done EXCEPT ![t] = 0]
  /\ written' = [written EXCEPT ![t] = 0]
  /\ Go(t, "open")
  /\ UNCHANGED <<request, version, atime, readSince, cache, key, announced,
                 opened, pending, bodyLength, body, gzipped, raced, torn,
                 blended>>

(* The source is closed and the compressed file opened.                    *)
openCache(t) ==
  /\ pc[t] = "open"
  /\ opened' = [opened EXCEPT ![t] = Unopened]
  /\ Go(t, "fstat")
  /\ UNCHANGED <<request, version, atime, readSince, cache, key, announced,
                 done, pending, written, bodyLength, body, gzipped, raced,
                 torn, blended>>

(* fstat() of it: its length now is the content-length of the response.    *)
LengthOf_LessOne(file) == IF file = <<>> THEN 0 ELSE Len(file) - 1

LengthOf(file) == Len(file)

fstatCache(t) ==
  /\ pc[t] = "fstat"
  /\ bodyLength' = [bodyLength EXCEPT ![t] = LengthOf(cache[key[t]])]
  /\ gzipped' = [gzipped EXCEPT ![t] = TRUE]
  /\ raced' = [raced EXCEPT ![t] = CreatorsOf(key[t]) # {}]
  /\ Go(t, "send")
  /\ UNCHANGED <<request, version, atime, readSince, cache, key, announced,
                 opened, done, pending, written, body, torn, blended>>

(* The body is what the file holds when it is sent, up to that length.     *)
sendBody(t) ==
  LET file == IF gzipped[t] THEN cache[key[t]] ELSE Copy(opened[t])
      sent == IF bodyLength[t] < Len(file) THEN bodyLength[t] ELSE Len(file)
  IN /\ pc[t] = "send"
     /\ body' = [body EXCEPT ![t] = SubSeq(file, 1, sent)]
     /\ IF gzipped[t] THEN UNCHANGED <<atime, readSince>>
        ELSE ReadSource(opened[t])
     /\ Go(t, "log")
     /\ UNCHANGED <<request, version, cache, key, announced, opened, done,
                    pending, written, bodyLength, gzipped, raced, torn,
                    blended>>

GzipCacheStep(t, takesGzip) ==
  \/ makeResponse(t, takesGzip)
  \/ accessCache(t)
  \/ gzopen(t)
  \/ gzwrite(t)
  \/ zlibFlush(t)
  \/ gzclose(t)
  \/ openCache(t)
  \/ fstatCache(t)
  \/ sendBody(t)

-----------------------------------------------------------------------------
(* A compressed file nobody is creating holds all of one version and       *)
(* nothing else, however many threads created it at the same time and      *)
(* however often each emptied what the others had written, unless a crash  *)
(* interrupted a creation or the source was edited under one               *)
(* (response.c:297-315).                                                   *)
CacheWhole ==
  \A k \in Keys :
    cache[k] # NoFile /\ CreatorsOf(k) = {} /\ k \notin torn \union blended
      => Complete(cache[k])

(* The body of a response is all of one version of the file, and of the    *)
(* length announced.  A compressed one is not only when another thread     *)
(* created the file while its length was taken or before it was sent, or   *)
(* when a crash or an edit spoilt the creation (response.c:318-327); an    *)
(* uncompressed one only when the file was written in place between fstat  *)
(* and sendfile (response.c:62, 192-195).                                  *)
BodyWhole ==
  \A t \in Threads :
    pc[t] = "log" /\ request[t].kind = "file"
      => \/ Complete(body[t]) /\ Len(body[t]) = bodyLength[t]
         \/ gzipped[t] /\ (raced[t] \/ key[t] \in torn \union blended)
         \/ ~gzipped[t] /\ opened[t] # announced[t]

(* The body is at least as new as the last-modified date announced with it *)
(* (response.c:87-89, 131; the response also says no-cache and             *)
(* must-revalidate, response.c:136-139), also when the file was edited, as *)
(* long as no creation of the compressed file was disturbed.               *)
FreshBody ==
  \A t \in Threads :
    pc[t] = "log" /\ request[t].kind = "file"
      /\ key[t] \notin torn \union blended
      => \A i \in DOMAIN body[t] : body[t][i].edit >= announced[t].edit
=============================================================================
