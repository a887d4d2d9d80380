------------------------------- MODULE Worker -------------------------------
(***************************************************************************)
(* One request in the hands of a worker thread, from the moment its bytes  *)
(* are complete to its line in the log.  HeaderParse, SendAll and          *)
(* GzipCache model the functions the thread calls on the way, each with    *)
(* the state all threads share in it; Services composes them.  The thread  *)
(* walks through them with the program counter of this module:             *)
(*                                                                         *)
(*   idle -> parsing -> answering (a template or a file) -> log -> idle    *)
(*                                                                         *)
(* The call that writes the log is one step here; Logger looks into it.    *)
(***************************************************************************)
EXTENDS Integers, Sequences, FiniteSets, SequencesExt

CONSTANTS
  Threads,     \* the worker threads
  Requests     \* the requests clients send: [kind, headers]

(* A request for a file, for /hello or one that processRequest refuses;    *)
(* its headers are names, "gzip" being accept-encoding: gzip.              *)
Kinds == {"file", "hello", "bad"}

ASSUME WorkerAssumption ==
  \A r \in Requests : r.kind \in Kinds /\ r.headers \in Seq(STRING)

VARIABLES
  pc,          \* thread -> where it is
  request      \* thread -> the request it works on, or its last one

workerVars == <<pc, request>>

Parsing    == {"scan", "enter"}
Templating == {"sendAll"}
Filing     == {"stat", "access", "gzopen", "copy", "open", "fstat", "send"}
Labels     == {"idle", "log"} \union Parsing \union Templating \union Filing

Go(t, label) == pc' = [pc EXCEPT ![t] = label]

(* What handleEpoll does with a request that was parsed.                   *)
Answering(r) == IF r.kind = "file" THEN "stat" ELSE "sendAll"
=============================================================================
