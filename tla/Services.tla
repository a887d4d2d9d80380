------------------------------ MODULE Services ------------------------------
(***************************************************************************)
(* Worker threads that parse, answer and log requests side by side: the    *)
(* composition of HeaderParse, SendAll and GzipCache, with edits of the    *)
(* file and a process that ends at any moment and is started again.        *)
(***************************************************************************)
EXTENDS HeaderParse, SendAll, GzipCache

servicesVars == <<workerVars, parseVars, sendAllVars, gzipVars>>

NoRequest == [kind |-> "bad", headers |-> <<>>]

ServicesInit ==
  /\ pc = [t \in Threads |-> "idle"]
  /\ request = [t \in Threads |-> NoRequest]
  /\ HeaderParseInit
  /\ SendAllInit
  /\ GzipCacheInit

ServicesTypeOK ==
  /\ pc \in [Threads -> Labels]
  /\ request \in [Threads -> Requests \union {NoRequest}]
  /\ HeaderParseTypeOK
  /\ SendAllTypeOK
  /\ GzipCacheTypeOK

(* Whether makeResponse compresses: it asks the list processRequest made.  *)
TakesGzip(t) == getHeader(t, "gzip")

(* logRequest, and the end of the request: freeConnection, and a new       *)
(* element for the next one.                                               *)
Freed(f, t, initial) == [f EXCEPT ![t] = initial]

logRequest(t) ==
  /\ pc[t] = "log"
  /\ Go(t, "idle")
  /\ request' = Freed(request, t, NoRequest)
  /\ headers' = Freed(headers, t, <<>>)
  /\ cut' = Freed(cut, t, {})
  /\ mixed' = Freed(mixed, t, FALSE)
  /\ leftToWrite' = Freed(leftToWrite, t, Count)
  /\ delivered' = Freed(delivered, t, 0)
  /\ short' = Freed(short, t, FALSE)
  /\ key' = Freed(key, t, 0)
  /\ announced' = Freed(announced, t, Unopened)
  /\ opened' = Freed(opened, t, Unopened)
  /\ done' = Freed(done, t, 0)
  /\ written' = Freed(written, t, 0)
  /\ bodyLength' = Freed(bodyLength, t, 0)
  /\ body' = Freed(body, t, <<>>)
  /\ gzipped' = Freed(gzipped, t, FALSE)
  /\ raced' = Freed(raced, t, FALSE)
  /\ UNCHANGED <<olds, at, pending, version, atime, readSince, cache, torn,
                 blended>>

ThreadStep(t) ==
  \/ HeaderParseStep(t) /\ UNCHANGED <<sendAllVars, gzipVars>>
  \/ SendAllStep(t) /\ UNCHANGED <<parseVars, gzipVars>>
  \/ GzipCacheStep(t, TakesGzip(t)) /\ UNCHANGED <<parseVars, sendAllVars>>
  \/ logRequest(t)

Edit ==
  /\ EditSource \/ ReplaceSource
  /\ UNCHANGED <<workerVars, parseVars, sendAllVars>>

(* The process ends and is started again: the cache is what is left.       *)
Restart ==
  /\ \E t \in Threads : pc[t] # "idle"
  /\ torn' = torn \union {key[t] : t \in {u \in Threads : Creating(u)}}
  /\ UNCHANGED <<version, atime, readSince, cache, blended>>
  /\ pc' = [t \in Threads |-> "idle"]
  /\ request' = [t \in Threads |-> NoRequest]
  /\ olds' = Nowhere
  /\ at' = [t \in Threads |-> Nowhere]
  /\ cut' = [t \in Threads |-> {}]
  /\ headers' = [t \in Threads |-> <<>>]
  /\ mixed' = [t \in Threads |-> FALSE]
  /\ leftToWrite' = [t \in Threads |-> Count]
  /\ delivered' = [t \in Threads |-> 0]
  /\ short' = [t \in Threads |-> FALSE]
  /\ key' = [t \in Threads |-> 0]
  /\ announced' = [t \in Threads |-> Unopened]
  /\ opened' = [t \in Threads |-> Unopened]
  /\ done' = [t \in Threads |-> 0]
  /\ pending' = [t \in Threads |-> <<>>]
  /\ written' = [t \in Threads |-> 0]
  /\ bodyLength' = [t \in Threads |-> 0]
  /\ body' = [t \in Threads |-> <<>>]
  /\ gzipped' = [t \in Threads |-> FALSE]
  /\ raced' = [t \in Threads |-> FALSE]

ServicesNext ==
  \/ \E t \in Threads : ThreadStep(t)
  \/ Edit
  \/ Restart

ServicesSpec == ServicesInit /\ [][ServicesNext]_servicesVars
=============================================================================
