---------------------------- MODULE HeaderParse ----------------------------
(***************************************************************************)
(* processRequest of src/src/request.c: the header list and strtok, whose  *)
(* position is one static variable of the C library.  A call of strtok     *)
(* reads the position when it is entered and writes it when it returns;    *)
(* calls of other threads may come between.  The text it walks is an array *)
(* on the stack of the thread that parses.                                 *)
(***************************************************************************)
EXTENDS Worker

CONSTANT
  MaxHeaders   \* bound on the list: a thread that keeps finding other
               \* threads' positions would go on for ever

ASSUME HeaderParseAssumption == MaxHeaders \in Nat

VARIABLES
  olds,        \* strtok's static position
  at,          \* thread -> the position its call of strtok works from
  cut,         \* thread -> headers of its text that end in a zero already
  headers,     \* thread -> requestHeaders, the last one parsed first
  mixed        \* history: thread -> another thread parsed at the same time

parseVars == <<olds, at, cut, headers, mixed>>

(* A position is before header i of a thread's text, at a zero inside it,  *)
(* or points into a text that is gone.                                     *)
Nowhere == [where |-> "gone"]
AtZero  == [where |-> "zero"]
Before(t, i) == [where |-> "text", of |-> t, index |-> i]

Positions ==
  {Nowhere, AtZero} \union
    [where : {"text"}, of : Threads, index : Nat]

Junk == "junk"

HeaderParseInit ==
  /\ olds = Nowhere
  /\ at = [t \in Threads |-> Nowhere]
  /\ cut = [t \in Threads |-> {}]
  /\ headers = [t \in Threads |-> <<>>]
  /\ mixed = [t \in Threads |-> FALSE]

HeaderParseTypeOK ==
  /\ olds \in Positions
  /\ at \in [Threads -> Positions]
  /\ \A t \in Threads : /\ cut[t] \subseteq DOMAIN request[t].headers
                        /\ headers[t] \in Seq(STRING)
                        /\ mixed[t] \in BOOLEAN

Others(t) == {u \in Threads \ {t} : pc[u] \in Parsing}

(* processRequest up to the first call of strtok: a request line that is   *)
(* refused, a request without headers, or a copy of the headers to walk.   *)
processRequest(t) ==
  /\ pc[t] = "idle"
  /\ \E r \in Requests :
       /\ request' = [request EXCEPT ![t] = r]
       /\ headers' = [headers EXCEPT ![t] = <<>>]
       /\ IF r.kind = "bad" \/ r.headers = <<>>
          THEN /\ Go(t, Answering(r))
               /\ cut' = [cut EXCEPT ![t] = {}]
               /\ mixed' = [mixed EXCEPT ![t] = FALSE]
               /\ UNCHANGED <<olds, at>>
          ELSE /\ Go(t, "scan")
               /\ at' = [at EXCEPT ![t] = Before(t, 1)]
               /\ cut' = [cut EXCEPT ![t] = {}]
               /\ mixed' = [u \in Threads |->
                              CASE u = t         -> Others(t) # {}
                                [] u \in Others(t) -> TRUE
                                [] OTHER         -> mixed[u]]
               /\ UNCHANGED olds

(* strtok(NULL) reads the position the last call left, whoever made it.    *)
strtokEnter(t) ==
  /\ pc[t] = "enter"
  /\ at' = [at EXCEPT ![t] = olds]
  /\ Go(t, "scan")
  /\ UNCHANGED <<request, olds, cut, headers, mixed>>

(* A header that is found is put in front of the list.                     *)
Listed_Behind(list, header) == Append(list, header)

Listed(list, header) == <<header>> \o list

(* strtok finds header i: it ends it with a zero and leaves the position   *)
(* behind, or, when a zero is there already, at that zero.                 *)
strtokToken(t) ==
  /\ pc[t] = "scan"
  /\ at[t].where = "text"
  /\ Len(headers[t]) < MaxHeaders
  /\ LET u == at[t].of
         i == at[t].index
     IN /\ i <= Len(request[u].headers)
        /\ headers' = [headers EXCEPT ![t] = Listed(@, request[u].headers[i])]
        /\ olds' = IF i \in cut[u] THEN AtZero ELSE Before(u, i + 1)
        /\ cut' = [cut EXCEPT ![u] = @ \union {i}]
  /\ Go(t, "enter")
  /\ UNCHANGED <<request, at, mixed>>

(* A position into a text that is gone: whatever lies there.               *)
strtokJunk(t) ==
  /\ pc[t] = "scan"
  /\ at[t] = Nowhere
  /\ Len(headers[t]) < MaxHeaders
  /\ headers' = [headers EXCEPT ![t] = Listed(@, Junk)]
  /\ olds' = Nowhere
  /\ Go(t, "enter")
  /\ UNCHANGED <<request, at, cut, mixed>>

(* strtok returns NULL: the loop ends, processRequest returns, and what    *)
(* still points into its copy of the headers points nowhere.               *)
EndOfText(t) ==
  at[t].where = "text" => at[t].index > Len(request[at[t].of].headers)

Gone(position, t) ==
  IF position.where = "text" /\ position.of = t THEN Nowhere ELSE position

strtokNull(t) ==
  /\ pc[t] = "scan"
  /\ EndOfText(t)
  /\ olds' = Gone(at[t], t)
  /\ at' = [u \in Threads |-> IF u = t THEN Nowhere ELSE Gone(at[u], t)]
  /\ cut' = [cut EXCEPT ![t] = {}]
  /\ Go(t, Answering(request[t]))
  /\ UNCHANGED <<request, headers, mixed>>

HeaderParseStep(t) ==
  \/ processRequest(t)
  \/ strtokEnter(t)
  \/ strtokToken(t)
  \/ strtokJunk(t)
  \/ strtokNull(t)

(* getHeader finds a header of that name in the list.                      *)
getHeader(t, name) == \E i \in DOMAIN headers[t] : headers[t][i] = name

-----------------------------------------------------------------------------
(* A request that was parsed while no other thread was parsing has the     *)
(* headers its client sent, each once, and none of another client's        *)
(* (request.c:146-178): strtok's position was nobody else's in between.    *)
HeadersOwn ==
  \A t \in Threads :
    pc[t] \in {"log"} \union Filing \union Templating /\ ~mixed[t]
      => \/ request[t].kind = "bad"
         \/ headers[t] = Reverse(request[t].headers)
=============================================================================
