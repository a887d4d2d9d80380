--------------------------- MODULE ServicesProofs ---------------------------
(***************************************************************************)
(* Proofs about Services for any set of threads and of requests: what      *)
(* sendAll delivers and whose headers processRequest keeps.  Each part has *)
(* an inductive invariant of its own over the steps of all of Services:    *)
(* the steps of the other parts leave its variables alone.                 *)
(***************************************************************************)
EXTENDS Services, TLAPS

-----------------------------------------------------------------------------
(* sendAll.  Lemmas about arithmetic modulo the range of size_t.           *)

(* Remainders: of a number below the divisor, ...                          *)
LEMMA ModSmall ==
  ASSUME NEW n \in Nat, n > 0, NEW x \in 0 .. (n - 1)
  PROVE  x % n = x
OBVIOUS

(* ... of one below twice the divisor, ...                                 *)
LEMMA ModOnce ==
  ASSUME NEW n \in Nat, n > 0, NEW x \in n .. (2 * n - 1)
  PROVE  x % n = x - n
OBVIOUS

(* ... and of one to which the divisor is added.                           *)
LEMMA ModShift ==
  ASSUME NEW n \in Nat, n > 0, NEW x \in Nat
  PROVE  (x + n) % n = x % n
<1>1. PICK k \in Nat : x = k * n + (x % n)
  OBVIOUS
<1>2. x % n \in 0 .. (n - 1)
  OBVIOUS
<1>3. x + n = (k + 1) * n + (x % n)
  BY <1>1, <1>2
<1>4. ASSUME NEW r \in 0 .. (n - 1), NEW j \in Nat, NEW y \in Nat,
             y = j * n + r
      PROVE  y % n = r
  BY <1>4
<1>5. x + n \in Nat /\ k + 1 \in Nat
  OBVIOUS
<1> QED
  BY <1>2, <1>3, <1>4, <1>5, Zenon

(* What is left and what was delivered add up to the template, modulo the  *)
(* range of size_t.                                                        *)
Balance ==
  \A t \in Threads : (leftToWrite[t] + delivered[t]) % SIZE = Count

(* A thread none of whose sends was partial has sent all or nothing.       *)
AllOrNothing ==
  \A t \in Threads : ~short[t] =>
    \/ delivered[t] = 0 /\ leftToWrite[t] = Count
    \/ delivered[t] = Count /\ leftToWrite[t] = 0

SendAllInv == SendAllTypeOK /\ Balance /\ AllOrNothing

(* Nothing is delivered at first.                                          *)
LEMMA SendAllInvInit == ServicesInit => SendAllInv
<1> USE SendAllAssumption
<1> SUFFICES ASSUME ServicesInit PROVE SendAllInv
  OBVIOUS
<1>1. SendAllTypeOK /\ AllOrNothing
  BY DEF ServicesInit, SendAllInit, SendAllTypeOK, AllOrNothing
<1>2. Balance
  BY ModSmall DEF ServicesInit, SendAllInit, Balance
<1> QED
  BY <1>1, <1>2 DEF SendAllInv

(* A turn of the loop takes off what is left what it adds to what was      *)
(* delivered, or wraps around.                                             *)
LEMMA SendAllTurn ==
  ASSUME SendAllInv, NEW t \in Threads, sendAll(t)
  PROVE  SendAllInv'
<1> USE SendAllAssumption
<1>1. PICK w \in 1 .. Count :
        /\ delivered[t] + w <= MaxDelivered
        /\ delivered' = [delivered EXCEPT ![t] = @ + w]
        /\ leftToWrite' = [leftToWrite EXCEPT ![t] = LeftAfter(@, w)]
        /\ short' = [short EXCEPT ![t] = @ \/ w < Count]
  BY DEF sendAll
<1>2. /\ leftToWrite \in [Threads -> 0 .. (SIZE - 1)]
      /\ delivered \in [Threads -> 0 .. MaxDelivered]
      /\ short \in [Threads -> BOOLEAN]
  BY DEF SendAllInv, SendAllTypeOK
<1> DEFINE left == leftToWrite[t]
           after == LeftAfter(left, w)
<1>3. after = IF left >= w THEN left - w ELSE left - w + SIZE
  <2>1. CASE left >= w
    <3>1. left - w + SIZE \in SIZE .. (2 * SIZE - 1)
      BY <1>1, <1>2, <2>1
    <3> QED
      BY <1>1, <1>2, <2>1, <3>1, ModOnce DEF LeftAfter
  <2>2. CASE left < w
    <3>1. left - w + SIZE \in 0 .. (SIZE - 1)
      BY <1>1, <1>2, <2>2
    <3> QED
      BY <1>1, <1>2, <2>2, <3>1, ModSmall DEF LeftAfter
  <2> QED
    BY <1>1, <1>2, <2>1, <2>2
<1>4. after \in 0 .. (SIZE - 1)
  BY <1>1, <1>2, <1>3
<1>5. SendAllTypeOK'
  <2>1. short' \in [Threads -> BOOLEAN]
    BY <1>1, <1>2, Zenon
  <2>2. /\ leftToWrite' \in [Threads -> 0 .. (SIZE - 1)]
        /\ delivered' \in [Threads -> 0 .. MaxDelivered]
    BY <1>1, <1>2, <1>4
  <2> QED
    BY <2>1, <2>2 DEF SendAllTypeOK
<1>6. Balance'
  <2>1. (after + (delivered[t] + w)) % SIZE = Count
    <3>1. (left + delivered[t]) % SIZE = Count
      BY DEF SendAllInv, Balance
    <3>2. \/ after + (delivered[t] + w) = left + delivered[t]
          \/ after + (delivered[t] + w) = (left + delivered[t]) + SIZE
      BY <1>1, <1>2, <1>3
    <3>3. left + delivered[t] \in Nat
      BY <1>2
    <3> QED
      BY <3>1, <3>2, <3>3, ModShift
  <2>2. \A u \in Threads : u # t => /\ leftToWrite'[u] = leftToWrite[u]
                                    /\ delivered'[u] = delivered[u]
    BY <1>1, <1>2
  <2>3. leftToWrite'[t] = after /\ delivered'[t] = delivered[t] + w
    BY <1>1, <1>2
  <2> QED
    BY <2>1, <2>2, <2>3 DEF SendAllInv, Balance
<1>7. AllOrNothing'
  <2>1. ASSUME NEW u \in Threads, ~short'[u]
        PROVE  \/ delivered'[u] = 0 /\ leftToWrite'[u] = Count
               \/ delivered'[u] = Count /\ leftToWrite'[u] = 0
    <3>1. CASE u = t
      <4>1. w = Count /\ ~short[t]
        <5>1. short'[t] = (short[t] \/ w < Count)
          BY <1>1, <1>2, Zenon
        <5>2. ~(w < Count) /\ ~short[t]
          BY <2>1, <3>1, <5>1
        <5> QED
          BY <1>1, <5>2
      <4>2. left > 0
        BY DEF sendAll
      <4>3. delivered[t] = 0 /\ left = Count
        BY <4>1, <4>2 DEF SendAllInv, AllOrNothing
      <4> QED
        BY <1>1, <1>2, <1>3, <3>1, <4>1, <4>3
    <3>2. CASE u # t
      BY <1>1, <1>2, <2>1, <3>2 DEF SendAllInv, AllOrNothing
    <3> QED
      BY <3>1, <3>2
  <2> QED
    BY <2>1 DEF AllOrNothing
<1> QED
  BY <1>5, <1>6, <1>7 DEF SendAllInv

(* Only sendAll and a new request change the counters.                     *)
LEMMA SendAllInvStep ==
  ASSUME SendAllInv, [ServicesNext]_servicesVars
  PROVE  SendAllInv'
<1> USE SendAllAssumption
<1>1. CASE UNCHANGED sendAllVars
  BY <1>1 DEF SendAllInv, sendAllVars, SendAllTypeOK, Balance, AllOrNothing
<1>2. ASSUME NEW t \in Threads, logRequest(t) PROVE SendAllInv'
  <2>1. SendAllTypeOK'
    BY <1>2 DEF SendAllInv, SendAllTypeOK, logRequest, Freed
  <2>2. (Count + 0) % SIZE = Count
    BY ModSmall
  <2>3. Balance'
    BY <1>2, <2>2 DEF SendAllInv, SendAllTypeOK, Balance, logRequest, Freed
  <2>4. AllOrNothing'
    BY <1>2 DEF SendAllInv, SendAllTypeOK, AllOrNothing, logRequest, Freed
  <2> QED
    BY <2>1, <2>3, <2>4 DEF SendAllInv
<1>3. CASE Restart
  <2>1. SendAllTypeOK' /\ AllOrNothing'
    BY <1>3 DEF SendAllTypeOK, AllOrNothing, Restart
  <2>2. Balance'
    BY <1>3, ModSmall DEF Balance, Restart
  <2> QED
    BY <2>1, <2>2 DEF SendAllInv
<1> QED
  BY <1>1, <1>2, <1>3, SendAllTurn
  DEF ServicesNext, servicesVars, ThreadStep, SendAllStep, sendAllReturn,
      Edit

(* The invariant of sendAll holds in every state.                          *)
LEMMA AlwaysSendAllInv == ServicesSpec => []SendAllInv
BY SendAllInvInit, SendAllInvStep, PTL DEF ServicesSpec

(* A client gets a template whole or not at all unless a send was partial, *)
(* and the loop only ends by itself when what was delivered is the         *)
(* template, up to multiples of the range of size_t (helper.c:134-150).    *)
THEOREM TemplateOnceHolds == ServicesSpec => []TemplateOnce
<1>1. SendAllInv => TemplateOnce
  <2> SUFFICES ASSUME SendAllInv, NEW t \in Threads
               PROVE  /\ delivered[t] \notin {0, Count} => short[t]
                      /\ leftToWrite[t] = 0 => delivered[t] % SIZE = Count
    BY DEF TemplateOnce
  <2>1. delivered[t] \notin {0, Count} => short[t]
    BY DEF SendAllInv, AllOrNothing
  <2>2. leftToWrite[t] = 0 => delivered[t] % SIZE = Count
    BY SendAllAssumption DEF SendAllInv, SendAllTypeOK, Balance
  <2> QED
    BY <2>1, <2>2
<1> QED
  BY <1>1, AlwaysSendAllInv, PTL

-----------------------------------------------------------------------------
(* processRequest.                                                         *)

Answered == {"log"} \union Filing \union Templating

(* Positions count the headers from one.                                   *)
TextPositions ==
  {Nowhere, AtZero} \union
    [where : {"text"}, of : Threads, index : Nat \ {0}]

(* What a list may hold: names clients sent, and what strtok found where   *)
(* nothing was.                                                            *)
HeaderNames == STRING \union {Junk}

ParseTyped ==
  /\ pc \in [Threads -> Labels]
  /\ request \in [Threads -> Requests \union {NoRequest}]
  /\ olds \in TextPositions
  /\ at \in [Threads -> TextPositions]
  /\ cut \in [Threads -> SUBSET Nat]
  /\ headers \in [Threads -> Seq(HeaderNames)]

Marked == mixed \in [Threads -> BOOLEAN]

(* Two threads that parse at the same time are both marked.                *)
BothMixed ==
  \A t, u \in Threads :
    pc[t] \in Parsing /\ pc[u] \in Parsing /\ t # u => mixed[t]

(* The list of a thread is the first headers of its request, backwards.    *)
OwnSoFar(t) ==
  LET n   == Len(headers[t])
      own == request[t].headers
  IN n <= Len(own) /\ \A i \in 1 .. n : headers[t][i] = own[n - i + 1]

(* A thread that is not marked works from its own position.                *)
OwnPosition(t) ==
  LET here == Before(t, Len(headers[t]) + 1)
  IN /\ pc[t] \in Parsing => OwnSoFar(t) /\ cut[t] = 1 .. Len(headers[t])
     /\ pc[t] = "scan" => at[t] = here
     /\ pc[t] = "enter" => olds = here

Walking == \A t \in Threads : ~mixed[t] => OwnPosition(t)

ParseInv == ParseTyped /\ Marked /\ BothMixed /\ Walking /\ HeadersOwn

(* The headers of a request are a sequence of names, and the labels of a   *)
(* thread that parses are not those of one that answers.                   *)
LEMMA RequestHeaders ==
  \A r \in Requests \union {NoRequest} : r.headers \in Seq(STRING)
<1>1. NoRequest.headers \in Seq(STRING)
  BY DEF NoRequest
<1>2. \A r \in Requests : r.headers \in Seq(STRING)
  BY WorkerAssumption, Zenon
<1> QED
  BY <1>1, <1>2

(* After parsing a thread is at a label of the answer.                     *)
LEMMA AnsweringLabel ==
  \A r : Answering(r) \in Answered /\ Answering(r) \in Labels
BY DEF Answering, Answered, Filing, Templating, Labels

(* No thread parses at first.                                              *)
LEMMA ParseInvInit == ServicesInit => ParseInv
<1> SUFFICES ASSUME ServicesInit PROVE ParseInv
  OBVIOUS
<1>1. ParseTyped
  BY DEF ServicesInit, HeaderParseInit, ParseTyped, Labels, TextPositions
<1>2. Marked
  BY DEF ServicesInit, HeaderParseInit, Marked
<1>3. BothMixed /\ Walking /\ HeadersOwn
  BY DEF ServicesInit, HeaderParseInit, BothMixed, Walking, OwnPosition,
         HeadersOwn, Parsing, Filing, Templating
<1> QED
  BY <1>1, <1>2, <1>3 DEF ParseInv

(* A request begins: the threads that parse, if any, are marked, and so is *)
(* this one if there are any.                                              *)
LEMMA RequestStep ==
  ASSUME ParseInv, NEW t \in Threads, processRequest(t)
  PROVE  ParseInv'
<1> USE RequestHeaders, AnsweringLabel
<1>1. PICK r \in Requests :
       /\ request' = [request EXCEPT ![t] = r]
       /\ headers' = [headers EXCEPT ![t] = <<>>]
       /\ IF r.kind = "bad" \/ r.headers = <<>>
          THEN /\ Go(t, Answering(r))
               /\ cut' = [cut EXCEPT ![t] = {}]
               /\ mixed' = [mixed EXCEPT ![t] = FALSE]
               /\ UNCHANGED <<olds, at>>
          ELSE /\ Go(t, "scan")
               /\ at' = [at EXCEPT ![t] = Before(t, 1)]
               /\ cut' = [cut EXCEPT ![t] = {}]
               /\ mixed' = [u \in Threads |->
                              CASE u = t         -> Others(t) # {}
                                [] u \in Others(t) -> TRUE
                                [] OTHER         -> mixed[u]]
               /\ UNCHANGED olds
  BY DEF processRequest
<1>2. ParseTyped /\ Marked
  BY DEF ParseInv
<1>3. ParseTyped'
  <2>1. Before(t, 1) \in TextPositions
    BY DEF Before, TextPositions
  <2>2. /\ request' = [request EXCEPT ![t] = r]
        /\ headers' = [headers EXCEPT ![t] = <<>>]
        /\ cut' = [cut EXCEPT ![t] = {}]
        /\ \/ pc' = [pc EXCEPT ![t] = Answering(r)]
           \/ pc' = [pc EXCEPT ![t] = "scan"]
        /\ at' = at \/ at' = [at EXCEPT ![t] = Before(t, 1)]
        /\ olds' = olds
    BY <1>1, Zenon DEF Go
  <2>3. pc' \in [Threads -> Labels]
    BY <1>2, <2>2 DEF ParseTyped, Labels, Parsing
  <2>4. headers' \in [Threads -> Seq(HeaderNames)]
    BY <1>2, <2>2 DEF ParseTyped
  <2>5. cut' \in [Threads -> SUBSET Nat]
    BY <1>2, <2>2, Zenon DEF ParseTyped
  <2>6. request' \in [Threads -> Requests \union {NoRequest}]
    BY <1>2, <2>2 DEF ParseTyped
  <2>7. at' \in [Threads -> TextPositions] /\ olds' \in TextPositions
    BY <1>2, <2>1, <2>2 DEF ParseTyped
  <2> QED
    BY <2>3, <2>4, <2>5, <2>6, <2>7 DEF ParseTyped
<1>4. CASE r.kind = "bad" \/ r.headers = <<>>
  <2>1. Marked'
    BY <1>1, <1>2, <1>4 DEF Marked
  <2>a. /\ pc' = [pc EXCEPT ![t] = Answering(r)]
        /\ mixed' = [mixed EXCEPT ![t] = FALSE]
        /\ cut' = [cut EXCEPT ![t] = {}]
        /\ at' = at /\ olds' = olds
    BY <1>1, <1>4 DEF Go
  <2>b. pc'[t] \notin Parsing
    BY <1>2, <2>a DEF ParseTyped, Answered, Filing, Templating, Parsing
  <2>c. \A u \in Threads : u # t =>
          /\ pc'[u] = pc[u] /\ headers'[u] = headers[u]
          /\ request'[u] = request[u] /\ cut'[u] = cut[u]
          /\ mixed'[u] = mixed[u]
    BY <1>1, <1>2, <2>a DEF ParseTyped, Marked
  <2>2. BothMixed'
    BY <2>b, <2>c, Zenon DEF ParseInv, BothMixed
  <2>3. Walking'
    <3>1. OwnPosition(t)'
      BY <2>b DEF OwnPosition, Parsing
    <3>2. ASSUME NEW u \in Threads, u # t, ~mixed'[u]
          PROVE  OwnPosition(u)'
      <4>1. OwnPosition(u)
        BY <2>c, <3>2 DEF ParseInv, Walking
      <4> QED
        BY <2>a, <2>c, <3>2, <4>1, Zenon DEF OwnPosition, OwnSoFar
    <3> QED
      BY <3>1, <3>2 DEF Walking
  <2>4. HeadersOwn'
    <3>1. Reverse(<<>>) = <<>>
      BY DEF Reverse
    <3> QED
      BY <3>1, <1>1, <1>2, <1>4 DEF ParseInv, HeadersOwn, ParseTyped, Marked,
         Go
  <2> QED
    BY <1>3, <2>1, <2>2, <2>3, <2>4 DEF ParseInv
<1>5. CASE ~(r.kind = "bad" \/ r.headers = <<>>)
  <2>1. mixed' = [u \in Threads |->
                    CASE u = t         -> Others(t) # {}
                      [] u \in Others(t) -> TRUE
                      [] OTHER         -> mixed[u]]
    BY <1>1, <1>5
  <2>2. Marked'
    BY <2>1, <1>2, Zenon DEF Marked
  <2>3. \A u \in Threads :
          u # t /\ ~mixed'[u] => u \notin Others(t) /\ ~mixed[u]
    BY <2>1, <1>2 DEF Marked
  <2>4. ~mixed'[t] => Others(t) = {}
    BY <2>1
  <2>5. /\ pc' = [pc EXCEPT ![t] = "scan"]
        /\ at' = [at EXCEPT ![t] = Before(t, 1)]
        /\ cut' = [cut EXCEPT ![t] = {}]
        /\ olds' = olds
    BY <1>1, <1>5 DEF Go
  <2>6. BothMixed'
    BY <1>2, <2>3, <2>4, <2>5 DEF ParseInv, BothMixed, ParseTyped, Others,
       Parsing
  <2>7. Walking'
    <3>1. OwnPosition(t)'
      <4>1. /\ pc'[t] = "scan" /\ headers'[t] = <<>>
            /\ at'[t] = Before(t, 1) /\ cut'[t] = {}
        BY <1>1, <1>2, <2>5 DEF ParseTyped
      <4>2. Len(headers'[t]) = 0 /\ Len(headers'[t]) + 1 = 1
        BY <4>1
      <4>3. OwnSoFar(t)'
        <5>1. request'[t] = r
          BY <1>1, <1>2 DEF ParseTyped
        <5>2. Len(request'[t].headers) \in Nat
          BY <5>1
        <5> QED
          BY <4>2, <5>2 DEF OwnSoFar
      <4> QED
        BY <4>1, <4>2, <4>3 DEF OwnPosition
    <3>2. ASSUME NEW u \in Threads, u # t, ~mixed'[u]
          PROVE  OwnPosition(u)'
      <4>1. /\ pc'[u] = pc[u] /\ headers'[u] = headers[u]
            /\ request'[u] = request[u] /\ cut'[u] = cut[u]
            /\ at'[u] = at[u] /\ ~mixed[u]
        BY <1>1, <1>2, <2>3, <2>5, <3>2 DEF ParseTyped
      <4>2. OwnPosition(u)
        BY <4>1 DEF ParseInv, Walking
      <4> QED
        BY <2>5, <4>1, <4>2, Zenon DEF OwnPosition, OwnSoFar
    <3> QED
      BY <3>1, <3>2 DEF Walking
  <2>8. HeadersOwn'
    BY <1>1, <1>2, <2>3, <2>5 DEF ParseInv, HeadersOwn, ParseTyped,
       Filing, Templating
  <2> QED
    BY <1>3, <2>2, <2>6, <2>7, <2>8 DEF ParseInv
<1> QED
  BY <1>4, <1>5

(* strtok(NULL): a thread that is not marked finds the position it left.   *)
LEMMA EnterStep ==
  ASSUME ParseInv, NEW t \in Threads, strtokEnter(t)
  PROVE  ParseInv'
<1> USE DEF strtokEnter, Go
<1>1. ParseTyped /\ Marked
  BY DEF ParseInv
<1>2. ASSUME NEW u \in Threads, ~mixed[u], u # t
      PROVE  pc[u] \notin Parsing
  BY <1>2 DEF ParseInv, BothMixed, Parsing
<1>3. Marked' /\ BothMixed' /\ HeadersOwn'
  BY <1>1 DEF ParseInv, Marked, BothMixed, HeadersOwn, ParseTyped, Parsing,
     Filing, Templating
<1>4. Walking'
  BY <1>1, <1>2 DEF ParseInv, Walking, OwnPosition, OwnSoFar, ParseTyped,
     Parsing
<1>5. ParseTyped'
  BY <1>1 DEF ParseTyped, Labels, Parsing
<1> QED
  BY <1>3, <1>4, <1>5 DEF ParseInv

(* A position in a text: the thread whose text it is, and the header.      *)
LEMMA PositionFields ==
  /\ \A p \in TextPositions :
       p.where = "text" => p.of \in Threads /\ p.index \in Nat \ {0}
  /\ Nowhere \in TextPositions /\ AtZero \in TextPositions
  /\ Nowhere.where # "text" /\ AtZero.where # "text"
  /\ \A u \in Threads, i \in Nat \ {0} :
       /\ Before(u, i) \in TextPositions
       /\ Before(u, i).where = "text"
       /\ Before(u, i).of = u
       /\ Before(u, i).index = i
BY DEF TextPositions, Nowhere, AtZero, Before

(* The list stays a list of names.                                         *)
LEMMA Prepended ==
  ASSUME NEW S, NEW x \in S, NEW s \in Seq(S)
  PROVE  <<x>> \o s \in Seq(S)
OBVIOUS

(* strtok finds a header: a thread that is not marked finds its own next   *)
(* one, whose end has no zero yet.                                         *)
LEMMA TokenStep ==
  ASSUME ParseInv, NEW t \in Threads, strtokToken(t)
  PROVE  ParseInv'
<1> DEFINE u == at[t].of
           i == at[t].index
           header == request[u].headers[i]
<1>1. ParseTyped /\ Marked
  BY DEF ParseInv
<1>2. u \in Threads /\ i \in Nat \ {0} /\ i <= Len(request[u].headers)
  BY <1>1, PositionFields DEF strtokToken, ParseTyped
<1>3. request[u].headers \in Seq(STRING)
  BY <1>1, <1>2, RequestHeaders DEF ParseTyped
<1>4. header \in HeaderNames
  BY <1>2, <1>3 DEF HeaderNames
<1>5. /\ headers' = [headers EXCEPT ![t] = <<header>> \o headers[t]]
      /\ olds' = IF i \in cut[u] THEN AtZero ELSE Before(u, i + 1)
      /\ cut' = [cut EXCEPT ![u] = cut[u] \union {i}]
      /\ pc' = [pc EXCEPT ![t] = "enter"]
      /\ pc[t] = "scan"
      /\ UNCHANGED <<request, at, mixed>>
  BY <1>1 DEF strtokToken, Go, Listed, ParseTyped
<1> HIDE DEF u, i, header
<1>6. headers[t] \in Seq(HeaderNames)
  BY <1>1 DEF ParseTyped
<1>7. <<header>> \o headers[t] \in Seq(HeaderNames)
  BY <1>4, <1>6, Prepended
<1>8. ParseTyped'
  <2>1. pc' \in [Threads -> Labels]
    BY <1>1, <1>5 DEF ParseTyped, Labels, Parsing
  <2>2. headers' \in [Threads -> Seq(HeaderNames)]
    BY <1>1, <1>5, <1>7 DEF ParseTyped
  <2>3. cut' \in [Threads -> SUBSET Nat]
    BY <1>1, <1>2, <1>5 DEF ParseTyped
  <2>4. olds' \in TextPositions
    BY <1>2, <1>5, PositionFields
  <2> QED
    BY <1>1, <1>5, <2>1, <2>2, <2>3, <2>4 DEF ParseTyped
<1>9. ASSUME NEW v \in Threads, ~mixed[v], v # t
      PROVE  pc[v] \notin Parsing
  BY <1>5, <1>9 DEF ParseInv, BothMixed, Parsing
<1>10. Marked' /\ BothMixed'
  BY <1>1, <1>5 DEF ParseInv, Marked, BothMixed, ParseTyped, Parsing
<1>11. HeadersOwn'
  BY <1>1, <1>5 DEF ParseInv, HeadersOwn, ParseTyped, Filing, Templating
<1>12. ~mixed[t] => OwnPosition(t)'
  <2> SUFFICES ASSUME ~mixed[t] PROVE OwnPosition(t)'
    OBVIOUS
  <2> DEFINE n == Len(headers[t])
             own == request[t].headers
  <2>1. /\ OwnSoFar(t)
        /\ cut[t] = 1 .. n
        /\ at[t] = Before(t, n + 1)
    BY <1>5 DEF ParseInv, Walking, OwnPosition, Parsing
  <2>2. n \in Nat
    BY <1>6
  <2>3. u = t /\ i = n + 1
    BY <2>1, <2>2, PositionFields DEF u, i
  <2>4. headers'[t] = <<header>> \o headers[t]
    BY <1>1, <1>5 DEF ParseTyped
  <2>5. Len(headers'[t]) = n + 1
    BY <1>4, <1>6, <2>4
  <2>6. OwnSoFar(t)'
    <3>1. request'[t].headers = own /\ header = own[n + 1]
      BY <1>5, <2>3 DEF header
    <3>2. n + 1 <= Len(own)
      BY <1>2, <2>3
    <3>3. ASSUME NEW j \in 1 .. (n + 1)
          PROVE  headers'[t][j] = own[(n + 1) - j + 1]
      <4>1. CASE j = 1
        BY <1>4, <1>6, <2>2, <2>4, <3>1, <4>1
      <4>2. CASE j # 1
        <5>1. headers'[t][j] = headers[t][j - 1]
          BY <1>4, <1>6, <2>2, <2>4, <4>2
        <5>2. headers[t][j - 1] = own[n - (j - 1) + 1]
          BY <2>1, <2>2, <4>2 DEF OwnSoFar
        <5>3. n - (j - 1) + 1 = (n + 1) - j + 1
          BY <2>2
        <5> QED
          BY <5>1, <5>2, <5>3
      <4> QED
        BY <4>1, <4>2
    <3> QED
      BY <2>5, <3>1, <3>2, <3>3 DEF OwnSoFar
  <2>7. cut'[t] = 1 .. (n + 1)
    <3>1. cut'[t] = (1 .. n) \union {n + 1}
      BY <1>1, <1>5, <2>1, <2>3 DEF ParseTyped
    <3> QED
      BY <2>2, <3>1
  <2>8. olds' = Before(t, (n + 1) + 1)
    BY <1>5, <2>1, <2>2, <2>3
  <2>9. pc'[t] = "enter"
    BY <1>1, <1>5 DEF ParseTyped
  <2> QED
    BY <2>5, <2>6, <2>7, <2>8, <2>9 DEF OwnPosition
<1>13. Walking'
  BY <1>1, <1>5, <1>9, <1>12 DEF Walking, OwnPosition, ParseTyped, Parsing
<1> QED
  BY <1>8, <1>10, <1>11, <1>13 DEF ParseInv

(* A position in a text that is gone is nobody's but a marked thread's.    *)
LEMMA JunkStep ==
  ASSUME ParseInv, NEW t \in Threads, strtokJunk(t)
  PROVE  ParseInv'
<1>1. ParseTyped /\ Marked
  BY DEF ParseInv
<1>2. /\ headers' = [headers EXCEPT ![t] = <<Junk>> \o headers[t]]
      /\ olds' = Nowhere
      /\ pc' = [pc EXCEPT ![t] = "enter"]
      /\ pc[t] = "scan" /\ at[t] = Nowhere
      /\ UNCHANGED <<request, at, cut, mixed>>
  BY <1>1 DEF strtokJunk, Go, Listed, ParseTyped
<1>3. ASSUME NEW v \in Threads, ~mixed[v], v # t
      PROVE  pc[v] \notin Parsing
  BY <1>2, <1>3 DEF ParseInv, BothMixed, Parsing
<1>4. mixed[t]
  <2> SUFFICES ASSUME ~mixed[t] PROVE FALSE
    OBVIOUS
  <2>1. at[t] = Before(t, Len(headers[t]) + 1)
    BY <1>2 DEF ParseInv, Walking, OwnPosition
  <2>2. Len(headers[t]) + 1 \in Nat \ {0}
    BY <1>1 DEF ParseTyped
  <2> QED
    BY <1>2, <2>1, <2>2, PositionFields
<1>5. ParseTyped'
  <2>1. <<Junk>> \o headers[t] \in Seq(HeaderNames)
    <3>1. Junk \in HeaderNames
      BY DEF HeaderNames
    <3>2. headers[t] \in Seq(HeaderNames)
      BY <1>1 DEF ParseTyped
    <3> QED
      BY <3>1, <3>2, Prepended
  <2>2. headers' \in [Threads -> Seq(HeaderNames)]
    BY <1>1, <1>2, <2>1 DEF ParseTyped
  <2>3. pc' \in [Threads -> Labels]
    BY <1>1, <1>2 DEF ParseTyped, Labels, Parsing
  <2> QED
    BY <1>1, <1>2, <2>2, <2>3, PositionFields DEF ParseTyped
<1>6. Marked' /\ BothMixed'
  BY <1>1, <1>2 DEF ParseInv, Marked, BothMixed, ParseTyped, Parsing
<1>7. Walking' /\ HeadersOwn'
  BY <1>1, <1>2, <1>3, <1>4 DEF ParseInv, Walking, OwnPosition, HeadersOwn,
     ParseTyped, Parsing, Filing, Templating
<1> QED
  BY <1>5, <1>6, <1>7 DEF ParseInv

(* strtok returns NULL: a thread that is not marked has seen all of its    *)
(* own headers.                                                            *)
LEMMA NullStep ==
  ASSUME ParseInv, NEW t \in Threads, strtokNull(t)
  PROVE  ParseInv'
<1>1. ParseTyped /\ Marked
  BY DEF ParseInv
<1>2. /\ pc[t] = "scan"
      /\ EndOfText(t)
      /\ olds' = Gone(at[t], t)
      /\ at' = [u \in Threads |-> IF u = t THEN Nowhere ELSE Gone(at[u], t)]
      /\ cut' = [cut EXCEPT ![t] = {}]
      /\ pc' = [pc EXCEPT ![t] = Answering(request[t])]
      /\ UNCHANGED <<request, headers, mixed>>
  BY DEF strtokNull, Go
<1>3. ASSUME NEW v \in Threads, ~mixed[v], v # t
      PROVE  pc[v] \notin Parsing
  BY <1>2, <1>3 DEF ParseInv, BothMixed, Parsing
<1>4. Answering(request[t]) \in Labels /\ Answering(request[t]) \notin Parsing
  BY AnsweringLabel DEF Answering, Parsing
<1>5. ParseTyped'
  <2>1. \A p \in TextPositions : Gone(p, t) \in TextPositions
    BY PositionFields DEF Gone
  <2>2. at' \in [Threads -> TextPositions] /\ olds' \in TextPositions
    BY <1>1, <1>2, <2>1, PositionFields DEF ParseTyped
  <2>3. pc' \in [Threads -> Labels]
    BY <1>1, <1>2, <1>4 DEF ParseTyped
  <2>4. cut' \in [Threads -> SUBSET Nat]
    BY <1>1, <1>2 DEF ParseTyped
  <2> QED
    BY <1>1, <1>2, <2>2, <2>3, <2>4 DEF ParseTyped
<1>6. Marked' /\ BothMixed'
  BY <1>1, <1>2, <1>4 DEF ParseInv, Marked, BothMixed, ParseTyped
<1>7. Walking'
  BY <1>1, <1>2, <1>3, <1>4 DEF Walking, OwnPosition, ParseTyped, Parsing
<1>8. ~mixed[t] => headers[t] = Reverse(request[t].headers)
  <2> SUFFICES ASSUME ~mixed[t] PROVE headers[t] = Reverse(request[t].headers)
    OBVIOUS
  <2> DEFINE n == Len(headers[t])
             own == request[t].headers
  <2>1. OwnSoFar(t) /\ at[t] = Before(t, n + 1)
    BY <1>2 DEF ParseInv, Walking, OwnPosition, Parsing
  <2>2. headers[t] \in Seq(HeaderNames) /\ own \in Seq(STRING)
    BY <1>1, RequestHeaders DEF ParseTyped
  <2>3. n + 1 \in Nat \ {0}
    BY <2>2
  <2>4. n + 1 > Len(own)
    BY <1>2, <2>1, <2>3, PositionFields DEF EndOfText
  <2>5. n = Len(own)
    BY <2>1, <2>2, <2>4 DEF OwnSoFar
  <2>6. \A j \in 1 .. n : headers[t][j] = own[(n - j) + 1]
    BY <2>1 DEF OwnSoFar
  <2>7. headers[t] = [j \in 1 .. n |-> headers[t][j]]
    BY <2>2
  <2>8. Reverse(own) = [j \in 1 .. n |-> own[(n - j) + 1]]
    BY <2>5 DEF Reverse
  <2> QED
    BY <2>6, <2>7, <2>8
<1>9. HeadersOwn'
  BY <1>1, <1>2, <1>8 DEF ParseInv, HeadersOwn, ParseTyped
<1> QED
  BY <1>5, <1>6, <1>7, <1>9 DEF ParseInv

(* The steps of an answer go from one label of an answer to another.       *)
LEMMA AnswerStep ==
  ASSUME ParseInv, NEW t \in Threads, pc[t] \in Answered,
         UNCHANGED <<request, parseVars>>,
         UNCHANGED pc \/ \E l \in Answered : Go(t, l)
  PROVE  ParseInv'
<1> USE DEF parseVars
<1>1. ParseTyped /\ Marked
  BY DEF ParseInv
<1>2. Answered \subseteq Labels /\ Answered \intersect Parsing = {}
  BY DEF Answered, Labels, Filing, Templating, Parsing
<1>3. pc' \in [Threads -> Labels]
  BY <1>1, <1>2 DEF ParseTyped, Go
<1>4. \A u \in Threads : pc'[u] \in Answered <=> pc[u] \in Answered
  BY <1>1 DEF ParseTyped, Go
<1>5. \A u \in Threads : \/ pc'[u] = pc[u]
                         \/ pc'[u] \notin Parsing /\ pc[u] \notin Parsing
  BY <1>1, <1>2 DEF ParseTyped, Go
<1>6. ParseTyped' /\ Marked'
  BY <1>1, <1>3 DEF ParseTyped, Marked
<1>7. BothMixed'
  BY <1>5 DEF ParseInv, BothMixed
<1>8. Walking'
  BY <1>5 DEF ParseInv, Walking, OwnPosition, OwnSoFar, Parsing
<1>9. HeadersOwn'
  BY <1>4 DEF ParseInv, HeadersOwn, Answered
<1> QED
  BY <1>6, <1>7, <1>8, <1>9 DEF ParseInv

(* The request ends and the list is freed.                                 *)
LEMMA EndStep ==
  ASSUME ParseInv, NEW t \in Threads, logRequest(t)
  PROVE  ParseInv'
<1>1. ParseTyped /\ Marked
  BY DEF ParseInv
<1>2. /\ pc[t] = "log"
      /\ pc' = [pc EXCEPT ![t] = "idle"]
      /\ request' = [request EXCEPT ![t] = NoRequest]
      /\ headers' = [headers EXCEPT ![t] = <<>>]
      /\ cut' = [cut EXCEPT ![t] = {}]
      /\ mixed' = [mixed EXCEPT ![t] = FALSE]
      /\ UNCHANGED <<olds, at>>
  BY DEF logRequest, Go, Freed
<1>3. Marked'
  BY <1>1, <1>2 DEF Marked
<1>4. ParseTyped'
  <2>1. pc' \in [Threads -> Labels]
    BY <1>1, <1>2 DEF ParseTyped, Labels
  <2>2. cut' \in [Threads -> SUBSET Nat]
    BY <1>1, <1>2, Zenon DEF ParseTyped
  <2>3. headers' \in [Threads -> Seq(HeaderNames)]
    BY <1>1, <1>2 DEF ParseTyped
  <2>4. request' \in [Threads -> Requests \union {NoRequest}]
    BY <1>1, <1>2 DEF ParseTyped
  <2> QED
    BY <1>1, <1>2, <2>1, <2>2, <2>3, <2>4 DEF ParseTyped
<1>5. \A u \in Threads \ {t} : /\ pc'[u] = pc[u]
                               /\ request'[u] = request[u]
                               /\ headers'[u] = headers[u]
                               /\ cut'[u] = cut[u]
                               /\ mixed'[u] = mixed[u]
  BY <1>1, <1>2 DEF ParseTyped, Marked
<1>6. pc'[t] = "idle"
  BY <1>1, <1>2 DEF ParseTyped
<1>7. BothMixed'
  BY <1>5, <1>6 DEF ParseInv, BothMixed, Parsing
<1>8. Walking' /\ HeadersOwn'
  BY <1>2, <1>5, <1>6 DEF ParseInv, Walking, OwnPosition, OwnSoFar,
     HeadersOwn, Parsing, Filing, Templating
<1> QED
  BY <1>3, <1>4, <1>7, <1>8 DEF ParseInv

(* Every step of Services keeps the invariant of the parser.               *)
LEMMA ParseInvStep ==
  ASSUME ParseInv, [ServicesNext]_servicesVars
  PROVE  ParseInv'
<1>1. ASSUME NEW t \in Threads, HeaderParseStep(t) PROVE ParseInv'
  BY <1>1, RequestStep, EnterStep, TokenStep, JunkStep, NullStep
  DEF HeaderParseStep
<1>2. ASSUME NEW t \in Threads, SendAllStep(t), UNCHANGED parseVars
      PROVE  ParseInv'
  <2>1. pc[t] \in Answered /\ request' = request
    BY <1>2 DEF SendAllStep, sendAll, sendAllReturn, workerVars, Answered,
       Templating
  <2>2. UNCHANGED pc \/ \E l \in Answered : Go(t, l)
    BY <1>2 DEF SendAllStep, sendAll, sendAllReturn, workerVars, Answered
  <2> QED
    BY <1>2, <2>1, <2>2, AnswerStep
<1>3. ASSUME NEW t \in Threads, NEW g \in BOOLEAN, GzipCacheStep(t, g),
             UNCHANGED parseVars
      PROVE  ParseInv'
  <2> USE DEF GzipCacheStep, makeResponse, accessCache, gzopen, gzwrite,
      zlibFlush, gzclose, openCache, fstatCache, sendBody, Creating,
      workerVars
  <2>1. pc[t] \in Answered /\ request' = request
    BY <1>3 DEF Answered, Filing
  <2>2. UNCHANGED pc \/ \E l \in Answered : Go(t, l)
    BY <1>3 DEF Answered, Filing
  <2> HIDE DEF GzipCacheStep
  <2> QED
    BY <1>3, <2>1, <2>2, AnswerStep
<1>4. CASE UNCHANGED <<workerVars, parseVars>>
  <2>1. UNCHANGED <<pc, request, olds, at, cut, headers, mixed>>
    BY <1>4 DEF workerVars, parseVars
  <2>2. ParseTyped' /\ Marked' /\ BothMixed'
    BY <2>1, Zenon DEF ParseInv, ParseTyped, Marked, BothMixed
  <2>3. Walking' /\ HeadersOwn'
    BY <2>1, Zenon DEF ParseInv, Walking, OwnPosition, OwnSoFar, HeadersOwn
  <2> QED
    BY <2>2, <2>3 DEF ParseInv
<1>5. CASE Restart
  <2>1. ParseTyped'
    BY <1>5, PositionFields DEF Restart, ParseTyped, Labels
  <2>2. Marked'
    BY <1>5 DEF Restart, Marked
  <2>3. BothMixed' /\ Walking' /\ HeadersOwn'
    BY <1>5 DEF Restart, BothMixed, Walking, OwnPosition, HeadersOwn,
       Parsing, Filing, Templating
  <2> QED
    BY <2>1, <2>2, <2>3 DEF ParseInv
<1>6. CASE Edit
  BY <1>4, <1>6 DEF Edit
<1>7. ASSUME NEW t \in Threads, ThreadStep(t) PROVE ParseInv'
  <2>1. TakesGzip(t) \in BOOLEAN
    BY DEF TakesGzip, getHeader
  <2> QED
    BY <1>1, <1>2, <1>3, <1>7, <2>1, EndStep DEF ThreadStep
<1>8. CASE UNCHANGED servicesVars
  BY <1>4, <1>8 DEF servicesVars
<1> QED
  BY <1>5, <1>6, <1>7, <1>8 DEF ServicesNext

(* So it holds in every state.                                             *)
LEMMA AlwaysParseInv == ServicesSpec => []ParseInv
BY ParseInvInit, ParseInvStep, PTL DEF ServicesSpec

(* A request that no other thread's parsing overlapped has exactly its     *)
(* client's headers, although strtok's position is shared by all threads   *)
(* (request.c:146-178).                                                    *)
THEOREM HeadersOwnHolds == ServicesSpec => []HeadersOwn
<1>1. ParseInv => HeadersOwn
  BY DEF ParseInv
<1> QED
  BY <1>1, AlwaysParseInv, PTL
=============================================================================
