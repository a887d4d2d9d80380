-------------------------- MODULE ConnectionMachine --------------------------
(***************************************************************************)
(* One client connection from its first byte to its close: the state       *)
(* machine in handleEpoll (accept_client_epoll.c), with recvRequest and    *)
(* processRequest (request.c) and makeResponse, sendResponseHeaders and    *)
(* sendResponseFile (response.c), against a client that sends its requests *)
(* in pieces and reads the responses at its own pace.                      *)
(*                                                                         *)
(* A request, its buffer, a header block and a body are counted in units.  *)
(* Of a request the model keeps what the code branches on: what kind it    *)
(* is, whether it has headers, whether they ask for keep-alive and gzip,   *)
(* the length of the file it names (or of the error page), and whether     *)
(* that is a directory, which open() and fstat() take and sendfile() does  *)
(* not.  The file may be changed while the connection has it open.         *)
(*                                                                         *)
(* One thread works on the connection, between an event of its descriptor  *)
(* and the step that arms it again or closes it (see EventLoop).           *)
(***************************************************************************)
EXTENDS Integers

CONSTANTS
  Requests,      \* the requests a client may send
  NoRequest,     \* the client has no request under way
  LineLength,    \* units of the request line
  BufferSize,    \* BUFFER_REQUEST_SIZE
  HeaderLength,  \* units of the response headers
  SendBuffer,    \* units the kernel buffers for a client that does not read
  Leftovers,     \* where the memory malloc returns may hold a CRLF CRLF, 0: nowhere
  MaxAnswers,    \* bound on the responses of a connection
  MaxPaths       \* bound on `paths'; it stands for any larger number

Request == [kind : {"page", "hello", "protocol", "bad"},
            length : Nat \ {0},
            headers : BOOLEAN, keepAlive : BOOLEAN, gzip : BOOLEAN,
            body : Nat, directory : BOOLEAN]

(* Only headers can ask for keep-alive or gzip, and a request is no        *)
(* shorter than its first line.                                            *)
ASSUME MachineAssumption ==
  /\ \A r \in Requests :
       /\ r \in Request
       /\ r.keepAlive \/ r.gzip => r.headers
       /\ r.length >= LineLength
  /\ NoRequest \notin Requests
  /\ LineLength \in Nat \ {0}
  /\ BufferSize \in Nat \ {0}
  /\ HeaderLength \in Nat \ {0}
  /\ SendBuffer \in Nat \ {0}
  /\ Leftovers \subseteq Nat /\ Leftovers # {}
  /\ MaxAnswers \in Nat
  /\ MaxPaths \in Nat \ {0}

VARIABLES
  (* the client and the kernel *)
  request,   \* the request under way, or NoRequest
  sent,      \* units of it the client has sent
  arrived,   \* units in the receive buffer of the socket
  room,      \* free units in the send buffer of the socket
  peer,      \* "up", or "down" once the client has closed
  (* the thread *)
  where,     \* "wait" for an event, "run" the state machine, or "closed"
  sending,   \* the thread is in the loop of sendResponseHeaders
  (* the element of the queue *)
  state,
  requestBufferOffset,
  leftover,  \* position of a CRLF CRLF in the part of the buffer not yet written
  received,  \* length of the string in the request buffer, once complete
  requestHeaders,         \* it is not NULL
  keepAlive,
  responseBufferHeaders,  \* it is not NULL
  responseBufferHeadersOffset,
  bodyFd,    \* it is not -1
  bodyLength,
  bodyOffset,
  fileLength, \* units the open file has now, of the first bodyLength
  (* history *)
  paths,     \* live strings made for path and absolutePath
  files,     \* files opened minus files closed
  hdrOut,    \* header units given to the kernel for the request under way
  bodyOut,   \* body units given to the kernel for the request under way
  shrunk,    \* the open file has been shorter than the headers announce
  answers    \* responses completed

Least(a, b) == IF a < b THEN a ELSE b

clientVars   == <<request, sent, arrived, room, peer>>
requestVars  == <<requestBufferOffset, leftover, received, requestHeaders, keepAlive>>
responseVars == <<responseBufferHeaders, responseBufferHeadersOffset, bodyFd,
                  bodyLength, bodyOffset, fileLength, shrunk>>
historyVars  == <<paths, files, hdrOut, bodyOut, answers>>
vars == <<clientVars, where, sending, state, requestVars, responseVars,
          historyVars>>

States == {"RECV", "SEND_HEADERS", "SEND_BODY", "DONE", "DONE_FOR_CLOSE"}

TypeOK ==
  /\ request \in Requests \union {NoRequest}
  /\ sent \in Nat
  /\ arrived \in 0 .. sent
  /\ room \in 0 .. SendBuffer
  /\ peer \in {"up", "down"}
  /\ where \in {"wait", "run", "closed"}
  /\ sending \in BOOLEAN
  /\ state \in States
  /\ requestBufferOffset \in 0 .. BufferSize
  /\ leftover \in Leftovers
  /\ received \in 0 .. BufferSize
  /\ requestHeaders \in BOOLEAN
  /\ keepAlive \in BOOLEAN
  /\ responseBufferHeaders \in BOOLEAN
  /\ responseBufferHeadersOffset \in 0 .. HeaderLength
  /\ bodyFd \in BOOLEAN
  /\ bodyLength \in Nat
  /\ bodyOffset \in 0 .. bodyLength
  /\ fileLength \in 0 .. bodyLength
  /\ shrunk \in BOOLEAN
  /\ paths \in 0 .. MaxPaths
  /\ files \in Int
  /\ hdrOut \in Nat
  /\ bodyOut \in Nat
  /\ answers \in 0 .. MaxAnswers

(* emptyConnection with a new request buffer, as getConnectionOrCreateByFd *)
(* and updateQueueConnection build it.                                     *)
Init ==
  /\ request = NoRequest
  /\ sent = 0
  /\ arrived = 0
  /\ room = SendBuffer
  /\ peer = "up"
  /\ where = "wait"
  /\ sending = FALSE
  /\ state = "RECV"
  /\ requestBufferOffset = 0
  /\ leftover \in Leftovers
  /\ received = 0
  /\ requestHeaders = FALSE
  /\ keepAlive = FALSE
  /\ responseBufferHeaders = FALSE
  /\ responseBufferHeadersOffset = 0
  /\ bodyFd = FALSE
  /\ bodyLength = 0
  /\ bodyOffset = 0
  /\ fileLength = 0
  /\ shrunk = FALSE
  /\ paths = 0
  /\ files = 0
  /\ hdrOut = 0
  /\ bodyOut = 0
  /\ answers = 0

-----------------------------------------------------------------------------
(* The client.  A definition X_Y that precedes X is a mutant of X, a form  *)
(* the code does not have; it is used only to show that the properties     *)
(* would notice it.                                                        *)

(* A client begins a request when it has no other one under way, whether   *)
(* or not it has read the last response.                                   *)
Ask(r) ==
  /\ where # "closed" /\ peer = "up"
  /\ request = NoRequest
  /\ answers < MaxAnswers
  /\ request' = r
  /\ UNCHANGED <<sent, arrived, room, peer, where, sending, state, requestVars,
                 responseVars, historyVars>>

SendUnit ==
  /\ where # "closed" /\ peer = "up"
  /\ request # NoRequest
  /\ sent < request.length
  /\ sent' = sent + 1
  /\ arrived' = arrived + 1
  /\ UNCHANGED <<request, room, peer, where, sending, state, requestVars,
                 responseVars, historyVars>>

ReadUnit ==
  /\ peer = "up"
  /\ room < SendBuffer
  /\ room' = room + 1
  /\ UNCHANGED <<request, sent, arrived, peer, where, sending, state,
                 requestVars, responseVars, historyVars>>

HangUp ==
  /\ where # "closed" /\ peer = "up"
  /\ peer' = "down"
  /\ UNCHANGED <<request, sent, arrived, room, where, sending, state,
                 requestVars, responseVars, historyVars>>

-----------------------------------------------------------------------------
(* The file.  While it is open somebody may write it anew in place, or     *)
(* another thread its compressed copy, with gzopen: it may have any length *)
(* then.  What lies beyond bodyLength is never sent.                       *)
EditFile ==
  /\ bodyFd
  /\ \E n \in 0 .. bodyLength :
       /\ fileLength' = n
       /\ shrunk' = (shrunk \/ n < bodyLength)
  /\ UNCHANGED <<clientVars, where, sending, state, requestVars,
                 responseBufferHeaders, responseBufferHeadersOffset, bodyFd,
                 bodyLength, bodyOffset, historyVars>>

-----------------------------------------------------------------------------
(* The thread.                                                             *)

In(s) == where = "run" /\ state = s /\ ~sending

(* freeConnection, after which nothing the element owned is live.          *)
freeConnection ==
  /\ paths' = IF paths > 0 THEN paths - 1 ELSE 0
  /\ files' = IF bodyFd THEN files - 1 ELSE files
  /\ requestBufferOffset' = 0
  /\ received' = 0
  /\ requestHeaders' = FALSE
  /\ keepAlive' = FALSE
  /\ responseBufferHeaders' = FALSE
  /\ responseBufferHeadersOffset' = 0
  /\ bodyFd' = FALSE
  /\ bodyLength' = 0
  /\ bodyOffset' = 0
  /\ fileLength' = 0
  /\ shrunk' = FALSE
  /\ hdrOut' = 0
  /\ bodyOut' = 0

(* epoll_wait reports the descriptor.                                      *)
startEvent ==
  /\ where = "wait"
  /\ arrived > 0 \/ peer = "down"
  /\ where' = "run"
  /\ UNCHANGED <<clientVars, sending, state, requestVars, responseVars,
                 historyVars>>

(* The connection is in a queue once it has had an event, and the timeout  *)
(* may close it while it waits for the next one.                           *)
expireConnection ==
  /\ where = "wait"
  /\ answers > 0
  /\ where' = "closed"
  /\ freeConnection
  /\ UNCHANGED <<clientVars, sending, state, leftover, answers>>

(* strstr runs over the units received and on into what the memory held    *)
(* before: nothing but a CRLF CRLF, or a zero byte, stops it.  Mutants:    *)
(* some data is taken for a request; the last unit does not count.         *)
isRequestComplete_SomeData(end) == end > 0
isRequestComplete_OffByOne(end) == end > request.length
isRequestComplete(end) == end >= request.length \/ leftover > end

(* What a recv() call reads.  Mutant: it may write past the buffer's end.  *)
BytesRead_NoLimit == arrived
BytesRead == Least(arrived, BufferSize - requestBufferOffset)

(* One turn of recvRequest that reads something.                           *)
recvRequest ==
  LET end == requestBufferOffset + BytesRead
  IN  /\ In("RECV")
      /\ BytesRead > 0
      /\ arrived' = arrived - BytesRead
      /\ IF isRequestComplete(end)
         THEN /\ received' = end
              /\ state' = "SEND_HEADERS"
              /\ requestBufferOffset' = 0
         ELSE /\ requestBufferOffset' = end
              /\ UNCHANGED <<received, state>>
      /\ UNCHANGED <<request, sent, room, peer, where, sending, leftover,
                     requestHeaders, keepAlive, responseVars, historyVars>>

(* recv() returns 0: the peer has closed, or the buffer is full and there  *)
(* is more.  An error has the same effect.  With nothing to read (EAGAIN)  *)
(* the state stays RECV and the state machine calls recvRequest again.     *)
recvClosed ==
  /\ In("RECV")
  /\ BytesRead = 0
  /\ arrived > 0 \/ peer = "down"
  /\ state' = "DONE_FOR_CLOSE"
  /\ UNCHANGED <<clientVars, where, sending, requestVars, responseVars,
                 historyVars>>

(* What processRequest makes of the string in the buffer: without the end  *)
(* of the first line it is a bad request, without the CRLF CRLF one that   *)
(* has no headers.                                                         *)
Kind == IF received < LineLength THEN "bad" ELSE request.kind
HasHeaders == request.headers /\ received >= request.length

(* A new path and absolutePath; the old ones are not freed.                *)
pathsAfterProcess ==
  IF received < LineLength THEN paths ELSE Least(MaxPaths, paths + 1)

(* processRequest runs in every turn of SEND_HEADERS until the request has *)
(* headers.  Mutant: in every turn.                                        *)
mustProcess_Always == TRUE
mustProcess == ~requestHeaders

(* SEND_HEADERS, for a request that gets no page: it is bad, its protocol  *)
(* is not supported or it asks for /hello.  The response is sent by        *)
(* sendAll, whatever part of it the socket takes.                          *)
sendStaticResponse ==
  /\ In("SEND_HEADERS")
  /\ mustProcess
  /\ Kind # "page"
  /\ paths' = pathsAfterProcess
  /\ requestHeaders' = (HasHeaders /\ Kind # "bad")
  /\ room' \in 0 .. room
  /\ state' = "DONE_FOR_CLOSE"
  /\ UNCHANGED <<request, sent, arrived, peer, where, sending,
                 requestBufferOffset, leftover, received, keepAlive,
                 responseVars, files, hdrOut, bodyOut, answers>>

(* The same when the peer has closed and getpeername fails, which comes    *)
(* before anything is parsed.                                              *)
getpeernameFails ==
  /\ In("SEND_HEADERS")
  /\ mustProcess
  /\ peer = "down"
  /\ room' \in 0 .. room
  /\ state' = "DONE_FOR_CLOSE"
  /\ UNCHANGED <<request, sent, arrived, peer, where, sending, requestVars,
                 responseVars, historyVars>>

(* makeContentEncoding replaces the file by its compressed copy, of one    *)
(* unit here.  Mutant: the file is not closed.                             *)
Compressed == request.gzip /\ HasHeaders
GzipLength == 1
filesAfterEncoding_Leaks == files + (IF Compressed THEN 2 ELSE 1)
filesAfterEncoding == files + 1

(* makeResponse: open the file, or an error page, and build the headers.   *)
makeResponse ==
  /\ bodyFd' = TRUE
  /\ files' = filesAfterEncoding
  /\ bodyLength' = IF Compressed THEN GzipLength ELSE request.body
  /\ bodyOffset' = 0
  /\ fileLength' = bodyLength'
  /\ shrunk' = FALSE
  /\ keepAlive' = (request.keepAlive /\ HasHeaders)
  /\ responseBufferHeaders' = TRUE
  /\ responseBufferHeadersOffset' = 0

(* SEND_HEADERS up to the call of sendResponseHeaders.  The request is     *)
(* processed unless it has headers from an earlier turn, and the response  *)
(* made unless there is one from an earlier turn.                          *)
prepareResponse ==
  /\ In("SEND_HEADERS")
  /\ mustProcess => Kind = "page"
  /\ paths' = IF mustProcess THEN pathsAfterProcess ELSE paths
  /\ requestHeaders' = (requestHeaders \/ HasHeaders)
  /\ IF responseBufferHeaders
     THEN UNCHANGED <<responseVars, keepAlive, files>>
     ELSE makeResponse
  /\ sending' = TRUE
  /\ UNCHANGED <<clientVars, where, state, requestBufferOffset, leftover,
                 received, hdrOut, bodyOut, answers>>

(* One turn of sendResponseHeaders: the socket takes what it has room for. *)
(* Mutant: the offset counts the last call only, the next one starts over. *)
headersOffsetAfter_LastCall(n) == n
headersOffsetAfter(n) == responseBufferHeadersOffset + n

sendResponseHeaders ==
  LET n   == Least(HeaderLength - responseBufferHeadersOffset, room)
      end == headersOffsetAfter(n)
  IN  /\ where = "run" /\ sending
      /\ n > 0
      /\ room' = room - n
      /\ hdrOut' = hdrOut + n
      /\ IF end = HeaderLength
         THEN /\ state' = "SEND_BODY"
              /\ responseBufferHeadersOffset' = 0
              /\ sending' = FALSE
         ELSE /\ responseBufferHeadersOffset' = end
              /\ UNCHANGED <<state, sending>>
      /\ UNCHANGED <<request, sent, arrived, peer, where, requestVars,
                     responseBufferHeaders, bodyFd, bodyLength, bodyOffset,
                     fileLength, shrunk, paths, files, bodyOut, answers>>

(* No room (EAGAIN): the function returns, the state stays SEND_HEADERS.   *)
sendHeadersAgain ==
  /\ where = "run" /\ sending
  /\ room = 0
  /\ sending' = FALSE
  /\ UNCHANGED <<clientVars, where, state, requestVars, responseVars,
                 historyVars>>

(* The body is a directory, of which sendfile() makes an error.  Of its    *)
(* compressed copy it does not: read() failed, and the copy is empty.      *)
SendsDirectory == request.directory /\ ~Compressed

(* send() or sendfile() fails once the peer has closed, and sendfile() for *)
(* a directory.                                                            *)
sendFails ==
  /\ where = "run"
  /\ \/ (sending \/ state = "SEND_BODY") /\ peer = "down"
     \/ state = "SEND_BODY" /\ SendsDirectory
  /\ state' = "DONE_FOR_CLOSE"
  /\ sending' = FALSE
  /\ UNCHANGED <<clientVars, where, requestVars, responseVars, historyVars>>

(* The state once the body is sent.  Mutant: the connection is closed.     *)
stateAfterBody_Closes == "DONE_FOR_CLOSE"
stateAfterBody == "DONE"

(* One turn of sendResponseFile.  sendfile advances bodyOffset itself, as  *)
(* far as the file goes now.  Without room (EAGAIN) the state stays        *)
(* SEND_BODY and the function is called again.                             *)
sendResponseFile ==
  LET n   == Least(fileLength - bodyOffset, room)
      end == bodyOffset + n
  IN  /\ In("SEND_BODY")
      /\ ~SendsDirectory
      /\ n > 0
      /\ room' = room - n
      /\ bodyOut' = bodyOut + n
      /\ IF end = bodyLength
         THEN /\ state' = stateAfterBody
              /\ bodyOffset' = 0
              /\ bodyFd' = FALSE
              /\ files' = files - 1
         ELSE /\ bodyOffset' = end
              /\ UNCHANGED <<state, bodyFd, files>>
      /\ UNCHANGED <<request, sent, arrived, peer, where, sending, requestVars,
                     responseBufferHeaders, responseBufferHeadersOffset,
                     bodyLength, fileLength, shrunk, paths, hdrOut, answers>>

(* sendfile() is asked for no bytes, or the file ends at bodyOffset or     *)
(* before it.  It returns 0, which is taken for a client that has gone.    *)
sendNothing ==
  /\ In("SEND_BODY")
  /\ ~SendsDirectory
  /\ fileLength <= bodyOffset
  /\ state' = "DONE_FOR_CLOSE"
  /\ UNCHANGED <<clientVars, where, sending, requestVars, responseVars,
                 historyVars>>

(* STATE_CONNECTION_DONE with keepAlive: the element is rebuilt with a new *)
(* buffer, and the descriptor armed.                                       *)
finishKeepAlive ==
  /\ In("DONE")
  /\ keepAlive
  /\ freeConnection
  /\ leftover' \in Leftovers
  /\ state' = "RECV"
  /\ where' = "wait"
  /\ request' = NoRequest
  /\ sent' = 0
  /\ answers' = answers + 1
  /\ UNCHANGED <<arrived, room, peer, sending>>

finishClose ==
  /\ In("DONE")
  /\ ~keepAlive
  /\ state' = "DONE_FOR_CLOSE"
  /\ UNCHANGED <<clientVars, where, sending, requestVars, responseVars,
                 historyVars>>

(* STATE_CONNECTION_DONE_FOR_CLOSE: dequeueConnectionByFd, which frees the *)
(* element, and closeEpollClient.                                          *)
closeConnection ==
  /\ In("DONE_FOR_CLOSE")
  /\ freeConnection
  /\ where' = "closed"
  /\ UNCHANGED <<clientVars, sending, state, leftover, answers>>

-----------------------------------------------------------------------------
ClientStep == (\E r \in Requests : Ask(r)) \/ SendUnit \/ HangUp

ServerStep ==
  \/ startEvent \/ recvRequest \/ recvClosed
  \/ sendStaticResponse \/ getpeernameFails \/ prepareResponse
  \/ sendResponseHeaders \/ sendHeadersAgain \/ sendFails
  \/ sendResponseFile \/ sendNothing
  \/ finishKeepAlive \/ finishClose \/ closeConnection

Next == ClientStep \/ ReadUnit \/ EditFile \/ ServerStep \/ expireConnection

Spec == Init /\ [][Next]_vars

(* The thread is scheduled, and a client reads what is sent to it.         *)
FairSpec == Spec /\ WF_vars(ServerStep) /\ WF_vars(ReadUnit)

-----------------------------------------------------------------------------
(* Properties.                                                             *)

(* A request is processed once all of it has arrived, however the client   *)
(* cut it into pieces: isRequestComplete does not answer half a request.   *)
WholeRequest ==
  state \in {"SEND_HEADERS", "SEND_BODY", "DONE"} => received >= request.length

(* However often send() and sendfile() take only a part or nothing, when a *)
(* response is done the client has been sent the headers once and the file *)
(* once, of the length the headers announce, and no byte of the file went  *)
(* before the last byte of the headers.                                    *)
ResponseWhole ==
  /\ hdrOut <= HeaderLength /\ bodyOut <= bodyLength
  /\ bodyOut > 0 => hdrOut = HeaderLength
  /\ state = "DONE" => hdrOut = HeaderLength /\ bodyOut = bodyLength

(* The connection has exactly the file open that bodyFd names: none is     *)
(* leaked by gzip, by an error in the middle of a body or by the timeout,  *)
(* and none is closed twice by sendResponseFile and freeConnection.        *)
FilesBalanced == files = IF bodyFd THEN 1 ELSE 0

(* A request with headers is processed once: a later turn of SEND_HEADERS, *)
(* after an EAGAIN, does not build its path a second time.                 *)
SinglePath == requestHeaders => paths = 1

(* A response that announced keep-alive is followed by a close only if the *)
(* client has closed, the file is empty or a directory, or it has been cut *)
(* since fstat() gave its length: the server means what its headers say,   *)
(* however the socket cut the response and whatever else became of the     *)
(* file.                                                                   *)
KeepAliveKept ==
  state = "DONE_FOR_CLOSE" /\ keepAlive
    => peer = "down" \/ bodyLength = 0 \/ SendsDirectory \/ shrunk

(* A request the client has sent to its end is answered, or the connection *)
(* is closed: no piece of the state machine is left for ever.              *)
Answered ==
  (request # NoRequest /\ sent = request.length /\ peer = "up")
    ~> (request = NoRequest \/ where = "closed" \/ peer = "down")

(* The state machine serves its one client as Exchange says.  A request    *)
(* counts as answered when the last byte of its response is sent.          *)
Client == "client"

Phase ==
  IF where = "closed" \/ state = "DONE_FOR_CLOSE" THEN "over"
  ELSE IF where = "wait" THEN "idle"
  ELSE IF state = "RECV" THEN "recv"
  ELSE IF state = "DONE" THEN "done"
  ELSE "send"

Part ==
  IF sent = 0 \/ Phase \in {"done", "over"} THEN "none"
  ELSE IF sent < request.length THEN "partly" ELSE "whole"

Served == INSTANCE Exchange WITH
            Clients <- {Client},
            phase   <- [c \in {Client} |-> Phase],
            request <- [c \in {Client} |-> Part]

(* However the client cuts its requests and the socket the responses, the  *)
(* connection goes through the phases in order: no response to a part of a *)
(* request, none without a request and no second one, and nothing more for *)
(* a client the server has given up.                                       *)
ImplementsExchange == Served!ExchangeSpec
=============================================================================
