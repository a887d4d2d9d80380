----------------------- MODULE ConnectionMachineProofs -----------------------
(***************************************************************************)
(* Proofs about ConnectionMachine for any set of requests, any sizes of    *)
(* buffers, headers and bodies, and any way the client and the socket cut  *)
(* them into pieces, up to the refinement of Exchange.                     *)
(***************************************************************************)
EXTENDS ConnectionMachine, TLAPS

(* An element as emptyConnection makes it.                                 *)
Fresh ==
  /\ ~requestHeaders
  /\ ~keepAlive
  /\ ~responseBufferHeaders
  /\ responseBufferHeadersOffset = 0
  /\ ~bodyFd
  /\ bodyLength = 0
  /\ bodyOffset = 0
  /\ fileLength = 0
  /\ ~shrunk
  /\ hdrOut = 0
  /\ bodyOut = 0

(* Where the thread can be in which state.                                 *)
Places ==
  /\ where = "wait" => state = "RECV"
  /\ where = "closed" => state \in {"RECV", "DONE_FOR_CLOSE"} /\ Fresh
  /\ sending => /\ where = "run"
                /\ state = "SEND_HEADERS"
                /\ responseBufferHeaders

InRecv == state = "RECV" => Fresh /\ received = 0

(* In SEND_HEADERS the offset counts the units sent, and the file is open  *)
(* from makeResponse on.                                                   *)
InSendHeaders ==
  state = "SEND_HEADERS" =>
    /\ request # NoRequest
    /\ bodyFd = responseBufferHeaders
    /\ responseBufferHeadersOffset < HeaderLength
    /\ hdrOut = responseBufferHeadersOffset
    /\ ~responseBufferHeaders => hdrOut = 0
    /\ bodyOffset = 0
    /\ bodyOut = 0

InSendBody ==
  state = "SEND_BODY" =>
    /\ request # NoRequest
    /\ bodyFd
    /\ hdrOut = HeaderLength
    /\ bodyOut = bodyOffset
    /\ bodyLength = 0 \/ bodyOffset < bodyLength

(* Until it is cut, the open file has the length the headers announce.     *)
Uncut == bodyFd /\ ~shrunk => fileLength = bodyLength

InDone ==
  state = "DONE" =>
    /\ request # NoRequest
    /\ ~bodyFd
    /\ hdrOut = HeaderLength
    /\ bodyOut = bodyLength

(* Every unit the client has sent is in the socket or in the buffer.       *)
Conserved ==
  /\ request = NoRequest => sent = 0
  /\ request # NoRequest => sent <= request.length /\ answers < MaxAnswers
  /\ where # "closed" => arrived + requestBufferOffset + received = sent

(* Only a request that has arrived whole is kept alive.                    *)
KeptWhole ==
  keepAlive => /\ requestHeaders
               /\ request # NoRequest
               /\ received >= request.length

(* A path is there when the request has been processed, more than one only *)
(* if it has no headers.                                                   *)
PathsMade ==
  /\ state = "RECV" => paths = 0
  /\ state = "SEND_HEADERS" /\ ~requestHeaders /\ paths > 0 => ~HasHeaders

(* TypeOK in two parts: the Boolean variables, and the others.             *)
Flags ==
  /\ sending \in BOOLEAN
  /\ requestHeaders \in BOOLEAN
  /\ keepAlive \in BOOLEAN
  /\ responseBufferHeaders \in BOOLEAN
  /\ bodyFd \in BOOLEAN
  /\ shrunk \in BOOLEAN

Ranges ==
  /\ request \in Requests \union {NoRequest}
  /\ sent \in Nat
  /\ arrived \in 0 .. sent
  /\ room \in 0 .. SendBuffer
  /\ peer \in {"up", "down"}
  /\ where \in {"wait", "run", "closed"}
  /\ state \in States
  /\ requestBufferOffset \in 0 .. BufferSize
  /\ leftover \in Leftovers
  /\ received \in 0 .. BufferSize
  /\ responseBufferHeadersOffset \in 0 .. HeaderLength
  /\ bodyLength \in Nat
  /\ bodyOffset \in 0 .. bodyLength
  /\ fileLength \in 0 .. bodyLength
  /\ paths \in 0 .. MaxPaths
  /\ files \in Int
  /\ hdrOut \in Nat
  /\ bodyOut \in Nat
  /\ answers \in 0 .. MaxAnswers

IndInv ==
  /\ Flags
  /\ Ranges
  /\ Places
  /\ InRecv
  /\ InSendHeaders
  /\ InSendBody
  /\ Uncut
  /\ InDone
  /\ Conserved
  /\ KeptWhole
  /\ PathsMade
  /\ SinglePath
  /\ ResponseWhole
  /\ FilesBalanced
  /\ KeepAliveKept

-----------------------------------------------------------------------------
(* IndInv is inductive.                                                    *)

(* emptyConnection satisfies it.                                           *)
LEMMA InitIndInv == Init => IndInv
<1> SUFFICES ASSUME Init PROVE IndInv
  OBVIOUS
<1> USE MachineAssumption DEF Init
<1>1. Flags
  BY Zenon DEF Flags
<1>2. Ranges
  BY DEF Ranges, States
<1>3. Places /\ InRecv /\ InSendHeaders /\ InSendBody /\ Uncut /\ InDone
  BY DEF Places, InRecv, InSendHeaders, InSendBody, Uncut, InDone, Fresh
<1>4. Conserved /\ KeptWhole /\ PathsMade
  BY DEF Conserved, KeptWhole, PathsMade
<1>5. SinglePath /\ ResponseWhole /\ FilesBalanced /\ KeepAliveKept
  BY DEF SinglePath, ResponseWhole, FilesBalanced, KeepAliveKept
<1> QED
  BY <1>1, <1>2, <1>3, <1>4, <1>5 DEF IndInv

(* Every step of the client, the socket and the thread preserves it.       *)
LEMMA NextIndInv == IndInv /\ [Next]_vars => IndInv'
<1> SUFFICES ASSUME IndInv, [Next]_vars PROVE IndInv'
  OBVIOUS
<1> USE MachineAssumption
    DEF IndInv, Ranges, Flags, States, Places, InRecv, InSendHeaders, InSendBody,
        Uncut, InDone, Conserved, KeptWhole, PathsMade, SinglePath, ResponseWhole,
        FilesBalanced, KeepAliveKept, Fresh, Least, In, HasHeaders, Request,
        Compressed, SendsDirectory,
        clientVars, requestVars, responseVars, historyVars
<1>1. ASSUME NEW r \in Requests, Ask(r) PROVE IndInv'
  BY <1>1 DEF Ask
<1>2. CASE SendUnit
  BY <1>2 DEF SendUnit
<1>3. CASE ReadUnit
  BY <1>3 DEF ReadUnit
<1>4. CASE HangUp
  BY <1>4 DEF HangUp
<1>5. CASE startEvent
  BY <1>5 DEF startEvent
<1>6. CASE expireConnection
  <2> USE <1>6 DEF expireConnection, freeConnection
  <2>1. Flags'
    BY Zenon DEF Flags
  <2>2. Ranges'
    OBVIOUS
  <2>3. Places' /\ InRecv' /\ InSendHeaders' /\ InSendBody' /\ Uncut' /\ InDone'
    OBVIOUS
  <2>4. Conserved'
    OBVIOUS
  <2>5. KeptWhole' /\ PathsMade' /\ SinglePath'
    OBVIOUS
  <2>6. ResponseWhole' /\ FilesBalanced' /\ KeepAliveKept'
    OBVIOUS
  <2> QED
    BY <2>1, <2>2, <2>3, <2>4, <2>5, <2>6
<1>7. CASE recvRequest
  <2> DEFINE end == requestBufferOffset + BytesRead
  <2>0. /\ BytesRead \in Nat /\ BytesRead <= arrived
        /\ end \in 0 .. BufferSize
        /\ arrived - BytesRead \in Nat
    BY DEF BytesRead
  <2>a. request # NoRequest
    BY <1>7, <2>0 DEF recvRequest
  <2> USE <1>7, <2>0 DEF recvRequest
  <2> HIDE DEF BytesRead
  <2>1. Flags'
    BY Zenon DEF Flags
  <2>2. Ranges' /\ Conserved'
    <3>1. received = 0
      BY <2>0
    <3>2. CASE isRequestComplete(end)
      BY <3>1, <3>2
    <3>3. CASE ~isRequestComplete(end)
      BY <3>1, <3>3
    <3> QED
      BY <3>2, <3>3
  <2>3. Places' /\ InRecv' /\ InSendHeaders' /\ InSendBody' /\ Uncut' /\ InDone'
    BY <2>a
  <2>5. KeptWhole' /\ PathsMade' /\ SinglePath'
    OBVIOUS
  <2>6. ResponseWhole' /\ FilesBalanced' /\ KeepAliveKept'
    OBVIOUS
  <2> QED
    BY <2>1, <2>2, <2>3, <2>5, <2>6
<1>8. CASE recvClosed
  BY <1>8 DEF recvClosed, BytesRead
<1>9. CASE sendStaticResponse
  BY <1>9 DEF sendStaticResponse, mustProcess, pathsAfterProcess
<1>10. CASE getpeernameFails
  BY <1>10 DEF getpeernameFails, mustProcess
<1>11. CASE prepareResponse
  <2> USE <1>11 DEF prepareResponse, mustProcess, pathsAfterProcess, Kind
  <2>1. Flags'
    BY Zenon DEF Flags, makeResponse
  <2>2. CASE responseBufferHeaders
    <3> USE <2>2
    <3>1. Ranges' /\ Conserved'
      OBVIOUS
    <3>2. Places' /\ InRecv' /\ InSendHeaders' /\ InSendBody' /\ Uncut' /\ InDone'
      OBVIOUS
    <3>3. KeptWhole' /\ PathsMade' /\ SinglePath'
      OBVIOUS
    <3>4. ResponseWhole' /\ FilesBalanced' /\ KeepAliveKept'
      OBVIOUS
    <3> QED
      BY <2>1, <3>1, <3>2, <3>3, <3>4
  <2>3. CASE ~responseBufferHeaders
    <3> USE <2>3 DEF makeResponse, filesAfterEncoding, GzipLength
    <3>1. Ranges' /\ Conserved'
      OBVIOUS
    <3>2. Places' /\ InRecv' /\ InSendHeaders' /\ InSendBody' /\ Uncut' /\ InDone'
      OBVIOUS
    <3>3. KeptWhole' /\ PathsMade' /\ SinglePath'
      OBVIOUS
    <3>4. ResponseWhole' /\ FilesBalanced' /\ KeepAliveKept'
      OBVIOUS
    <3> QED
      BY <2>1, <3>1, <3>2, <3>3, <3>4
  <2> QED
    BY <2>2, <2>3
<1>12. CASE sendResponseHeaders
  <2> DEFINE n   == Least(HeaderLength - responseBufferHeadersOffset, room)
             end == responseBufferHeadersOffset + n
  <2>0. n \in Nat \ {0} /\ n <= room /\ end \in 0 .. HeaderLength
    BY <1>12 DEF sendResponseHeaders
  <2> HIDE DEF n
  <2>1. CASE end = HeaderLength
    <3>0. /\ state' = "SEND_BODY" /\ ~sending' /\ sending' \in BOOLEAN
          /\ responseBufferHeadersOffset' = 0
          /\ room' = room - n /\ hdrOut' = hdrOut + n
      BY <1>12, <2>1 DEF sendResponseHeaders, headersOffsetAfter, n
    <3> QED
      BY <1>12, <2>0, <2>1, <3>0 DEF sendResponseHeaders
  <2>2. CASE end # HeaderLength
    <3>0. /\ state' = state /\ sending' = sending
          /\ responseBufferHeadersOffset' = end
          /\ room' = room - n /\ hdrOut' = hdrOut + n
      BY <1>12, <2>2 DEF sendResponseHeaders, headersOffsetAfter, n
    <3> QED
      BY <1>12, <2>0, <2>2, <3>0 DEF sendResponseHeaders
  <2> QED
    BY <2>1, <2>2
<1>13. CASE sendHeadersAgain
  BY <1>13 DEF sendHeadersAgain
<1>14. CASE sendFails
  BY <1>14 DEF sendFails
<1>15. CASE sendResponseFile
  <2> DEFINE n   == Least(fileLength - bodyOffset, room)
             end == bodyOffset + n
  <2>0. n \in Nat \ {0} /\ n <= room /\ end \in 0 .. bodyLength
    BY <1>15 DEF sendResponseFile
  <2> HIDE DEF n
  <2>1. CASE end = bodyLength
    <3>0. /\ state' = "DONE" /\ ~bodyFd' /\ bodyFd' \in BOOLEAN
          /\ bodyOffset' = 0 /\ files' = files - 1
          /\ room' = room - n /\ bodyOut' = bodyOut + n
      BY <1>15, <2>1 DEF sendResponseFile, stateAfterBody, n
    <3> QED
      BY <1>15, <2>0, <2>1, <3>0 DEF sendResponseFile
  <2>2. CASE end # bodyLength
    <3>0. /\ state' = state /\ bodyFd' = bodyFd
          /\ bodyOffset' = end /\ files' = files
          /\ room' = room - n /\ bodyOut' = bodyOut + n
      BY <1>15, <2>2 DEF sendResponseFile, stateAfterBody, n
    <3> QED
      BY <1>15, <2>0, <2>2, <3>0 DEF sendResponseFile
  <2> QED
    BY <2>1, <2>2
<1>16. CASE sendNothing
  <2> USE <1>16 DEF sendNothing
  <2>1. Flags'
    BY Zenon DEF Flags
  <2>2. Ranges'
    OBVIOUS
  <2>3. Places' /\ InRecv' /\ InSendHeaders' /\ InSendBody' /\ Uncut' /\ InDone'
    OBVIOUS
  <2>4. Conserved'
    OBVIOUS
  <2>5. KeptWhole' /\ PathsMade' /\ SinglePath'
    OBVIOUS
  <2>6. ResponseWhole' /\ FilesBalanced' /\ KeepAliveKept'
    OBVIOUS
  <2> QED
    BY <2>1, <2>2, <2>3, <2>4, <2>5, <2>6
<1>17. CASE finishKeepAlive
  <2>0. arrived = 0 /\ paths = 1
    BY <1>17 DEF finishKeepAlive
  <2> USE <1>17, <2>0 DEF finishKeepAlive, freeConnection
  <2>1. Flags'
    BY Zenon DEF Flags
  <2>2. Ranges' /\ Conserved'
    OBVIOUS
  <2>3. Places' /\ InRecv' /\ InSendHeaders' /\ InSendBody' /\ Uncut' /\ InDone'
    OBVIOUS
  <2>5. KeptWhole' /\ PathsMade' /\ SinglePath'
    OBVIOUS
  <2>6. ResponseWhole' /\ FilesBalanced' /\ KeepAliveKept'
    OBVIOUS
  <2> QED
    BY <2>1, <2>2, <2>3, <2>5, <2>6
<1>18. CASE finishClose
  BY <1>18 DEF finishClose
<1>19. CASE closeConnection
  <2> USE <1>19 DEF closeConnection, freeConnection
  <2>1. Flags'
    BY Zenon DEF Flags
  <2>2. Ranges'
    OBVIOUS
  <2>3. Places' /\ InRecv' /\ InSendHeaders' /\ InSendBody' /\ Uncut' /\ InDone'
    OBVIOUS
  <2>4. Conserved'
    OBVIOUS
  <2>5. KeptWhole' /\ PathsMade' /\ SinglePath'
    OBVIOUS
  <2>6. ResponseWhole' /\ FilesBalanced' /\ KeepAliveKept'
    OBVIOUS
  <2> QED
    BY <2>1, <2>2, <2>3, <2>4, <2>5, <2>6
<1>20. CASE UNCHANGED vars
  BY <1>20 DEF vars
<1>21. CASE EditFile
  <2>0. PICK n \in 0 .. bodyLength :
          fileLength' = n /\ shrunk' = (shrunk \/ n < bodyLength)
    BY <1>21 DEF EditFile
  <2> USE <1>21, <2>0 DEF EditFile
  <2>1. Flags'
    BY Zenon DEF Flags
  <2>2. Ranges'
    OBVIOUS
  <2>a. n < bodyLength => shrunk'
    BY Zenon
  <2>b. Uncut'
    BY <2>a
  <2>3. Places' /\ InRecv' /\ InSendHeaders' /\ InSendBody' /\ InDone'
    <3>1. bodyFd /\ state # "RECV" /\ where # "closed" /\ state # "DONE"
      OBVIOUS
    <3>2. UNCHANGED <<where, state, sending, responseBufferHeaders, request,
                      responseBufferHeadersOffset, hdrOut, bodyOut, bodyLength,
                      bodyOffset, bodyFd>>
      OBVIOUS
    <3>3. Places' /\ InRecv' /\ InDone'
      BY <3>1, <3>2
    <3>4. InSendHeaders'
      <4>1. CASE state = "SEND_HEADERS"
        <5>1. /\ request' # NoRequest
              /\ responseBufferHeadersOffset' < HeaderLength
              /\ hdrOut' = responseBufferHeadersOffset'
              /\ bodyOffset' = 0
              /\ bodyOut' = 0
          BY <3>2, <4>1
        <5>2. bodyFd = responseBufferHeaders
          BY <4>1, Zenon
        <5>3. bodyFd' = bodyFd /\ responseBufferHeaders' = responseBufferHeaders
          BY <3>2, Zenon
        <5>4. bodyFd' = responseBufferHeaders'
          BY <5>2, <5>3
        <5>5. responseBufferHeaders'
          BY <3>1, <5>2, <5>3
        <5> QED
          BY <5>1, <5>4, <5>5, Zenon
      <4>2. CASE state # "SEND_HEADERS"
        BY <3>2, <4>2
      <4> QED
        BY <4>1, <4>2
    <3>5. InSendBody'
      BY <3>2
    <3> QED
      BY <3>3, <3>4, <3>5
  <2>4. Conserved' /\ KeptWhole' /\ PathsMade' /\ SinglePath'
    OBVIOUS
  <2>5. ResponseWhole' /\ FilesBalanced' /\ KeepAliveKept'
    OBVIOUS
  <2> QED
    BY <2>1, <2>2, <2>b, <2>3, <2>4, <2>5
<1> QED
  BY <1>1, <1>2, <1>3, <1>4, <1>5, <1>6, <1>7, <1>8, <1>9, <1>10, <1>11, <1>12,
     <1>13, <1>14, <1>15, <1>16, <1>17, <1>18, <1>19, <1>20, <1>21
     DEF Next, ClientStep, ServerStep

(* The invariant holds in every reachable state.                           *)
LEMMA AlwaysIndInv == Spec => []IndInv
<1>1. Init => IndInv
  BY InitIndInv
<1>2. IndInv /\ [Next]_vars => IndInv'
  BY NextIndInv
<1> QED
  BY <1>1, <1>2, PTL DEF Spec

-----------------------------------------------------------------------------
(* The theorems.                                                           *)

(* The offsets of recvRequest, sendResponseHeaders and sendResponseFile    *)
(* stay inside their buffers and the file.                                 *)
THEOREM TypeCorrect == Spec => []TypeOK
<1>1. IndInv => TypeOK
  BY DEF IndInv, Flags, Ranges, TypeOK
<1> QED
  BY <1>1, AlwaysIndInv, PTL

(* A response that is done has been sent once and complete, whatever parts *)
(* send() and sendfile() took.                                             *)
THEOREM WholeResponses == Spec => []ResponseWhole
<1>1. IndInv => ResponseWhole
  BY DEF IndInv
<1> QED
  BY <1>1, AlwaysIndInv, PTL

(* A connection never leaks a file and never closes one twice.             *)
THEOREM FileBalance == Spec => []FilesBalanced
<1>1. IndInv => FilesBalanced
  BY DEF IndInv
<1> QED
  BY <1>1, AlwaysIndInv, PTL

(* A request with headers is processed once.                               *)
THEOREM PathOnce == Spec => []SinglePath
<1>1. IndInv => SinglePath
  BY DEF IndInv
<1> QED
  BY <1>1, AlwaysIndInv, PTL

(* The state machine does not close a connection whose response announced  *)
(* keep-alive, but for a client that has closed, a directory, and a file   *)
(* that is empty or has been cut while it was open.                        *)
THEOREM KeepAlivePromise == Spec => []KeepAliveKept
<1>1. IndInv => KeepAliveKept
  BY DEF IndInv
<1> QED
  BY <1>1, AlwaysIndInv, PTL

(* If malloc never returns memory with the end of an old request in it,    *)
(* only requests that have arrived whole are processed.                    *)
THEOREM WholeRequests ==
  ASSUME Leftovers = {0}
  PROVE  Spec => []WholeRequest
<1>1. Init => WholeRequest
  BY DEF Init, WholeRequest
<1>2. ASSUME IndInv, WholeRequest, [Next]_vars
      PROVE  WholeRequest'
  <2> USE <1>2, MachineAssumption
      DEF WholeRequest, IndInv, Ranges, States, Places, InRecv, InSendHeaders,
          InSendBody, InDone, Conserved, PathsMade, Fresh, In, HasHeaders, Request,
          clientVars, requestVars, responseVars, historyVars
  <2>1. CASE recvRequest
    <3>0. BytesRead \in Nat /\ BytesRead <= arrived
      BY DEF BytesRead, Least
    <3>1. request # NoRequest
      BY <2>1, <3>0 DEF recvRequest
    <3> QED
      BY <2>1, <3>0, <3>1 DEF recvRequest, isRequestComplete
  <2>2. ASSUME NEW r \in Requests, Ask(r) PROVE WholeRequest'
    BY <2>2 DEF Ask
  <2>3. CASE sendResponseHeaders
    BY <2>3 DEF sendResponseHeaders
  <2>4. CASE sendResponseFile
    BY <2>4 DEF sendResponseFile
  <2>5. CASE finishKeepAlive \/ expireConnection \/ closeConnection
    BY <2>5 DEF finishKeepAlive, expireConnection, closeConnection
  <2>6. CASE prepareResponse
    BY <2>6 DEF prepareResponse
  <2>7. CASE sendStaticResponse \/ getpeernameFails
    BY <2>7 DEF sendStaticResponse, getpeernameFails
  <2>8. CASE SendUnit \/ ReadUnit \/ HangUp \/ EditFile \/ startEvent
    BY <2>8 DEF SendUnit, ReadUnit, HangUp, EditFile, startEvent
  <2>9. CASE recvClosed \/ sendHeadersAgain \/ sendFails \/ sendNothing \/ finishClose
    BY <2>9 DEF recvClosed, sendHeadersAgain, sendFails, sendNothing, finishClose
  <2>10. CASE UNCHANGED vars
    BY <2>10 DEF vars
  <2> QED
    BY <2>1, <2>2, <2>3, <2>4, <2>5, <2>6, <2>7, <2>8, <2>9, <2>10
       DEF Next, ClientStep, ServerStep
<1> QED
  BY <1>1, <1>2, AlwaysIndInv, PTL DEF Spec

-----------------------------------------------------------------------------
(* The state machine implements Exchange.                                  *)

(* What a step of Exchange does to its one client.                         *)
ServesOne ==
  \/ Phase' = Phase /\ Part' = Part
  \/ /\ Phase # "over" /\ Part # "whole"
     /\ Phase' = Phase /\ Part' \in {"partly", "whole"}
  \/ Phase = "idle" /\ Phase' = "recv" /\ Part' = Part
  \/ /\ Phase = "recv" /\ Part = "whole"
     /\ Phase' = "send" /\ Part' = "whole"
  \/ Phase = "send" /\ Phase' = "done" /\ Part' = "none"
  \/ Phase = "done" /\ Phase' = "idle" /\ Part' = Part
  \/ Phase # "over" /\ Phase' = "over" /\ Part' = "none"

(* From the first byte of a response to the last its request is whole: the *)
(* client has nothing more of it to send.                                  *)
LEMMA WholeSent ==
  ASSUME IndInv, WholeRequest, where = "run",
         state \in {"SEND_HEADERS", "SEND_BODY", "DONE"}
  PROVE  /\ request \in Requests /\ request.length \in Nat \ {0}
         /\ sent = request.length
<1>1. request \in Requests
  BY DEF IndInv, Ranges, InSendHeaders, InSendBody, InDone
<1>2. request.length \in Nat \ {0} /\ request # NoRequest
  BY <1>1, MachineAssumption DEF Request
<1> QED
  BY <1>1, <1>2, MachineAssumption DEF IndInv, Ranges, Conserved, WholeRequest

(* The same in the state a step leads to.                                  *)
LEMMA WholeSentNext ==
  ASSUME IndInv', WholeRequest', where' = "run",
         state' \in {"SEND_HEADERS", "SEND_BODY", "DONE"}
  PROVE  /\ request' \in Requests /\ request'.length \in Nat \ {0}
         /\ sent' = request'.length
<1>1. request' \in Requests
  BY DEF IndInv, Ranges, InSendHeaders, InSendBody, InDone
<1>2. request'.length \in Nat \ {0} /\ request' # NoRequest
  BY <1>1, MachineAssumption DEF Request
<1>3. /\ sent' \in Nat /\ arrived' \in Nat /\ requestBufferOffset' \in Nat
      /\ received' \in Nat
  BY MachineAssumption DEF IndInv, Ranges
<1>4. /\ sent' <= request'.length
      /\ arrived' + requestBufferOffset' + received' = sent'
  BY <1>2 DEF IndInv, Conserved
<1>5. received' >= request'.length
  BY DEF WholeRequest
<1>6. ASSUME NEW length \in Nat, NEW n \in Nat, NEW x \in Nat, NEW y \in Nat,
             NEW z \in Nat, n <= length, x + y + z = n, z >= length
      PROVE  n = length
  BY <1>6
<1>7. sent' = request'.length
  BY <1>2, <1>3, <1>4, <1>5, <1>6
<1> QED
  BY <1>1, <1>2, <1>7

(* Every step of the state machine, of its client and of the socket is a   *)
(* step of the exchange or leaves it alone.                                *)
LEMMA MachineServes ==
  ASSUME IndInv, WholeRequest, WholeRequest', Leftovers = {0}, [Next]_vars
  PROVE  ServesOne
<1> USE DEF In, clientVars, requestVars, responseVars, historyVars
<1>0. /\ where \in {"wait", "run", "closed"} /\ state \in States
      /\ sent \in Nat /\ (request = NoRequest => sent = 0)
      /\ where = "wait" => state = "RECV"
      /\ where = "closed" => state \in {"RECV", "DONE_FOR_CLOSE"}
      /\ sending => where = "run" /\ state = "SEND_HEADERS"
  BY DEF IndInv, Ranges, Places, Conserved
<1>1. ASSUME NEW r \in Requests, Ask(r) PROVE ServesOne
  BY <1>0, <1>1 DEF Ask, ServesOne, Phase, Part
<1>2. CASE SendUnit
  <2>1. request \in Requests /\ request.length \in Nat /\ sent < request.length
    BY <1>2, MachineAssumption DEF SendUnit, IndInv, Ranges, Request
  <2>2. Phase' = Phase /\ sent' = sent + 1 /\ request' = request
    BY <1>2 DEF SendUnit, Phase
  <2>3. Phase # "done"
    BY <1>0, <1>2, <2>1, WholeSent DEF SendUnit, Phase, States
  <2>4. CASE Phase = "over"
    BY <2>2, <2>4 DEF Part, ServesOne
  <2>5. CASE Phase # "over"
    BY <1>0, <2>1, <2>2, <2>3, <2>5 DEF Part, ServesOne
  <2> QED
    BY <2>4, <2>5
<1>3. CASE ReadUnit \/ HangUp \/ EditFile
  <2>1. UNCHANGED <<where, state, sent, request>>
    BY <1>3 DEF ReadUnit, HangUp, EditFile
  <2> QED
    BY <2>1 DEF ServesOne, Phase, Part
<1>4. CASE startEvent
  BY <1>0, <1>4 DEF startEvent, ServesOne, Phase, Part
<1>5. CASE recvRequest
  <2>1. /\ where = "run" /\ state = "RECV" /\ state' \in {"RECV", "SEND_HEADERS"}
        /\ UNCHANGED <<where, request, sent>>
    BY <1>5 DEF recvRequest
  <2>2. CASE state' = "RECV"
    BY <2>1, <2>2 DEF ServesOne, Phase, Part
  <2>3. CASE state' = "SEND_HEADERS"
    <3>1. IndInv'
      BY NextIndInv
    <3>2. sent' = request'.length /\ request'.length \in Nat \ {0}
      BY <2>1, <2>3, <3>1, WholeSentNext
    <3>3. Phase = "recv" /\ Phase' = "send"
      BY <2>1, <2>3 DEF Phase
    <3>4. Part = "whole" /\ Part' = "whole"
      BY <2>1, <3>2, <3>3 DEF Part
    <3> QED
      BY <3>3, <3>4 DEF ServesOne
  <2> QED
    BY <2>1, <2>2, <2>3
<1>6. CASE recvClosed
  BY <1>6 DEF recvClosed, ServesOne, Phase, Part
<1>7. CASE sendStaticResponse \/ getpeernameFails
  BY <1>7 DEF sendStaticResponse, getpeernameFails, ServesOne, Phase, Part
<1>8. CASE prepareResponse \/ sendHeadersAgain
  <2>1. UNCHANGED <<where, state, sent, request>>
    BY <1>8 DEF prepareResponse, sendHeadersAgain
  <2> QED
    BY <2>1 DEF ServesOne, Phase, Part
<1>9. CASE sendResponseHeaders
  <2>1. /\ where = "run" /\ state = "SEND_HEADERS"
        /\ state' \in {"SEND_HEADERS", "SEND_BODY"}
        /\ UNCHANGED <<where, request, sent>>
    BY <1>0, <1>9 DEF sendResponseHeaders
  <2> QED
    BY <2>1 DEF ServesOne, Phase, Part
<1>10. CASE sendFails
  BY <1>0, <1>10 DEF sendFails, ServesOne, Phase, Part
<1>11. CASE sendResponseFile
  <2>1. /\ where = "run" /\ state = "SEND_BODY"
        /\ state' \in {"SEND_BODY", "DONE"}
        /\ UNCHANGED <<where, request, sent>>
    BY <1>11 DEF sendResponseFile, stateAfterBody
  <2> QED
    BY <2>1 DEF ServesOne, Phase, Part
<1>12. CASE sendNothing
  BY <1>12 DEF sendNothing, ServesOne, Phase, Part
<1>13. CASE finishKeepAlive
  BY <1>13 DEF finishKeepAlive, ServesOne, Phase, Part
<1>14. CASE finishClose
  BY <1>14 DEF finishClose, ServesOne, Phase, Part
<1>15. CASE closeConnection
  BY <1>15 DEF closeConnection, ServesOne, Phase, Part
<1>16. CASE expireConnection
  BY <1>0, <1>16 DEF expireConnection, ServesOne, Phase, Part
<1>17. CASE UNCHANGED vars
  BY <1>17 DEF vars, ServesOne, Phase, Part
<1> QED
  BY <1>1, <1>2, <1>3, <1>4, <1>5, <1>6, <1>7, <1>8, <1>9, <1>10, <1>11, <1>12,
     <1>13, <1>14, <1>15, <1>16, <1>17
     DEF Next, ClientStep, ServerStep

(* That is what a step of Exchange with a single client is.                *)
LEMMA OneClientStep ==
  ASSUME ServesOne
  PROVE  [Served!ExchangeNext]_(Served!exchangeVars)
<1> DEFINE phases == [c \in {Client} |-> Phase]
           parts  == [c \in {Client} |-> Part]
<1>1. /\ phases[Client] = Phase /\ parts[Client] = Part
      /\ \A p : [phases EXCEPT ![Client] = p] = [c \in {Client} |-> p]
      /\ \A r : [parts EXCEPT ![Client] = r] = [c \in {Client} |-> r]
  OBVIOUS
<1>2. phases' = [c \in {Client} |-> Phase'] /\ parts' = [c \in {Client} |-> Part']
  BY DEF Client
<1> QED
  BY <1>1, <1>2
     DEF ServesOne, Served!ExchangeNext, Served!exchangeVars, Served!Become,
         Served!SendPart, Served!Begin, Served!Complete, Served!Answer,
         Served!Again, Served!GiveUp

(* If malloc never returns memory with the end of an old request in it,    *)
(* handleEpoll's state machine serves its client as Exchange says: one     *)
(* response to each whole request, in order, and nothing after a close.    *)
THEOREM MachineExchange ==
  ASSUME Leftovers = {0}
  PROVE  Spec => ImplementsExchange
<1>1. Init => Served!ExchangeInit
  BY DEF Init, Served!ExchangeInit, Phase, Part
<1>2. IndInv /\ WholeRequest /\ WholeRequest' /\ [Next]_vars
        => [Served!ExchangeNext]_(Served!exchangeVars)
  BY MachineServes, OneClientStep
<1> QED
  BY <1>1, <1>2, AlwaysIndInv, WholeRequests, PTL
     DEF Spec, ImplementsExchange, Served!ExchangeSpec
=============================================================================
