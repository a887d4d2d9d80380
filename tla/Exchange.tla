------------------------------ MODULE Exchange ------------------------------
(***************************************************************************)
(* What the server owes each of its clients, whatever the threads, the     *)
(* descriptors, the socket buffers and the timeouts do: requests are       *)
(* answered one after the other, a request is answered only when all of it *)
(* has been sent and only once, and a connection that is given up is never *)
(* used again.  It abstracts the states of a queue element (enum           *)
(* stateConnection) and the two ends of handleEpoll's state machine, the   *)
(* descriptor that is armed again and the one that is closed.              *)
(***************************************************************************)
CONSTANT Clients

VARIABLES
  phase,     \* client -> "idle", "recv", "send", "done" or "over"
  request    \* client -> what it has sent of a request that is not answered:
             \* "none", "partly" or "whole"

exchangeVars == <<phase, request>>

ExchangeInit ==
  /\ phase = [c \in Clients |-> "idle"]
  /\ request = [c \in Clients |-> "none"]

Become(c, p, r) ==
  /\ phase' = [phase EXCEPT ![c] = p]
  /\ request' = [request EXCEPT ![c] = r]

(* The client sends more of its request, whatever the server is doing.     *)
SendPart(c) ==
  /\ phase[c] # "over"
  /\ request[c] # "whole"
  /\ \E r \in {"partly", "whole"} : Become(c, phase[c], r)

(* An event of the connection: the server reads.                           *)
Begin(c) == phase[c] = "idle" /\ Become(c, "recv", request[c])

(* The request is complete.                                                *)
Complete(c) ==
  /\ phase[c] = "recv"
  /\ request[c] = "whole"
  /\ Become(c, "send", "whole")

(* The response is sent: the request is no longer open.                    *)
Answer(c) == phase[c] = "send" /\ Become(c, "done", "none")

(* The connection is kept alive and waits for the next request.            *)
Again(c) == phase[c] = "done" /\ Become(c, "idle", request[c])

(* The connection is given up, with the request it may have had.           *)
GiveUp(c) == phase[c] # "over" /\ Become(c, "over", "none")

ExchangeNext ==
  \E c \in Clients : \/ SendPart(c) \/ Begin(c) \/ Complete(c)
                     \/ Answer(c) \/ Again(c) \/ GiveUp(c)

ExchangeSpec == ExchangeInit /\ [][ExchangeNext]_exchangeVars
=============================================================================
