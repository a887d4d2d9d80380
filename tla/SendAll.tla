------------------------------ MODULE SendAll ------------------------------
(***************************************************************************)
(* sendAll of src/src/helper.c, which sends the answers that are templates *)
(* (bad request, /hello) over a socket that does not block.  Every turn of *)
(* its loop sends from the beginning of the buffer, and what is left is a  *)
(* size_t.                                                                 *)
(***************************************************************************)
EXTENDS Worker

CONSTANTS
  Count,         \* length of the template, in units
  SIZE,          \* 2^(bits of size_t), in units
  MaxDelivered   \* bound on what a socket takes before it would block

ASSUME SendAllAssumption ==
  /\ Count \in Nat \ {0}
  /\ SIZE \in Nat /\ SIZE > Count
  /\ MaxDelivered \in Nat

VARIABLES
  leftToWrite,   \* thread -> its local variable
  delivered,     \* thread -> units its socket has taken of the answer
  short          \* history: thread -> one of its sends was a partial one

sendAllVars == <<leftToWrite, delivered, short>>

SendAllInit ==
  /\ leftToWrite = [t \in Threads |-> Count]
  /\ delivered = [t \in Threads |-> 0]
  /\ short = [t \in Threads |-> FALSE]

SendAllTypeOK ==
  /\ leftToWrite \in [Threads -> 0 .. (SIZE - 1)]
  /\ delivered \in [Threads -> 0 .. MaxDelivered]
  /\ short \in [Threads -> BOOLEAN]

(* leftToWrite -= written, unsigned.                                       *)
LeftAfter_Same(left, written) == left

LeftAfter(left, written) == (left - written + SIZE) % SIZE

(* A turn of the loop: send() takes some of the Count units.               *)
sendAll(t) ==
  /\ pc[t] = "sendAll"
  /\ leftToWrite[t] > 0
  /\ \E written \in 1 .. Count :
       /\ delivered[t] + written <= MaxDelivered
       /\ delivered' = [delivered EXCEPT ![t] = @ + written]
       /\ leftToWrite' = [leftToWrite EXCEPT ![t] = LeftAfter(@, written)]
       /\ short' = [short EXCEPT ![t] = @ \/ written < Count]
  /\ UNCHANGED workerVars

(* sendAll returns: all was written, the socket would block or the client  *)
(* has gone.  The caller does not look at which.                           *)
sendAllReturn(t) ==
  /\ pc[t] = "sendAll"
  /\ Go(t, "log")
  /\ UNCHANGED <<request, sendAllVars>>

SendAllStep(t) == sendAll(t) \/ sendAllReturn(t)

-----------------------------------------------------------------------------
(* A client gets a template at most once, and whole or not at all, unless  *)
(* a send took only a part of it; and when the loop ends by itself, what   *)
(* the client got is the template up to multiples of size_t's range        *)
(* (helper.c:134-150).                                                     *)
TemplateOnce ==
  \A t \in Threads :
    /\ delivered[t] \notin {0, Count} => short[t]
    /\ leftToWrite[t] = 0 => delivered[t] % SIZE = Count
=============================================================================
