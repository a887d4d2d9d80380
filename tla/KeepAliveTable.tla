---------------------------- MODULE KeepAliveTable ----------------------------
(***************************************************************************)
(* What a worker's connection queue promises to the event loop, with the   *)
(* heap taken away: a table that gives, for every client descriptor in the *)
(* queue, the second at which its keep-alive period started.  The heap of  *)
(* ConnectionQueue is shown to implement it.                               *)
(***************************************************************************)
EXTENDS Integers

CONSTANTS
  Fds,      \* client descriptors
  MaxTime   \* bound on the clock

VARIABLES
  table,    \* table[fd]: start of the keep-alive period, or Absent
  now       \* what time(NULL) returns

tableVars == <<table, now>>

Absent == -1

TableInit ==
  /\ table = [fd \in Fds |-> Absent]
  /\ now = 0

(* A first request on fd starts its keep-alive period.                     *)
Open(fd) ==
  /\ table[fd] = Absent
  /\ table' = [table EXCEPT ![fd] = now]
  /\ UNCHANGED now

(* A response completed with keep-alive restarts the period.               *)
Refresh(fd) ==
  /\ table[fd] # Absent
  /\ table' = [table EXCEPT ![fd] = now]
  /\ UNCHANGED now

(* The connection is closed, by the worker or by its timeout.              *)
Close(fd) ==
  /\ table[fd] # Absent
  /\ table' = [table EXCEPT ![fd] = Absent]
  /\ UNCHANGED now

Pass ==
  /\ now < MaxTime
  /\ now' = now + 1
  /\ UNCHANGED table

TableNext ==
  \/ \E fd \in Fds : Open(fd) \/ Refresh(fd) \/ Close(fd)
  \/ Pass

TableSpec == TableInit /\ [][TableNext]_tableVars
=============================================================================
