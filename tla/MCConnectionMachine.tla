------------------------- MODULE MCConnectionMachine -------------------------
(* Small instances of ConnectionMachine for TLC.  The request line is two  *)
(* units long, headers are two more.                                       *)
EXTENDS ConnectionMachine

Page(keep, zip, size) ==
  [kind |-> "page", length |-> 4, headers |-> TRUE, keepAlive |-> keep,
   gzip |-> zip, body |-> size, directory |-> FALSE]

(* A request line and nothing else, as src/tests/request.c sends it.       *)
Bare(what, size) ==
  [kind |-> what, length |-> 2, headers |-> FALSE, keepAlive |-> FALSE,
   gzip |-> FALSE, body |-> size, directory |-> FALSE]

(* Pages with headers, kept alive or not, compressed or not.               *)
Pages == {Page(TRUE, FALSE, 3), Page(TRUE, TRUE, 3), Page(FALSE, FALSE, 1)}

(* What is answered without a page.                                        *)
Others == {Bare("hello", 0), Bare("protocol", 0), Bare("bad", 0)}

(* A request that does not fit into a buffer of five units.                *)
Long == [Page(TRUE, FALSE, 1) EXCEPT !.length = 6]

(* A directory, sent as it is or compressed.                               *)
Directories ==
  {[Page(TRUE, zip, 2) EXCEPT !.directory = TRUE] : zip \in BOOLEAN}

MixedRequests ==
  Pages \union Others \union Directories
    \union {Page(TRUE, FALSE, 0), Bare("page", 3), Long}

BareRequests == {Page(TRUE, FALSE, 3), Bare("page", 3)}
=============================================================================
