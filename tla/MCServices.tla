----------------------------- MODULE MCServices -----------------------------
(* Small instances of Services for TLC.                                    *)
EXTENDS Services

(* One client takes gzip, one sends a request line alone, as               *)
(* src/tests/request.c does, and one request is refused and answered with  *)
(* a template.                                                             *)
SomeRequests ==
  {[kind |-> "file", headers |-> <<"gzip", "host">>],
   [kind |-> "file", headers |-> <<>>],
   [kind |-> "bad", headers |-> <<>>]}

GzipRequests == {[kind |-> "file", headers |-> <<"gzip">>]}

Symmetry == Permutations(Threads)
=============================================================================
