----------------------------- MODULE MCEventLoop -----------------------------
(* Small instances of EventLoop for TLC.                                   *)
EXTENDS EventLoop, TLC

(* Threads, descriptors and clients are interchangeable.                   *)
Symmetry == Permutations(Threads) \union Permutations(Fds)
              \union Permutations(Clients)
=============================================================================
