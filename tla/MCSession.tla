----------------------------- MODULE MCSession -----------------------------
(* Small proxies.  Sessions can be exchanged for each other, and so can      *)
(* connections: the runs without liveness take them as symmetric.            *)
EXTENDS Session, TLC

Symmetry == Permutations(Sessions) \cup Permutations(Conns)
=============================================================================
