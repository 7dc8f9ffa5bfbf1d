------------------------------ MODULE MCDeque ------------------------------
(* A small Deque: three distinguishable elements, four slots. *)
EXTENDS Deque
=============================================================================
