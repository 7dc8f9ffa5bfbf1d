--------------------------- MODULE MCLinearDecay ---------------------------
(* Three tiers, two tokens; half a token is forgiven by a success. *)
EXTENDS LinearDecay
=============================================================================
