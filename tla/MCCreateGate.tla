---------------------------- MODULE MCCreateGate ----------------------------
(* Two creates and a start of one user beside the settler. *)
EXTENDS CreateGate
=============================================================================
