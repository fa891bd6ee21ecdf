--------------------------- MODULE MCStopPipeline ---------------------------
(* Two sandboxes share a channel with room for one signal. *)
EXTENDS StopPipeline
=============================================================================
