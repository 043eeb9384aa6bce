---------------------------- MODULE MCStreaming ----------------------------
(* The bounds of the model-checked instance of Streaming. *)
EXTENDS Streaming
=============================================================================
