----------------------------- MODULE MCPrompts -----------------------------
(* The bounds of the model-checked instance of Prompts. *)
EXTENDS Prompts
=============================================================================
