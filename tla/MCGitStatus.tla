---------------------------- MODULE MCGitStatus ----------------------------
(* The bounds of the model-checked instance of GitStatus. *)
EXTENDS GitStatus
=============================================================================
