------------------------------- MODULE MCHttp -------------------------------
(* The bounds of the model-checked instances of Http. *)
EXTENDS Http, TLC

Symmetry == Permutations(Macs)
=============================================================================
