------------------------------ MODULE MCPeers ------------------------------
(* The bounds of the model-checked instance of Peers: a phone that is paired    *)
(* and outdated, and one that is neither.                                       *)
EXTENDS Peers
=============================================================================
