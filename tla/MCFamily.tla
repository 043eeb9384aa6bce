------------------------------ MODULE MCFamily ------------------------------
(* The instance of Family for TLC: a session, its subagent's, and the session   *)
(* that subagent's own subagent runs in.                                        *)
EXTENDS Family

Tree == <<0, 1, 2>>
=============================================================================
