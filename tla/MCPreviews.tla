----------------------------- MODULE MCPreviews -----------------------------
(* The bounds of the model-checked instance of Previews. *)
EXTENDS Previews

\* What TLC explores: two servers as long as nobody watches the ports, with three
\* commands, two at a time, as long as nothing fails and no client watches, two commands
\* with one failure, and one command with two, or two once an unload has been cut short;
\* and one server with one call at a time, its ports looked up.
Unwatched == "ports" \notin watchers /\ ~scan.on /\ open = {}
OneCommand == Cardinality({i \in DOMAIN calls : calls[i].kind # "rebuild"}) <= 1
OneServerOnly == Len(calls) <= 1 /\ \A s \in Shells \ {1} : svc[s] = "none"
Focus ==
  \/ Unwatched /\ faults = 0 /\ watchers = {}
  \/ Unwatched /\ OneCommand /\ commands <= 2 /\ faults <= 1
  \/ Unwatched /\ OneCommand /\ watchers = {} /\ (commands <= 1 \/ (commands <= 2 /\ cut # {}))
  \/ OneServerOnly /\ commands + faults <= 2
=============================================================================
