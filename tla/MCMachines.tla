----------------------------- MODULE MCMachines -----------------------------
(* The bounds of the model-checked instances of six machines that share nothing *)
(* with one another: one of them is chosen at the start and runs, the others    *)
(* stay where they begin.                                                       *)
EXTENDS Naturals, FiniteSets, TLC

CONSTANTS
  Ports, MaxEffects, MaxFollows, MaxChanges,           \* Forwarding
  MaxPanes, MaxConns, MaxOutput,                       \* Terminals
  Models, None, MaxSwitches, MaxVisits,               \* ModelChoice
  MaxMessages, MaxParts,                               \* Timeline
  Versions, MaxChecks, MaxRestarts, MaxErrors, MaxQuits,   \* Updater
  Phones, MaxProcs, MaxKills,                          \* Home
  MaxFaults                                            \* Forwarding, ModelChoice

VARIABLES
  machine,       \* the machine that runs
  active, effect, born, wanted, open, release, queued, job, follow, calls,
  callback, shown, bound, toDaemon, toPhone, watched, asked, ports, changes,
  faults, clashed, broken, overtaken,
  shell, shells, written, unparsed, mirror, socket, grid, tab, pane, panes,
  conn, seen, conns, ownerOf, shellOf, closed, toClient, toServer, out,
  answers, skipped, torn, late,
  model, bus, row, pick, onScreen, sends, switches, losses, visits, passed,
  messages, parts, from, last, groups,
  status, version, interactive, record, notApplied, timers, target,
  quitting, app, checking, fetching, fetched, installing, checks, restarts,
  failures, quits, failed, taken, dropped, unwritten,
  dir, identity, identityTmp, known, lock, lockTmp, kind, phase, key,
  clients, kills, met, crossed, trusted, let

forwarding == <<active, effect, born, wanted, open, release, queued, job,
  follow, calls, callback, shown, bound, toDaemon, toPhone, watched, asked,
  ports, changes, faults, clashed, broken, overtaken>>
terminals == <<shell, shells, written, unparsed, mirror, socket, grid, tab,
  pane, panes, conn, seen, conns, ownerOf, shellOf, closed, toClient,
  toServer, out, answers, skipped, torn, late>>
models == <<model, bus, row, pick, onScreen, sends, switches, losses, visits,
  passed>>
timeline == <<messages, parts, from, last, groups>>
updates == <<status, version, interactive, record, notApplied, timers, target,
  quitting, app, checking, fetching, fetched, installing, checks, restarts,
  failures, quits, failed, taken, dropped, unwritten>>
home == <<dir, identity, identityTmp, known, lock, lockTmp, kind, phase, key,
  clients, kills, met, crossed, trusted, let>>

F == INSTANCE Forwarding
T == INSTANCE Terminals
M == INSTANCE ModelChoice
L == INSTANCE Timeline
U == INSTANCE Updater WITH MaxFaults <- MaxErrors
H == INSTANCE Home

ASSUME MachinesBounds ==
       /\ F!ForwardingBounds /\ T!TerminalsBounds /\ M!ModelChoiceBounds
       /\ L!TimelineBounds /\ U!UpdaterBounds /\ H!HomeBounds

Init ==
  /\ machine \in {"forwarding", "terminals", "model", "timeline", "updater", "home"}
  /\ F!Init /\ T!Init /\ M!Init /\ L!Init /\ U!Init /\ H!Init
  /\ machine # "forwarding" => ports = {}
  /\ machine # "model" => model = CHOOSE m \in Models : TRUE
  /\ machine # "home" => dir = "none"

Next ==
  \/ /\ machine = "forwarding" /\ F!Next
     /\ UNCHANGED <<machine, terminals, models, timeline, updates, home>>
  \/ /\ machine = "terminals" /\ T!Next
     /\ UNCHANGED <<machine, forwarding, models, timeline, updates, home>>
  \/ /\ machine = "model" /\ M!Next
     /\ UNCHANGED <<machine, forwarding, terminals, timeline, updates, home>>
  \/ /\ machine = "timeline" /\ L!Next
     /\ UNCHANGED <<machine, forwarding, terminals, models, updates, home>>
  \/ /\ machine = "updater" /\ U!Next
     /\ UNCHANGED <<machine, forwarding, terminals, models, timeline, home>>
  \/ /\ machine = "home" /\ H!Next
     /\ UNCHANGED <<machine, forwarding, terminals, models, timeline, updates>>

Spec == Init /\ [][Next]_<<machine, forwarding, terminals, models, timeline, updates, home>>

\* A machine that does not run shows the same whichever value it holds.
Symmetry == Permutations(Ports)

\* Two processes of Home begin in any interleaving; where there is a third, one begins,
\* or tells of a daemon, at a time.
FewStart ==
  \/ phase[MaxProcs] = "none"
  \/ Cardinality({p \in H!Procs : H!Alive(p) /\ phase[p] \notin {"up", "stopping", "window"}}) <= 1

-----------------------------------------------------------------------------
(* The properties of each *)

TypeOK ==
  CASE machine = "forwarding" -> F!TypeOK
    [] machine = "terminals"  -> T!TypeOK
    [] machine = "model"      -> M!TypeOK
    [] machine = "timeline"   -> L!TypeOK
    [] machine = "updater"    -> U!TypeOK
    [] machine = "home"       -> H!TypeOK

\* Forwarding: the phone, its listeners and the daemon follow the same ports
\* (port-forward.ts, daemon-client.ts).
Followed == machine = "forwarding" => F!Followed

\* Terminals: a pane and its shell are two ends of one terminal, and a query is
\* answered once (desktop/server/pty.ts).
OneTerminal == machine = "terminals" => T!OneTerminal

\* ModelChoice: once quiet, the composers show the model the session runs on, unless it
\* went past a pick (use-model-choice.ts, $sessionId.tsx).
ModelShown == machine = "model" => M!ModelShown

\* Timeline: a group keeps its key while it grows, and two share a key only where a run
\* that was named by a later item has split (transcript-rows.ts).
TimelineKept == [][L!KeepsGroups]_timeline

\* Updater: what the window and the dialogs say of an update is so (updater.ts).
UpdateTold == machine = "updater" => U!UpdateTold

\* Home: the lock tells who runs, and no pairing is lost, as long as daemons do not meet
\* in one home (daemon-lock.ts, identity.ts, known-clients.ts).
HomeKept == machine = "home" => H!HomeKept
=============================================================================
