------------------------------ MODULE Previews ------------------------------
(***************************************************************************)
(* The servers the agent starts in one project, as the daemon keeps them:  *)
(* PreviewRegistry (daemon/src/preview/registry.ts) with the PreviewHost   *)
(* (host.ts) and the client MCP connection (mcp-connection.ts) that keep   *)
(* it in step with opencode.  opencode owns the shells; the registry only  *)
(* knows what it is told (shell.exited) and what it asks (shell.get).      *)
(*                                                                         *)
(* An entry is named by its shell, since every start makes a new shell and *)
(* a new entry.  What a server listens on is one bit: its ports are open.  *)
(* opencode, the processes and the clients are external.                   *)
(***************************************************************************)
EXTENDS Naturals, Sequences, FiniteSets, SequencesExt

CONSTANTS
  Names,         \* names of servers
  PortChecks,    \* looks at the ports scheduled by a start: 4 in the code
  MaxListens,    \* bound: shells that listen on a port
  MaxShells,     \* bound: shells made
  MaxCalls,      \* bound: calls under way at a time
  MaxCommands,   \* bound: what the agent and the clients do
  MaxFaults      \* bound: failed requests, restarts and unloads

ASSUME PreviewsBounds ==
  /\ PortChecks \in Nat /\ MaxListens \in Nat /\ MaxShells \in Nat \ {0} /\ MaxCalls \in Nat \ {0}
  /\ MaxCommands \in Nat /\ MaxFaults \in Nat

Shells == 1 .. MaxShells
Causes == {"stopped", "process", "external", "unloaded"}

VARIABLES
  dir,           \* dirs: the entry of each name, 0 if none
  entry,         \* the entry of each shell: none, running or why it ended
  ports,         \* entries whose ports were seen
  stopping,      \* stopping: who is ending each shell, "no" if nobody
  calls,         \* calls under way, in the order they came
  scan,          \* the port check in progress, and the one queued behind it
  checks,        \* port checks scheduled by starts
  ticking,       \* ports are looked up every few seconds
  forwarded,     \* lastPorts: the servers whose ports are forwarded
  unload,        \* the unload under way
  saved,         \* the state file: the running entries
  mcp,           \* the connection of the directory: none, connecting or up
  up,            \* the event stream is connected
  bus,           \* events on their way
  watchers,      \* what clients watch: the servers, the forward ports
  shown,         \* what the client that watches the servers sees
  svc,           \* opencode: each shell
  named,         \* opencode: the name each shell was made for
  open,          \* shells whose processes listen
  commands, faults,
  missed,        \* history: exits that no event and no re-check reports
  orphans,       \* history: shells given up while their processes lived
  cut,           \* history: shells whose unload the end of the daemon cut short
  untold,        \* history: ends found by a call that pushes nothing
  unscanned      \* history: ends after which no port check was made

registryVars == <<dir, entry, ports, saved, shown>>
scanVars == <<scan, checks, ticking, forwarded>>
hostVars == <<unload, mcp, up, bus>>
serviceVars == <<svc, named, open>>
historyVars == <<missed, orphans, cut, untold, unscanned>>
vars == <<registryVars, stopping, calls, scanVars, hostVars, watchers, serviceVars,
          commands, faults, historyVars>>

\* A shell opencode still finds, one only the old instance holds, one whose
\* children outlived it, and one that is gone.
ShellStates == {"none", "running", "exited", "killed", "held", "left", "gone"}
Answers == {"no", "asked", "running", "exited", "killed", "null"}
Views == [shell : 0 .. MaxShells, as : {"none", "running"} \cup Causes, ports : BOOLEAN]
NoScan == [on |-> FALSE, again |-> FALSE, found |-> {}]
NoUnload == [phase |-> "no", shells |-> {}, tree |-> FALSE]
Unseen == [n \in Names |-> [shell |-> 0, as |-> "none", ports |-> FALSE]]
Locked == {"start", "stop"}
Kinds == Locked \cup {"logs", "list", "snapshot", "peek", "rebuild"}
Calls == [kind : Kinds, name : Names, shell : 0 .. MaxShells,
          phase : {"wait", "check", "all", "create", "made", "look", "remove", "removed",
                   "scan", "queued"},
          got : [Shells -> Answers], before : [Shells -> {"none", "running"} \cup Causes],
          seen : SUBSET Shells]

TypeOK ==
  /\ dir \in [Names -> 0 .. MaxShells]
  /\ entry \in [Shells -> {"none", "running"} \cup Causes]
  /\ ports \subseteq Shells
  /\ stopping \in [Shells -> {"no", "stopped", "unloaded"}]
  /\ calls \in Seq(Calls) /\ Len(calls) <= MaxCalls
  /\ scan \in [on : BOOLEAN, again : BOOLEAN, found : SUBSET Shells]
  /\ checks \in 0 .. PortChecks * MaxShells /\ ticking \in BOOLEAN /\ forwarded \subseteq Shells
  /\ unload \in [phase : {"no", "tree", "exit"}, shells : SUBSET Shells, tree : BOOLEAN]
  /\ saved \in [Names -> 0 .. MaxShells]
  /\ mcp \in {"none", "connecting", "up"} /\ up \in BOOLEAN
  /\ bus \in Seq([of : 0 .. MaxShells, as : {"exited", "killed", "shutdown"}])
  /\ watchers \subseteq {"servers", "ports"} /\ shown \in [Names -> Views]
  /\ svc \in [Shells -> ShellStates] /\ named \in [Shells -> Names] /\ open \subseteq Shells
  /\ commands \in 0 .. MaxCommands /\ faults \in 0 .. MaxFaults
  /\ missed \subseteq Shells /\ orphans \subseteq Shells /\ cut \subseteq Shells
  /\ untold \subseteq Shells /\ unscanned \subseteq Shells

Init ==
  /\ dir = [n \in Names |-> 0] /\ entry = [s \in Shells |-> "none"] /\ ports = {}
  /\ stopping = [s \in Shells |-> "no"] /\ calls = <<>>
  /\ scan = NoScan /\ checks = 0 /\ ticking = FALSE /\ forwarded = {}
  /\ unload = NoUnload /\ saved = dir /\ mcp = "none" /\ up = FALSE /\ bus = <<>>
  /\ watchers = {} /\ shown = Unseen
  /\ svc = [s \in Shells |-> "none"] /\ named \in [Shells -> Names] /\ open = {}
  /\ commands = 0 /\ faults = 0
  /\ missed = {} /\ orphans = {} /\ cut = {} /\ untold = {} /\ unscanned = {}

-----------------------------------------------------------------------------
(* What one step of the registry does besides its own *)

Command == commands < MaxCommands /\ commands' = commands + 1 /\ UNCHANGED faults
Fault == faults < MaxFaults /\ faults' = faults + 1 /\ UNCHANGED commands

Entries == {dir[n] : n \in Names} \ {0}
Running(e) == {s \in Shells : e[s] = "running"}
Listening == {"running", "held"}
Serve(f) == svc' = f /\ open' = {s \in open : f[s] \in Listening}
Alive(s) == svc[s] \in {"running", "held", "left"}

\* current(): the snapshot of the directory's servers.
View == [n \in Names |-> [shell |-> dir[n], ports |-> dir[n] \in ports,
                          as |-> IF dir[n] = 0 THEN "none" ELSE entry[dir[n]]]]

\* watch(): ports are looked up regularly while someone looks and one runs.
Wanted(w, e) == w # {} /\ Running(e) # {}
Starts(w, e) == IF Wanted(w, e) /\ ~ticking THEN 1 ELSE 0

\* The entries become e; changed() saves and pushes them, sent answers the
\* client that asked.  Nothing pushes the entries in quiet.
Tell(e, changed, sent, quiet) ==
  /\ entry' = e
  /\ saved' = IF changed THEN [n \in Names |-> IF dir'[n] \in Running(e) THEN dir'[n] ELSE 0]
              ELSE saved
  /\ ticking' = IF changed THEN Wanted(watchers, e) ELSE ticking
  /\ shown' = IF sent \/ (changed /\ "servers" \in watchers) THEN View' ELSE shown
  /\ untold' = IF changed \/ sent \/ "servers" \notin watchers THEN {} ELSE untold \cup quiet

\* scan(): ps and lsof, which read the ports of the running servers as it begins.
Scanning(e, again) == [on |-> TRUE, again |-> again, found |-> Running(e) \cap open]

\* checkPorts(), called k times: one scan at a time, one more queued behind it.
\* No check follows the end of the entries in unseen.
CheckPorts(k, e, unseen) ==
  /\ scan' = CASE k = 0 -> scan
               [] k > 0 /\ scan.on -> [scan EXCEPT !.again = TRUE]
               [] OTHER -> Scanning(e, k > 1)
  /\ unscanned' = IF k > 0 THEN {}
                  ELSE unscanned \cup (forwarded \cap unseen)

Ended(e) == Running(entry) \ Running(e)
Step(e, k, changed, sent, quiet, unseen) ==
  /\ Tell(e, changed, sent, quiet)
  /\ CheckPorts(k + (IF changed THEN Starts(watchers, e) ELSE 0), e, unseen)

\* Mutant: an end is always somebody's stop.
Cause_StopperOnly(s, as) == stopping[s]
Cause(s, as) ==
  IF stopping[s] # "no" THEN stopping[s] ELSE IF as = "exited" THEN "process" ELSE "external"

\* refresh(): an answer other than "running" ends the entry, whatever became of
\* it since it was asked.
Refreshed(s, answer) ==
  IF answer = "running" THEN entry ELSE [entry EXCEPT ![s] = Cause(s, answer)]

\* Ending the entry of a server whose processes live on, unless an unload
\* that ends them is under way.
GivenUp(e) ==
  orphans' = orphans \cup {s \in Shells : Alive(s) /\ entry[s] = "running" /\ e[s] # "running"
                                         /\ s \notin unload.shells}

-----------------------------------------------------------------------------
(* Calls *)

Nothing == [s \in Shells |-> "no"]
NewCall(kind, n) ==
  [kind |-> kind, name |-> n, shell |-> 0, phase |-> "wait", got |-> Nothing,
   before |-> [s \in Shells |-> "none"], seen |-> {}]
Asking(c, s, phase) == [c EXCEPT !.shell = s, !.phase = phase, !.got[s] = "asked"]
Put(i, c) == calls' = [calls EXCEPT ![i] = c]
Finish(i) == calls' = RemoveAt(calls, i)
Room == Len(calls) < MaxCalls

\* refreshAll(): every entry is asked about at once.
AskAll(kind) ==
  [NewCall(kind, CHOOSE n \in Names : TRUE) EXCEPT
     !.phase = "all",
     !.got = [s \in Shells |-> IF s \in Entries \cap Running(entry) THEN "asked" ELSE "no"],
     !.before = [s \in Shells |-> IF s \in Entries THEN entry[s] ELSE "none"],
     !.seen = ports \cap Entries]

\* A call that waits for ports waits for a scan that starts after it.
AwaitScan(i, busy) == Put(i, [calls[i] EXCEPT !.got = Nothing,
                                              !.phase = IF busy THEN "queued" ELSE "scan"])

\* Mutant: calls are not made to wait.
Unlocked_Always(i) == i \in DOMAIN calls
\* server_start and stop of one name run one after the other (locked()).
Unlocked(i) ==
  \A j \in 1 .. i - 1 : ~(calls[j].kind \in Locked /\ calls[j].name = calls[i].name)

Made == {s \in Shells : svc[s] # "none"}
Starting ==
  {i \in DOMAIN calls : calls[i].kind = "start" /\ calls[i].phase \in {"wait", "check", "create"}}

\* The agent calls through the client MCP connection.
Start(n) ==
  /\ Command /\ Room /\ mcp = "up" /\ Cardinality(Made) + Cardinality(Starting) < MaxShells
  /\ calls' = Append(calls, NewCall("start", n))
  /\ UNCHANGED <<registryVars, stopping, scanVars, hostVars, watchers, serviceVars, historyVars>>

Stop(n) ==
  /\ Command /\ Room
  /\ calls' = Append(calls, NewCall("stop", n))
  /\ UNCHANGED <<registryVars, stopping, scanVars, hostVars, watchers, serviceVars, historyVars>>

Logs(n) ==
  /\ Command /\ Room /\ mcp = "up" /\ dir[n] # 0
  /\ UNCHANGED <<registryVars, stopping, hostVars, watchers, serviceVars, missed, orphans, cut,
                 untold, checks, ticking, forwarded>>
  /\ \/ /\ entry[dir[n]] = "running"
        /\ calls' = Append(calls, Asking(NewCall("logs", n), dir[n], "check"))
        /\ UNCHANGED <<scan, unscanned>>
     \/ /\ entry[dir[n]] # "running"
        /\ calls' = Append(calls, [NewCall("logs", n) EXCEPT
                                      !.phase = IF scan.on THEN "queued" ELSE "scan"])
        /\ CheckPorts(1, entry, {})

\* server_list by the agent, getPreviews by a client.
Look(kind) ==
  /\ Command /\ Room /\ (kind = "list" => mcp = "up")
  /\ calls' = Append(calls, AskAll(kind))
  /\ UNCHANGED <<registryVars, stopping, scanVars, hostVars, watchers, serviceVars, historyVars>>

\* A queued call whose turn it is looks at the entry of its name.
StartTurn(i) ==
  LET c == calls[i]  s == dir[c.name]
  IN /\ c.kind = "start" /\ c.phase = "wait" /\ Unlocked(i)
     /\ \/ s # 0 /\ entry[s] = "running" /\ Put(i, Asking(c, s, "check"))
        \/ /\ s \in Shells => entry[s] # "running"
           /\ Put(i, [c EXCEPT !.phase = "create"]) \/ Finish(i)
     /\ UNCHANGED <<registryVars, stopping, scanVars, hostVars, watchers, serviceVars, commands,
                    faults, historyVars>>

StopTurn(i) ==
  LET c == calls[i]  s == dir[c.name]
  IN /\ c.kind = "stop" /\ c.phase = "wait" /\ Unlocked(i)
     /\ IF s # 0 /\ entry[s] = "running" THEN Put(i, Asking(c, s, "check")) ELSE Finish(i)
     /\ UNCHANGED <<registryVars, stopping, scanVars, hostVars, watchers, serviceVars, commands,
                    faults, historyVars>>

Answered(i, s) == calls[i].got[s] \notin {"no", "asked"}

\* The check of one entry came back: a start of a running server is done, a stop
\* of one goes on, and whichever found it ended tells no client.
Checked(i) ==
  LET c == calls[i]  s == c.shell  e == Refreshed(s, c.got[s])
  IN /\ c.phase = "check" /\ Answered(i, s)
     /\ \/ /\ c.kind = "start" /\ UNCHANGED stopping
           /\ IF e[s] = "running" THEN Finish(i)
              ELSE Put(i, [c EXCEPT !.phase = "create", !.got = Nothing]) \/ Finish(i)
        \/ /\ c.kind = "stop"
           /\ IF e[s] = "running"
              THEN /\ stopping' = [stopping EXCEPT ![s] = "stopped"]
                   /\ Put(i, [c EXCEPT !.phase = "remove", !.got = Nothing])
              ELSE Finish(i) /\ UNCHANGED stopping
        \/ c.kind = "logs" /\ AwaitScan(i, scan.on) /\ UNCHANGED stopping
     /\ UNCHANGED <<dir, ports>> /\ GivenUp(e)
     /\ Step(e, IF c.kind = "logs" THEN 1 ELSE 0, FALSE, FALSE, {t \in Shells : e[t] # entry[t]},
             Ended(e))
     /\ UNCHANGED <<checks, forwarded, hostVars, watchers, serviceVars, commands, faults, missed,
                    cut>>

\* The shell exists: it takes over its name, whatever the entry before it was.
Created(i) ==
  LET c == calls[i]  s == c.shell
  IN /\ c.phase = "made"
     /\ dir' = [dir EXCEPT ![c.name] = s] /\ UNCHANGED ports
     /\ Step([entry EXCEPT ![s] = "running"], 0, TRUE, FALSE, {}, {})
     /\ checks' = checks + PortChecks
     /\ Put(i, [c EXCEPT !.phase = "look"])
     /\ UNCHANGED <<stopping, forwarded, hostVars, watchers, serviceVars, commands, faults,
                    missed, orphans, cut>>

\* The create fails, or made a shell nobody here hears of.
CreateFailed(i) ==
  /\ calls[i].phase \in {"create", "made"} /\ Fault /\ Finish(i)
  /\ orphans' = orphans \cup {s \in {calls[i].shell} \ {0} : Alive(s)}
  /\ UNCHANGED <<registryVars, stopping, scanVars, hostVars, watchers, serviceVars, missed, cut,
                 untold, unscanned>>

\* A start looks at its shell for a while before it answers.
LookAgain(i) ==
  /\ calls[i].phase = "look" /\ calls[i].got = Nothing /\ entry[calls[i].shell] = "running"
  /\ Put(i, Asking(calls[i], calls[i].shell, "look"))
  /\ UNCHANGED <<registryVars, stopping, scanVars, hostVars, watchers, serviceVars, commands,
                 faults, historyVars>>

Looked(i) ==
  LET c == calls[i]  s == c.shell
      e == IF c.got[s] = "no" THEN entry ELSE Refreshed(s, c.got[s])
  IN /\ c.phase = "look" /\ c.got[s] # "asked" /\ (c.got[s] = "no" => entry[s] # "running")
     /\ UNCHANGED <<dir, ports>> /\ GivenUp(e)
     /\ \/ e[s] # "running" /\ Finish(i) /\ Step(e, 0, TRUE, FALSE, {}, Ended(e))
        \/ /\ e[s] = "running"
           /\ \/ Put(i, [c EXCEPT !.got = Nothing]) /\ Step(e, 0, FALSE, FALSE, {}, {})
              \/ AwaitScan(i, scan.on) /\ Step(e, 1, FALSE, FALSE, {}, {})
     /\ UNCHANGED <<stopping, checks, forwarded, hostVars, watchers, serviceVars, commands, faults,
                    missed, cut>>

\* The removal is answered, or refused, and the wait for the ports is over.
\* The entry ends as stopped, also when something else ended it meanwhile.
StopDone(i) ==
  LET s == calls[i].shell  e == [entry EXCEPT ![s] = "stopped"]
  IN /\ calls[i].phase = "removed" /\ Finish(i)
     /\ stopping' = [stopping EXCEPT ![s] = "no"]
     /\ UNCHANGED <<dir, ports>> /\ GivenUp(e)
     /\ Step(e, 1, TRUE, FALSE, {}, {})
     /\ UNCHANGED <<checks, forwarded, hostVars, watchers, serviceVars, commands, faults, missed,
                    cut>>

\* One of refreshAll()'s answers.
OneBack(i, s) ==
  /\ calls[i].phase = "all" /\ Answered(i, s)
  /\ Put(i, [calls[i] EXCEPT !.got[s] = "no"])
  /\ UNCHANGED <<dir, ports>> /\ GivenUp(Refreshed(s, calls[i].got[s]))
  /\ Step(Refreshed(s, calls[i].got[s]), 0, FALSE, FALSE, {},
          IF calls[i].kind \in {"snapshot", "peek"} THEN Ended(Refreshed(s, calls[i].got[s]))
          ELSE {})
  /\ UNCHANGED <<stopping, checks, forwarded, hostVars, watchers, serviceVars, commands, faults,
                 missed, cut>>

\* refreshAll() has all of them: what changed since it began is pushed.
AllBack(i) ==
  LET c == calls[i]
      of == {s \in Shells : c.before[s] # "none"}
      differs == \E s \in of : entry[s] # c.before[s] \/ (s \in ports) # (s \in c.seen)
      k == IF c.kind = "rebuild" \/ (c.kind = "list" /\ of # {}) THEN 1 ELSE 0
  IN /\ c.phase = "all" /\ c.got = Nothing
     /\ IF c.kind = "list" /\ of # {}
        THEN AwaitScan(i, scan.on \/ (differs /\ Starts(watchers, entry) = 1))
        ELSE Finish(i)
     /\ UNCHANGED <<dir, ports>>
     /\ Step(entry, k, differs, c.kind = "snapshot", {}, {})
     /\ UNCHANGED <<stopping, checks, forwarded, hostVars, watchers, serviceVars, commands, faults,
                    missed, orphans, cut>>

-----------------------------------------------------------------------------
(* Ports *)

\* The scan is back: the ports of those still running.  The calls that waited
\* for it go on, the check queued behind it starts.
ScanBack(failed) ==
  LET found == {s \in scan.found : entry[s] = "running"}
      moved == found \ ports
  IN /\ scan.on
     /\ IF failed
        THEN /\ Fault /\ UNCHANGED <<registryVars, ticking, forwarded, untold>>
             /\ unscanned' = unscanned \cup (forwarded \ Running(entry))
        ELSE /\ ports' = ports \cup found /\ forwarded' = found /\ UNCHANGED dir
             /\ Tell(entry, moved # {}, FALSE, {})
             /\ unscanned' = {} /\ UNCHANGED <<commands, faults>>
     /\ scan' = IF scan.again \/ (moved # {} /\ Starts(watchers, entry) = 1)
                THEN Scanning(entry, FALSE) ELSE NoScan
     /\ LET waiting == SelectSeq(calls, LAMBDA c : c.phase # "scan")
        IN calls' = [j \in DOMAIN waiting |-> IF waiting[j].phase = "queued"
                                              THEN [waiting[j] EXCEPT !.phase = "scan"]
                                              ELSE waiting[j]]
     /\ UNCHANGED <<stopping, checks, hostVars, watchers, serviceVars, missed, orphans, cut>>

\* The checks scheduled by a start, and those made while someone watches.
TimedCheck ==
  /\ \/ checks > 0 /\ checks' = checks - 1
     \/ ticking /\ UNCHANGED checks
  /\ CheckPorts(1, entry, {})
  /\ UNCHANGED <<registryVars, stopping, calls, ticking, forwarded, hostVars, watchers, serviceVars,
                 commands, faults, missed, orphans, cut, untold>>

-----------------------------------------------------------------------------
(* Clients *)

\* subscribe(), which attaches the directory, and the snapshot behind it.
Watch ==
  /\ "servers" \notin watchers /\ Room
  /\ watchers' = watchers \cup {"servers"}
  /\ ticking' = Wanted(watchers', entry) /\ CheckPorts(Starts(watchers', entry), entry, {})
  /\ mcp' = IF mcp = "none" THEN "connecting" ELSE mcp
  /\ calls' = Append(calls, AskAll("snapshot"))
  /\ UNCHANGED <<registryVars, stopping, checks, forwarded, unload, up, bus, serviceVars, commands,
                 faults, missed, orphans, cut, untold>>

WatchPorts ==
  /\ "ports" \notin watchers /\ Command
  /\ watchers' = watchers \cup {"ports"}
  /\ ticking' = Wanted(watchers', entry) /\ CheckPorts(1 + Starts(watchers', entry), entry, {})
  /\ UNCHANGED <<registryVars, stopping, calls, checks, forwarded, hostVars, serviceVars, missed,
                 orphans, cut, untold>>

\* A client leaves; the answer to its snapshot goes nowhere.
Unwatch(what) ==
  /\ what \in watchers /\ Command
  /\ watchers' = watchers \ {what}
  /\ ticking' = Wanted(watchers', entry)
  /\ IF what = "ports" THEN UNCHANGED <<calls, shown>>
     ELSE /\ shown' = Unseen
          /\ calls' = [i \in DOMAIN calls |-> IF calls[i].kind = "snapshot"
                                              THEN [calls[i] EXCEPT !.kind = "peek"] ELSE calls[i]]
  /\ UNCHANGED <<dir, entry, ports, stopping, saved, scan, checks, forwarded, hostVars, serviceVars,
                 historyVars>>

-----------------------------------------------------------------------------
(* PreviewHost *)

\* opencode created a session here, or a client looks: attach().
SessionCreated ==
  /\ mcp = "none" /\ up /\ mcp' = "connecting"
  /\ UNCHANGED <<registryVars, stopping, calls, scanVars, unload, up, bus, watchers, serviceVars,
                 commands, faults, historyVars>>

\* Each time the connection comes up the entries are checked again.
McpReady ==
  /\ mcp = "connecting" /\ Room /\ mcp' = "up"
  /\ calls' = Append(calls, AskAll("rebuild"))
  /\ UNCHANGED <<registryVars, stopping, scanVars, unload, up, bus, watchers, serviceVars, commands,
                 faults, historyVars>>

StreamUp ==
  /\ ~up /\ up' = TRUE
  /\ UNCHANGED <<registryVars, stopping, calls, scanVars, unload, mcp, bus, watchers, serviceVars,
                 commands, faults, historyVars>>

\* Mutant: an exit is not followed by a port check.
OnExited_NoCheck ==
  /\ bus # <<>> /\ Head(bus).as # "shutdown" /\ bus' = Tail(bus)
  /\ LET s == Head(bus).of
     IN IF entry[s] = "running"
        THEN /\ UNCHANGED <<dir, ports>>
             /\ Step([entry EXCEPT ![s] = Cause(s, Head(bus).as)], 0, TRUE, FALSE, {}, {})
        ELSE UNCHANGED <<registryVars, ticking, scan, untold, unscanned>>
  /\ UNCHANGED <<stopping, calls, checks, forwarded, unload, mcp, up, watchers, serviceVars,
                 commands, faults, missed, orphans, cut>>
\* shell.exited ends the entry that still runs on that shell, if there is one.
OnExited ==
  /\ bus # <<>> /\ Head(bus).as # "shutdown" /\ bus' = Tail(bus)
  /\ LET s == Head(bus).of
     IN IF entry[s] = "running"
        THEN /\ UNCHANGED <<dir, ports>>
             /\ Step([entry EXCEPT ![s] = Cause(s, Head(bus).as)], 1, TRUE, FALSE, {}, {})
        ELSE UNCHANGED <<registryVars, ticking, scan, untold, unscanned>>
  /\ UNCHANGED <<stopping, calls, checks, forwarded, unload, mcp, up, watchers, serviceVars,
                 commands, faults, missed, orphans, cut>>

\* location.shutdown: the connection is given up and every running server marked,
\* then their process trees are read.
OnShutdown ==
  /\ bus # <<>> /\ Head(bus).as = "shutdown" /\ bus' = Tail(bus) /\ unload.phase = "no"
  /\ mcp' = "none"
  /\ unload' = [NoUnload EXCEPT !.phase = "tree", !.shells = Running(entry)]
  /\ stopping' = [s \in Shells |-> IF s \in Running(entry) THEN "unloaded" ELSE stopping[s]]
  /\ UNCHANGED <<registryVars, calls, scanVars, up, watchers, serviceVars, commands, faults,
                 historyVars>>

\* The trees are known, or not; the old instance is let go of and its shells
\* die, some leaving children behind, those of a server that became an entry
\* since the mark among them.  A client that watches is served again.
LetGo(known) ==
  /\ unload.phase = "tree"
  /\ unload' = [unload EXCEPT !.phase = "exit", !.tree = known]
  /\ mcp' = IF mcp = "none" /\ "servers" \in watchers THEN "connecting" ELSE mcp
  /\ \E left \in SUBSET {s \in Shells : svc[s] = "held"} :
       /\ Serve([s \in Shells |-> CASE s \in left -> "left"
                                     [] svc[s] = "held" /\ s \notin left -> "gone"
                                     [] OTHER -> svc[s]])
       /\ orphans' = orphans \cup (IF known THEN left \ unload.shells ELSE left)
  /\ UNCHANGED <<registryVars, stopping, calls, scanVars, up, bus, watchers, named, commands,
                 faults, missed, cut, untold, unscanned>>

\* What is left of the trees is killed and what still runs ends as unloaded.
UnloadDone ==
  LET killed == {s \in unload.shells : svc[s] = "running"}
      e == [s \in Shells |-> IF s \in unload.shells /\ entry[s] = "running" THEN "unloaded"
                             ELSE entry[s]]
  IN /\ unload.phase = "exit" /\ unload' = NoUnload
     /\ Serve([s \in Shells |->
                 CASE s \in killed -> "killed"
                   [] s \in unload.shells /\ svc[s] = "left" /\ unload.tree -> "gone"
                   [] OTHER -> svc[s]])
     /\ bus' = IF up THEN bus \o [j \in 1 .. Cardinality(killed) |->
                                   [of |-> SetToSeq(killed)[j], as |-> "killed"]] ELSE bus
     /\ stopping' = [s \in Shells |-> IF s \in unload.shells THEN "no" ELSE stopping[s]]
     /\ UNCHANGED <<dir, ports>>
     /\ Step(e, IF unload.shells # {} THEN 1 ELSE 0, unload.shells # {}, FALSE, {}, {})
     /\ UNCHANGED <<calls, checks, forwarded, mcp, up, watchers, named, commands, faults, missed,
                    orphans, cut>>

\* The daemon ends and is started again: the entries that ran come back, opencode lets
\* go of what the old connection held, and some of those shells leave children behind.
\* An unload under way is not taken up again: nothing recorded what it was to kill.
DaemonRestart ==
  /\ Fault
  /\ dir' = saved
  /\ entry' = [s \in Shells |-> IF s \in {saved[n] : n \in Names} THEN "running" ELSE "none"]
  /\ ports' = ports \cap {saved[n] : n \in Names}
  /\ stopping' = [s \in Shells |-> "no"] /\ calls' = <<>>
  /\ scan' = NoScan /\ checks' = 0 /\ ticking' = FALSE /\ forwarded' = {}
  /\ unload' = NoUnload /\ mcp' = "none" /\ up' = FALSE /\ bus' = <<>> /\ watchers' = {}
  /\ \E left \in SUBSET {s \in Shells : svc[s] = "held"} :
       Serve([s \in Shells |-> CASE s \in left -> "left"
                                  [] svc[s] = "held" /\ s \notin left -> "gone"
                                  [] OTHER -> svc[s]])
  /\ orphans' = orphans \cup {s \in Shells : svc'[s] \in {"running", "left"} /\ entry'[s] = "none"}
  /\ cut' = cut \cup {s \in Shells : svc'[s] = "left"}
  /\ untold' = {} /\ unscanned' = {}
  /\ shown' = Unseen
  /\ UNCHANGED <<saved, named, commands, missed>>

-----------------------------------------------------------------------------
(* opencode and the processes *)

\* shell.get answers for the shells of the present instance; any error reads
\* as a shell that is not there.
GetServed(i, s) ==
  /\ calls[i].got[s] = "asked"
  /\ \/ /\ Put(i, [calls[i] EXCEPT !.got[s] = IF svc[s] \in {"running", "exited", "killed"}
                                               THEN svc[s] ELSE "null"])
        /\ UNCHANGED <<commands, faults>>
     \/ Fault /\ Put(i, [calls[i] EXCEPT !.got[s] = "null"])
  /\ UNCHANGED <<registryVars, stopping, scanVars, hostVars, watchers, serviceVars, historyVars>>

CreateServed(i) ==
  /\ calls[i].phase = "create"
  /\ LET s == Cardinality(Made) + 1
     IN /\ s \in Shells
        /\ svc' = [svc EXCEPT ![s] = "running"] /\ named' = [named EXCEPT ![s] = calls[i].name]
        /\ Put(i, [calls[i] EXCEPT !.phase = "made", !.shell = s])
  /\ UNCHANGED <<registryVars, stopping, scanVars, hostVars, watchers, open, commands, faults,
                 historyVars>>

\* shell.remove kills the process tree and publishes the exit, or is refused: the
\* present instance has no such shell, or the request fails.
RemoveServed(i) ==
  LET s == calls[i].shell
  IN /\ calls[i].phase = "remove" /\ Put(i, [calls[i] EXCEPT !.phase = "removed"])
     /\ \/ /\ svc[s] \in {"running", "exited", "killed"}
           /\ Serve([svc EXCEPT ![s] = "gone"]) /\ UNCHANGED <<commands, faults>>
           /\ bus' = IF up /\ svc[s] = "running" THEN Append(bus, [of |-> s, as |-> "killed"])
                     ELSE bus
        \/ /\ svc[s] \notin {"running", "exited", "killed"}
           /\ UNCHANGED <<svc, open, bus, commands, faults>>
        \/ Fault /\ UNCHANGED <<svc, open, bus>>
     /\ UNCHANGED <<registryVars, stopping, scanVars, unload, mcp, up, watchers, named,
                    historyVars>>

Listens(s) ==
  /\ s <= MaxListens /\ svc[s] \in Listening /\ s \notin open /\ open' = open \cup {s}
  /\ UNCHANGED <<registryVars, stopping, calls, scanVars, hostVars, watchers, svc, named, commands,
                 faults, historyVars>>

\* A server ends by itself, or somebody kills its shell in opencode.  Without a
\* stream and with no re-check to come, nobody hears of it.
ShellEnds(s, as) ==
  /\ svc[s] = "running" /\ as \in {"exited", "killed"}
  /\ Serve([svc EXCEPT ![s] = as])
  /\ bus' = IF up THEN Append(bus, [of |-> s, as |-> as]) ELSE bus
  /\ missed' = IF ~up /\ mcp = "up" THEN missed \cup {s} ELSE missed
  /\ UNCHANGED <<registryVars, stopping, calls, scanVars, unload, mcp, up, watchers, named,
                 commands, faults, orphans, cut, untold, unscanned>>

\* After an hour without activity, or on a reload, the directory gets a new
\* instance; the shells of the old one live on only while we hold it.
ServiceUnloads ==
  /\ Fault /\ unload.phase = "no" /\ \A j \in DOMAIN bus : bus[j].as # "shutdown"
  /\ Serve([s \in Shells |-> CASE svc[s] = "running" /\ mcp = "up" -> "held"
                                [] svc[s] \in {"none", "left", "held"} -> svc[s]
                                [] OTHER -> "gone"])
  /\ bus' = IF up THEN Append(bus, [of |-> 0, as |-> "shutdown"]) ELSE bus
  /\ UNCHANGED <<registryVars, stopping, calls, scanVars, unload, mcp, up, watchers, named,
                 historyVars>>

\* A service restart ends every shell and drops both streams.
ServiceRestarts ==
  /\ Fault /\ up' = FALSE /\ bus' = <<>>
  /\ mcp' = IF mcp = "up" THEN "connecting" ELSE mcp
  /\ Serve([s \in Shells |-> IF svc[s] \in {"none", "left"} THEN svc[s] ELSE "gone"])
  /\ UNCHANGED <<registryVars, stopping, calls, scanVars, unload, watchers, named, historyVars>>

-----------------------------------------------------------------------------
CallStep ==
  \E i \in DOMAIN calls :
    \/ StartTurn(i) \/ StopTurn(i) \/ Checked(i)
    \/ Created(i) \/ CreateFailed(i) \/ LookAgain(i) \/ Looked(i) \/ StopDone(i) \/ AllBack(i)
    \/ CreateServed(i) \/ RemoveServed(i)
    \/ \E s \in Shells : OneBack(i, s) \/ GetServed(i, s)

ClientStep ==
  \/ \E n \in Names : Start(n) \/ Stop(n) \/ Logs(n)
  \/ \E kind \in {"list", "peek"} : Look(kind)
  \/ Watch \/ WatchPorts \/ \E what \in {"servers", "ports"} : Unwatch(what)

HostStep ==
  \/ SessionCreated \/ McpReady \/ StreamUp \/ OnExited \/ OnShutdown
  \/ \E known \in BOOLEAN : LetGo(known)
  \/ UnloadDone \/ DaemonRestart

ServiceStep ==
  \/ \E s \in Shells : Listens(s) \/ \E as \in {"exited", "killed"} : ShellEnds(s, as)
  \/ ServiceUnloads \/ ServiceRestarts

Next ==
  \/ CallStep \/ ClientStep \/ HostStep \/ ServiceStep
  \/ \E failed \in BOOLEAN : ScanBack(failed)
  \/ TimedCheck

Spec == Init /\ [][Next]_vars

-----------------------------------------------------------------------------
(* Properties *)

Quiet == calls = <<>> /\ bus = <<>> /\ up /\ unload.phase = "no" /\ mcp # "connecting"

\* A name has one server: calls of one name wait for each other, and a start
\* looks for the one before it.  Not counted are servers the registry has given
\* up on, or is ending with an unload.
OneServer ==
  \A n \in Names :
    Cardinality({s \in Shells : Alive(s) /\ named[s] = n} \ (orphans \cup unload.shells)) <= 1

\* Once quiet, an entry that says running has a live server, whatever events were
\* lost: a start looks at its own shell, every connection re-checks the entries.
\* Only an exit between that re-check and the event stream goes unheard.
NoGhost ==
  Quiet /\ mcp = "up" => \A s \in Running(entry) : Alive(s) \/ s \in missed

\* Once quiet, the client that watches sees the entries as they are, except an
\* end that a start, a stop or a look at the logs was the first to find.
ListAgrees ==
  Quiet /\ "servers" \in watchers =>
    \A n \in Names : shown[n] = View[n] \/ (shown[n].shell = dir[n] /\ dir[n] \in untold)

\* Once no check is due, no port of an ended server is forwarded, except where its
\* end led to no check.
PortsAgree ==
  Quiet /\ ~scan.on => forwarded \subseteq Running(entry) \cup unscanned

\* What the client that watches is told, and what its browser can reach through
\* the forwarded ports, follows the entries (changed(), checkPortsNow).
ClientsAgree == ListAgrees /\ PortsAgree

\* The registry says of the servers what is so, and everyone else what it says.
Told == NoGhost /\ ClientsAgree

\* An unload leaves no process of the directory's servers behind (registry.ts:331-335),
\* except of a server that was no running entry when it came, when the process trees
\* could not be read, or when the daemon ended before it was done.
NoLeftover ==
  unload.phase = "no" => \A s \in Shells : svc[s] = "left" => s \in orphans \cup cut

\* The processes are those the registry answers for: one server of a name, and
\* nothing left of an unloaded one.
Accounted == OneServer /\ NoLeftover

=============================================================================
