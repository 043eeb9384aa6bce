----------------------------- MODULE GitStatus -----------------------------
(***************************************************************************)
(* One folder's repository as the screens show it: GitWatcher             *)
(* (daemon/src/git-watch.ts), its subscriptions over a phone's connection  *)
(* (router.ts, iroh-peer-server.ts, daemon-client.ts, use-git-status.ts)   *)
(* and over the desktop's event stream (desktop server index.ts,           *)
(* git-events.ts), and the reads each screen makes of opencode.            *)
(*                                                                         *)
(* A line is one way from the daemon to a screen: a phone's connection, or *)
(* one event stream of the desktop.  A push only says that something       *)
(* changed; what is shown comes from the screen's own read.                *)
(***************************************************************************)
EXTENDS Naturals, Sequences

CONSTANTS
  MaxChanges,    \* bound: changes of the repository
  MaxLines,      \* bound: connections and event streams
  MaxEffects,    \* bound: subscriptions the phone makes
  MaxFaults      \* bound: watches that fail, events missed, reads failed, peers closed

ASSUME GitStatusBounds ==
  MaxChanges \in Nat /\ MaxLines \in Nat /\ MaxEffects \in Nat /\ MaxFaults \in Nat

Lines == 1 .. MaxLines
Versions == 1 .. MaxChanges + 1

VARIABLES
  repo,          \* the repository's version
  \* GitWatcher
  listeners,     \* the lines with a listener
  treeWatcher, selfHealTimer, debounceTimer, inFlight,
  event,         \* a watch event not yet delivered
  \* the lines
  lines,         \* lines so far
  peers,         \* the lines the daemon has open
  toDaemon, toViewer,
  \* the phone's screen
  mounted,
  connection,    \* the phone's line, 0 if it is offline
  effect,        \* the phone's subscription effect, 0 if none is alive
  effects,       \* effects so far
  held,          \* its unsubscribe is at hand
  callback,      \* gitStatusCallbacks: the effect it belongs to
  shown, invalid, read,  \* its query
  stream,        \* the desktop's line, 0 if its screen is not shown
  faults,
  missed         \* history: a change the screen's reads may predate and no push is due for

watcherVars == <<listeners, treeWatcher, selfHealTimer, debounceTimer, inFlight, event>>
lineVars == <<lines, peers, toDaemon, toViewer>>
phoneVars == <<connection, effect, effects, held, callback>>
queryVars == <<shown, invalid, read>>
vars == <<repo, watcherVars, lineVars, mounted, phoneVars, stream, queryVars, faults, missed>>

Frames == [type : {"subscribe", "unsubscribe", "subscribed", "changed"}, of : 0 .. MaxEffects]
Frame(type, e) == [type |-> type, of |-> e]
Changed == Frame("changed", 0)

NotRead == [at |-> "none", got |-> 0]
Sent == [at |-> "sent", got |-> 0]

TypeOK ==
  /\ repo \in Versions
  /\ listeners \subseteq peers /\ peers \subseteq 1 .. lines /\ lines \in 0 .. MaxLines
  /\ treeWatcher \in BOOLEAN /\ selfHealTimer \in BOOLEAN /\ debounceTimer \in BOOLEAN
  /\ inFlight \in BOOLEAN /\ event \in BOOLEAN /\ held \in BOOLEAN /\ mounted \in BOOLEAN
  /\ toDaemon \in [Lines -> Seq(Frames)] /\ toViewer \in [Lines -> Seq(Frames)]
  /\ connection \in 0 .. lines /\ stream \in 0 .. lines
  /\ effects \in 0 .. MaxEffects /\ effect \in {0, effects} /\ callback \in 0 .. effects
  /\ effect # 0 <=> mounted /\ connection # 0
  /\ shown \in Versions \cup {0} /\ invalid \in BOOLEAN
  /\ read \in {NotRead, Sent} \cup [at : {"served"}, got : Versions]
  /\ faults \in 0 .. MaxFaults /\ missed \in BOOLEAN

Init ==
  /\ repo = 1
  /\ listeners = {} /\ treeWatcher = FALSE /\ selfHealTimer = FALSE /\ debounceTimer = FALSE
  /\ inFlight = FALSE /\ event = FALSE
  /\ lines = 0 /\ peers = {}
  /\ toDaemon = [l \in Lines |-> <<>>] /\ toViewer = [l \in Lines |-> <<>>]
  /\ mounted = FALSE
  /\ connection = 0 /\ effect = 0 /\ effects = 0 /\ held = FALSE /\ callback = 0
  /\ shown = 0 /\ invalid = FALSE /\ read = NotRead
  /\ stream = 0
  /\ faults = 0 /\ missed = FALSE

Fault == faults < MaxFaults /\ faults' = faults + 1

-----------------------------------------------------------------------------
(* The query *)

\* A read because the screen wants one: an ongoing one is shared.
Fetch == IF read = NotRead THEN read' = Sent /\ missed' = FALSE ELSE UNCHANGED <<read, missed>>

\* Mutant: a push during a read is taken to be answered by it.
Invalidate_Shared ==
  /\ invalid' = TRUE
  /\ Fetch

\* invalidateQueries: an ongoing read is dropped for a new one, but not the first
\* read, which is shared although it may have been answered already.
Invalidate ==
  /\ invalid' = TRUE
  /\ IF shown = 0 /\ read # NotRead
     THEN missed' = (missed \/ read.at = "served") /\ UNCHANGED read
     ELSE read' = Sent /\ missed' = FALSE

ReadServed ==
  /\ read = Sent
  /\ read' = [at |-> "served", got |-> repo]
  /\ UNCHANGED <<repo, watcherVars, lineVars, mounted, phoneVars, stream, shown, invalid, faults,
                 missed>>

ReadEnds ==
  /\ read.at = "served"
  /\ shown' = read.got /\ invalid' = FALSE /\ read' = NotRead
  /\ UNCHANGED <<repo, watcherVars, lineVars, mounted, phoneVars, stream, faults, missed>>

ReadFails ==
  /\ read # NotRead /\ Fault
  /\ read' = NotRead /\ missed' = TRUE
  /\ UNCHANGED <<repo, watcherVars, lineVars, mounted, phoneVars, stream, shown, invalid>>

-----------------------------------------------------------------------------
(* The phone's screen *)

\* The screen is shown and the phone is online: it reads if it has nothing, knows
\* it is stale or last read over 30 s ago, and subscribes.
Enable(c) ==
  /\ effects < MaxEffects /\ effects' = effects + 1
  /\ effect' = effects + 1 /\ callback' = effects + 1 /\ held' = FALSE
  /\ toDaemon' = [toDaemon EXCEPT ![c] = Append(@, Frame("subscribe", effects + 1))]
  /\ \/ Fetch
     \/ shown # 0 /\ ~invalid /\ UNCHANGED <<read, missed>>

PhoneMounts ==
  /\ ~mounted /\ mounted' = TRUE
  /\ IF connection # 0 THEN Enable(connection)
     ELSE UNCHANGED <<effect, effects, held, callback, toDaemon, read, missed>>
  /\ UNCHANGED <<repo, watcherVars, lines, peers, toViewer, connection, stream, shown, invalid,
                 faults>>

Online ==
  /\ connection = 0 /\ lines < MaxLines
  /\ lines' = lines + 1 /\ connection' = lines + 1 /\ peers' = peers \cup {lines + 1}
  /\ IF mounted THEN Enable(lines + 1)
     ELSE UNCHANGED <<effect, effects, held, callback, toDaemon, read, missed>>
  /\ UNCHANGED <<repo, watcherVars, toViewer, mounted, stream, shown, invalid, faults>>

\* unsubscribeGitStatusOwned: nothing once the callback is another effect's.
Unsubscribe(e) ==
  IF callback = e
  THEN /\ callback' = 0
       /\ toDaemon' = [toDaemon EXCEPT ![connection] = Append(@, Frame("unsubscribe", 0))]
  ELSE UNCHANGED <<callback, toDaemon>>

\* Cleanup before the answer to the subscription leaves it to that answer.
PhoneUnmounts ==
  /\ mounted /\ mounted' = FALSE
  /\ effect' = 0 /\ held' = FALSE
  /\ IF effect # 0 /\ held THEN Unsubscribe(effect) ELSE UNCHANGED <<callback, toDaemon>>
  /\ missed' = TRUE
  /\ UNCHANGED <<repo, watcherVars, lines, peers, toViewer, connection, effects, stream,
                 queryVars, faults>>

Offline ==
  /\ connection # 0 /\ connection' = 0
  /\ effect' = 0 /\ held' = FALSE /\ callback' = 0
  /\ toViewer' = [toViewer EXCEPT ![connection] = <<>>]
  /\ missed' = TRUE
  /\ UNCHANGED <<repo, watcherVars, lines, peers, toDaemon, mounted, effects, stream, queryVars,
                 faults>>

\* The phone's keepalive finds that the daemon has closed the connection.
OfflineFound == connection \notin peers /\ Offline

Next1(l, type) == l # 0 /\ toViewer[l] # <<>> /\ Head(toViewer[l]).type = type
Take(l) == toViewer' = [toViewer EXCEPT ![l] = Tail(@)]

Subscribed ==
  /\ Next1(connection, "subscribed") /\ Take(connection)
  /\ LET e == Head(toViewer[connection]).of
     IN IF e = effect THEN held' = TRUE /\ UNCHANGED <<callback, toDaemon>>
        ELSE Unsubscribe(e) /\ UNCHANGED held
  /\ UNCHANGED <<repo, watcherVars, lines, peers, mounted, connection, effect, effects, stream,
                 queryVars, faults, missed>>

PhoneTold ==
  /\ Next1(connection, "changed") /\ Take(connection)
  /\ IF callback # 0 /\ callback = effect THEN Invalidate
     ELSE UNCHANGED <<invalid, read, missed>>
  /\ UNCHANGED <<repo, watcherVars, lines, peers, toDaemon, mounted, phoneVars, stream, shown,
                 faults>>

-----------------------------------------------------------------------------
(* The desktop's screen: one event stream each time it is shown *)

DesktopMounts ==
  /\ stream = 0 /\ lines < MaxLines
  /\ lines' = lines + 1 /\ stream' = lines + 1 /\ peers' = peers \cup {lines + 1}
  /\ toDaemon' = [toDaemon EXCEPT ![lines + 1] = <<Frame("subscribe", 0)>>]
  /\ UNCHANGED <<repo, watcherVars, toViewer, mounted, phoneVars, queryVars, faults, missed>>

DesktopUnmounts ==
  /\ stream # 0 /\ stream' = 0
  /\ toViewer' = [toViewer EXCEPT ![stream] = <<>>]
  /\ UNCHANGED <<repo, watcherVars, lines, peers, toDaemon, mounted, phoneVars, queryVars, faults,
                 missed>>

DesktopTold ==
  /\ Next1(stream, "changed") /\ Take(stream)
  /\ UNCHANGED <<repo, watcherVars, lines, peers, toDaemon, mounted, phoneVars, stream, queryVars,
                 faults, missed>>

-----------------------------------------------------------------------------
(* GitWatcher *)

\* stopWatching; a read under way goes on.
StopWatching ==
  treeWatcher' = FALSE /\ selfHealTimer' = FALSE /\ debounceTimer' = FALSE /\ event' = FALSE

\* Mutant: no timer without a watch.
StartWatching_NoTimer ==
  /\ \/ treeWatcher' = TRUE /\ UNCHANGED faults
     \/ treeWatcher' = FALSE /\ Fault
  /\ selfHealTimer' = treeWatcher' /\ debounceTimer' = FALSE /\ event' = FALSE

\* startWatching: the self-heal timer runs whether or not the watch could begin.
StartWatching ==
  /\ \/ treeWatcher' = TRUE /\ UNCHANGED faults
     \/ treeWatcher' = FALSE /\ Fault
  /\ selfHealTimer' = TRUE /\ debounceTimer' = FALSE /\ event' = FALSE

\* A subscription replaces the line's earlier one, which stops the watch in
\* between if the line is alone on it.
Register(l) ==
  /\ listeners' = listeners \cup {l}
  /\ IF listeners \ {l} = {}
     THEN /\ StartWatching
          /\ missed' = (missed \/ (l = connection /\ (event \/ debounceTimer)))
     ELSE UNCHANGED <<treeWatcher, selfHealTimer, debounceTimer, event, faults, missed>>

Unregister(l) ==
  /\ listeners' = listeners \ {l}
  /\ IF listeners \ {l} = {} THEN StopWatching
     ELSE UNCHANGED <<treeWatcher, selfHealTimer, debounceTimer, event>>

\* What was on its way to the line's screen reaches it no more.
Unheard(l) ==
  missed' = (missed \/ (l = connection /\ (event \/ debounceTimer \/ inFlight)))

\* A phone's frame, or the desktop's request: the answer to a subscription
\* carries no snapshot.
Handle(l) ==
  /\ l \in peers /\ toDaemon[l] # <<>>
  /\ toDaemon' = [toDaemon EXCEPT ![l] = Tail(@)]
  /\ LET f == Head(toDaemon[l])
     IN IF f.type = "subscribe"
        THEN /\ Register(l)
             /\ toViewer' = IF l = connection
                            THEN [toViewer EXCEPT ![l] = Append(@, Frame("subscribed", f.of))]
                            ELSE toViewer
        ELSE Unregister(l) /\ Unheard(l) /\ UNCHANGED <<toViewer, faults>>
  /\ UNCHANGED <<repo, inFlight, lines, peers, mounted, phoneVars, stream, queryVars>>

\* Mutant: the disconnect callbacks do not run.
Closes_Silent(l) ==
  /\ peers' = peers \ {l}
  /\ toDaemon' = [toDaemon EXCEPT ![l] = <<>>]
  /\ UNCHANGED <<repo, watcherVars, lines, toViewer, mounted, phoneVars, stream, queryVars>>

\* The daemon has closed a line, or found it closed: its disconnect callbacks run.
Closes(l) ==
  /\ peers' = peers \ {l}
  /\ Unregister(l)
  /\ toDaemon' = [toDaemon EXCEPT ![l] = <<>>]
  /\ UNCHANGED <<repo, inFlight, lines, toViewer, mounted, phoneVars, stream, queryVars>>

Gone(l) ==
  /\ l \in peers \ {connection, stream}
  /\ Closes(l)
  /\ UNCHANGED <<faults, missed>>

\* A write fails: the daemon closes the peer before the phone knows.
PeerFails ==
  /\ connection \in peers /\ Fault
  /\ Closes(connection)
  /\ missed' = TRUE

\* The repository changes; the watch sees it or not (isNoise, a worktree's .git,
\* a watch that died).
Change ==
  /\ repo \in 1 .. MaxChanges /\ repo' = repo + 1
  /\ \/ treeWatcher /\ event' = TRUE /\ UNCHANGED faults
        /\ missed' = (missed \/ connection \notin listeners)
     \/ treeWatcher /\ Fault /\ UNCHANGED event /\ missed' = TRUE
     \/ ~treeWatcher /\ UNCHANGED <<event, faults>> /\ missed' = TRUE
  /\ UNCHANGED <<listeners, treeWatcher, selfHealTimer, debounceTimer, inFlight, lineVars, mounted,
                 phoneVars, stream, queryVars>>

WatchEvent ==
  /\ event /\ event' = FALSE
  /\ debounceTimer' = TRUE
  /\ UNCHANGED <<repo, listeners, treeWatcher, selfHealTimer, inFlight, lineVars, mounted,
                 phoneVars, stream, queryVars, faults, missed>>

\* refresh() with the cache dropped: starts a read of git or shares the ongoing one,
\* and tells the listeners once it is done.
Debounced ==
  /\ debounceTimer /\ debounceTimer' = FALSE
  /\ inFlight' = TRUE
  /\ UNCHANGED <<repo, listeners, treeWatcher, selfHealTimer, event, lineVars, mounted, phoneVars,
                 stream, queryVars, faults, missed>>

\* Bound: the round before, 60 s ago, has run its course.
SelfHeal ==
  /\ selfHealTimer /\ ~inFlight /\ read = NotRead
  /\ \A l \in Lines : Changed \notin {toViewer[l][i] : i \in DOMAIN toViewer[l]}
  /\ inFlight' = TRUE
  /\ UNCHANGED <<repo, listeners, treeWatcher, selfHealTimer, debounceTimer, event, lineVars,
                 mounted, phoneVars, stream, queryVars, faults, missed>>

\* notify: whoever listens now is told, whenever the read began.
Notified ==
  /\ inFlight /\ inFlight' = FALSE
  /\ toViewer' = [l \in Lines |->
       IF l \in listeners \cap {connection, stream} THEN Append(toViewer[l], Changed)
       ELSE toViewer[l]]
  /\ UNCHANGED <<repo, listeners, treeWatcher, selfHealTimer, debounceTimer, event, lines, peers,
                 toDaemon, mounted, phoneVars, stream, queryVars, faults, missed>>

-----------------------------------------------------------------------------
Next ==
  \/ ReadServed \/ ReadEnds \/ ReadFails
  \/ PhoneMounts \/ PhoneUnmounts \/ Online \/ Offline \/ Subscribed \/ PhoneTold
  \/ DesktopMounts \/ DesktopUnmounts \/ DesktopTold
  \/ WatchEvent \/ Debounced \/ SelfHeal \/ Notified
  \/ \E l \in Lines : Handle(l) \/ Gone(l)
  \/ PeerFails \/ Change

Spec == Init /\ [][Next]_vars

\* Timers fire, reads of git and of opencode end, frames arrive and are handled,
\* and the keepalive finds a dead connection.
Fairness ==
  /\ WF_vars(ReadServed) /\ WF_vars(ReadEnds)
  /\ WF_vars(Subscribed) /\ WF_vars(PhoneTold) /\ WF_vars(DesktopTold)
  /\ WF_vars(WatchEvent) /\ WF_vars(Debounced) /\ WF_vars(SelfHeal) /\ WF_vars(Notified)
  /\ \A l \in Lines : WF_vars(Handle(l)) /\ WF_vars(Gone(l))
  /\ WF_vars(OfflineFound)

FairSpec == Spec /\ Fairness

-----------------------------------------------------------------------------
(* Properties *)

Quiet ==
  /\ ~event /\ ~debounceTimer /\ ~inFlight
  /\ \A l \in Lines : toDaemon[l] = <<>> /\ toViewer[l] = <<>>

\* A folder is watched exactly while a screen shows it: without a listener no watch
\* and no timer is left, and once nothing is under way the listeners are those of
\* the screens shown, whatever order mounts, answers and closes came in
\* (subscribeGitStatus, unsubscribeGitStatusOwned, closePeer, stopWatching).
WatchAgrees ==
  /\ listeners = {} <=> ~selfHealTimer
  /\ listeners = {} => ~treeWatcher /\ ~event /\ ~debounceTimer
  /\ Quiet /\ peers = {connection, stream} \ {0} =>
       listeners = {l \in {stream, IF effect # 0 THEN connection ELSE 0} : l # 0}

\* Once nothing is under way the phone shows the repository as it is, unless the
\* watch missed the change, a read failed, or the change fell between the screen's
\* read and its subscription (useGitStatus).
Fresh ==
  Quiet /\ mounted /\ read = NotRead /\ connection \in listeners => shown = repo \/ missed

\* The watch is held for the screens that show the folder, and serves them.
Served == WatchAgrees /\ Fresh

\* Whatever was missed, a screen that stays connected shows the repository as it is
\* in the end (the self-heal: "for whatever the watch misses").
Healed == <>[](mounted /\ connection # 0) => <>[](shown = repo)

=============================================================================
