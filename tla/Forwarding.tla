----------------------------- MODULE Forwarding -----------------------------
(***************************************************************************)
(* The Mac's ports on the phone's localhost: PortForwarder                 *)
(* (app/src/lib/port-forward.ts) over the subscription of daemon-client.ts *)
(* and the daemon's side of it (router.ts, the peer's disconnect callbacks *)
(* of iroh-peer-server.ts).  What the ports are is left to the daemon's    *)
(* scans, which Previews models; here they just change.                    *)
(*                                                                         *)
(* An effect is one run of PortForwarder's useEffect: it lives as long as  *)
(* the phone is online with one Mac.  A follow is one call of follow().    *)
(***************************************************************************)
EXTENDS Naturals, Sequences, FiniteSets

CONSTANTS
  Ports,
  MaxEffects,    \* bound: times the phone comes online
  MaxFollows,    \* bound: follows
  MaxChanges,    \* bound: changes of the Mac's ports
  MaxFaults      \* bound: key store reads and binds that fail

ForwardingBounds ==
  /\ MaxEffects \in Nat \ {0} /\ MaxFollows \in Nat \ {0} /\ MaxChanges \in Nat /\ MaxFaults \in Nat

Effects == 1 .. MaxEffects
Follows == 1 .. MaxFollows

VARIABLES
  active,        \* AppState: the app is in the foreground
  effect,        \* the effect alive, 0 if the phone is offline
  born,          \* effects so far
  wanted,        \* each effect: the ports it last heard
  open,          \* the ports it has a listener on
  release,       \* the follow its unsubscribe belongs to, 0 if null
  queued,        \* reconciles on its chain
  job,           \* the reconcile running
  follow,        \* each follow: its effect and where it is
  calls,         \* follows so far
  callback,      \* forwardPortsCallback: the follow it belongs to
  shown,         \* the module's state
  bound,         \* the phone's listeners: the effect that bound each port
  toDaemon, toPhone,  \* frames on their way
  watched,       \* the daemon: the peer's subscription
  asked,         \* getForwardPorts whose scan is under way
  ports,         \* lastPorts
  changes, faults,
  clashed,       \* history: ports refused because another effect had them
  broken,        \* history: effects whose chain was rejected
  overtaken      \* history: an effect reported its listeners after its successor

effectVars == <<wanted, open, release, queued, job>>
followVars == <<follow, calls, callback>>
daemonVars == <<watched, asked>>
historyVars == <<clashed, broken, overtaken>>
vars == <<active, effect, born, effectVars, followVars, shown, bound, toDaemon, toPhone,
          daemonVars, ports, changes, faults, historyVars>>

NoJob == [stage |-> "idle", target |-> {}, todo |-> {}, failed |-> {}]
Jobs == [stage : {"idle", "closing", "key", "opening", "rejected"}, target : SUBSET Ports,
         todo : SUBSET Ports, failed : SUBSET Ports]
Frames == [type : {"subscribe", "unsubscribe", "get", "subscribed", "ports", "push"},
           of : Follows \cup {0}, list : SUBSET Ports]
Frame(type, f, list) == [type |-> type, of |-> f, list |-> list]

TypeOK ==
  /\ active \in BOOLEAN
  /\ effect \in Effects \cup {0} /\ born \in Effects \cup {0} /\ effect \in {0, born}
  /\ wanted \in [Effects -> SUBSET Ports] /\ open \in [Effects -> SUBSET Ports]
  /\ release \in [Effects -> Follows \cup {0}]
  /\ queued \in [Effects -> Nat] /\ job \in [Effects -> Jobs]
  /\ follow \in [Follows -> [of : Effects \cup {0}, at : {"none", "sub", "get", "done"}]]
  /\ calls \in 0 .. MaxFollows /\ callback \in Follows \cup {0}
  /\ shown \in [ports : SUBSET Ports, listening : SUBSET Ports, failed : SUBSET Ports]
  /\ bound \in [Ports -> Effects \cup {0}]
  /\ \A e \in Effects, p \in Ports : p \in open[e] <=> bound[p] = e
  /\ toDaemon \in Seq(Frames) /\ toPhone \in Seq(Frames)
  /\ watched \in BOOLEAN /\ asked \subseteq Follows /\ ports \subseteq Ports
  /\ callback # 0 => follow[callback].of = effect

Init ==
  /\ active = TRUE /\ effect = 0 /\ born = 0
  /\ wanted = [e \in Effects |-> {}] /\ open = [e \in Effects |-> {}]
  /\ release = [e \in Effects |-> 0] /\ queued = [e \in Effects |-> 0]
  /\ job = [e \in Effects |-> NoJob]
  /\ follow = [f \in Follows |-> [of |-> 0, at |-> "none"]] /\ calls = 0 /\ callback = 0
  /\ shown = [ports |-> {}, listening |-> {}, failed |-> {}]
  /\ bound = [p \in Ports |-> 0]
  /\ toDaemon = <<>> /\ toPhone = <<>> /\ watched = FALSE /\ asked = {}
  /\ ports \in SUBSET Ports
  /\ changes = 0 /\ faults = 0
  /\ clashed = {} /\ broken = {} /\ overtaken = FALSE

-----------------------------------------------------------------------------
(* The subscription *)

\* reconcile(): one more link of the chain.
Reconcile(e) == queued' = [queued EXCEPT ![e] = @ + 1]

\* follow() up to its first await; the callback is the latest follow's.
Call(e) ==
  /\ calls < MaxFollows
  /\ calls' = calls + 1
  /\ follow' = [follow EXCEPT ![calls + 1] = [of |-> e, at |-> "sub"]]
  /\ callback' = calls + 1
  /\ toDaemon' = Append(toDaemon, Frame("subscribe", calls + 1, {}))

\* sub.unsubscribe() of the follow f: nothing once another follow took over.
Unsubscribe(f) ==
  IF f # 0 /\ callback = f
  THEN callback' = 0 /\ toDaemon' = Append(toDaemon, Frame("unsubscribe", 0, {}))
  ELSE UNCHANGED <<callback, toDaemon>>

\* The phone comes online: a new effect follows if the app is in the foreground.
Online ==
  /\ effect = 0 /\ born < MaxEffects
  /\ born' = born + 1 /\ effect' = born + 1
  /\ wanted' = [wanted EXCEPT ![born + 1] = shown.ports]
  /\ IF active THEN Call(born + 1) ELSE UNCHANGED <<followVars, toDaemon>>
  /\ UNCHANGED <<active, open, release, queued, job, shown, bound, toPhone, daemonVars, ports,
                 changes, faults, historyVars>>

\* What is in flight on a transport that closes, and what the cleanup of the
\* effect on it does: pending calls reject and reconcile, then the cleanup does.
Ended == {f \in Follows : follow[f].at \in {"sub", "get"}}
Close ==
  /\ queued' = [queued EXCEPT ![effect] = @ + 1 + Cardinality(Ended)]
  /\ release' = [release EXCEPT ![effect] = 0]
  /\ toPhone' = <<>> /\ watched' = FALSE /\ asked' = {}

\* The link drops, or the user unpairs.
Offline ==
  /\ effect # 0
  /\ effect' = 0
  /\ Close
  /\ follow' = [f \in Follows |-> IF f \in Ended THEN [follow[f] EXCEPT !.at = "done"] ELSE follow[f]]
  /\ callback' = 0 /\ toDaemon' = <<>>
  /\ UNCHANGED <<active, born, wanted, open, job, calls, shown, bound, ports, changes, faults,
                 historyVars>>

\* The phone is paired with another Mac while it is online: the old effect is
\* cleaned up and the new one starts in the same commit.
Replace ==
  /\ effect # 0 /\ born < MaxEffects /\ calls < MaxFollows
  /\ born' = born + 1 /\ effect' = born + 1
  /\ Close
  /\ wanted' = [wanted EXCEPT ![born + 1] = shown.ports]
  /\ calls' = IF active THEN calls + 1 ELSE calls
  /\ callback' = IF active THEN calls + 1 ELSE 0
  /\ follow' = [f \in Follows |->
       IF f \in Ended THEN [follow[f] EXCEPT !.at = "done"]
       ELSE IF active /\ f = calls + 1 THEN [of |-> born + 1, at |-> "sub"] ELSE follow[f]]
  /\ toDaemon' = IF active THEN <<Frame("subscribe", calls + 1, {})>> ELSE <<>>
  /\ ports' \in SUBSET Ports
  /\ UNCHANGED <<active, open, job, shown, bound, changes, faults, historyVars>>

Background ==
  /\ active /\ active' = FALSE
  /\ IF effect = 0 THEN UNCHANGED <<release, queued, callback, toDaemon>>
     ELSE /\ Unsubscribe(release[effect])
          /\ release' = [release EXCEPT ![effect] = 0]
          /\ Reconcile(effect)
  /\ UNCHANGED <<effect, born, wanted, open, job, follow, calls, shown, bound, toPhone,
                 daemonVars, ports, changes, faults, historyVars>>

\* Nothing tells follow() of a follow that is still on its way.
Foreground ==
  /\ ~active /\ active' = TRUE
  /\ IF effect # 0 /\ release[effect] = 0 THEN Call(effect)
     ELSE UNCHANGED <<followVars, toDaemon>>
  /\ UNCHANGED <<effect, born, effectVars, shown, bound, toPhone, daemonVars, ports, changes,
                 faults, historyVars>>

Take == toPhone' = Tail(toPhone)
Next1(type) == toPhone # <<>> /\ Head(toPhone).type = type

\* The subscription is up: keep it and ask for the list, or let it go again.
Subscribed ==
  /\ Next1("subscribed") /\ Take
  /\ LET f == Head(toPhone).of
     IN IF active
        THEN /\ release' = [release EXCEPT ![effect] = f]
             /\ toDaemon' = Append(toDaemon, Frame("get", f, {}))
             /\ follow' = [follow EXCEPT ![f].at = "get"]
             /\ UNCHANGED callback
        ELSE /\ Unsubscribe(f)
             /\ follow' = [follow EXCEPT ![f].at = "done"]
             /\ UNCHANGED release
  /\ UNCHANGED <<active, effect, born, wanted, open, queued, job, calls, shown, bound,
                 daemonVars, ports, changes, faults, historyVars>>

Heard(list) ==
  /\ wanted' = [wanted EXCEPT ![effect] = list]
  /\ shown' = [shown EXCEPT !.ports = list]
  /\ Reconcile(effect)

\* Mutant: the list asked for is shown, but the listeners are left as they are.
Listed_Silent ==
  /\ Next1("ports") /\ Take
  /\ wanted' = [wanted EXCEPT ![effect] = Head(toPhone).list]
  /\ shown' = [shown EXCEPT !.ports = Head(toPhone).list]
  /\ follow' = [follow EXCEPT ![Head(toPhone).of].at = "done"]
  /\ UNCHANGED <<active, effect, born, open, release, queued, job, calls, callback, bound,
                 toDaemon, daemonVars, ports, changes, faults, historyVars>>

Listed ==
  /\ Next1("ports") /\ Take
  /\ Heard(Head(toPhone).list)
  /\ follow' = [follow EXCEPT ![Head(toPhone).of].at = "done"]
  /\ UNCHANGED <<active, effect, born, open, release, job, calls, callback, bound, toDaemon,
                 daemonVars, ports, changes, faults, historyVars>>

Pushed ==
  /\ Next1("push") /\ Take
  /\ IF callback # 0 THEN Heard(Head(toPhone).list) ELSE UNCHANGED <<wanted, shown, queued>>
  /\ UNCHANGED <<active, effect, born, open, release, job, followVars, bound, toDaemon,
                 daemonVars, ports, changes, faults, historyVars>>

-----------------------------------------------------------------------------
(* reconcile: one job of an effect at a time *)

SetJob(e, j) == job' = [job EXCEPT ![e] = j]

\* The target is fixed when the job begins.
JobStarts(e) ==
  /\ queued[e] > 0 /\ job[e].stage = "idle"
  /\ queued' = [queued EXCEPT ![e] = @ - 1]
  /\ LET target == IF effect = e /\ active THEN wanted[e] ELSE {}
     IN SetJob(e, [stage |-> "closing", target |-> target, todo |-> open[e] \ target,
                   failed |-> {}])
  /\ UNCHANGED <<active, effect, born, wanted, open, release, followVars, shown, bound, toDaemon,
                 toPhone, daemonVars, ports, changes, faults, historyVars>>

\* Mutant: the listener is forgotten before it is closed, and not closed.
CloseOne_Leaks(e, p) ==
  /\ job[e].stage = "closing" /\ p \in job[e].todo
  /\ SetJob(e, [job[e] EXCEPT !.todo = @ \ {p}])
  /\ open' = [open EXCEPT ![e] = @ \ {p}]
  /\ UNCHANGED <<active, effect, born, wanted, release, queued, followVars, shown, bound, toDaemon,
                 toPhone, daemonVars, ports, changes, faults, historyVars>>

CloseOne(e, p) ==
  /\ job[e].stage = "closing" /\ p \in job[e].todo
  /\ SetJob(e, [job[e] EXCEPT !.todo = @ \ {p}])
  /\ open' = [open EXCEPT ![e] = @ \ {p}]
  /\ bound' = [bound EXCEPT ![p] = 0]
  /\ UNCHANGED <<active, effect, born, wanted, release, queued, followVars, shown, toDaemon,
                 toPhone, daemonVars, ports, changes, faults, historyVars>>

\* set() at the end of a job; the failures are those read when it had closed.
Report(e, failed) ==
  /\ SetJob(e, NoJob)
  /\ shown' = [shown EXCEPT !.listening = open[e], !.failed = failed]
  /\ overtaken' = (effect \notin {0, e} \/ (overtaken /\ effect # e))

Closed(e) ==
  /\ job[e].stage = "closing" /\ job[e].todo = {}
  /\ LET failed == shown.failed \cap job[e].target
         more == job[e].target \ open[e]
     IN IF more = {} THEN Report(e, failed)
        ELSE /\ SetJob(e, [job[e] EXCEPT !.stage = "key", !.todo = more, !.failed = failed])
             /\ UNCHANGED <<shown, overtaken>>
  /\ UNCHANGED <<active, effect, born, wanted, open, release, queued, followVars, bound, toDaemon,
                 toPhone, daemonVars, ports, changes, faults, clashed, broken>>

KeyRead(e) ==
  /\ job[e].stage = "key"
  /\ SetJob(e, [job[e] EXCEPT !.stage = "opening"])
  /\ UNCHANGED <<active, effect, born, wanted, open, release, queued, followVars, shown, bound,
                 toDaemon, toPhone, daemonVars, ports, changes, faults, historyVars>>

\* The key store fails: the chain is rejected, and with it every later job.
KeyFailed(e) ==
  /\ job[e].stage = "key"
  /\ faults < MaxFaults /\ faults' = faults + 1
  /\ SetJob(e, [NoJob EXCEPT !.stage = "rejected"])
  /\ broken' = broken \cup {e}
  /\ UNCHANGED <<active, effect, born, wanted, open, release, queued, followVars, shown, bound,
                 toDaemon, toPhone, daemonVars, ports, changes, clashed, overtaken>>

\* Nothing of the chain is left to run.
Rests(e) == job[e].stage = "rejected" \/ (job[e].stage = "idle" /\ queued[e] = 0)

\* forwardTcp: a port in use on the phone is recorded, not tried again.  A refusal is
\* past once the effect alive has the port and no other has a job to do.
OpenOne(e, p) ==
  /\ job[e].stage = "opening" /\ p \in job[e].todo
  /\ IF bound[p] = 0
     THEN /\ open' = [open EXCEPT ![e] = @ \cup {p}]
          /\ bound' = [bound EXCEPT ![p] = e]
          /\ SetJob(e, [job[e] EXCEPT !.todo = @ \ {p}, !.failed = @ \ {p}])
          /\ clashed' = IF e = effect /\ \A d \in Effects \ {e} : Rests(d) THEN clashed \ {p}
                        ELSE clashed
     ELSE /\ SetJob(e, [job[e] EXCEPT !.todo = @ \ {p}, !.failed = @ \cup {p}])
          /\ clashed' = clashed \cup {p}
          /\ UNCHANGED <<open, bound>>
  /\ UNCHANGED <<active, effect, born, wanted, release, queued, followVars, shown, toDaemon,
                 toPhone, daemonVars, ports, changes, faults, broken, overtaken>>

Opened(e) ==
  /\ job[e].stage = "opening" /\ job[e].todo = {}
  /\ Report(e, job[e].failed)
  /\ UNCHANGED <<active, effect, born, wanted, open, release, queued, followVars, bound, toDaemon,
                 toPhone, daemonVars, ports, changes, faults, clashed, broken>>

-----------------------------------------------------------------------------
(* The daemon *)

Send(f) == toPhone' = Append(toPhone, f)

\* The peer's frames in order; each subscription replaces the one before.
Handle ==
  /\ toDaemon # <<>> /\ toDaemon' = Tail(toDaemon)
  /\ LET f == Head(toDaemon)
     IN \/ f.type = "subscribe" /\ watched' = TRUE /\ Send(Frame("subscribed", f.of, {}))
           /\ UNCHANGED asked
        \/ f.type = "unsubscribe" /\ watched' = FALSE /\ UNCHANGED <<asked, toPhone>>
        \/ f.type = "get" /\ asked' = asked \cup {f.of} /\ UNCHANGED <<watched, toPhone>>
  /\ UNCHANGED <<active, effect, born, effectVars, followVars, shown, bound, ports, changes,
                 faults, historyVars>>

\* getForwardPorts answers what the list is once the scan it waited for is done.
Answer(f) ==
  /\ f \in asked /\ asked' = asked \ {f}
  /\ Send(Frame("ports", f, ports))
  /\ UNCHANGED <<active, effect, born, effectVars, followVars, shown, bound, toDaemon, watched,
                 ports, changes, faults, historyVars>>

\* A scan finds other ports and tells who subscribed.
PortsChange ==
  /\ changes < MaxChanges /\ changes' = changes + 1
  /\ ports' \in SUBSET Ports \ {ports}
  /\ IF watched THEN Send(Frame("push", 0, ports')) ELSE UNCHANGED toPhone
  /\ UNCHANGED <<active, effect, born, effectVars, followVars, shown, bound, toDaemon, daemonVars,
                 faults, historyVars>>

-----------------------------------------------------------------------------
JobStep(e) ==
  \/ JobStarts(e) \/ Closed(e) \/ KeyRead(e) \/ KeyFailed(e) \/ Opened(e)
  \/ \E p \in Ports : CloseOne(e, p) \/ OpenOne(e, p)

Next ==
  \/ Online \/ Offline \/ Replace \/ Background \/ Foreground
  \/ Subscribed \/ Listed \/ Pushed
  \/ \E e \in Effects : JobStep(e)
  \/ Handle \/ \E f \in Follows : Answer(f)
  \/ PortsChange

Spec == Init /\ [][Next]_vars

-----------------------------------------------------------------------------
(* Properties *)

Quiet ==
  /\ toDaemon = <<>> /\ toPhone = <<>> /\ asked = {}
  /\ \A e \in Effects : Rests(e)

Listening == {p \in Ports : bound[p] # 0}

\* When nothing is under way, the phone listens on the Mac's ports while it is in
\* the foreground and online, and on none otherwise, except where a chain was
\* rejected or a port was still held by the effect before (PortForwarder: "keeps
\* the listeners in step with the daemon's forward-port list").
ListensToList == Quiet /\ broken = {} =>
  IF active /\ effect # 0 THEN Listening \subseteq ports /\ ports \ Listening \subseteq clashed
  ELSE Listening = {}

\* What the links of a page are opened by is what listens (forwardState), unless an
\* effect's last report came after its successor's; a port that listens is shown as
\* failed only if two effects met on it.
ShownTrue == Quiet /\ broken = {} /\ ~overtaken =>
  shown.listening = Listening /\ shown.failed \cap Listening \subseteq clashed

\* What listens is what the daemon lists, and what is shown is what listens.
InStep == ListensToList /\ ShownTrue

\* The daemon looks up ports for the phone exactly while the phone follows them:
\* no follow that lost a race leaves a subscription behind, or takes the live one
\* down (subscribeForwardPorts, unfollow).
Watched == Quiet => (watched <=> (active /\ effect # 0))

\* The phone, its listeners and the daemon follow the same ports.
Followed == InStep /\ Watched
=============================================================================
