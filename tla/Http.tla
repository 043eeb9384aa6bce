-------------------------------- MODULE Http --------------------------------
(***************************************************************************)
(* The phone's requests to opencode: the fetch of app/src/lib/iroh-fetch.ts *)
(* over the one cached connection of iroh-wire.ts, the gate that drops it  *)
(* (oc.ts), and the daemon's end: the tunnel (iroh-http-tunnel.ts), the    *)
(* proxy (opencode-proxy.ts) and the search for the opencode service that  *)
(* starts it for a task (opencode/registry.ts, opencode/service.ts).       *)
(*                                                                         *)
(* A stream is an attempt at a request, and an exchange of the daemon: it  *)
(* cannot tell that two streams carry one request.  Bytes are left out:    *)
(* what has come back is a head, a whole body, or a cut.  iroh and the     *)
(* service are external.                                                   *)
(***************************************************************************)
EXTENDS Naturals, FiniteSets

CONSTANTS
  Reads, Tasks, Streams,  \* requests: short ones, those that may start the
                          \* service, and event streams
  Macs,
  NoMac,
  MaxConns,               \* connections dialled: at most two for a request
  MaxServices,            \* bound: processes of the service
  MaxCommands,            \* bound: what the user does
  MaxFaults               \* bound: what breaks

Requests == Reads \cup Tasks \cup Streams
BiStreams == Requests \X (1 .. 2)   \* what a request may open: the second is its retry
Conns == 1 .. MaxConns
Services == 1 .. MaxServices

ASSUME HttpBounds ==
  /\ IsFiniteSet(Requests) /\ MaxConns \in Nat /\ MaxConns >= 2 * Cardinality(Requests)
  /\ MaxServices \in Nat \ {0} /\ MaxCommands \in Nat /\ MaxFaults \in Nat
  /\ NoMac \notin Macs

VARIABLES
  paired,        \* the stored record
  cache,         \* httpConnectionPromise, 0 if null
  link,          \* each connection
  remote,        \* the Mac each connection was dialled to
  closing,       \* dials to close when they are done (clearHttpConnection)
  told,          \* connections whose closed() has settled, not yet handled
  req,           \* each request on the phone: the Mac it was made for, its connection,
                 \* the dials it asked for, whether it is aborted, what has come back, and
                 \* as history whether anything broke meanwhile
  serving,       \* the daemon: the exchange on each stream
  cached, fresh, \* the discovery: its last answer, still young
  probe,         \* the probe in flight
  starting,      \* the starter: a start is in flight
  service,       \* the opencode process that answers, 0 if none
  spawned,       \* processes so far
  commands, faults,
  runs,          \* history: how often the service ran each request, over any stream
  joined,        \* history: streams that shared a probe older than their start
  unserved       \* history: streams refused after a start, the service up since

linkVars == <<cache, link, remote, closing, told>>
daemonVars == <<serving, cached, fresh, probe, starting>>
historyVars == <<runs, joined, unserved>>
vars == <<paired, linkVars, req, daemonVars, service, spawned, commands, faults,
          historyVars>>

Settled == {"done", "short", "failed", "aborted"}
Phases == {"idle", "key", "dial", "write", "head", "body"} \cup Settled
NoProbe == [on |-> FALSE, of |-> 0]
Idle == [phase |-> "idle", mac |-> NoMac, conn |-> 0, tries |-> 0, gone |-> FALSE,
         back |-> "nothing", met |-> FALSE]
NoExchange == [at |-> "none", by |-> 0]

TypeOK ==
  /\ paired \in Macs \cup {NoMac}
  /\ cache \in Conns \cup {0} /\ (cache # 0 => link[cache] # "none")
  /\ link \in [Conns -> {"none", "dialing", "open", "silent", "dead"}]
  /\ remote \in [Conns -> Macs \cup {NoMac}]
  /\ closing \subseteq Conns /\ told \subseteq Conns
  /\ req \in [Requests -> [phase : Phases, mac : Macs \cup {NoMac}, conn : Conns \cup {0},
                           tries : 0 .. 2, gone : BOOLEAN,
                           back : {"nothing", "head", "all", "cut"}, met : BOOLEAN]]
  /\ serving \in [BiStreams -> [at : {"none", "resolving", "waiting", "again", "sent",
                                      "running", "body", "refused", "over"},
                                by : Services \cup {0}]]
  /\ \A x \in BiStreams : serving[x].at = "waiting" => starting
  /\ cached \in Services \cup {0} /\ fresh \in BOOLEAN
  /\ probe \in [on : BOOLEAN, of : Services \cup {0}]
  /\ starting \in BOOLEAN
  /\ service \in Services \cup {0} /\ spawned \in Services \cup {0}

UserCommand == commands < MaxCommands /\ commands' = commands + 1
Fault == faults < MaxFaults /\ faults' = faults + 1

UnderWay(r) == req[r].phase \notin Settled \cup {"idle"}
Users(c) == IF c = 0 THEN {} ELSE {r \in Requests : UnderWay(r) /\ req[r].conn = c}
Meet(S) == [r \in Requests |-> IF r \in S THEN [req[r] EXCEPT !.met = TRUE] ELSE req[r]]
Strike == req' = Meet({r \in Requests : UnderWay(r)})

-----------------------------------------------------------------------------
(* The cached connection *)

Fresh == CHOOSE c \in Conns : link[c] = "none" /\ \A b \in 1 .. c - 1 : link[b] # "none"

\* getHttpConnection with nothing cached.  "dropped" are closed before it.
Redial(m, dropped) ==
  /\ cache' = Fresh
  /\ link' = [c \in Conns |-> IF c = Fresh THEN "dialing" ELSE IF c \in dropped THEN "dead"
                              ELSE link[c]]
  /\ remote' = [remote EXCEPT ![Fresh] = m]

\* clearHttpConnection closes the cached connection, a dial once it is done.
Dropped == {c \in {cache} \ {0} : link[c] # "dialing"}
CloseLater == closing' = closing \cup (({cache} \ {0}) \ Dropped)

Init ==
  /\ paired \in Macs \cup {NoMac}
  /\ cache = 0 /\ link = [c \in Conns |-> "none"] /\ remote = [c \in Conns |-> NoMac]
  /\ closing = {} /\ told = {}
  /\ req = [r \in Requests |-> Idle]
  /\ serving = [x \in BiStreams |-> NoExchange]
  /\ cached = 0 /\ fresh = FALSE /\ probe = NoProbe /\ starting = FALSE
  /\ service = 0 /\ spawned = 0
  /\ commands = 0 /\ faults = 0
  /\ runs = [r \in Requests |-> 0]
  /\ joined = {} /\ unserved = {}

\* Mutant: a dial that was dropped while it was under way is not closed.
DialDone_Kept(c) ==
  /\ link[c] = "dialing"
  /\ link' = [link EXCEPT ![c] = "open"]
  /\ closing' = closing \ {c}
  /\ UNCHANGED <<paired, cache, remote, told, req, daemonVars, service,
                 spawned, commands, faults, historyVars>>

DialDone(c) ==
  /\ link[c] = "dialing"
  /\ link' = [link EXCEPT ![c] = IF c \in closing THEN "dead" ELSE "open"]
  /\ closing' = closing \ {c}
  /\ UNCHANGED <<paired, cache, remote, told, req, daemonVars, service,
                 spawned, commands, faults, historyVars>>

DialFailed(c) ==
  /\ link[c] = "dialing"
  /\ Fault
  /\ link' = [link EXCEPT ![c] = "dead"]
  /\ cache' = IF cache = c THEN 0 ELSE cache
  /\ closing' = closing \ {c}
  /\ Strike
  /\ UNCHANGED <<paired, remote, told, daemonVars, service, spawned, commands, historyVars>>

\* The Mac goes away without a close, or the close arrives.
LinkLost(c) ==
  /\ link[c] = "open"
  /\ Fault
  /\ \E s \in {"silent", "dead"} : link' = [link EXCEPT ![c] = s]
  /\ told' = IF link'[c] = "dead" THEN told \cup {c} ELSE told
  /\ Strike
  /\ UNCHANGED <<paired, cache, remote, closing, daemonVars, service, spawned, commands,
                 historyVars>>

IdleTimeout(c) ==
  /\ link[c] = "silent"
  /\ link' = [link EXCEPT ![c] = "dead"]
  /\ told' = told \cup {c}
  /\ UNCHANGED <<paired, cache, remote, closing, req, daemonVars, service, spawned,
                 commands, faults, historyVars>>

\* conn.closed() settles: the cache is dropped if it is still this one.
ClosedTold(c) ==
  /\ c \in told
  /\ told' = told \ {c}
  /\ cache' = IF cache = c THEN 0 ELSE cache
  /\ UNCHANGED <<paired, link, remote, closing, req, daemonVars, service, spawned,
                 commands, faults, historyVars>>

\* OcRuntimeGate: the daemon connection went offline, or the user unpairs.
Detach(m) ==
  /\ UserCommand
  /\ paired' = m
  /\ CloseLater /\ cache' = 0
  /\ link' = [c \in Conns |-> IF c \in Dropped THEN "dead" ELSE link[c]]
  /\ Strike
  /\ UNCHANGED <<remote, told, daemonVars, service, spawned, faults, historyVars>>

GoOffline == Detach(paired)
Unpair == paired # NoMac /\ Detach(NoMac)

\* pair() goes from online to online: the gate does not run.
Pair(m) ==
  /\ UserCommand
  /\ paired # m
  /\ paired' = m
  /\ UNCHANGED <<linkVars, req, daemonVars, service, spawned, faults, historyVars>>

-----------------------------------------------------------------------------
(* One fetch *)

Goto(r, p) == req' = [req EXCEPT ![r].phase = p]

\* The stream is let go of.
Settle(r, p) ==
  req' = [req EXCEPT ![r] = [Idle EXCEPT !.phase = p, !.met = p = "failed" /\ req[r].met]]

Fetch(r) ==
  /\ req[r].phase = "idle" /\ paired # NoMac
  /\ req' = [req EXCEPT ![r].phase = "key", ![r].mac = paired]
  /\ UNCHANGED <<paired, linkVars, daemonVars, service, spawned, commands, faults, historyVars>>

\* getHttpConnection: the cached one, whatever Mac it goes to, or a new dial.
OpenHttp(r) ==
  /\ req[r].phase = "key"
  /\ req' = [req EXCEPT ![r].phase = "dial", ![r].tries = 1,
                        ![r].conn = IF cache # 0 THEN cache ELSE Fresh]
  /\ IF cache # 0 THEN UNCHANGED <<cache, link, remote>> ELSE Redial(req[r].mac, {})
  /\ UNCHANGED <<paired, closing, told, daemonVars, service, spawned, commands, faults,
                 historyVars>>

LinkOf(r) == link[req[r].conn]

\* openBi: a connection that died unnoticed still opens a stream.
StreamOpened(r) ==
  /\ req[r].phase = "dial" /\ LinkOf(r) \in {"open", "silent"}
  /\ IF req[r].gone THEN Settle(r, "aborted")
     ELSE req' = [req EXCEPT ![r].phase = "write",
                             ![r].met = req[r].met \/ LinkOf(r) = "silent"]
  /\ UNCHANGED <<paired, linkVars, daemonVars, service, spawned, commands, faults, historyVars>>

Ended(r) == IF req[r].gone THEN "aborted" ELSE "failed"

\* The dial or openBi failed: drop the cache, whoever dialled it, and try once more.
StreamFailed(r) ==
  /\ req[r].phase = "dial" /\ LinkOf(r) = "dead"
  /\ IF req[r].tries = 1
     THEN /\ req' = [Meet(Users(cache) \ {r}) EXCEPT ![r].tries = 2, ![r].conn = Fresh]
          /\ CloseLater /\ Redial(req[r].mac, Dropped)
     ELSE Settle(r, Ended(r)) /\ UNCHANGED <<closing, cache, link, remote>>
  /\ UNCHANGED <<paired, told, daemonVars, service, spawned, commands, faults, historyVars>>

Wrote(r) ==
  /\ req[r].phase = "write" /\ LinkOf(r) # "dead"
  /\ Goto(r, "head")
  /\ UNCHANGED <<paired, linkVars, daemonVars, service, spawned, commands, faults, historyVars>>

\* Mutant: a write that fails is retried like a stream that does not open.
WriteFailed_Retry(r) ==
  /\ req[r].phase = "write" /\ LinkOf(r) = "dead"
  /\ IF req[r].tries = 1
     THEN /\ req' = [Meet(Users(cache) \ {r}) EXCEPT ![r].phase = "dial", ![r].tries = 2,
                                                     ![r].conn = Fresh]
          /\ CloseLater /\ Redial(req[r].mac, Dropped)
     ELSE Settle(r, "failed") /\ UNCHANGED <<closing, cache, link, remote>>
  /\ UNCHANGED <<paired, told, daemonVars, service, spawned, commands, faults, historyVars>>

WriteFailed(r) ==
  /\ req[r].phase = "write" /\ LinkOf(r) = "dead"
  /\ Settle(r, "failed")
  /\ UNCHANGED <<paired, linkVars, daemonVars, service, spawned, commands, faults, historyVars>>

HeadBack(r) ==
  /\ req[r].phase = "head" /\ LinkOf(r) # "dead" /\ req[r].back \in {"head", "all"}
  /\ Goto(r, "body")
  /\ UNCHANGED <<paired, linkVars, daemonVars, service, spawned, commands, faults, historyVars>>

\* Mutant: only the daemon's end of the stream ends the wait for the head.
HeadFailed_CutOnly(r) ==
  /\ req[r].phase = "head" /\ req[r].back = "cut"
  /\ Settle(r, "failed")
  /\ UNCHANGED <<paired, linkVars, daemonVars, service, spawned, commands, faults, historyVars>>

HeadFailed(r) ==
  /\ req[r].phase = "head" /\ (LinkOf(r) = "dead" \/ req[r].back = "cut")
  /\ Settle(r, "failed")
  /\ UNCHANGED <<paired, linkVars, daemonVars, service, spawned, commands, faults, historyVars>>

\* A stream that breaks off ends the body as if it were whole ("short").
BodyBack(r) ==
  /\ req[r].phase = "body"
  /\ \/ LinkOf(r) # "dead" /\ req[r].back = "all" /\ Settle(r, "done")
     \/ (LinkOf(r) = "dead" \/ req[r].back = "cut") /\ Settle(r, "short")
  /\ UNCHANGED <<paired, linkVars, daemonVars, service, spawned, commands, faults, historyVars>>

\* The signal: noticed at once on an open stream, else when it has opened.
Abort(r) ==
  /\ UnderWay(r) /\ ~req[r].gone
  /\ UserCommand
  /\ IF req[r].phase \in {"key", "dial"} THEN req' = [req EXCEPT ![r].gone = TRUE]
     ELSE Settle(r, "aborted")
  /\ UNCHANGED <<paired, linkVars, daemonVars, service, spawned, faults, historyVars>>

-----------------------------------------------------------------------------
(* The daemon *)

\* The phone is at the other end of stream x, and reads what the daemon writes.
Alive(x) ==
  /\ req[x[1]].phase \in {"write", "head", "body"} /\ req[x[1]].tries = x[2]
  /\ LinkOf(x[1]) = "open"

Serve(x, s) == serving' = [serving EXCEPT ![x].at = s]
Over(x) == serving' = [serving EXCEPT ![x] = [at |-> "over", by |-> 0]]

Sent(p) == [at |-> "sent", by |-> p]
To(S, at) == [x \in BiStreams |-> IF x \in S THEN [at |-> at, by |-> 0] ELSE serving[x]]

\* A probe reads the registration when it begins.
Probed == IF probe.on THEN probe ELSE [on |-> TRUE, of |-> service]

\* A stream reaches the proxy, which resolves the service.
Accept(x) ==
  /\ serving[x].at = "none" /\ Alive(x)
  /\ IF cached # 0 /\ fresh
     THEN serving' = [serving EXCEPT ![x] = Sent(cached)] /\ UNCHANGED probe
     ELSE Serve(x, "resolving") /\ probe' = Probed
  /\ UNCHANGED <<paired, linkVars, req, cached, fresh, starting, service, spawned,
                 commands, faults, historyVars>>

\* The probe ends for all who share it.  On a miss a task starts the service,
\* and what meets a start under way waits for it.
ProbeBack ==
  /\ probe.on
  /\ probe' = NoProbe
  /\ LET answer == IF service = probe.of THEN probe.of ELSE 0
         first == {x \in BiStreams : serving[x].at = "resolving"}
         second == {x \in BiStreams : serving[x].at = "again"}
         starts == {x \in first : x[1] \in Tasks}
     IN /\ cached' = answer /\ fresh' = TRUE
        /\ IF answer # 0
           THEN /\ serving' = [x \in BiStreams |->
                     IF x \in first \cup second THEN Sent(answer) ELSE serving[x]]
                /\ UNCHANGED <<starting, unserved>>
           ELSE \E waits \in SUBSET first :
                  /\ starts \subseteq waits
                  /\ starting => waits = first
                  /\ ~starting /\ starts = {} => waits = {}
                  /\ serving' = [x \in BiStreams |->
                       IF x \in first \cup second
                       THEN [at |-> IF x \in waits THEN "waiting" ELSE "refused", by |-> 0]
                       ELSE serving[x]]
                  /\ starting' = (starting \/ starts # {})
                  /\ unserved' = IF service # 0 THEN unserved \cup second ELSE unserved
  /\ UNCHANGED <<paired, linkVars, req, service, spawned, commands, faults,
                 runs, joined>>

Waiting == {x \in BiStreams : serving[x].at = "waiting"}

\* Service.ensure found or started a healthy service: look again.  The look
\* is a new probe unless one is in flight.
StartDone ==
  /\ starting /\ (service # 0 \/ spawned < MaxServices)
  /\ starting' = FALSE /\ fresh' = FALSE
  /\ service' = IF service = 0 THEN spawned + 1 ELSE service
  /\ spawned' = IF service = 0 THEN spawned + 1 ELSE spawned
  /\ serving' = To(Waiting, "again")
  /\ probe' = IF Waiting = {} \/ probe.on THEN probe ELSE [on |-> TRUE, of |-> service']
  /\ joined' = IF probe.on THEN joined \cup Waiting ELSE joined
  /\ UNCHANGED <<paired, linkVars, req, cached, commands, faults,
                 runs, unserved>>

\* Mutant: a failed start leaves the requests that share it waiting.
StartFailed_Silent ==
  /\ starting
  /\ Fault
  /\ starting' = FALSE
  /\ UNCHANGED <<paired, linkVars, req, serving, cached, fresh, probe,
                 service, spawned, commands, historyVars>>

StartFailed ==
  /\ starting
  /\ Fault
  /\ starting' = FALSE
  /\ serving' = To(Waiting, "refused")
  /\ UNCHANGED <<paired, linkVars, req, cached, fresh, probe, service,
                 spawned, commands, historyVars>>

AnswerAges ==
  /\ fresh /\ fresh' = FALSE
  /\ UNCHANGED <<paired, linkVars, req, serving, cached, probe, starting,
                 service, spawned, commands, faults, historyVars>>

\* The proxy's request meets the service it was resolved for, or nobody.
Forward(x) ==
  /\ serving[x].at = "sent"
  /\ IF service = serving[x].by THEN /\ Serve(x, "running")
                                   /\ runs' = [runs EXCEPT ![x[1]] = @ + 1]
     ELSE Serve(x, "refused") /\ UNCHANGED runs
  /\ UNCHANGED <<paired, linkVars, req, cached, fresh, probe, starting,
                 service, spawned, commands, faults, joined, unserved>>

\* What is written to a stream that is gone fails and ends the exchange.
Reply(x, from, answer, next) ==
  /\ serving[x].at = from
  /\ req' = IF Alive(x) THEN [req EXCEPT ![x[1]].back = answer] ELSE req
  /\ IF Alive(x) /\ next # "over" THEN Serve(x, next) ELSE Over(x)
  /\ UNCHANGED <<paired, linkVars, cached, fresh, probe, starting, service,
                 spawned, commands, faults, historyVars>>

Served(x) == service = serving[x].by
ReplyHead(x) == Served(x) /\ Reply(x, "running", "head", "body")
ReplyBody(x) == Served(x) /\ x[1] \notin Streams /\ Reply(x, "body", "all", "over")
Heartbeat(x) == Served(x) /\ x[1] \in Streams /\ ~Alive(x) /\ Reply(x, "body", "head", "body")
Refuse(x) == Reply(x, "refused", "all", "over")

\* The service went away: 502 before the head, a reset after it.
UpstreamLost(x) ==
  /\ ~Served(x)
  /\ \/ Reply(x, "running", "all", "over")
     \/ Reply(x, "body", "cut", "over")

ServiceStops ==
  /\ service # 0
  /\ Fault
  /\ service' = 0
  /\ Strike
  /\ joined' = joined \cup {x \in BiStreams : serving[x].at = "again"}
  /\ UNCHANGED <<paired, linkVars, daemonVars, spawned, commands, runs, unserved>>

ServiceStarts ==
  /\ service = 0 /\ spawned < MaxServices
  /\ UserCommand
  /\ service' = spawned + 1 /\ spawned' = spawned + 1
  /\ UNCHANGED <<paired, linkVars, req, daemonVars, faults, historyVars>>

-----------------------------------------------------------------------------
ConnStep == \E c \in Conns :
  DialDone(c) \/ DialFailed(c) \/ LinkLost(c) \/ IdleTimeout(c) \/ ClosedTold(c)
FetchStep(r) ==
  \/ Fetch(r) \/ OpenHttp(r) \/ StreamOpened(r) \/ StreamFailed(r) \/ Wrote(r)
  \/ WriteFailed(r) \/ HeadBack(r) \/ HeadFailed(r) \/ BodyBack(r) \/ Abort(r)
DaemonStep(x) ==
  \/ Accept(x) \/ Forward(x) \/ ReplyHead(x) \/ ReplyBody(x) \/ Heartbeat(x) \/ Refuse(x)
  \/ UpstreamLost(x)

Next ==
  \/ GoOffline \/ Unpair \/ \E m \in Macs : Pair(m)
  \/ ConnStep
  \/ \E r \in Requests : FetchStep(r)
  \/ \E x \in BiStreams : DaemonStep(x)
  \/ ProbeBack \/ StartDone \/ StartFailed \/ AnswerAges
  \/ ServiceStops \/ ServiceStarts

\* Dials, closes, probes and starts come back (they have timeouts), QUIC notices
\* a silent peer, and a service that is there answers.
Fairness ==
  /\ \A c \in Conns : WF_vars(DialDone(c)) /\ WF_vars(IdleTimeout(c)) /\ WF_vars(ClosedTold(c))
  /\ \A r \in Requests :
       WF_vars(OpenHttp(r) \/ StreamOpened(r) \/ StreamFailed(r) \/ Wrote(r)
               \/ WriteFailed(r) \/ HeadBack(r) \/ HeadFailed(r) \/ BodyBack(r))
  /\ \A x \in BiStreams : WF_vars(DaemonStep(x))
  /\ WF_vars(ProbeBack) /\ WF_vars(StartDone \/ StartFailed)

Spec == Init /\ [][Next]_vars /\ Fairness

-----------------------------------------------------------------------------
(* Properties *)

\* The phone holds no open connection but the cached one: every other was closed, or
\* will be once its dial is done, by whoever dropped it (clearHttpConnection).
OneConnection == \A c \in Conns : link[c] \in {"open", "silent"} => c = cache

\* A request fails only if something broke while it was under way, or another
\* request's retry closed the connection it was on: a connection found dead is
\* replaced without the caller noticing (openHttpStream).
FailsForCause == \A r \in Requests : req[r].phase = "failed" => req[r].met

\* No request runs twice, whatever streams it opens: a prompt is sent once
\* (openHttpStream retries only what it does before a byte is written).
RunsOnce == \A r \in Requests : runs[r] <= 1

\* Retrying spares the caller a dead connection and never does its work twice.
RetrySafe == FailsForCause /\ RunsOnce

\* What waited for a start of the service that succeeded is not told there is no
\* service, unless it shared a probe older than the start (resolveOpencode, resolve).
StartServes == unserved \subseteq joined

\* What the phone asks for is done, and done once, wherever it can be.
DoneOnce == RetrySafe /\ StartServes

\* Every request comes to an end on both sides, but an event stream that is live;
\* the daemon drops what it runs for a phone that has gone.
ExchangesOf(r) == {serving[x] : x \in {r} \X (1 .. 2)}
Streaming(r) == /\ r \in Streams /\ req[r].phase = "body"
                /\ \E x \in {r} \X (1 .. 2) : Alive(x) /\ serving[x].at = "body"
Settles == \A r \in Requests :
  []<>(Streaming(r) \/ (~UnderWay(r) /\ \A e \in ExchangesOf(r) : e.at \in {"none", "over"}))

\* A request made for the Mac the phone is paired with goes to no other one
\* ("Pairing here disconnects the current Mac", app/src/app/pair.tsx).
RightMac == \A r \in Requests :
  req[r].phase \in {"write", "head", "body"} /\ req[r].mac = paired => remote[req[r].conn] = paired

=============================================================================
