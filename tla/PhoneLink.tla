----------------------------- MODULE PhoneLink -----------------------------
(***************************************************************************)
(* The phone's one connection to the Mac's daemon: DaemonClientProvider    *)
(* (app/src/lib/daemon-client-context.tsx) with the Transport and the      *)
(* DaemonClient facade it drives (app/src/lib/daemon-client.ts) and the    *)
(* wire under them (iroh-wire.ts, wire-transport.ts).                      *)
(*                                                                         *)
(* Every connect(), pair() and unpair() bumps the epoch and starts one     *)
(* asynchronous run, so a run, its captured epoch and the transport it     *)
(* makes share one number.  A step is the code between two awaits.  The    *)
(* daemon, the network and the key store are external: what they answer is *)
(* a choice, limited by MaxFaults when it is a failure.                    *)
(***************************************************************************)
EXTENDS Naturals, FiniteSets

CONSTANTS
  Macs,          \* daemons a pair offer can name
  NoMac,         \* no credential
  Rpcs,          \* calls the app makes on the facade
  MaxEpoch,      \* bound: connect(), pair() and unpair() in one launch
  MaxCommands,   \* bound: what the user does (pair, unpair, retry, relaunch)
  MaxFaults      \* bound: failed dials, lost wires, failed key-store calls

ASSUME NoMacAssumption == NoMac \notin Macs
ASSUME BoundAssumption ==
  /\ MaxEpoch \in Nat \ {0}
  /\ MaxCommands \in Nat
  /\ MaxFaults \in Nat

Epochs == 1 .. MaxEpoch

VARIABLES
  state,         \* the health machine's status
  shown,         \* `paired`: the credential the screens see
  stored,        \* the credential in SecureStore
  mismatch,      \* `protocolError` is set
  initialized,   \* the sticky splash flag
  epoch,         \* epochRef
  armed,         \* shouldReconnectRef
  timer,         \* the epoch the pending reconnect timer captured, 0 if none
  link,          \* transportRef and the facade's transport, 0 if none
  run,           \* run[e]: the asynchronous run epoch e started
  wire,          \* wire[e]: the wire of the transport run e made
  heard,         \* transports whose onUnexpectedClose is set
  rpc,           \* rpc[r]: where a call on the facade is
  via,           \* via[r]: the transport a sent call went out on
  commands,      \* user commands so far
  faults         \* failures so far

runVars == <<run, wire, heard>>
rpcVars == <<rpc, via>>
vars == <<state, shown, stored, mismatch, initialized, epoch, armed, timer,
          link, run, wire, heard, rpc, via, commands, faults>>

Kinds == {"none", "connect", "pair", "unpair"}
Phases == {"idle", "load", "dial", "persist", "reread", "clear",
           "done", "dropped", "unsaved"}
Runs == [kind : Kinds, phase : Phases, mac : Macs \cup {NoMac}]
NoRun == [kind |-> "none", phase |-> "idle", mac |-> NoMac]

TypeOK ==
  /\ state \in {"connecting", "ready", "offline", "unpaired", "error"}
  /\ shown \in Macs \cup {NoMac}
  /\ stored \in Macs \cup {NoMac}
  /\ mismatch \in BOOLEAN
  /\ initialized \in BOOLEAN
  /\ epoch \in Epochs
  /\ armed \in BOOLEAN
  /\ timer \in 0 .. MaxEpoch
  /\ link \in 0 .. MaxEpoch
  /\ run \in [Epochs -> Runs]
  /\ wire \in [Epochs -> {"none", "open", "silent", "closed"}]
  /\ heard \subseteq Epochs
  /\ rpc \in [Rpcs -> {"idle", "waiting", "sent", "unheard", "answered", "failed"}]
  /\ via \in [Rpcs -> 0 .. MaxEpoch]
  /\ commands \in 0 .. MaxCommands
  /\ faults \in 0 .. MaxFaults

-----------------------------------------------------------------------------
(* Pieces of the handlers *)

\* A run that still has an await to come back from.
Running(e) == run[e].phase \in {"load", "dial", "persist", "reread", "clear"}

\* Mutant: the pending calls are forgotten, not rejected.
CloseWires_KeepPending(S) ==
  /\ wire' = [e \in Epochs |-> IF e \in S THEN "closed" ELSE wire[e]]
  /\ UNCHANGED rpc

\* Transport.close() and the close a wire reports: onTransportClosed rejects
\* the calls pending on it.  It runs once per wire, so a call put on a wire
\* that has closed already ("unheard") is not among them.
CloseWires(S) ==
  /\ wire' = [e \in Epochs |-> IF e \in S THEN "closed" ELSE wire[e]]
  /\ rpc' = [r \in Rpcs |->
       IF rpc[r] = "sent" /\ via[r] \in S THEN "failed" ELSE rpc[r]]

Goto(e, phase) == run' = [run EXCEPT ![e].phase = phase]

UserCommand ==
  /\ commands < MaxCommands
  /\ commands' = commands + 1

Fault ==
  /\ faults < MaxFaults
  /\ faults' = faults + 1

-----------------------------------------------------------------------------
(* connect(): boot, reset() and every retry *)

Init ==
  /\ state = "connecting"
  /\ shown = NoMac
  /\ stored \in Macs \cup {NoMac}
  /\ mismatch = FALSE
  /\ initialized = FALSE
  /\ epoch = 1
  /\ armed = TRUE
  /\ timer = 0
  /\ link = 0
  /\ run = [e \in Epochs |-> IF e = 1
              THEN [kind |-> "connect", phase |-> "load", mac |-> NoMac]
              ELSE NoRun]
  /\ wire = [e \in Epochs |-> "none"]
  /\ heard = {}
  /\ rpc = [r \in Rpcs |-> "idle"]
  /\ via = [r \in Rpcs |-> 0]
  /\ commands = 0
  /\ faults = 0

Connect ==
  /\ epoch < MaxEpoch
  /\ epoch' = epoch + 1
  /\ timer' = 0
  /\ link' = 0
  /\ CloseWires({link} \ {0})
  /\ armed' = TRUE
  /\ state' = "connecting"
  /\ run' = [run EXCEPT ![epoch + 1] =
               [kind |-> "connect", phase |-> "load", mac |-> NoMac]]
  /\ UNCHANGED <<shown, stored, mismatch, initialized, heard, via>>

\* The retry button of the update-required screen.
Reset ==
  /\ mismatch /\ shown # NoMac
  /\ UserCommand
  /\ Connect
  /\ UNCHANGED faults

\* Mutant: the timer compares its epoch with the one the retry will have.
RetryTimer_OffByOne ==
  /\ timer # 0
  /\ IF timer = epoch + 1 /\ armed
     THEN Connect
     ELSE /\ timer' = 0
          /\ UNCHANGED <<state, shown, stored, mismatch, initialized, epoch,
                         armed, link, runVars, rpcVars>>
  /\ UNCHANGED <<commands, faults>>

\* handleBootRetry and the timer body of handleUnexpectedClose.
RetryTimer ==
  /\ timer # 0
  /\ IF timer = epoch /\ armed
     THEN Connect
     ELSE /\ timer' = 0
          /\ UNCHANGED <<state, shown, stored, mismatch, initialized, epoch,
                         armed, link, runVars, rpcVars>>
  /\ UNCHANGED <<commands, faults>>

\* loadOrCreateIdentity and getPairedDaemon came back.  The loaded record is
\* published whatever the epoch; only "no record" looks at it first.
ConnectLoaded(e) ==
  /\ run[e].kind = "connect" /\ run[e].phase = "load"
  /\ IF stored = NoMac
     THEN /\ Goto(e, "done")
          /\ IF e = epoch
             THEN /\ shown' = NoMac
                  /\ state' = "unpaired"
                  /\ initialized' = TRUE
             ELSE UNCHANGED <<shown, state, initialized>>
     ELSE /\ run' = [run EXCEPT ![e] =
                       [kind |-> "connect", phase |-> "dial", mac |-> stored]]
          /\ shown' = stored
          /\ UNCHANGED <<state, initialized>>
  /\ UNCHANGED <<stored, mismatch, epoch, armed, timer, link, wire, heard,
                 rpcVars, commands, faults>>

\* The key store threw: the outer catch of connect().
ConnectLoadFailed(e) ==
  /\ run[e].kind = "connect" /\ run[e].phase = "load"
  /\ Fault
  /\ Goto(e, "done")
  /\ IF e = epoch
     THEN state' = "error" /\ initialized' = TRUE
     ELSE UNCHANGED <<state, initialized>>
  /\ UNCHANGED <<shown, stored, mismatch, epoch, armed, timer, link, wire,
                 heard, rpcVars, commands>>

\* Mutant: a superseded dial returns without closing its transport.
ConnectDialed_NoClose(e) ==
  /\ run[e].kind = "connect" /\ run[e].phase = "dial"
  /\ Goto(e, IF e = epoch THEN "done" ELSE "dropped")
  /\ wire' = [wire EXCEPT ![e] = "open"]
  /\ IF e = epoch
     THEN /\ heard' = heard \cup {e}
          /\ link' = e
          /\ mismatch' = FALSE
          /\ state' = "ready"
          /\ initialized' = TRUE
     ELSE UNCHANGED <<heard, link, mismatch, state, initialized>>
  /\ UNCHANGED <<shown, stored, epoch, armed, timer, rpcVars, commands, faults>>

\* Transport.reconnect resolved: attach, or close a superseded transport.
ConnectDialed(e) ==
  /\ run[e].kind = "connect" /\ run[e].phase = "dial"
  /\ IF e = epoch
     THEN /\ Goto(e, "done")
          /\ wire' = [wire EXCEPT ![e] = "open"]
          /\ heard' = heard \cup {e}
          /\ link' = e
          /\ mismatch' = FALSE
          /\ state' = "ready"
          /\ initialized' = TRUE
     ELSE /\ Goto(e, "dropped")
          /\ wire' = [wire EXCEPT ![e] = "closed"]
          /\ UNCHANGED <<heard, link, mismatch, state, initialized>>
  /\ UNCHANGED <<shown, stored, epoch, armed, timer, rpcVars, commands, faults>>

\* Mutant: a failed dial goes offline and forgets to schedule the retry.
ConnectDialFailed_NoRetry(e, incompatible) ==
  /\ run[e].kind = "connect" /\ run[e].phase = "dial"
  /\ Fault
  /\ Goto(e, "done")
  /\ IF e # epoch \/ ~armed
     THEN UNCHANGED <<armed, mismatch, state, initialized>>
     ELSE /\ initialized' = TRUE
          /\ armed' = ~incompatible
          /\ mismatch' = (mismatch \/ incompatible)
          /\ state' = IF incompatible THEN "error" ELSE "offline"
  /\ UNCHANGED <<shown, stored, epoch, timer, link, wire, heard, rpcVars, commands>>

\* Transport.reconnect rejected: the daemon is unreachable, or the handshake
\* found incompatible protocol versions, which ends the retries.
ConnectDialFailed(e, incompatible) ==
  /\ run[e].kind = "connect" /\ run[e].phase = "dial"
  /\ Fault
  /\ Goto(e, "done")
  /\ IF e # epoch \/ ~armed
     THEN UNCHANGED <<armed, mismatch, state, timer, initialized>>
     ELSE /\ initialized' = TRUE
          /\ IF incompatible
             THEN /\ armed' = FALSE
                  /\ mismatch' = TRUE
                  /\ state' = "error"
                  /\ UNCHANGED timer
             ELSE /\ state' = "offline"
                  /\ timer' = e
                  /\ UNCHANGED <<armed, mismatch>>
  /\ UNCHANGED <<shown, stored, epoch, link, wire, heard, rpcVars, commands>>

-----------------------------------------------------------------------------
(* pair(): a scanned offer, the first or one that replaces the current Mac *)

\* Mutant: the pending retry of the current Mac is left scheduled.
Pair_KeepTimer(mac) ==
  /\ initialized
  /\ mac # shown
  /\ epoch < MaxEpoch
  /\ UserCommand
  /\ epoch' = epoch + 1
  /\ armed' = TRUE
  /\ run' = [run EXCEPT ![epoch + 1] =
               [kind |-> "pair", phase |-> "dial", mac |-> mac]]
  /\ UNCHANGED <<state, shown, stored, mismatch, initialized, timer, link, wire,
                 heard, rpcVars, faults>>

\* DaemonGate renders the pair screen only once initialized; offering the Mac
\* that is already paired has no confirm button.
Pair(mac) ==
  /\ initialized
  /\ mac # shown
  /\ epoch < MaxEpoch
  /\ UserCommand
  /\ epoch' = epoch + 1
  /\ timer' = 0
  /\ armed' = TRUE
  /\ run' = [run EXCEPT ![epoch + 1] =
               [kind |-> "pair", phase |-> "dial", mac |-> mac]]
  /\ UNCHANGED <<state, shown, stored, mismatch, initialized, link, wire,
                 heard, rpcVars, faults>>

\* The handshake of Transport.pair is over: its wire is open and reports its
\* close to a transport nobody has given an onUnexpectedClose yet.
PairDialed(e) ==
  /\ run[e].kind = "pair" /\ run[e].phase = "dial"
  /\ Goto(e, "persist")
  /\ wire' = [wire EXCEPT ![e] = "open"]
  /\ UNCHANGED <<state, shown, stored, mismatch, initialized, epoch, armed,
                 timer, link, heard, rpcVars, commands, faults>>

\* Bad or expired offer, unreachable daemon, closed pair window: rethrown to
\* the pair screen, no state of the provider changes.
PairDialFailed(e) ==
  /\ run[e].kind = "pair" /\ run[e].phase = "dial"
  /\ Fault
  /\ Goto(e, "done")
  /\ UNCHANGED <<state, shown, stored, mismatch, initialized, epoch, armed,
                 timer, link, wire, heard, rpcVars, commands>>

\* setPairedDaemon came back, with no look at the epoch before the write.
PairSaved(e) ==
  /\ run[e].kind = "pair" /\ run[e].phase = "persist"
  /\ stored' = run[e].mac
  /\ IF e = epoch
     THEN /\ Goto(e, "reread")
          /\ UNCHANGED <<wire, rpc>>
     ELSE /\ Goto(e, "dropped")
          /\ CloseWires({e})
  /\ UNCHANGED <<state, shown, mismatch, initialized, epoch, armed, timer,
                 link, heard, via, commands, faults>>

\* setPairedDaemon threw: Transport.pair rejects and nobody holds the wire.
PairSaveFailed(e) ==
  /\ run[e].kind = "pair" /\ run[e].phase = "persist"
  /\ Fault
  /\ Goto(e, "unsaved")
  /\ UNCHANGED <<state, shown, stored, mismatch, initialized, epoch, armed,
                 timer, link, wire, heard, rpcVars, commands>>

\* getPairedDaemon came back: swap the transports, unless the record is gone
\* or a later command superseded this one.
PairAttached(e) ==
  /\ run[e].kind = "pair" /\ run[e].phase = "reread"
  /\ IF stored = NoMac \/ e # epoch
     THEN /\ Goto(e, IF e # epoch THEN "dropped" ELSE "done")
          /\ CloseWires({e})
          /\ UNCHANGED <<link, heard, shown, mismatch, state, initialized>>
     ELSE /\ Goto(e, "done")
          /\ CloseWires({link} \ {0})
          /\ heard' = heard \cup {e}
          /\ link' = e
          /\ shown' = stored
          /\ mismatch' = FALSE
          /\ state' = "ready"
          /\ initialized' = TRUE
  /\ UNCHANGED <<stored, epoch, armed, timer, via, commands, faults>>

-----------------------------------------------------------------------------
(* unpair(): "Forget host" *)

Unpair ==
  /\ initialized
  /\ shown # NoMac
  /\ epoch < MaxEpoch
  /\ UserCommand
  /\ epoch' = epoch + 1
  /\ armed' = FALSE
  /\ timer' = 0
  /\ link' = 0
  /\ CloseWires({link} \ {0})
  /\ run' = [run EXCEPT ![epoch + 1] =
               [kind |-> "unpair", phase |-> "clear", mac |-> NoMac]]
  /\ UNCHANGED <<state, shown, stored, mismatch, initialized, heard, via,
                 faults>>

\* Mutant: the health machine falls back to a status it does not have.
Unpaired_Idle(e) ==
  /\ run[e].kind = "unpair" /\ run[e].phase = "clear"
  /\ Goto(e, "done")
  /\ stored' = NoMac
  /\ shown' = NoMac
  /\ mismatch' = FALSE
  /\ state' = "idle"
  /\ UNCHANGED <<initialized, epoch, armed, timer, link, wire, heard, rpcVars,
                 commands, faults>>

\* Mutant: the screens forget the Mac and the key store does not.
Unpaired_KeepStored(e) ==
  /\ run[e].kind = "unpair" /\ run[e].phase = "clear"
  /\ Goto(e, "done")
  /\ shown' = NoMac
  /\ mismatch' = FALSE
  /\ state' = "unpaired"
  /\ UNCHANGED <<stored, initialized, epoch, armed, timer, link, wire, heard,
                 rpcVars, commands, faults>>

\* clearPairedDaemon came back; the rest runs whatever the epoch is by now.
Unpaired(e) ==
  /\ run[e].kind = "unpair" /\ run[e].phase = "clear"
  /\ Goto(e, "done")
  /\ stored' = NoMac
  /\ shown' = NoMac
  /\ mismatch' = FALSE
  /\ state' = "unpaired"
  /\ UNCHANGED <<initialized, epoch, armed, timer, link, wire, heard, rpcVars,
                 commands, faults>>

-----------------------------------------------------------------------------
(* The wire, and calls on the facade *)

\* onTransportClosed: the transport reports its close once, and the handler
\* the provider wired (handleUnexpectedClose) drops a stale epoch.
TransportClosed(e) ==
  /\ CloseWires({e})
  /\ heard' = heard \ {e}
  /\ IF e \in heard /\ e = epoch /\ armed
     THEN state' = "offline" /\ timer' = e
     ELSE UNCHANGED <<state, timer>>
  /\ UNCHANGED <<shown, stored, mismatch, initialized, epoch, armed, link,
                 run, via, commands>>

\* The peer or the network closes an open wire.
WireLost(e) ==
  /\ wire[e] = "open"
  /\ Fault
  /\ TransportClosed(e)

\* The peer dies without a close frame; nothing is reported yet.
PeerDies(e) ==
  /\ wire[e] = "open"
  /\ Fault
  /\ wire' = [wire EXCEPT ![e] = "silent"]
  /\ UNCHANGED <<state, shown, stored, mismatch, initialized, epoch, armed,
                 timer, link, run, heard, rpcVars, commands>>

\* No pong within the deadline (or QUIC's idle timeout): probeFailed.
ProbeFailed(e) ==
  /\ wire[e] = "silent"
  /\ TransportClosed(e)
  /\ UNCHANGED faults

\* A call on the facade awaits readyPromise ...
CallRpc(r) ==
  /\ rpc[r] = "idle"
  /\ rpc' = [rpc EXCEPT ![r] = "waiting"]
  /\ UNCHANGED <<state, shown, stored, mismatch, initialized, epoch, armed,
                 timer, link, runVars, via, commands, faults>>

\* ... and goes out on whatever transport is attached.  A drop the peer or the
\* network caused leaves the closed transport attached until the retry: the
\* write fails inside the wire, whose close is long reported, and the call is
\* never settled.
SendRpc(r) ==
  /\ rpc[r] = "waiting"
  /\ link # 0
  /\ rpc' = [rpc EXCEPT ![r] = IF wire[link] = "closed" THEN "unheard" ELSE "sent"]
  /\ via' = [via EXCEPT ![r] = link]
  /\ UNCHANGED <<state, shown, stored, mismatch, initialized, epoch, armed,
                 timer, link, runVars, commands, faults>>

AnswerRpc(r) ==
  /\ rpc[r] = "sent"
  /\ wire[via[r]] = "open"
  /\ rpc' = [rpc EXCEPT ![r] = "answered"]
  /\ UNCHANGED <<state, shown, stored, mismatch, initialized, epoch, armed,
                 timer, link, runVars, via, commands, faults>>

\* iOS kills the app and the user opens it again: only SecureStore survives.
Relaunch ==
  /\ UserCommand
  /\ state' = "connecting"
  /\ shown' = NoMac
  /\ mismatch' = FALSE
  /\ initialized' = FALSE
  /\ epoch' = 1
  /\ armed' = TRUE
  /\ timer' = 0
  /\ link' = 0
  /\ run' = [e \in Epochs |-> IF e = 1
               THEN [kind |-> "connect", phase |-> "load", mac |-> NoMac]
               ELSE NoRun]
  /\ wire' = [e \in Epochs |-> "none"]
  /\ heard' = {}
  /\ rpc' = [r \in Rpcs |-> "idle"]
  /\ via' = [r \in Rpcs |-> 0]
  /\ UNCHANGED <<stored, faults>>

-----------------------------------------------------------------------------

\* What run e does when the await it is in comes back.
RunStep(e) ==
  \/ ConnectLoaded(e)
  \/ ConnectLoadFailed(e)
  \/ ConnectDialed(e)
  \/ \E incompatible \in BOOLEAN : ConnectDialFailed(e, incompatible)
  \/ PairDialed(e)
  \/ PairDialFailed(e)
  \/ PairSaved(e)
  \/ PairSaveFailed(e)
  \/ PairAttached(e)
  \/ Unpaired(e)

Next ==
  \/ Reset
  \/ RetryTimer
  \/ \E mac \in Macs : Pair(mac)
  \/ Unpair
  \/ Relaunch
  \/ \E e \in Epochs : RunStep(e) \/ WireLost(e) \/ PeerDies(e) \/ ProbeFailed(e)
  \/ \E r \in Rpcs : CallRpc(r) \/ SendRpc(r) \/ AnswerRpc(r)

Spec == Init /\ [][Next]_vars

\* Every await comes back (dials have a 10 s deadline), timers fire, the
\* liveness probe runs every 10 s on each transport, and a daemon that is
\* there answers the calls that reach it.
Fairness ==
  /\ WF_vars(RetryTimer)
  /\ \A e \in Epochs : WF_vars(RunStep(e)) /\ WF_vars(ProbeFailed(e))
  /\ \A r \in Rpcs : WF_vars(AnswerRpc(r))

FairSpec == Spec /\ Fairness

-----------------------------------------------------------------------------
(* Properties *)

\* No connection is left behind: an open wire is the attached transport's, or
\* its pair() has not come back from the key store (or that write threw).
\* Superseded dials close what they opened (context.tsx:354-357, 417-440).
NoLeakedWire ==
  \A e \in Epochs : wire[e] \in {"open", "silent"} =>
    e = link \/ run[e].phase \in {"persist", "reread", "unsaved"}

\* The attached transport belongs to the latest command.  Only pair() moves
\* the epoch on without detaching, and it does so until it succeeds: every
\* command after the one that made the transport is then a pair().
LinkOwner ==
  link # 0 =>
    /\ link <= epoch
    /\ \A e \in link + 1 .. epoch : run[e].kind = "pair"

\* A scheduled retry is always the latest command's, in a provider that may
\* reconnect: a late close or a superseded run arms none, and none outlives the
\* command that would make it dial for nothing.  ("unpaired": an unpair()
\* overtaken by a retry still ends by resetting the status.)
TimerOwner ==
  timer # 0 => timer = epoch /\ armed /\ link \in {0, epoch}
                 /\ state \in {"offline", "unpaired"}

\* The latest command owns what acts for the user: the transport the facade
\* calls on and the retry that will replace it (context.tsx:261, 366).
LatestOwns == LinkOwner /\ TimerOwner

\* The latest command is a pair() that came back without a connection, or that
\* attached a transport whose wire had closed before its handler was wired.
PairFellThrough ==
  /\ run[epoch].kind = "pair" /\ ~Running(epoch)
  /\ link # epoch \/ wire[epoch] = "closed"

\* While a Mac is paired there is always something that brings the connection
\* back: the status is never "ready" on a dead link, never "offline" without
\* a timer and never "connecting" without a dial, except where pair() has cut
\* off the previous command's recovery.
RetryArmed ==
  \/ run[epoch].kind = "pair" /\ Running(epoch)
  \/ PairFellThrough
  \/ run[epoch].kind = "unpair"
  \/ /\ state = "ready" => link = epoch /\ wire[epoch] \in {"open", "silent"}
     /\ state = "offline" => timer = epoch
     /\ state = "connecting" => run[epoch].phase \in {"load", "dial"}

\* What the screens show is what the next launch will load and what the
\* transport leads to: once nothing is running, `paired` is the stored record
\* and the attached transport's Mac, unless a superseded pair() wrote its own
\* record on the way out.  (A connect() that overtakes an unpair() attaches the
\* Mac that is being forgotten: nothing is shown then.)
StoredShown ==
  (\A e \in Epochs : ~Running(e)) =>
    \/ stored = shown /\ (link # 0 => shown \in {run[link].mac, NoMac})
    \/ \E e \in Epochs : run[e].kind = "pair" /\ run[e].phase = "dropped"
    \/ state = "error" /\ shown = NoMac

LinkUp == state = "ready" /\ link # 0 /\ wire[link] = "open"

Down == shown # NoMac /\ state \in {"connecting", "offline", "ready"} /\ ~LinkUp

\* The connection the screens have, as Link.tla counts it.  A pair() that has
\* cut off the previous command's recovery owes none of its own.
Service ==
  IF LinkUp THEN "up" ELSE IF Down /\ ~PairFellThrough THEN "owed" ELSE "none"

Promise == INSTANCE Link WITH latest <- epoch, conn <- link, service <- Service

\* The provider implements the link the screens are promised: one connection
\* at a time, only ever the latest command's, none that comes back after it
\* was lost, and a lost or failed one is replaced by itself once failures
\* stop, or ends in a status that asks the user (context.tsx:25-26, 163-172).
Implements == Promise!Spec

\* A call that went out on a live transport is settled: answered, or rejected
\* when the transport closes, a silent peer included (daemon-client.ts:606).
SentSettles ==
  \A r \in Rpcs : rpc[r] = "sent" ~> rpc[r] # "sent"

=============================================================================
