------------------------------- MODULE Peers -------------------------------
(***************************************************************************)
(* The daemon's door: IrohPeerServer (daemon/src/iroh-peer-server.ts) with *)
(* the clients it knows (known-clients.ts), the Mac's pair window that     *)
(* admits new ones (desktop/server/index.ts) and the phone's end of the    *)
(* handshake (app/src/lib/wire-transport.ts, iroh-wire.ts).                *)
(*                                                                         *)
(* A connection is an RPC wire or a tunnel.  A step is the code between    *)
(* two awaits.  Frames of a connection arrive in order; once it is closed  *)
(* each end may read what has reached it or find the close first.  iroh is *)
(* external: connections open, go silent and close as it decides.          *)
(***************************************************************************)
EXTENDS Naturals, Sequences

CONSTANTS
  Phones,        \* apps that dial the Mac
  Paired,        \* those in known_clients.json at the start
  Outdated,      \* those of an incompatible protocol version
  MaxConns,      \* bound: connections dialled
  MaxFrames,     \* bound: commands, and frames no phone of ours sends
  MaxWindows,    \* bound: openings of the pair window
  MaxFaults      \* bound: silent phones, failed writes, calls of stop()

ASSUME PeersAssumption ==
  /\ Paired \subseteq Phones /\ Outdated \subseteq Phones
  /\ {MaxConns, MaxFrames, MaxWindows, MaxFaults} \subseteq Nat

Conns == 1 .. MaxConns

VARIABLES
  server,        \* "binding", "bound", "stopped" (in stop()), "closed" or "off" (no process)
  pairing,       \* the pair window is open
  known,         \* KnownClients' list
  file,          \* known_clients.json
  link,          \* link[c]: "none", "open", "silent" (the phone is gone) or "closed"
  who,           \* who[c]: the phone that dialled
  incoming,      \* incoming[c]: where handleIncoming is
  peers,         \* the slots
  verified,      \* slots whose hello passed the version gate
  helloTimer,    \* connections whose hello timer runs
  writeChain,    \* writeChain[c]: what waits for the writes before it
  working,       \* slots with a handler that will answer
  listeners,     \* slots whose handlers hold something until the disconnect
  toDaemon,      \* toDaemon[c]: frames on their way
  toPhone,
  phone,         \* phone[c]: where the phone's end of the handshake is
  frames,        \* commands and strange frames so far
  windows,       \* openings of the pair window so far
  faults,        \* faults so far
  handled,       \* history: connections one of whose commands was handled
  greeted,       \* history: phones whose handshake succeeded, which keep the pairing
  unsaved,       \* history: phones whose admission was not written to the file
  strays         \* history: connections left alone by a failed write of the file

slotVars == <<peers, verified, helloTimer, writeChain, working, listeners>>
macVars == <<server, pairing, known, file>>
wireVars == <<link, who, toDaemon, toPhone, phone>>
boundVars == <<frames, windows, faults>>
historyVars == <<handled, greeted, unsaved, strays>>
vars == <<slotVars, macVars, incoming, wireVars, boundVars, historyVars>>

NoPhone == "none"
ToDaemon == {"hello", "oldHello", "command", "garbage"}
ToPhone == {"server_info", "error", "answer"}
CloseAfter == "close"   \* closePeerAfterFlush, in line behind the writes before it

TypeOK ==
  /\ server \in {"binding", "bound", "stopped", "closed", "off"} /\ pairing \in BOOLEAN
  /\ known \subseteq Phones /\ file \subseteq Phones
  /\ link \in [Conns -> {"none", "open", "silent", "closed"}]
  /\ who \in [Conns -> Phones \cup {NoPhone}]
  /\ incoming \in [Conns -> {"none", "connect", "connectTunnel", "acceptBi", "tunnel", "over"}]
  /\ peers \cup verified \cup helloTimer \cup working \cup listeners \subseteq Conns
  /\ writeChain \in [Conns -> Seq(ToPhone \cup {CloseAfter})]
  /\ toPhone \in [Conns -> Seq(ToPhone)] /\ toDaemon \in [Conns -> Seq(ToDaemon)]
  /\ phone \in [Conns -> {"none", "dial", "hello", "ready", "tunnel", "refused", "failed"}]
  /\ frames \in 0 .. MaxFrames /\ windows \in 0 .. MaxWindows /\ faults \in 0 .. MaxFaults
  /\ handled \cup strays \subseteq Conns /\ greeted \cup unsaved \subseteq Phones

Fault == faults < MaxFaults /\ faults' = faults + 1

Init ==
  /\ server = "binding" /\ pairing = FALSE /\ known = Paired /\ file = Paired
  /\ link = [c \in Conns |-> "none"] /\ who = [c \in Conns |-> NoPhone]
  /\ incoming = [c \in Conns |-> "none"]
  /\ peers = {} /\ verified = {} /\ helloTimer = {}
  /\ writeChain = [c \in Conns |-> <<>>] /\ working = {} /\ listeners = {}
  /\ toDaemon = [c \in Conns |-> <<>>] /\ toPhone = [c \in Conns |-> <<>>]
  /\ phone = [c \in Conns |-> "none"]
  /\ frames = 0 /\ windows = 0 /\ faults = 0
  /\ handled = {} /\ greeted = {} /\ unsaved = {} /\ strays = {}

-----------------------------------------------------------------------------
(* Pieces of the handlers *)

\* Connection.close(): both ends learn of it, each in its own time.
CloseLinks(S) ==
  link' = [c \in Conns |-> IF c \in S /\ link[c] # "none" THEN "closed" ELSE link[c]]

\* closePeer() of the slots S: each at most once, with its timer and what its
\* handlers asked to be released (disconnectCallbacks).  What waits to be written
\* comes to nothing.
Forget(S) ==
  /\ peers' = peers \ S
  /\ writeChain' = [c \in Conns |-> IF c \in S THEN <<>> ELSE writeChain[c]]
  /\ helloTimer' = helloTimer \ (S \cap peers)
  /\ listeners' = listeners \ (S \cap peers)

ClosePeers(S) == Forget(S) /\ CloseLinks(S \cap peers)

\* send(): chained onto the writes before, unless the slot is closed.
Send(c, frame) ==
  writeChain' = IF c \in peers THEN [writeChain EXCEPT ![c] = Append(@, frame)] ELSE writeChain

Push(queue, c, frame) == [queue EXCEPT ![c] = Append(@, frame)]
Pop(queue, c) == [queue EXCEPT ![c] = Tail(@)]

-----------------------------------------------------------------------------
(* The phone's end *)

\* connectIrohWire dials for the RPC wire, getHttpConnection and the port forwarder
\* for a tunnel; the daemon's accept loop takes it.
Dial(p, as) ==
  /\ server = "bound"
  /\ \E c \in Conns :
       /\ link[c] = "none" /\ \A b \in Conns : b < c => link[b] # "none"
       /\ link' = [link EXCEPT ![c] = "open"] /\ who' = [who EXCEPT ![c] = p]
       /\ incoming' = [incoming EXCEPT ![c] = IF as = "dial" THEN "connect" ELSE "connectTunnel"]
       /\ phone' = [phone EXCEPT ![c] = as]
  /\ UNCHANGED <<slotVars, macVars, toDaemon, toPhone, boundVars, historyVars>>

\* A frame no phone of ours sends: a command before its hello, or one that does
\* not parse (iroh-peer-server.test.ts:196).
Strange(c, frame) ==
  /\ phone[c] = "dial" /\ link[c] = "open" /\ frames < MaxFrames
  /\ frames' = frames + 1
  /\ toDaemon' = Push(toDaemon, c, frame)
  /\ UNCHANGED <<slotVars, macVars, incoming, link, who, toPhone, phone, windows, faults,
                 historyVars>>

\* openBi resolved: helloHandshake.
SayHello(c) ==
  /\ phone[c] = "dial" /\ link[c] = "open"
  /\ phone' = [phone EXCEPT ![c] = "hello"]
  /\ toDaemon' = Push(toDaemon, c, IF who[c] \in Outdated THEN "oldHello" ELSE "hello")
  /\ UNCHANGED <<slotVars, macVars, incoming, link, who, toPhone, boundVars, historyVars>>

\* The first answer settles the handshake; a refusal closes the wire.
PhoneHears(c) ==
  /\ toPhone[c] # <<>> /\ phone[c] \in {"hello", "ready"}
  /\ toPhone' = Pop(toPhone, c)
  /\ LET settled == CASE phone[c] = "ready" -> "ready"
                      [] Head(toPhone[c]) = "server_info" -> "ready"
                      [] Head(toPhone[c]) = "error" -> "refused"
                      [] OTHER -> "hello"
     IN /\ phone' = [phone EXCEPT ![c] = settled]
        /\ CloseLinks({b \in {c} : settled = "refused"})
        /\ greeted' = greeted \cup {p \in {who[c]} : settled = "ready"}
  /\ UNCHANGED <<slotVars, macVars, incoming, who, toDaemon, boundVars, handled, unsaved,
                 strays>>

\* CONNECT_TIMEOUT_MS is over.  A handshake closes its wire; a dial that is still
\* under way is left to itself, and may connect with nobody to speak on it.
Deadline(c) ==
  /\ phone[c] \in {"dial", "hello"}
  /\ phone' = [phone EXCEPT ![c] = "failed"] /\ toPhone' = [toPhone EXCEPT ![c] = <<>>]
  /\ CloseLinks({b \in {c} : phone[c] = "hello"})
  /\ UNCHANGED <<slotVars, macVars, incoming, who, toDaemon, boundVars, historyVars>>

\* The phone finds its connection closed, or hangs up itself.
PhoneCloses(c) ==
  /\ \/ phone[c] \in {"dial", "hello"} /\ link[c] = "closed"
     \/ phone[c] \in {"ready", "tunnel"} /\ link[c] \in {"open", "closed"}
  /\ phone' = [phone EXCEPT ![c] = "failed"] /\ toPhone' = [toPhone EXCEPT ![c] = <<>>]
  /\ CloseLinks({c})
  /\ UNCHANGED <<slotVars, macVars, incoming, who, toDaemon, boundVars, historyVars>>

SendCommand(c) ==
  /\ phone[c] = "ready" /\ link[c] = "open" /\ frames < MaxFrames
  /\ frames' = frames + 1
  /\ toDaemon' = Push(toDaemon, c, "command")
  /\ UNCHANGED <<slotVars, macVars, incoming, link, who, toPhone, phone, windows, faults,
                 historyVars>>

\* The phone dies or loses its network: neither end hears anything ...
PhoneGone(c) ==
  /\ link[c] = "open" /\ Fault
  /\ link' = [link EXCEPT ![c] = "silent"] /\ phone' = [phone EXCEPT ![c] = "failed"]
  /\ toPhone' = [toPhone EXCEPT ![c] = <<>>]
  /\ UNCHANGED <<slotVars, macVars, incoming, who, toDaemon, frames, windows, historyVars>>

\* ... until the connection idles out.
IdleTimeout(c) ==
  /\ link[c] = "silent"
  /\ CloseLinks({c})
  /\ UNCHANGED <<slotVars, macVars, incoming, who, toDaemon, toPhone, phone, boundVars,
                 historyVars>>

-----------------------------------------------------------------------------
(* Accepting a connection: handleIncoming *)

Connecting(c) == incoming[c] \in {"connect", "connectTunnel"}

\* The peer vanished before the QUIC handshake was done.
ConnectFails(c) ==
  /\ Connecting(c) /\ link[c] = "closed"
  /\ incoming' = [incoming EXCEPT ![c] = "over"]
  /\ UNCHANGED <<slotVars, macVars, wireVars, boundVars, historyVars>>

\* An unknown phone while the pair window is closed.
Rejected(c) ==
  /\ Connecting(c) /\ link[c] # "closed" /\ who[c] \notin known /\ ~pairing
  /\ incoming' = [incoming EXCEPT ![c] = "over"]
  /\ CloseLinks({c})
  /\ UNCHANGED <<slotVars, macVars, who, toDaemon, toPhone, phone, boundVars, historyVars>>

\* A known one, or one admitted by the pair window and written to the file: a
\* tunnel is served, an RPC wire waits for its stream with the hello timer running.
\* serveConnection closes at once what comes after its stop().
Admitted(c) ==
  /\ Connecting(c) /\ link[c] # "closed" /\ (who[c] \in known \/ pairing)
  /\ known' = known \cup {who[c]}
  /\ file' = IF who[c] \in known THEN file ELSE known'
  /\ unsaved' = IF who[c] \in known THEN unsaved ELSE unsaved \ known'
  /\ IF incoming[c] = "connectTunnel"
     THEN /\ incoming' = [incoming EXCEPT ![c] = IF server = "bound" THEN "tunnel" ELSE "over"]
          /\ CloseLinks({b \in {c} : server # "bound"})
          /\ UNCHANGED helloTimer
     ELSE /\ incoming' = [incoming EXCEPT ![c] = "acceptBi"]
          /\ helloTimer' = helloTimer \cup {c}
          /\ UNCHANGED link
  /\ UNCHANGED <<server, pairing, peers, verified, writeChain, working, listeners,
                 who, toDaemon, toPhone, phone, boundVars, handled, greeted, strays>>

\* The file could not be written: the list keeps the phone, and the connection is
\* left to itself, neither served nor closed.
NotSaved(c) ==
  /\ Connecting(c) /\ link[c] # "closed" /\ who[c] \notin known /\ pairing /\ Fault
  /\ known' = known \cup {who[c]} /\ unsaved' = unsaved \cup {who[c]}
  /\ incoming' = [incoming EXCEPT ![c] = "over"] /\ strays' = strays \cup {c}
  /\ UNCHANGED <<slotVars, server, pairing, file, wireVars, frames, windows, handled, greeted>>

\* Mutant: the hello timer ends with the first byte.
StreamOpened_NoTimer(c) ==
  /\ incoming[c] = "acceptBi" /\ toDaemon[c] # <<>>
  /\ incoming' = [incoming EXCEPT ![c] = "over"]
  /\ peers' = peers \cup {c} /\ helloTimer' = helloTimer \ {c}
  /\ UNCHANGED <<verified, writeChain, working, listeners, macVars,
                 wireVars, boundVars, historyVars>>

\* acceptBi resolved with the phone's first bytes: the slot.
StreamOpened(c) ==
  /\ incoming[c] = "acceptBi" /\ toDaemon[c] # <<>>
  /\ incoming' = [incoming EXCEPT ![c] = "over"]
  /\ peers' = peers \cup {c}
  /\ UNCHANGED <<verified, helloTimer, writeChain, working, listeners, macVars,
                 wireVars, boundVars, historyVars>>

\* acceptBi rejected.
StreamFailed(c) ==
  /\ incoming[c] = "acceptBi" /\ link[c] = "closed"
  /\ incoming' = [incoming EXCEPT ![c] = "over"]
  /\ helloTimer' = helloTimer \ {c}
  /\ UNCHANGED <<peers, verified, writeChain, working, listeners, macVars, wireVars,
                 boundVars, historyVars>>

\* HELLO_TIMEOUT_MS is over, with or without a slot; hello clears the timer.
HelloTimeout(c) ==
  /\ c \in helloTimer
  /\ IF c \in peers
     THEN Forget({c}) /\ CloseLinks({c})
     ELSE /\ helloTimer' = helloTimer \ {c} /\ CloseLinks({c})
          /\ UNCHANGED <<peers, listeners, writeChain>>
  /\ UNCHANGED <<verified, working, macVars, incoming, who, toDaemon,
                 toPhone, phone, boundVars, historyVars>>

-----------------------------------------------------------------------------
(* A slot's frames: readLoop, onFrame, send *)

\* onFrame: a second hello and a frame that does not parse are ignored.  A command's
\* handler runs at once and may hold a subscription; its answer comes later.
Frame(c, frame) ==
  CASE frame = "hello" /\ c \notin verified ->
         /\ verified' = verified \cup {c} /\ helloTimer' = helloTimer \ {c}
         /\ Send(c, "server_info")
         /\ UNCHANGED <<working, listeners, handled>>
    [] frame \in {"oldHello", "command"} /\ c \notin verified ->
         /\ writeChain' = [writeChain EXCEPT ![c] = @ \o <<"error", CloseAfter>>]
         /\ UNCHANGED <<verified, helloTimer, working, listeners, handled>>
    [] frame = "command" /\ c \in verified ->
         /\ working' = working \cup {c} /\ listeners' = listeners \cup {c}
         /\ handled' = handled \cup {c}
         /\ UNCHANGED <<verified, helloTimer, writeChain>>
    [] OTHER -> UNCHANGED <<verified, helloTimer, writeChain, working, listeners, handled>>

\* Mutant: a frame that was being read while its slot was closed is handled.
Read_Closed(c) ==
  /\ incoming[c] = "over" /\ toDaemon[c] # <<>>
  /\ toDaemon' = Pop(toDaemon, c)
  /\ Frame(c, Head(toDaemon[c]))
  /\ UNCHANGED <<peers, macVars, incoming, link, who, toPhone, phone, boundVars, greeted,
                 unsaved, strays>>

\* A frame is read; once the slot is closed the loop ends.
Read(c) ==
  /\ c \in peers /\ toDaemon[c] # <<>>
  /\ toDaemon' = Pop(toDaemon, c)
  /\ Frame(c, Head(toDaemon[c]))
  /\ UNCHANGED <<peers, macVars, incoming, link, who, toPhone, phone, boundVars, greeted,
                 unsaved, strays>>

\* Mutant: the request is sent back in place of its answer.
Answer_Echo(c) ==
  /\ c \in working
  /\ working' = working \ {c} /\ Send(c, "command")
  /\ UNCHANGED <<peers, verified, helloTimer, listeners, macVars, incoming, wireVars,
                 boundVars, historyVars>>

\* A handler is done; its answer goes nowhere if the slot is closed.
Answer(c) ==
  /\ c \in working
  /\ working' = working \ {c} /\ Send(c, "answer")
  /\ UNCHANGED <<peers, verified, helloTimer, listeners, macVars, incoming, wireVars,
                 boundVars, historyVars>>

\* The next in the chain: a write, which a closed connection refuses, or the close
\* that waited for the writes before it.
Write(c, fails) ==
  /\ writeChain[c] # <<>>
  /\ LET next == Head(writeChain[c])
         refused == fails \/ link[c] = "closed"
     IN /\ IF next = CloseAfter \/ refused
           THEN ClosePeers({c})
           ELSE /\ writeChain' = Pop(writeChain, c)
                /\ UNCHANGED <<peers, helloTimer, listeners, link>>
        /\ toPhone' = IF next # CloseAfter /\ ~refused /\ link[c] = "open"
                         /\ phone[c] # "failed"
                      THEN Push(toPhone, c, next) ELSE toPhone
  /\ IF fails THEN Fault ELSE UNCHANGED faults
  /\ UNCHANGED <<verified, working, macVars, incoming, who, toDaemon, phone, frames, windows,
                 historyVars>>

\* Connection.closed(), or a read that fails.
Closed(c) ==
  /\ c \in peers /\ link[c] = "closed"
  /\ ClosePeers({c})
  /\ UNCHANGED <<verified, working, macVars, incoming, who, toDaemon, toPhone,
                 phone, boundVars, historyVars>>

-----------------------------------------------------------------------------
(* The Mac *)

PairWindow ==
  /\ ~pairing /\ server # "off" /\ windows < MaxWindows
  /\ pairing' = TRUE /\ windows' = windows + 1
  /\ UNCHANGED <<slotVars, server, known, file, incoming, wireVars, frames, faults, historyVars>>

PairWindowClosed ==
  /\ pairing /\ pairing' = FALSE
  /\ UNCHANGED <<slotVars, server, known, file, incoming, wireVars, boundVars, historyVars>>

\* start(): bind resolved.
Bound ==
  /\ server = "binding" /\ server' = "bound"
  /\ UNCHANGED <<slotVars, pairing, known, file, incoming, wireVars, boundVars, historyVars>>

\* stop(), on quitting: the slots, the tunnels' connections, then the endpoint.
Stop ==
  /\ server = "bound" /\ Fault
  /\ server' = "stopped"
  /\ Forget(peers) /\ CloseLinks(peers \cup {c \in Conns : incoming[c] = "tunnel"})
  /\ UNCHANGED <<verified, working, pairing, known, file, incoming, who, toDaemon,
                 toPhone, phone, frames, windows, historyVars>>

\* Endpoint.close() closes what handleIncoming has not made a slot of yet.
EndpointClosed ==
  /\ server = "stopped" /\ server' = "closed"
  /\ CloseLinks(Conns)
  /\ UNCHANGED <<slotVars, pairing, known, file, incoming, who, toDaemon, toPhone, phone,
                 boundVars, historyVars>>

\* The process ends, after stop() or 5 s of it, or by itself: what it had in memory
\* is gone.
Exit ==
  /\ server # "off" /\ server' = "off" /\ pairing' = FALSE
  /\ CloseLinks(Conns)
  /\ incoming' = [c \in Conns |-> IF link[c] = "none" THEN "none" ELSE "over"]
  /\ peers' = {} /\ verified' = {} /\ helloTimer' = {} /\ working' = {} /\ listeners' = {}
  /\ writeChain' = [c \in Conns |-> <<>>]
  /\ UNCHANGED <<known, file, who, toDaemon, toPhone, phone, boundVars, historyVars>>

\* KnownClients.load reads the file.
Start ==
  /\ server = "off" /\ server' = "binding" /\ known' = file
  /\ UNCHANGED <<slotVars, pairing, file, incoming, wireVars, boundVars, historyVars>>

-----------------------------------------------------------------------------
PhoneStep ==
  \/ \E p \in Phones, as \in {"dial", "tunnel"} : Dial(p, as)
  \/ \E c \in Conns :
       \/ \E frame \in {"command", "garbage"} : Strange(c, frame)
       \/ SayHello(c) \/ PhoneHears(c) \/ Deadline(c) \/ PhoneCloses(c) \/ SendCommand(c)
       \/ PhoneGone(c) \/ IdleTimeout(c)

DaemonStep ==
  \E c \in Conns :
    \/ ConnectFails(c) \/ Rejected(c) \/ Admitted(c) \/ NotSaved(c)
    \/ StreamOpened(c) \/ StreamFailed(c) \/ HelloTimeout(c)
    \/ Read(c) \/ Answer(c) \/ Closed(c)
    \/ \E fails \in BOOLEAN : Write(c, fails)

MacStep == PairWindow \/ PairWindowClosed \/ Bound \/ Stop \/ EndpointClosed \/ Exit \/ Start

Next == PhoneStep \/ DaemonStep \/ MacStep

\* Timers fire.
Fairness == \A c \in Conns : WF_vars(HelloTimeout(c))

Spec == Init /\ [][Next]_vars /\ Fairness

-----------------------------------------------------------------------------
(* Properties *)

\* What a command may do waits for a compatible hello, and a phone that has been let
\* in once is let in after every restart of the Mac, unless its admission could not
\* be written (onFrame's gate, KnownClients.add and persist).
Admission ==
  /\ \A c \in handled : who[c] \notin Outdated
  /\ greeted \subseteq file \cup unsaved

\* A connection that was decided on is a slot or closed, and nothing outlives its
\* slot: no subscription of a handler and no timer, however the end came: by either
\* side, a timer, a failed write or stop() (closePeer).
Released ==
  /\ \A c \in Conns :
       incoming[c] = "over" => link[c] = "closed" \/ c \in peers \/ c \in strays
  /\ listeners \subseteq peers
  /\ helloTimer \subseteq (peers \ verified) \cup {c \in Conns : incoming[c] = "acceptBi"}

\* Who is let in gets a slot and what it may do, and who leaves takes it all away.
Gated == Admission /\ Released

\* A phone that connects and does not say hello is hung up on: no connection waits
\* for ever, not even one whose dial the phone has given up (HELLO_TIMEOUT_MS).
Reaped == \A c \in Conns :
  (incoming[c] = "acceptBi" \/ c \in peers) ~> (c \in verified \/ link[c] = "closed")
=============================================================================
