# Thinkite, specified and checked

Thinkite is a Mac app and an iPhone app for opencode sessions. opencode runs the
agents as a local service on the Mac; the desktop app talks to it directly, the
phone through a daemon that carries its HTTP and event-stream requests over an
iroh connection. Both apps keep what they show in one data layer,
`packages/oc-client`.

This directory holds TLA+ models of the parts of Thinkite where order matters,
the TLC configurations that check them, and the proofs that hold for every value
of their constants. File and line references are relative to `packages/`;
`context.tsx` is `app/src/lib/daemon-client-context.tsx`, `store.ts` is
`oc-client/src/store/store.ts`.

    tlc -workers 2 -config PhoneLink.cfg MCPhoneLink   # one run
    for m in *Proofs.tla QueueLemmas.tla; do tlapm $m; done    # the proofs

## 1. The system

| Part | State it keeps | Operations | Interacts through |
|---|---|---|---|
| Phone link (`context.tsx`, `app/src/lib/daemon-client.ts`) | health status, credential shown and stored, epoch, retry timer, attached transport, calls in flight | connect, pair, unpair, reset, retry, unexpected close, keep-alive probe, calls | SecureStore, iroh, the screens |
| Iroh wire (`iroh-wire.ts`, `wire-transport.ts`) | one connection, its handshake, a cached HTTP connection | dial, hello, close, open a stream | the link above, the daemon's peer server |
| Session store (`store.ts`, `records.ts`) | sessions, running marks, cards, transcripts, paging, outbox, staged updates | start, open, page, prompt, command, revert, redo, commit, answer, resync | HTTP reads and sends, the event stream |
| Event stream (`oc-client/src/events.ts`) | one SSE connection, backoff, stall timer | connect, deliver, drop, connect again | `onEvent` of the store |
| Reducers (`transcript-reducer.ts`, `session-reducer.ts`, `identifier.ts`) | none: rows and rows in, rows out | fold an event, merge a projection, mint an id | called by the store |
| Daemon peer server and router (`daemon/src/iroh-peer-server.ts`, `router.ts`) | peer slots, pairing offer, write chain, subscriptions | hello, command, send, disconnect | iroh, git watch, preview registry |
| Git watch (`daemon/src/git-watch.ts`) | watchers by folder, debounce, cached status, read in flight | subscribe, change, refresh, self-heal | the router, both apps |
| Preview registry and host (`daemon/src/preview/`) | servers by folder and name, stops under way, port scan, state file | start, stop, list, exit, unload, rebuild, forward ports | opencode shells and events, port forwarding |
| opencode discovery and starter (`daemon/src/opencode/`) | cached service, read in flight, start in flight | resolve, invalidate, start | HTTP tunnel, router |
| Tunnels and iroh fetch (`daemon/src/iroh-http-tunnel.ts`, `app/src/lib/iroh-fetch.ts`) | exchanges, one stream each | open with one retry, write, read, abort | iroh, the proxy |
| Port forwarding (`app/src/lib/port-forward.ts`) | listeners, the ports wanted, a chain of reconciles | follow, unfollow, reconcile | the link, the router |
| Daemon process (`daemon/src/index.ts`, `home.ts`, `identity.ts`, `daemon-lock.ts`, `pair-command.ts`) | the files of one home: identity, phones, lock | start, stop, move, pair | other processes on the same home |
| Terminals (`desktop/server/pty.ts`, `TerminalPane.tsx`) | a shell, its mirror, the attached socket | attach, output, answer, resize, exit | a WebSocket between window and server |
| Updater (`desktop/server/updater.ts`) | state, record on disk, deadline | check, download, restart | electron-updater, the window |
| Desktop transcript (`transcript-rows.ts`, `TranscriptPanel.tsx`) | the groups as last built | build, page back | the store |
| Model pickers (`use-model-choice.ts`, `$sessionId.tsx`) | a pick in place of the session's model | switch, confirm, roll back | the service, the event stream |
| Screens, website, build | rendering | | the stores |

Everything runs on one JavaScript thread per process, so a step is the code
between two awaits. What is hard is what may happen at an await:

* **Superseded work.** A dial or a key-store call answers after the user has
  paired, unpaired or reset. The link tags each run with an epoch; each
  continuation must ask whether it is still the latest.
* **Two channels.** Reads and events travel on streams of their own, so an
  answer may be older than events already folded, or newer than ones to come.
* **Drops.** What was on the event stream when it dropped is lost; reads on the
  next connection repair it. A wire can also go silent without closing.
* **Optimism.** Rows are shown before the service has them and a revert is
  committed locally; failures must take exactly those back.
* **Bounded memory.** Transcripts are forgotten while reads about them are
  under way.
* **Partial failure.** A first read that fails, a key store that throws, a send
  whose answer is lost but whose effect is not.

What makes each part correct:

* *Link*: no connection is left open behind; link and timer belong to the latest
  command; a lost link comes back by itself; every call settles; what is shown
  is what is stored.
* *Store, one session*: a submitted prompt stays on screen until it is taken or
  has failed; sends arrive in order; once quiet, the rows, the revert, the row,
  the running mark and the cards are the service's.
* *Store, several sessions*: the newest message is there after a reconnect, the
  older ones stay reachable, no spinner stays, forgotten means forgotten.
* *Preview registry*: a name has one server; an entry that says running has a live
  server; clients see the entries as they are; no port of an ended server stays
  forwarded; an unload leaves no process behind.
* *Store, a tree of sessions*: the rows shown are the service's at any depth, and
  a request of a subagent shows on every session above it.
* *Store, a running turn*: what streams in and what is read agree, each part once.
* *Peer server*: nothing is handled before a compatible hello, a phone let in
  stays known, every way a slot can end releases what it held, silence is ended.
* *Git status*: a folder is watched while a screen shows it, and the screen ends
  up showing the repository as it is.
* *HTTP*: one cached connection, a request runs at most once, and ends.
* *Port forwarding*: what listens is what the Mac lists; subscribed while followed.
* *Terminal*: pane and shell have one output and one size, a query gets one answer.
* *Updater*: a restart is never left spinning, a download is offered, a restart
  that did not update is told.
* *Home*: the lock names who runs, no pairing is lost.
* *Transcript groups, pickers*: a group keeps its key; the composer shows the model
  the session runs on.

## 2. Modules

| Module | Models | Uses |
|---|---|---|
| `Link` | the abstract link: a connection, and whether one is owed | |
| `PhoneLink` | the phone's connection: provider, transport, facade, wire | `Link` (refinement) |
| `PhoneLinkProofs` | theorems about it; that it implements `Link` | TLAPS |
| `Http` | the phone's requests, the cached connection, tunnel, proxy and discovery | |
| `HttpProofs` | theorems about it | TLAPS |
| `Peers` | the daemon's accept path, hello gate, slots, pair window | |
| `PeersProofs` | theorems about it | `QueueLemmas`, TLAPS |
| `Prompts` | one session's prompts, reverts, sends, staged updates, repairing reads | `Subsequences` |
| `Subsequences` | what is left of a sequence when some of it goes | |
| `PromptsProofs` | theorems about `Prompts` | `QueueLemmas`, TLAPS |
| `StoreSync` | one session's row, running mark and cards: start, resync, events | |
| `Transcripts` | several sessions' transcripts: open, page, forget, catch up | `Subsequences` |
| `MCStore` | `StoreSync` and `Transcripts` as one checked instance, of which a run follows one | those two |
| `StoreProofs` | theorems about those two | `MCStore`, `QueueLemmas`, TLAPS |
| `Streaming` | a turn's steps, texts and tools folded between reads | |
| `Family` | a session's subagents: rows on demand, requests shown above, seen marks | |
| `Previews` | the servers of one folder: daemon registry, host and connection to opencode | |
| `GitStatus` | a folder's changes from the watch to the phone's and the desktop's screens | |
| `GitStatusProofs` | theorems about it | `QueueLemmas`, TLAPS |
| `Forwarding` | the Mac's ports on the phone: listeners and subscription | |
| `Terminals` | a terminal's shell, mirror, sockets and panes | |
| `ModelChoice` | the pickers of one session on the phone and the desktop | |
| `Timeline` | the groups of the desktop's transcript and their keys | |
| `Updater` | the desktop's updates and the restart that installs them | |
| `Home` | the daemon's files among the processes that share them | |
| `MCMachines` | `Forwarding`, `Terminals`, `ModelChoice`, `Timeline`, `Updater` and `Home` as one checked instance | those six |
| `MachinesProofs` | theorems about those six | `MCMachines`, `QueueLemmas`, TLAPS |
| `QueueLemmas` | what the proofs need of queues and sequences: their elements, their order, what filters leave; induction over numbers | `Subsequences`, TLAPS |
| the other `MC*` | the instance TLC checks of the module each names | |

The five store modules are slices of one program. They share the event stream
and the shape of a read (asked, served, back) and keep apart the parts of the
store's state that do not affect each other: rows and revert of a held session
(`Prompts`), what the list and cards show (`StoreSync`), which transcripts are
held and how far they reach (`Transcripts`), what is inside a row (`Streaming`),
which rows there are of a tree (`Family`). `Prompts` models the frame that delays
updates (`stage`, `flush`); the others apply updates at once. Where two
components meet, one module has both ends: `Http`, `Peers`, `GitStatus`,
`Forwarding` and `Terminals` run from the screen to the daemon or server.

### PhoneLink

Every `connect()`, `pair()` and `unpair()` bumps `epochRef` and starts one
asynchronous run, so the run, the epoch it captured and the transport it makes
share a number. `run[e]` is where run `e` waits (`load`, `dial`, `persist`,
`reread`, `clear`), `wire[e]` the wire of its transport, `link` is
`transportRef` and the facade's transport, `timer` the epoch that the pending
reconnect timer captured, `heard` the transports that have a close handler.

Each action is the code from one await to the next: `ConnectLoaded`,
`ConnectDialed`, `ConnectDialFailed`, `PairDialed`, `PairSaved`, `PairAttached`
and so on, each with the epoch checks the code makes and no others.
`TransportClosed` is the synchronous close path (`handleUnexpectedClose`), which
runs inside the action that closes the wire; `PeerDies` and `ProbeFailed` are the
silent peer and the 10 s liveness probe. `Relaunch` is the app killed and opened
again, with the key store as the only survivor.

### Prompts

`rows` and `revert` are what the screens read, `staged` the updates that wait for
a frame, `outbox` the rows not yet echoed, `sending` the per-session send chain,
`reads` the page and session reads under way, with what they were served. The
service is external: `log` and `inbox` are messages it delivered and inputs it
admitted, `reverted` its staged revert, `turn` whether it runs, `bus` its events
on the way. Requests may fail before or after the service acted (`late`); the
other client of the session submits, reverts and commits too.

`SendStep` carries the head of the chain, `OnEvent` folds one event through the
reducers, `Flush` applies the staged updates, `Settle` is the read of the tail
after a turn, `Reconnect` with `resync` the reads after a drop.
`InboxInPage` says whether a page lists inputs not yet delivered, which the code
leaves to the service; the runs take the harder answer, that it does not.

### StoreSync

One listed session: `row` (a version), `busy`, `cards`, and the same at the
service. `skip` is `skipConnected`: the first connection is taken to belong to
the read `start()` made. Reads are asked, served part by part, and come back
later, the failures between included. `overtaken` and `missed` are history: the
parts whose answer was overtaken by a change that its own events had already
brought, and the cards answered elsewhere while no stream was open.

### Transcripts

Messages of a session are numbered. `recent` is what `holdMessages` keeps, `held`
the keys of `session.message`, `paging` the cursor and the loading flags.
`OpenBack`, `OlderBack`, `TailBack` and `ListBack` are the continuations of the
reads, each with the `hasMessages` test the code makes or does not make.

### Previews

`PreviewRegistry`, `PreviewHost` and `McpConnection` for one folder. An entry is
named by its shell (every start makes both): `dir` is the folder's map from names
to entries, `entry` whether each runs or why it ended, `stopping` the marks of
stops and unloads, `saved` what `load()` would read back. `calls` holds what is
between two awaits, one record per call with the answers of `shell.get` it waits
for: a start checks the old entry, creates, looks at the new one a few times and
waits for a port check; a stop checks, removes and ends; `refreshAll()` asks
about every entry at once and pushes what changed since it began. `scan` is the
check in progress and the one queued behind it, `ticking` the periodic one.

opencode, the processes and the clients are external. `svc` is the truth about
each shell: `held` is a shell of an unloaded instance that lives only because the
daemon still holds the connection, `left` one whose children outlived it; a daemon that
goes lets its held shells end, with or without their children.
`shell.get` answers for the present instance only, and any error reads as a shell
that is gone. `shown` is what the client that watches the servers sees.

What a server listens on is one bit, and a scan reads it as it begins and
reports it at any later time. The service stream drops only with the service. At
most one unload is under way.

### Http

`req[r]` is where the phone is with a request (`dial`, `write`, `head`, `body`), on which
connection and at which attempt. Each attempt that opens has a stream of its own
(`BiStreams`: the request and the attempt), and each stream that reaches the daemon is an
exchange of its own, `serving[x]`: the daemon cannot tell that two streams carry one
request, so a retry after something was written would have it run twice, which `runs`
counts over all streams. `cache` is `httpConnectionPromise`, `closing` the dials that a drop
(`clearHttpConnection`) waits for, `told` the connections whose `closed()` has
settled and is not yet handled. `cached`, `fresh` and `probe` are the discovery's
answer, its age and the shared probe, `starting` the shared start. `DialDone`,
`StreamOpened`, `StreamFailed` (which retries once), `HeadFailed`, `Abort` are the
continuations of `iroh-fetch.ts` and `iroh-wire.ts`; `Accept`, `ProbeBack`,
`StartDone` and `StartFailed` those of the proxy and `opencode/registry.ts`. Bytes are a
head, a whole body or a cut.

### Peers

`incoming[c]` is where `handleIncoming` is with a connection, `peers` the slots,
`verified` and `helloTimer` the hello gate, `writeChain[c]` the writes in front of
a close, `working` and `listeners` what handlers will still answer and what they
hold. `known` is the list, `file` what was written of it. `Frame` is `onFrame`,
`Closed` every way a slot ends, `Stop` and `EndpointClosed` the sweep of `stop()`. The phone's
end follows `wire-transport.ts`: hello, its timer, a close at any point.

### GitStatus

One folder. `listeners`, `treeWatcher`, `selfHealTimer`, `debounceTimer` and
`inFlight` are the fields of `GitWatcher`; a line is a phone's connection or one
event stream of the desktop, with its frames in `toDaemon` and `toViewer`. `effect`
is the phone's subscription, `shown`, `invalid`, `read` its query. A push only
says that something changed, so what is checked is what the screen then reads.

### Forwarding

An effect is one run of `PortForwarder`'s `useEffect`, a follow one call of
`follow()`, a job the reconcile that runs on the effect's chain, with a stage for
each await (`closing`, `key`, `opening`). `bound` are the phone's listeners, by
the effect that opened each; `watched` and `asked` are the daemon's side. `clashed`
keeps a port that was refused because an effect before had it, until the effect alive
has it and no other has a job left (`Rests`): with three effects, one of the old ones may
take the port again in between.

### Terminals

One terminal name. `shell`, `unparsed`, `mirror`, `socket` and `grid` are the
entry of `sessions` in the server, `pane`, `conn` and `seen` the window's side,
`toClient` and `toServer` the frames of each socket, in order. A chunk of output
holds text and a query. `CloseSeen` is the server learning of a closed socket,
at any later time; `Parse` the mirror catching up; `Spawn` and `Adopt` are the
two ways of `attachPty`, `SpawnFails` the refusal of a socket that is open by then,
`Handle` the server's message handler, `Exit` the end of
the shell, `CloseTab` and `OpenTab` the tab list.

### Streaming

`live` is what the agent has written, whose stored part is a page (`Page`); `rows`
what the client shows. Each event of the reducer is an action: steps, text and
reasoning with their deltas and ends, tools with their input, run, result and
failure, retries, compaction. `Read` pages come back at any time and are merged as
`mergeProjection` does.

### Family

A tree of sessions, given by `Parent`. `info` are the rows shown, `calls` the
requests under way: the list, one row (`syncSession`), the next row up a chain
(`ensureAncestry`), a level below (`loadDescendants`), a session made here, a seen
mark. A row is whether it is there, its last ended turn and the last seen one.
`asking` and `told` are the reads of waiting requests; two at once of one session
are left out. `Pending`, `Waiting`, `Lineage`, `Descendants` and `Unread` are the
derived values of the store.

### ModelChoice, Timeline, Updater, Home

`ModelChoice`: `pick[c]` shows in place of `row[c]`, `sends` are the requests with
the pick each replaced, which a failure puts back. `Timeline`: `parts` are in order, each
of a message and an item of a group, alone or with nothing to show yet; a run is all
the items that no row separates (`Together`), its group is named for its first item or
keeps a key its items had (`KeyOf`), the runs above having taken theirs
(`KeepGroupKeys`); every step of the service or the user rebuilds the rows. `Updater`: `status` and
`version` are `state`, `record` the file that outlives a restart and may fail to be written, `timers` the
deadlines that run; after `before-quit-for-update` the app drains and its handlers stay
live; electron-updater checks and downloads one at a time. `Home`: a process is a list of
file operations (the code is synchronous) and other processes run between two of
them; `phase[p]` is the next one.

## 3. Runs

| Run | Checks | Bounds | States |
|---|---|---|---|
| `PhoneLink` | `TypeOK`, `NoLeakedWire`, `LatestOwns`, `RetryArmed`, `StoredShown`, `Implements`, `SentSettles` | 2 Macs, 1 call, 5 epochs, 2 user commands, 2 failures | 97 thousand |
| `Http` | `TypeOK`, `OneConnection`, `DoneOnce`, `Settles` | a task and an event stream, 1 Mac, 4 connections, 2 services, 1 command, 1 fault | 415 thousand |
| `Peers` | `TypeOK`, `Gated`, `Reaped` | 2 phones, one paired and outdated and one neither, 2 connections, 1 frame, 1 pair window, 1 fault | 406 thousand |
| `Prompts` | `TypeOK`, `OptimisticShown`, `SubmissionOrder`, `RowsAgree` | 4 messages, 2 commands, 1 failure, 2 reads, 3 events, 2 staged updates | 1.8 million |
| `StoreSync` | `TypeOK`, `StoreAgrees` | 3 versions, 2 cards, 3 changes, 1 failure, 2 reads, 3 events | 1.25 million |
| `Transcripts` | `TypeOK`, `Kept` | 2 sessions of which 1 is kept, pages of 2, 4 messages, 4 commands, 2 failures | 1.27 million |
| `Streaming` | `TypeOK`, `Settled`, `InTurn` | 3 events, 2 reads, 2 on the bus, 1 fault, from an empty session or the middle of a step | 1.4 million |
| `Family` | `TypeOK`, `FamilyAgrees` | a session, its subagent's and that one's, 1 turn each, 2 changes, 2 requests, 1 event on the bus, 1 fault | 973 thousand |
| `Previews` | `TypeOK`, `Accounted`, `Told` | 1 name, 2 shells, 2 calls, 3 commands, 1 listen, 1 port check, 2 faults (see `Focus` below) | 686 thousand |
| `GitStatus` | `TypeOK`, `Served`, `Healed` | 1 change, 2 lines, 2 subscriptions, 1 fault | 255 thousand |
| `Machines` | `TypeOK`, `Followed`, `OneTerminal`, `ModelShown`, `TimelineKept`, `UpdateTold`, `HomeKept` | 2 ports, 2 effects, 2 follows; 2 panes, 2 sockets, 2 chunks; 2 models, 2 switches; 3 messages, 4 parts; 3 versions, 2 checks, 2 restarts, 2 errors; 3 processes, 1 kill; 1 fault | 867 thousand |
| `HttpRightMac` | `RightMac`, which fails | 2 reads, 2 Macs | |

What the passing runs show:

* **PhoneLink.** However dials, key-store calls, drops, silences and the user's
  commands interleave, no wire is left open except where a pair is still writing
  its credential or could not write it; only a pair moves the epoch past the
  attached link; a status of `offline` has its timer, except after a pair that
  fell through. `Implements` is the refinement of `Link`, with its liveness: a
  connection that is owed comes, or the user is asked.
* **Http.** A connection found dead is replaced without the caller noticing and
  without a request run twice, whichever of its streams reaches the daemon; a task that
  waited for a start is served by it;
  every exchange ends at both ends, however the phone leaves.
* **Peers.** No interleaving of hello, close, failed write, timer and stop leaves
  a subscription, a timer or an undecided connection behind.
* **Prompts.** A prompt never flickers: it is on screen from submission until
  taken or failed, through commits by other clients and the frame. Prompts are
  taken in the order submitted. Once everything is quiet the store has every
  message the service has and none it dropped, and the same revert.
* **StoreSync, Family.** Reads and events add up to the service's state, across
  drops, for one row and for a tree; a request shows on every session above it.
* **Transcripts, Streaming.** Paging and catching up lose no message; only reads
  under way bring back a forgotten session; a page and the events it overlaps never
  leave a part missing, and after the turn exactly what is stored.
* **Previews.** Calls of one name wait for each other, so a name never gets a
  second server; every end that was missed is found when the connection comes up;
  an unload ends the processes of all it knows unless the daemon restarts in the middle
  of it, and the daemon may restart at any point of an unload; a scan made before an end does not
  forward the ended server's port for good.
* **GitStatus.** A folder is watched exactly while a screen shows it; the last
  change reaches the screen, and what the watch misses the timer brings.
* **StoreSync and Transcripts** are two runs of `MCStore`, where each half of the store
  has reads and events of its own; `Halves` names the one that moves, the other stays
  at its beginning, in its smallest bounds.
* **Machines.** The six machines share no variable. `machine` picks one at the
  start, which alone moves; each property speaks of one of them. One run checks
  six modules as six runs would, with the bounds of each.

A property may excuse what the code knowingly gives up, always through a history
variable or a named predicate that its comment explains. `PhoneLink`:
`PairFellThrough`. `Prompts`: `gaveUp \cap slipped` (a prompt whose echo and answer
were both lost), `withdrawn` (delivered, and off the screen when an input was cancelled:
a local commit with an old boundary hides more than the service drops, and the turn of
its input brings it back), `stale`. `StoreSync`: `overtaken`, `missed`. `Transcripts`:
`unread`, `revived`. `Previews`: `missed`, `orphans`, `cut` (children of a shell whose
daemon was gone before its unload had ended them), `untold`, `unscanned`. `Http`:
`met` (something broke while the request was under way), `joined`. `Forwarding`:
`clashed`, `broken`, `overtaken`. `GitStatus`: `missed`. `Terminals`: `skipped`,
`torn`, `late`. `Peers`: `unsaved`, `strays`. `Streaming`: `marks`. `Family`: `lost`
(a row whose event an answer overtook, or nobody heard), `slipped`. `Home`: `met`
(two daemons at once, however they came to be), `crossed`. `Updater`: `taken` (an error or
a deadline, the restart's own or an earlier one's, removed its record), `unwritten` (the
record could not be written), `dropped` (a check failed after the download). `ModelChoice`:
`passed`. `Timeline`: `SharedByLead` says exactly which keys may be shared.

### Where code and text disagree

* `HttpRightMac` — the cached HTTP connection is one for the app
  (`iroh-wire.ts:102`); pairing with another Mac while online never leaves
  "online", so nothing drops it, and requests for the new Mac go to the old one,
  though `app/src/app/pair.tsx:153` says "Pairing here disconnects the current Mac."

The models hold more of this kind; these are the cases the excuses above stand for:

* Link: `pair()` clears the retry timer before it knows whether it will succeed;
  when it fails, an offline link no longer retries (`context.tsx:411`), though the
  header says "No max attempts — retry forever" (25-26).
* Peers: when the write of `known_clients.json` fails, the connection is neither
  served nor closed, and the phone is forgotten at the next start. A dial that the
  phone gave up is ended by the hello timer only (`iroh-wire.ts:311-313`). Frames
  that arrive while a refused peer's last frame is flushed are still handled, and
  a close may lose that frame.
* Store: the first connection is skipped as already read, but a turn may start and
  ask between that read and the connection (`store.ts:577`); when the bus connects
  before the first list read fails, the skip is spent and the store stays in error
  (686-688). A first or older page that answers late puts a forgotten transcript
  back (751, 771, against 161). A missed message is placed below a newer one that
  arrived first (`transcript-reducer.ts:561`). Subagent rows are said to be those
  "which the bus keeps current" (507-508), which a dropped stream breaks. A seen
  mark whose request fails stays gone on this client.
* Streaming: a tail read from before the last events of a turn may bring older parts
  back until the next read (`store.ts:403`, against `transcript-reducer.ts:12`); a page
  ahead of the bus shows parts twice; rows whose event the reducer does not know
  stay unseen until the next read; a part joined in its middle lacks its beginning
  until it ends.
* Previews: a start, a stop or a look at the logs that finds the server ended
  records it without a push, and the exit event behind it finds nothing running
  (`registry.ts:191, 226-230, 388`, against `docs/preview-tool-v1.md:307-308`). An unload
  "ends what the shells running there left behind" (331-335), but a daemon that ends
  after it let go of the shells (348) and before it kills what is left (359-361) leaves
  that behind, and nothing finds it after the restart.
* GitStatus: leaving a folder and coming back while a change is debounced drops
  the change; the 60 s timer brings it.
* Terminals: closing a tab and opening one at once reuses the name, and the new
  tab adopts the shell that is ending (`pty.ts:116`). A snapshot lacks the chunks
  the mirror has not parsed (9-12), a query that is under way when a socket comes or
  goes gets no answer or two (19-23), and the size a replaced socket sent last may
  win. `TerminalPane.tsx` speaks of a high-water mark past which the server pauses
  reading, which `pty.ts:36` says it does not.
* Pickers: of two overlapping switches that fail, the first restores a pick the
  second had replaced (`use-model-choice.ts:116-137`, "dropped if the switch
  fails"); two model events in one frame leave the phone's pick; the desktop's pick
  is never cleared while the session stays open (`$sessionId.tsx:345-357`, "they
  converge to equal").
* Timeline: a group that took the key of a later item keeps it; when the run splits
  and that item stands first in the other part, both have the same key
  (`transcript-rows.test.ts:148`, "gives each group its own key when a run splits").
  `TimelineKept` allows exactly this case, so it says nothing of the key in it.
* Home: `stop()` and the exit handler delete the lock whoever wrote it
  (`daemon/src/index.ts:232, 266`), so after one of two `thinkite up` ends, `thinkite
  pair` says the daemon does not run (`pair-command.ts:11-13`). Two first starts make
  two identities (`identity.ts:47-56`), of two that move the old directory one
  fails (`home.ts:56`), and two daemons overwrite each other's list of phones. `met`
  excuses all that follows an overlap of two daemons, also that of the app started while
  `thinkite up` is still stopping (its lock is gone before its peers are, 266-267); what
  `HomeKept` covers is one daemon after another, over stops, kills and stale locks. That
  a process gets the pid of one that was killed is left out.
* Updater: an error of a check made while an update is downloaded takes the offer
  away; an error does not clear the deadline, and an old deadline ends a second
  restart; an error of another check removes the record of a restart under way; the
  record stays when a newer version is installed by a quit; a check in a
  development build never answers. A record that cannot be written is let go of
  (`updater.ts:205-209`, "a failed install just goes unnoticed").

### Bounds

The counters and the lengths of queues (each `Max*` constant says what it
bounds) are guards on the actions that would exceed them. Two user commands and
two failures on top of the boot are what it takes
for three overlapping runs of the link, the depth of every epoch check; with at most
five epochs the retries the failures cause never run out, so the bound on epochs does
not cut a liveness run short. Two reads and three events let an
answer be overtaken by one read and by events on both sides. Two sessions with
one kept is the smallest case of forgetting; pages of two over four messages have a
first, a middle and a last page. A tree of three has a session that is neither
root nor leaf, so a chain of rows is read in two steps. Two shells let a start take
the place of an ended server and two calls race each other. Four connections for two
requests let each retry once. Two lines, effects, follows, panes and sockets let an
old one outlive its successor; four parts over three messages split and merge runs
in front, behind and between. Each run has one fault, at any point (two in
`PhoneLink`, `Transcripts` and `Previews` and for the updater): a failed request, a drop,
an unload, a silent or killed process. An unload counts as a fault, so `Previews` needs
two for a restart in the middle of one; the updater needs two for a record that could
not be written and an error after it.

Two configurations cut states as well. `Previews` (`Focus` in `MCPreviews`) explores
two servers as long as nobody watches the ports, and one server with one call at a
time where they are looked up; the two concern different steps, and the port checks
of two servers only differ in which one they name. Of two servers it takes three commands
(a start, a stop and a start of the same name, two of them at once) while nothing fails,
two with one failure, and one with two failures, such as an unload and a restart of the
daemon in the middle of it, with a second command once that has left something behind.
In `Machines` two
processes of `Home` begin in any interleaving, while a third one begins alone
(`FewStart`), and ports are interchangeable (`Symmetry`, sound because the run
checks safety only). Every run sets
`CHECK_DEADLOCK FALSE`: a system whose user and service have used up their commands
stops legitimately.

For every property a plausible slip in the code (a missing epoch check, a close
left out, a read not made on reconnect, a rollback dropped, ...) was put into the
model and found by the same run; those mutated definitions are kept beside the
originals and are named in `PROJECT.json`.

### Fairness

`PhoneLink`, under `FairSpec`: weak fairness of each run's continuation (dials have
a 10 s deadline, key-store calls return), of the reconnect timer, of the liveness
probe (an interval on each transport), and of the answers of a daemon that is
there. The user's commands, the failures and the calls themselves are not fair.
Failures are finitely many because of `MaxFaults`, which is the premise of
`Implements`: once failures stop, the link comes back.

`Http`: weak fairness of each continuation of a request on either side, of the
timeouts of dials, silent connections and heartbeats; the user, the faults and the
service's stops are not fair. `GitStatus`, under `FairSpec`: frames are delivered,
reads return, timers fire. `Peers`: weak fairness of the hello timer alone, which is
what `Reaped` is about. The other runs check safety, most of them by saying what
must hold once nothing is under way.

## 4. Proofs

What follows is proved for every value of the constants: any set of Macs, phones and
calls, and any bounds.

| Module | Theorem | States |
|---|---|---|
| `PhoneLinkProofs` | `TypeCorrect` | `Spec => []TypeOK` |
| | `OwnershipHolds` | `Spec => []Ownership`, an inductive invariant |
| | `NoWireLeaks` | `Spec => []NoLeakedWire` |
| | `LinkBelongsToLatest`, `TimerBelongsToLatest`, `LatestOwnsHolds` | `Spec => []LinkOwner`, `[]TimerOwner`, and both: `[]LatestOwns` |
| | `RecoveryIsArmed` | `Spec => []RetryArmed` |
| | `StoredShownHolds` | `Spec => []StoredShown` |
| | `ImplementsLink` | `Spec => Promise!Safe`: every step is a step of `Link` or a stutter |
| `PeersProofs` | `PeersTyped`, `DoorKept`, `GatedHolds` | `Spec => []TypeOK`, `[]Door` (inductive), `[]Gated` |
| `HttpProofs` | `HttpTyped`, `CourseKept` | `Spec => []TypeOK`, `[]Course` (inductive) |
| | `OneConnectionHolds`, `DoneOnceHolds` | `Spec => []OneConnection`, `[]DoneOnce` |
| `GitStatusProofs` | `GitStatusTyped`, `FollowingKept`, `ServedHolds` | `Spec => []TypeOK`, `[]Following` (inductive), `[]Served` |
| `StoreProofs` | `FollowedKept`, `StoreAgreesHolds` | `Spec => []Followed` (inductive), `[]StoreAgrees` |
| | `PagedHolds`, `KeptHolds` | `Spec => []Paged` (inductive), `[]Kept` |
| | `StoreTyped` | `Spec => []TypeOK` of both halves |
| `PromptsProofs` | `InOrderHolds`, `SubmissionOrderHolds` | `Spec => []InOrder` (inductive), `[]SubmissionOrder` |
| | `ShownHolds` | `Spec => []Shown`, an inductive invariant |
| | `PromptsTypeHolds`, `OptimisticShownHolds`, `RowsAgreeHolds` | `Spec => []TypeOK`, `[]OptimisticShown`, `[]RowsAgree` |
| `MachinesProofs` | `ForwardedHolds`, `FollowedHolds` | `Spec => []Forwarded` (inductive), `[]Followed` |
| | `UpdatedHolds`, `UpdateToldHolds` | `Spec => []Updated` (inductive), `[]UpdateTold` |
| | `HomeHeldHolds`, `HomeKeptHolds` | `Spec => []HomeHeld` (inductive), `[]HomeKept` |
| | `PickedHolds`, `ModelShownHolds` | `Spec => []Picked` (inductive), `[]ModelShown` |
| | `TermHeldHolds`, `OneTerminalHolds` | `Spec => []TermHeld` (inductive), `[]OneTerminal` |
| | `LinedHolds`, `TimelineKeptHolds` | `Spec => []Lined` (inductive), the action property `TimelineKept` |
| | `MachinesTyped` | `Spec => []TypeOK` of all six |

They assume what the modules name: `NoMacAssumption` (the absent credential is not a
Mac) and `BoundAssumption` of the link, `PeersAssumption`, `HttpBounds`,
`GitStatusBounds`, `StoreBounds` (that is `StoreSyncBounds` and `TranscriptsBounds`),
`PromptsBounds` and `MachinesBounds`. These say that the bounds
are natural numbers, positive where the system cannot even begin otherwise, and that
the sets of model values do not overlap; `HttpBounds` also gives two connections to
each request, and `TranscriptsBounds` more messages than a page has, since without them
nothing is paged. TLC evaluates them on the instances.

None of the properties is inductive as it stands. Each inductive invariant below was
an invariant of a TLC run over the module's instance before it was proved. The proof of
a step goes action by action, and under an action part by part; what several actions
do alike is a lemma.

**The link.** `NoLeakedWire`, `LinkOwner` and `TimerOwner`: a dial that
resolves may attach only because no other run holds the same wire, and a close
may arm a timer only if its transport is the one attached. `Ownership` adds what
those steps need: epochs to come have touched nothing (`Fresh`), a wire is opened
by its dial and not before (`WireRun`), only a finished run is attached
(`LinkRun`), a close handler of the latest command means its link is attached
(`HeardRun`), and a retry waits only for a command that is over (`TimerRun`).
`RetryArmed` rests on `Ownership` and on three more facts, together `Recovery`: a
pair that stores its credential has opened its wire (`OpenedRun`), retries are
only off after an unpair or an incompatible handshake (`ArmedRun`), and the
latest command's attached link, while its wire lives, has its close handler
wired (`LiveLink`). Actions that only move a run along share one lemma
(`QuietRunOwnership`), and a superseded run disturbs nothing (`StaleRecovery`).

`StoredShown` speaks of a link at rest, so its invariant, `Agreement`, says what the key
store may hold while a run waits: nothing stored means nothing shown; between the write
of a `pair()` and the swap that shows it, the store holds that pair's Mac or nothing
(`Saved`); before the first load, or after it failed, the screens may show nothing
though a record is there (`Unread`); a superseded `pair()` that wrote on its way out
is for good (`Dropped`, the excuse of the property); otherwise store, screens, the
attached link and the dial of the latest command name one Mac (`Agreed`).

`ImplementsLink` maps `latest` to the epoch, `conn` to the attached link and
`service` to `Service`: up, owed while a paired link is down and its recovery was
not cut off, none otherwise. The step that needs an invariant is the attach: that a
connection is new to the screens is `LinkRun` of `Ownership`. Every other step
changes `service` only, or moves the epoch as a command of `Link` does.

**The door.** `Gated` is about frames that are handled; `Door` follows them back. Only a
compatible phone's hello is on its way to a slot (`Compatible`). Whoever is accepted,
or has a `server_info` waiting, on its way or heard, is kept by the Mac (`Accepted`),
in the file or among those that could not be written (`Listed`), which is why a phone
that says it is ready is known after every restart. A connection is handled once it
is dialled, and a slot once it is accepted (`Dialled`).

**HTTP.** `Course` ties the two ends of a request. `Closes`: whatever is dialled or open
is cached, or will be closed when its dial is done, which gives `OneConnection`.
`Staged`, `Heard` and `Ran`: the daemon hears of a stream only once the phone has opened
it, and a service runs a request when an exchange of it is sent. That it does so at most
once is not in the shape of the model, where a request's two streams are two exchanges; it
is `OneExchange`: the daemon hears of one of the two, since the phone opens the second
only when the first did not open. `Causes` and
`Strikes`: where a request without a retry left has lost its connection or its
service, something broke while it was under way, so it fails for a cause. `Looks`: the
second look of a request that waited for a start is at the service that was started.
`Dials` is a counting argument: connections are dialled in turn, at most as many as
there are requests that asked for one plus those that cannot ask again, so with two
per request `MaxConns` never stops a retry and the bound hides no behaviour.

**The watch.** `Served` needs to know where a subscription stands. A line's last frame
tells whether the daemon will be listening for it (`Wants`); it will be for the
desktop's while it shows the folder and for the phone's while the phone has a callback
(`Wanted`); a callback that no screen can release waits for an answer that does
(`Screen`, `Numbered`); watch and timers run exactly for listeners (`Watched`). `Told`
is the promise itself: a connected screen shows the repository as it is, or reads it,
or is going to be told, or the watch missed the change.

**The store.** `StoreAgrees` speaks of a quiet store; `Followed` says what makes it
agree before that. The last event on the bus of each kind tells the service's state
(`TellsRow`, `TellsBusy`, `TellsCards`), and an answer holds the state of now unless it
was overtaken. So for the row, the busy mark and each card (`RowFollowed`,
`BusyFollowed`, `CardsFollowed`): what the store does not show yet is in a read under
way, in an event under way, or comes with the list that the next connection reads
(`Relisted`). A card that was answered unseen, and a part whose answer was overtaken, are
the two excuses, and nothing else is. `Ordered` keeps the first connection apart, whose
resync is skipped.

**The transcripts.** `Kept` has four parts and none of them is kept by itself: that the newest
message is shown once all is quiet says nothing of a store that is not. `Paged` follows
each message while it is not shown yet. `Sound` and `Holding` say what the reads under way
are about: a served page is the one before its cursor as the service had it, and what
was not opened lately has no state, unless a read forgotten under way brought it
back (`revived`). `Once` is what the rest leans on: of the reads that set the same part of
the state one is under way at a time, first pages by `opening`, older ones by
`loadingOlder`, and an older page asked for is the one before the cursor of now, because
nothing else moves the cursor meanwhile. So when it comes in, no gap opens between it and
the rows. `Comes`: the newest message is shown, announced on the bus, in a page or a tail
that is under way, or all of them will be read again (`ReadAgain`), unless the session's own
read failed. `Scrolls`: as long as nothing failed, a message that is not shown is before
the cursor, announced, or in the first page to come (`First`). The lemmas on sequences say
that merging a page adds what the rows lack and nothing twice (`MissingAdds`), and that
the recent list keeps the last ones opened and no more than `Keep` (`holdMessages`).

**The sends.** `SubmissionOrder` compares what the service took with what still waits.
`InOrder` says where a message's place comes from: its id is minted when it is
submitted and never twice (`Minted`), the chain of sends is in the order of the ids and
only its head has left (`Chained`), and whatever the service took of this process,
unless it was given up, comes before all that waits (`Before`). A prompt that was given up
may still arrive, late: it is the excuse of the property, and `late` holds nothing else.

**The forwarded ports.** `Followed` speaks of a quiet system; `Forwarded` is about the way
there, in two halves that share little. The wires: a follow waits for an answer exactly
as long as one is to come (`Asking`), subscriptions are answered in turn (`InTurns`), and
the last subscribe or unsubscribe on its way is what the phone means, so that once the
daemon has read all of it, it watches exactly while the phone has a callback
(`Intended`). From these `Fresh`: once the newest follow has its list, the last list on
its way, or the one last heard, is the daemon's, because no change since was missed.
The listeners: a port is bound by the effect that lists it (`Held`), a job is as far as its
stage says (`Staged`), the last job of each chain is after what its effect wants by then,
unless a list is still due (`Aimed`), and what is shown is what the last report said
(`Shows`). Each reconcile step is checked for its own effect, and one lemma
(`OneJob`) says that it leaves every other alone.

**The small machines.** A machine's variables move by its own steps only, so an
invariant of its next-state relation is one of `MCMachines`. `Updated`: a restart under
way has its record, if it could be written and until an error or a deadline takes it, and
its version is at hand; one that failed was the last asked for, and its record is there to
be told of. `HomeHeld`:
until daemons meet, one process at a time is between `KnownClients.load` and the end
of its daemon (`Alone`), so the lock names it (`Locked`) and it knows all who were let
in (`Knows`); until two make an identity at once, whoever is past it holds the one in
the file (`Makes`, `Identified`). `Picked`: the last event on its way to a client is
the session's model (`Follows`), and a pick that the model has not gone past is what
the client has, or is on its way to it, or is asked for (`PickLeads`).

**The terminals.** `OneTerminal` compares what a pane shows with what its shell wrote,
with two sockets' frames, a mirror and a replaced socket in between. `TermHeld` holds the
comparison together at every step: the frames of a socket are framed and in order
(`SocketsWired`); the socket, the shell and the pane that are attached name each other
(`Live`); what the pane has shown, with what is on the wire to it, is the shell's output
but for the chunks that are excused (`Showing`); a size that differs is on its way
(`Sized`). A query is in one place (`Apart`), and is answered exactly once unless it is still
in a place that owes the answer (`Settled`).

**The rows of a session.** `Shown` says at every step what a quiet store will come to. Its
layers rest on each other, and a step is first reduced to what it changes, then each layer
is carried over it by a lemma. `Known`: what the client has not heard of is unsent, or was
sent and its echo is on the bus, staged, in a read, or lost with a drop that a read will
make good (`Unsent`, `Sourced`, `OutboxKept`, `EchoComes`). `DropsTold`: a message the service
dropped is off the screen, or the event that says so is still to come, and its echo
comes before that (`EchoFirst`). `RevertsTold` and `RevertComes` say the same of the staged
revert. `Mends`: what a local commit or a rollback took away too much comes back with the
failure's undoing, or with a read that is owed (`UndoSends`, `DropsMended`, `RowsCome`).
`RowsAgree` is what remains when nothing is on its way, and `OptimisticShown` follows from
`OutboxKept`.

**The groups.** `Lined`: the groups are the runs of the rows last built, one of each, and no
group is named for an item above its first. A step either merges runs or splits one
(`Joins`, `Splits`), and an item that stays has all above it that stay (`Lasts`). A key that a
group would inherit from an item above its first has then been taken by the group of that
item, which is why the second half of `Lined` is kept, why a shared key must be that of the
later group's first item, and why a group that grew keeps its own.

**Recursive functions.** `flush`, the filters of `Subsequences` and `KeepGroupKeys` are functions
that call themselves on smaller numbers. That such a function exists is shown by induction
over the set of numbers up to which it does (`Induct` of `QueueLemmas`, from the
well-foundedness of the numbers); from there its equation can be used. So what a
function does step by step is proved where an invariant needs it, and not assumed.

Only model-checked: the liveness half of `Implements`, `SentSettles`, `Settles`,
`Healed` and `Reaped` (liveness under fairness is beyond the prover); and the invariants
of `Previews`, `Streaming` and `Family`, whose proofs are not written yet.

## 5. Not modelled

Backoff delays are abstracted to "later"; SSE parsing, framing and schemas to the
messages they carry; the byte pumps of tunnels and their back-pressure to a stream
that is whole or cut; terminal bytes to chunks. The wire-frame codec and the
parsers of `ps`, `lsof` and git's output are pure functions over strings, tested
by example in the repository and out of TLC's reach beyond it. Of the store, `stop()`
of the whole store, archive, rename and the model pinned to a new session are left
out: one request each. Several folders, terminals or windows are independent copies
of what one module has. The directory lister, plugin folders and the list of recent
folders read files and answer. Formatting, rendering, the website and the build have
no behaviour that these properties are about.

opencode, iroh, electron-updater, the operating system's processes and files are
external: modelled as the code relies on them.

## 6. Plan

1. **Proofs about the store** — `Settled` and `InTurn` of `Streaming`, then `FamilyAgrees`.
2. **Proofs about the registry** — that a name has one live server, of `Previews`.
3. **Left to model** — the wire-frame codec against a reference over short inputs,
   and the order in which the desktop's windows and servers end on quit.
