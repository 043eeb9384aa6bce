----------------------------- MODULE Terminals -----------------------------
(***************************************************************************)
(* One terminal name of the desktop: the shell, its headless mirror and    *)
(* the socket attached to it (desktop/server/pty.ts), the tab's pane       *)
(* (TerminalPane.tsx) and the tab list that reuses names                   *)
(* (lib/terminals.ts).                                                     *)
(*                                                                         *)
(* Output comes in chunks, numbered over all shells; each holds text and a *)
(* query that a program waits to have answered.  The mirror parses what is *)
(* written to it later than it is written; so do the frames of a socket    *)
(* arrive later than they are sent.                                        *)
(***************************************************************************)
EXTENDS Naturals, Sequences, SequencesExt

CONSTANTS
  MaxPanes,      \* bound: times a pane is mounted
  MaxConns,      \* bound: sockets
  MaxOutput      \* bound: chunks

TerminalsBounds == MaxPanes \in Nat /\ MaxConns \in Nat /\ MaxOutput \in Nat

Panes == 1 .. MaxPanes
Conns == 1 .. MaxConns
Chunks == 1 .. MaxOutput
Shells == Conns  \* a socket spawns one shell at most

VARIABLES
  \* the server
  shell,         \* the shell of the name's entry in sessions, 0 if none
  shells,        \* shells so far
  written,       \* the chunks it wrote
  unparsed, mirror,
  socket,        \* session.socket: the connection attached, 0 if none
  grid,          \* the pane whose size the shell has
  \* the renderer
  tab,           \* the tab is open
  pane,          \* the pane mounted, 0 if none
  panes,         \* panes so far
  conn,          \* its socket, 0 while it waits to connect again
  seen,          \* what its terminal holds
  \* the sockets
  conns, ownerOf,
  shellOf,       \* the shell a socket was attached to, 0 until the server takes it
  closed,        \* closed by the renderer or lost, the server yet to learn
  toClient, toServer,
  out,           \* chunks so far
  answers,       \* each chunk: answers its shell got
  skipped,       \* history: chunks unparsed when the socket was attached
  torn,          \* history: chunks under way when an attachment began or ended
  late           \* history: the last size came from a socket no longer attached

shellVars == <<shell, shells, written, unparsed, mirror, socket, grid>>
paneVars == <<tab, pane, panes, conn, seen>>
socketVars == <<conns, ownerOf, shellOf, closed, toClient, toServer>>
historyVars == <<skipped, torn, late>>
vars == <<shellVars, paneVars, socketVars, out, answers, historyVars>>

Frames == [type : {"open", "snapshot", "chunk", "exited", "closed"}, of : Seq(Chunks)]
Messages == [type : {"size", "in"}, of : Chunks \cup {0}]

TypeOK ==
  /\ shells \in 0 .. MaxConns /\ shell \in {0, shells}
  /\ written \in Seq(Chunks) /\ unparsed \in Seq(Chunks) /\ mirror \in Seq(Chunks)
  /\ mirror \o unparsed = written
  /\ socket \in 0 .. conns /\ grid \in 0 .. panes
  /\ socket # 0 => shell # 0 /\ shellOf[socket] = shell
  /\ tab \in BOOLEAN
  /\ panes \in 0 .. MaxPanes /\ pane \in {0, panes}
  /\ pane # 0 => tab
  /\ conns \in 0 .. MaxConns /\ conn \in 0 .. conns
  /\ seen \in Seq(Chunks)
  /\ ownerOf \in [Conns -> Panes \cup {0}] /\ shellOf \in [Conns -> Shells \cup {0}]
  /\ closed \subseteq 1 .. conns
  /\ toClient \in [Conns -> Seq(Frames)] /\ toServer \in [Conns -> Seq(Messages)]
  /\ out \in 0 .. MaxOutput /\ answers \in [Chunks -> Nat]
  /\ skipped \subseteq Chunks /\ torn \subseteq Chunks /\ late \in BOOLEAN

Init ==
  /\ shell = 0 /\ shells = 0 /\ written = <<>> /\ unparsed = <<>> /\ mirror = <<>> /\ socket = 0 /\ grid = 0
  /\ tab = FALSE /\ pane = 0 /\ panes = 0 /\ conn = 0 /\ seen = <<>>
  /\ conns = 0 /\ ownerOf = [c \in Conns |-> 0] /\ shellOf = [c \in Conns |-> 0] /\ closed = {}
  /\ toClient = [c \in Conns |-> <<>>] /\ toServer = [c \in Conns |-> <<>>]
  /\ out = 0 /\ answers = [n \in Chunks |-> 0]
  /\ skipped = {} /\ torn = {} /\ late = FALSE

Frame(type, chunks) == [type |-> type, of |-> chunks]
Message(type, n) == [type |-> type, of |-> n]

Sent(c, f) == [toClient EXCEPT ![c] = Append(@, f)]

\* What the end of the attachment leaves half done: unparsed, or on its way.
Flying(c) == UNION {ToSet(toClient[c][i].of) : i \in DOMAIN toClient[c]}
UnderWay == ToSet(unparsed) \cup (IF socket = 0 THEN {} ELSE Flying(socket))

-----------------------------------------------------------------------------
(* The tab and its pane *)

\* The new tab's number is the highest open one's plus one: a name closed before.
OpenTab ==
  /\ ~tab /\ tab' = TRUE
  /\ UNCHANGED <<shellVars, pane, panes, conn, seen, socketVars, out, answers, historyVars>>

\* The panel is shown, first or after a reload.
Mount ==
  /\ tab /\ pane = 0 /\ panes < MaxPanes
  /\ panes' = panes + 1 /\ pane' = panes + 1
  /\ seen' = <<>>
  /\ UNCHANGED <<shellVars, tab, conn, socketVars, out, answers, historyVars>>

Leave ==
  /\ pane' = 0 /\ conn' = 0 /\ seen' = <<>>
  /\ closed' = closed \cup ({conn} \ {0})

\* The panel goes, or the renderer reloads.
Unmount ==
  /\ pane # 0 /\ Leave
  /\ UNCHANGED <<shellVars, tab, panes, conns, ownerOf, shellOf, toClient, toServer, out,
                 answers, historyVars>>

\* closeTerminal: the shell is sent a kill, which Exit stands for, whenever it ends.
CloseTab ==
  /\ tab /\ tab' = FALSE /\ Leave
  /\ UNCHANGED <<shellVars, panes, conns, ownerOf, shellOf, toClient, toServer, out, answers,
                 historyVars>>

\* connect(), on mount and 800 ms after a close.
Connect ==
  /\ pane # 0 /\ conn = 0 /\ conns < MaxConns
  /\ conns' = conns + 1 /\ conn' = conns + 1
  /\ ownerOf' = [ownerOf EXCEPT ![conns + 1] = pane]
  /\ UNCHANGED <<shellVars, tab, pane, panes, seen, shellOf, closed, toClient, toServer, out,
                 answers, historyVars>>

\* The connection breaks; what the pane had sent is lost.
Lost ==
  /\ conn # 0 /\ conn' = 0
  /\ closed' = closed \cup {conn}
  /\ torn' = torn \cup ({toServer[conn][i].of : i \in DOMAIN toServer[conn]} \ {0})
  /\ toServer' = [toServer EXCEPT ![conn] = <<>>]
  /\ UNCHANGED <<shellVars, tab, pane, panes, seen, conns, ownerOf, shellOf, toClient, out,
                 answers, skipped, late>>

Next1(type) == conn # 0 /\ toClient[conn] # <<>> /\ Head(toClient[conn]).type = type
Take == toClient' = [toClient EXCEPT ![conn] = Tail(@)]
Says(m) == toServer' = [toServer EXCEPT ![conn] = Append(@, m)]

Opened ==
  /\ Next1("open") /\ Take
  /\ seen' = <<>>
  /\ Says(Message("size", 0))
  /\ UNCHANGED <<shellVars, tab, pane, panes, conn, conns, ownerOf, shellOf, closed, out,
                 answers, historyVars>>

\* The snapshot holds no queries.
Restored ==
  /\ Next1("snapshot") /\ Take
  /\ seen' = seen \o Head(toClient[conn]).of
  /\ UNCHANGED <<shellVars, tab, pane, panes, conn, conns, ownerOf, shellOf, closed, toServer,
                 out, answers, historyVars>>

\* The pane's terminal shows the chunk and answers its query.
Shown ==
  /\ Next1("chunk") /\ Take
  /\ seen' = seen \o Head(toClient[conn]).of
  /\ Says(Message("in", Head(toClient[conn]).of[1]))
  /\ UNCHANGED <<shellVars, tab, pane, panes, conn, conns, ownerOf, shellOf, closed, out,
                 answers, historyVars>>

\* EXITED closes the tab; any other close has the pane connect again.
ExitTold ==
  /\ Next1("exited") /\ Take
  /\ tab' = FALSE /\ pane' = 0 /\ conn' = 0 /\ seen' = <<>>
  /\ UNCHANGED <<shellVars, panes, conns, ownerOf, shellOf, closed, toServer, out, answers,
                 historyVars>>

CloseTold ==
  /\ Next1("closed") /\ Take
  /\ conn' = 0
  /\ UNCHANGED <<shellVars, tab, pane, panes, seen, conns, ownerOf, shellOf, closed, toServer,
                 out, answers, historyVars>>

-----------------------------------------------------------------------------
(* attachPty *)

\* A socket that was refused is not taken later.
Waiting(c) == c \in (closed \cup {conn}) \ {0} /\ shellOf[c] = 0 /\ toClient[c] = <<>>

\* The upgrade is done by then, so the socket opens and is closed.
SpawnFails(c) ==
  /\ Waiting(c) /\ shell = 0
  /\ toClient' = [toClient EXCEPT ![c] = <<Frame("open", <<>>), Frame("closed", <<>>)>>]
  /\ UNCHANGED <<shellVars, paneVars, conns, ownerOf, shellOf, closed, toServer, out, answers,
                 historyVars>>

\* No entry: a shell of the pane's size.
Spawn(c) ==
  /\ Waiting(c) /\ shell = 0
  /\ shells' = shells + 1 /\ shell' = shells + 1
  /\ socket' = c /\ grid' = ownerOf[c]
  /\ shellOf' = [shellOf EXCEPT ![c] = shells + 1]
  /\ toClient' = Sent(c, Frame("open", <<>>))
  /\ skipped' = {} /\ late' = FALSE
  /\ UNCHANGED <<written, unparsed, mirror, paneVars, conns, ownerOf, closed, toServer, out,
                 answers, torn>>

Snapshot == IF mirror = <<>> THEN <<>> ELSE <<Frame("snapshot", mirror)>>

\* An entry: the socket attached before is closed, the latest wins, and gets what
\* the mirror has parsed.
Adopt(c) ==
  /\ Waiting(c) /\ shell # 0
  /\ socket' = c
  /\ shellOf' = [shellOf EXCEPT ![c] = shell]
  /\ toClient' = [d \in Conns |->
       IF d = c THEN <<Frame("open", <<>>)>> \o Snapshot
       ELSE IF d = socket THEN Append(toClient[d], Frame("closed", <<>>)) ELSE toClient[d]]
  /\ skipped' = ToSet(unparsed)
  /\ torn' = torn \cup UnderWay
  /\ UNCHANGED <<shell, shells, written, unparsed, mirror, grid, paneVars, conns, ownerOf, closed,
                 toServer, out, answers, late>>

\* A message of any socket the shell ever had; nobody listens to a socket refused.
Handle(c) ==
  /\ toServer[c] # <<>> /\ toServer' = [toServer EXCEPT ![c] = Tail(@)]
  /\ LET m == Head(toServer[c])
     IN IF shell = 0 \/ shellOf[c] # shell THEN UNCHANGED <<answers, grid, late>>
        ELSE IF m.type = "in"
             THEN answers' = [answers EXCEPT ![m.of] = @ + 1] /\ UNCHANGED <<grid, late>>
             ELSE grid' = ownerOf[c] /\ late' = (c # socket) /\ UNCHANGED answers
  /\ UNCHANGED <<shell, shells, written, unparsed, mirror, socket, paneVars, conns, ownerOf,
                 shellOf, closed, toClient, out, skipped, torn>>

\* Mutant: a close detaches whoever is attached.
CloseSeen_Any(c) ==
  /\ c \in closed /\ shellOf[c] # 0 /\ toServer[c] = <<>>
  /\ closed' = closed \ {c}
  /\ socket' = IF shellOf[c] = shell THEN 0 ELSE socket
  /\ torn' = torn \cup UnderWay
  /\ toClient' = [toClient EXCEPT ![c] = <<>>]
  /\ UNCHANGED <<shell, shells, written, unparsed, mirror, grid, paneVars, conns, ownerOf, shellOf,
                 toServer, out, answers, skipped, late>>

\* The server learns of a close, after what came before it.
CloseSeen(c) ==
  /\ c \in closed /\ shellOf[c] # 0 /\ toServer[c] = <<>>
  /\ closed' = closed \ {c}
  /\ IF socket = c THEN socket' = 0 /\ torn' = torn \cup UnderWay ELSE UNCHANGED <<socket, torn>>
  /\ toClient' = [toClient EXCEPT ![c] = <<>>]
  /\ UNCHANGED <<shell, shells, written, unparsed, mirror, grid, paneVars, conns, ownerOf, shellOf,
                 toServer, out, answers, skipped, late>>

-----------------------------------------------------------------------------
(* The shell and its mirror *)

Write ==
  /\ shell # 0 /\ out < MaxOutput /\ out' = out + 1
  /\ written' = Append(written, out + 1)
  /\ unparsed' = Append(unparsed, out + 1)
  /\ toClient' = IF socket = 0 THEN toClient ELSE Sent(socket, Frame("chunk", <<out + 1>>))
  /\ UNCHANGED <<shell, shells, mirror, socket, grid, paneVars, conns, ownerOf, shellOf, closed,
                 toServer, answers, historyVars>>

\* The mirror answers a query it parses while nobody is attached.
Parse ==
  /\ unparsed # <<>> /\ unparsed' = Tail(unparsed)
  /\ mirror' = Append(mirror, Head(unparsed))
  /\ answers' = IF socket = 0 THEN [answers EXCEPT ![Head(unparsed)] = @ + 1] ELSE answers
  /\ UNCHANGED <<shell, shells, written, socket, grid, paneVars, socketVars, out, historyVars>>

\* The shell ends, by itself or killed: the entry goes, the socket is told.
Exit ==
  /\ shell # 0 /\ shell' = 0
  /\ toClient' = IF socket = 0 THEN toClient ELSE Sent(socket, Frame("exited", <<>>))
  /\ socket' = 0 /\ grid' = 0 /\ written' = <<>> /\ unparsed' = <<>> /\ mirror' = <<>>
  /\ answers' = [n \in Chunks |-> 0] /\ skipped' = {} /\ torn' = {} /\ late' = FALSE
  /\ UNCHANGED <<shells, paneVars, conns, ownerOf, shellOf, closed, toServer, out>>

-----------------------------------------------------------------------------
Next ==
  \/ OpenTab \/ Mount \/ Unmount \/ CloseTab \/ Connect \/ Lost
  \/ Opened \/ Restored \/ Shown \/ ExitTold \/ CloseTold
  \/ \E c \in Conns : SpawnFails(c) \/ Spawn(c) \/ Adopt(c) \/ Handle(c) \/ CloseSeen(c)
  \/ Write \/ Parse \/ Exit

Spec == Init /\ [][Next]_vars

-----------------------------------------------------------------------------
(* Properties *)

\* The pane's socket was attached, and nothing is on its way to it.
Attached == conn # 0 /\ shellOf[conn] # 0 /\ toClient[conn] = <<>>

\* The chunks are numbered as they are written, so in turn they are in order and once.
InTurn(chunks) == \A i, j \in DOMAIN chunks : i < j => chunks[i] < chunks[j]

\* A pane whose socket was attached and not closed since shows its shell's output, each
\* chunk once and in order, however often it was attached anew; but what was unparsed at
\* the last attach is missing (attachPty, connect).
Whole == Attached => InTurn(seen) /\ ToSet(seen) = ToSet(written) \ skipped

\* A query is answered once, by the pane or by the mirror, unless a socket came or
\* went while it was under way ("the gate prevents double answers").
AllHandled ==
  /\ unparsed = <<>> /\ (socket # 0 => conn = socket /\ Attached)
  /\ \A c \in Conns : toServer[c] = <<>>
Answered == AllHandled =>
  \A n \in ToSet(written) \ torn : answers[n] = 1

\* The shell has the size of the pane attached to it, unless the size of a pane
\* replaced since arrived after.
Fits == Attached /\ toServer[conn] = <<>> => grid = pane \/ late

\* The pane and its shell are two ends of one terminal, through every detach and
\* attach: the same output and the same size.
Mirrored == Whole /\ Fits

\* What the two ends show agrees, and only one of them talks back.
OneTerminal == Mirrored /\ Answered
=============================================================================
